-------------------------------- MODULE Classify --------------------------------
(****************************************************************************)
(* analysis/classify.py: every session is given its cluster (Cluster) and   *)
(* by the mapping its families; the families are then added up over the     *)
(* addresses, checked against known numbers, and written.                   *)
(****************************************************************************)
EXTENDS Cluster

CONSTANTS
    Inputs,          \* the lists of sessions: sid, ip, shape, cmds
    by_cluster,      \* family_mapping.json: cluster -> family
    c08_fid_family,  \* its sub_splits: shape -> family
    exclude_sids,
    SaneF15,         \* the addresses and sessions that F15 must have
    SaneF1           \* the numbers of addresses that F1 may have

(* sessions is keyed by sid, and only C09 is F2 ("stage is a string for     *)
(* C09/F2 only"): the stages of the one are counted for the other.          *)
ASSUME InputsAssumption ==
    \A input \in Inputs :
        /\ input \in Seq(Range(input))
        /\ \A i, j \in DOMAIN input : input[i].sid = input[j].sid => i = j
ASSUME MappingAssumption ==
    /\ \A cid \in DOMAIN by_cluster \ {"C08", "C14"} : by_cluster[cid] = "F2" <=> cid = "C09"
    /\ "F2" \notin Range(c08_fid_family)

VARIABLES sessions, todo, ip_data, families, phase

vars == <<sessions, todo, ip_data, families, phase>>

Nothing == [x \in {} |-> {}]

Init ==
    /\ sessions \in Inputs
    /\ todo = sessions
    /\ ip_data = Nothing
    /\ families = Nothing
    /\ phase = "classify"

----------------------------------------------------------------------------
(* _c09_stage: how far a Diicot session got.                                *)
AnyCmd(cmds, needles) == \E i \in DOMAIN cmds : cmds[i].has \cap needles # {}
Both(cmds, some, others) ==
    \E i \in DOMAIN cmds : cmds[i].has \cap some # {} /\ cmds[i].has \cap others # {}
Stage(cmds) ==
    LET has_chattr == AnyCmd(cmds, {"chattr"})
        has_chmod_exec == Both(cmds, {"chmod"}, {"+x", "777"})
                              /\ (AnyCmd(cmds, {" &"}) \/ has_chattr)
    IN  IF has_chattr \/ has_chmod_exec THEN "recon_kill_execute"
        ELSE IF Both(cmds, {"pkill", "killall"}, {"xmrig", "cnrig", "java"})
             THEN "recon_kill" ELSE "recon_only"
Stages == {"recon_only", "recon_kill", "recon_kill_execute"}

(* _classify: C08 goes by the fingerprint, C14 has two families, all others *)
(* have the family of their cluster, if the mapping has one.                *)
Get(table, key) == IF key \in DOMAIN table THEN {table[key]} ELSE {}
(* Mutant: the mapping decides for C14 as for the others.                   *)
FamilyByMapping(cid, shape) ==
    IF cid = "C08" THEN Get(c08_fid_family, shape) ELSE Get(by_cluster, cid)

FamilyIds(cid, shape) ==
    CASE cid = "C08" -> Get(c08_fid_family, shape)
      [] cid = "C14" -> {"F7", "F12"}
      [] OTHER -> Get(by_cluster, cid)
Classified(s) ==
    LET cid == ClusterOf(s.shape)
    IN  [sid |-> s.sid, cluster_id |-> cid, families |-> FamilyIds(cid, s.shape),
         stage |-> IF cid = "C09" THEN Stage(s.cmds) ELSE "none"]

SkipExcluded ==
    /\ phase = "classify" /\ todo # <<>>
    /\ Head(todo).sid \in exclude_sids
    /\ todo' = Tail(todo)
    /\ UNCHANGED <<sessions, ip_data, families, phase>>

ClassifySession ==
    /\ phase = "classify" /\ todo # <<>>
    /\ Head(todo).sid \notin exclude_sids
    /\ LET s == Head(todo)
           known == IF s.ip \in DOMAIN ip_data THEN ip_data[s.ip] ELSE {}
       IN  ip_data' = [ip \in DOMAIN ip_data \cup {s.ip} |->
                          IF ip = s.ip THEN known \cup {Classified(s)} ELSE ip_data[ip]]
    /\ todo' = Tail(todo)
    /\ UNCHANGED <<sessions, families, phase>>

----------------------------------------------------------------------------
(* The aggregation: an address is in every family one of its sessions is    *)
(* in, and its entry counts all its sessions; a session counts for each of  *)
(* its families.                                                            *)
FamiliesOf(ip) == UNION {s.families : s \in ip_data[ip]}
MultiFamily == {ip \in DOMAIN ip_data : Cardinality(FamiliesOf(ip)) > 1}
Unclassified == {ip \in DOMAIN ip_data : FamiliesOf(ip) = {}}
AllSessions == UNION {ip_data[ip] : ip \in DOMAIN ip_data}
Staged(stage) == {s \in UNION {ip_data[ip] : ip \in DOMAIN ip_data \ Unclassified} :
                      s.stage = stage}
Aggregated ==
    [fam \in UNION {FamiliesOf(ip) : ip \in DOMAIN ip_data} |->
        [ips |-> {[ip |-> ip, session_count |-> Cardinality(ip_data[ip]),
                   clusters |-> {s.cluster_id : s \in ip_data[ip]}] :
                  ip \in {i \in DOMAIN ip_data : fam \in FamiliesOf(i)}},
         session_count |-> Cardinality({s \in AllSessions : fam \in s.families}),
         stage_breakdown |-> IF fam = "F2"
                             THEN [stage \in Stages |-> Cardinality(Staged(stage))]
                             ELSE Nothing]]

(* The sanity checks before writing.                                        *)
Built(fams, fam) ==
    IF fam \in DOMAIN fams
    THEN [ips |-> Cardinality(fams[fam].ips), sessions |-> fams[fam].session_count]
    ELSE [ips |-> 0, sessions |-> 0]
Sane(fams) == Built(fams, "F15") = SaneF15 /\ Built(fams, "F1").ips \in SaneF1

WriteFamilies ==
    /\ phase = "classify" /\ todo = <<>>
    /\ Sane(Aggregated)
    /\ families' = Aggregated
    /\ phase' = "classified"
    /\ UNCHANGED <<sessions, todo, ip_data>>

RefuseToWrite ==
    /\ phase = "classify" /\ todo = <<>>
    /\ ~Sane(Aggregated)
    /\ phase' = "failed"
    /\ UNCHANGED <<sessions, todo, ip_data, families>>

ClassifyNext == SkipExcluded \/ ClassifySession \/ WriteFamilies \/ RefuseToWrite

----------------------------------------------------------------------------
(* What classify.py writes is what cluster.py reports of the same sessions: *)
(* by way of the addresses, no session that was not excluded is lost or     *)
(* counted twice, in any cluster or family; an address is in a family with  *)
(* one of its sessions; the stages of F2 add up to it.                      *)
Kept == [i \in {j \in DOMAIN sessions : sessions[j].sid \notin exclude_sids} |-> sessions[i]]
Clusters == Report(Patterns(Kept))
Whole(fam) ==
    {cid \in DOMAIN by_cluster \ {"C08", "C14"} : by_cluster[cid] = fam}
    \cup IF fam \in {"F7", "F12"} THEN {"C14"} ELSE {}
Split(fam) ==
    {s \in ToSet(Kept) : ClusterOf(s.shape) = "C08" /\ fam \in FamilyIds("C08", s.shape)}

SessionsAddUp ==
    \A fam \in DOMAIN families :
        families[fam].session_count =
            SumFunction([cid \in Whole(fam) \cap DOMAIN Clusters |-> Clusters[cid].sessions])
            + Cardinality(Split(fam))
AddressesAddUp ==
    \A fam \in DOMAIN families :
        /\ {e.ip : e \in families[fam].ips} =
               (UNION {Clusters[cid].ips : cid \in Whole(fam) \cap DOMAIN Clusters})
               \cup {s.ip : s \in Split(fam)}
        /\ \A e \in families[fam].ips :
               e.session_count = Cardinality({i \in DOMAIN Kept : Kept[i].ip = e.ip})
MultiAgrees ==
    \A ip \in DOMAIN ip_data :
        ip \in MultiFamily <=>
            Cardinality({fam \in DOMAIN families : \E e \in families[fam].ips : e.ip = ip}) > 1
StagesAddUp ==
    "F2" \in DOMAIN families =>
        SumFunction(families["F2"].stage_breakdown) = families["F2"].session_count

FamilySums ==
    phase \in {"bundled", "failed"} /\ families # Nothing =>
        SessionsAddUp /\ AddressesAddUp /\ MultiAgrees /\ StagesAddUp
================================================================================

------------------------------- MODULE StixBundle -------------------------------
(****************************************************************************)
(* analysis/gen_stix_bundle.py: build_bundle turns the families into STIX   *)
(* objects, section by section; the sections on single families are written *)
(* out by hand and name the families they need.                             *)
(*                                                                          *)
(* An object is its id (the type and what the id is derived from) and the   *)
(* ids it refers to.                                                        *)
(****************************************************************************)
EXTENDS Classify

CONSTANTS F10_BINARIES, F10_C2_IPS, F5_C2_IP, F11_C2_IPS, F14_PROBES

(* The lists at the head of the script: the worm is none of the binaries of  *)
(* F10, and no command server is that of two families.                      *)
ASSUME ListsAssumption ==
    /\ IsFiniteSet(F10_BINARIES) /\ IsFiniteSet(F14_PROBES)
    /\ IsFiniteSet(F10_C2_IPS) /\ IsFiniteSet(F11_C2_IPS)
    /\ "gJw27HGL" \notin F10_BINARIES
    /\ F10_C2_IPS \cap F11_C2_IPS = {}
    /\ F5_C2_IP \notin F10_C2_IPS \cup F11_C2_IPS

VARIABLES section, objects, counts

bundleVars == <<section, objects, counts>>

(* The families that the tables at the head of the script know.             *)
ATTACK_MAP == {"F1", "F2", "F3", "F4", "F5", "F6", "F7", "F8", "F9", "F10", "F11", "F12",
               "F13", "F14", "F15"}

Types == {"attack-pattern", "ipv4-addr", "url", "file", "indicator", "malware",
          "note", "relationship"}

(* _det_id and the ids of the library: a type and its parts.                *)
Object(id, refs) == [id |-> id, refs |-> refs]
Ap(fid) == <<"attack-pattern", fid>>
Ind(ip) == <<"indicator", ip>>
Link(id, from, to) == Object(id, {from, to})

ip_to_fids ==
    [ip \in {e.ip : e \in UNION {families[fid].ips : fid \in DOMAIN families}} |->
        {fid \in DOMAIN families : \E e \in families[fid].ips : e.ip = ip}]
Members(fid) == {e.ip : e \in families[fid].ips}
(* Mutant: an address is linked to one of its families.                     *)
FirstMemberships == {<<ip, CHOOSE fid \in ip_to_fids[ip] : TRUE>> : ip \in DOMAIN ip_to_fids}

Memberships ==
    UNION {{<<ip, fid>> : fid \in ip_to_fids[ip]} : ip \in DOMAIN ip_to_fids}

(* Sections 1 to 4, over the families and their addresses.                  *)
AttackPatterns == {Object(<<"attack-pattern", fid>>, {}) : fid \in DOMAIN families}
Addresses == {Object(<<"ipv4-addr", ip>>, {}) : ip \in DOMAIN ip_to_fids}
Indicators == {Object(<<"indicator", ip>>, {}) : ip \in DOMAIN ip_to_fids}
Relationships ==
    {Link(<<"relationship", "ind-to-ap", m[1], m[2]>>, Ind(m[1]), Ap(m[2])) : m \in Memberships}

(* Sections 5 to 8 and 10 to 12.                                            *)
F2Note == {Object(<<"note", "F2">>, {Ap("F2")} \cup {Ind(ip) : ip \in Members("F2")})}
Worm ==
    LET file == <<"file", "gJw27HGL">>
        malware == <<"malware", "gJw27HGL">>
    IN  {Object(file, {}), Object(malware, {file}),
         Link(<<"relationship", "malware-uses-ap", "F13">>, malware, Ap("F13"))}
        \cup {Link(<<"relationship", "ind-to-malware", ip>>, Ind(ip), malware) : ip \in Members("F13")}
F10Binaries ==
    UNION {{Object(<<"file", b>>, {}), Object(<<"malware", "F10", b>>, {<<"file", b>>}),
            Link(<<"relationship", "f10-mal-uses-ap", b>>, <<"malware", "F10", b>>, Ap("F10"))} :
           b \in F10_BINARIES}
C2(ip, fid) ==
    LET ind == <<"indicator", "c2", ip, fid>>
    IN  {Object(<<"ipv4-addr", ip>>, {}), Object(ind, {}),
         Link(<<"relationship", "c2-ind-to-ap", ip, fid>>, ind, Ap(fid))}
F10C2 == UNION {C2(ip, "F10") : ip \in F10_C2_IPS}
F5C2 ==
    LET url == <<"indicator", "c2-url", F5_C2_IP, "F5">>
    IN  C2(F5_C2_IP, "F5") \cup
        {Object(<<"url", F5_C2_IP>>, {}), Object(url, {}),
         Link(<<"relationship", "c2-url-to-ap", F5_C2_IP, "F5">>, url, Ap("F5"))}
F11C2 == UNION {C2(ip, "F11") : ip \in F11_C2_IPS}
F14Probes ==
    {Object(<<"file", "probe", p>>, {}) : p \in F14_PROBES}
    \cup {Object(<<"note", "F14">>, {Ap("F14")} \cup {<<"file", "probe", p>> : p \in F14_PROBES})}
FeedbackNote ==
    {Object(<<"note", "feedback">>, {Ap("F4"), Ap("F6"), Ap("F11"), Ap("F1"), Ap("F9")})}

(* What each section needs (a missing family is a KeyError), adds and       *)
(* counts: the counters are kept by hand beside the objects.                *)
Adds(objs, tally) == [objs |-> objs, tally |-> tally]
Tally(types, k) == [type \in types |-> k]
Each(objs, type) == Adds(objs, Tally({type}, Cardinality(objs)))
Needs == <<{}, {}, {}, {}, {"F2"}, {"F13"}, {"F10"}, {"F10"}, {"F5"}, {"F11"}, {"F14"},
           {"F1", "F4", "F6", "F9", "F11"}>>
SectionOf(n) ==
    LET C2Tally(ips) == Tally({"ipv4-addr", "indicator", "relationship"}, Cardinality(ips))
    IN  CASE n = 1 -> Each(AttackPatterns, "attack-pattern")
          [] n = 2 -> Each(Addresses, "ipv4-addr")
          [] n = 3 -> Each(Indicators, "indicator")
          [] n = 4 -> Each(Relationships, "relationship")
          [] n = 5 -> Each(F2Note, "note")
          [] n = 6 -> Adds(Worm, [Tally({"file", "malware", "relationship"}, 1)
                                     EXCEPT !["relationship"] = @ + Cardinality(Members("F13"))])
          [] n = 7 -> Adds(F10Binaries, Tally({"file", "malware", "relationship"},
                                              Cardinality(F10_BINARIES)))
          [] n = 8 -> Adds(F10C2, C2Tally(F10_C2_IPS))
          [] n = 9 -> Adds(F5C2, [Tally({"ipv4-addr", "url", "indicator", "relationship"}, 1)
                                     EXCEPT !["indicator"] = @ + 1, !["relationship"] = @ + 1])
          [] n = 10 -> Adds(F11C2, C2Tally(F11_C2_IPS))
          [] n = 11 -> Adds(F14Probes, [Tally({"file", "note"}, 1)
                                           EXCEPT !["file"] = Cardinality(F14_PROBES)])
          [] n = 12 -> Each(FeedbackNote, "note")

BundleInit ==
    /\ Init
    /\ section = 1
    /\ objects = <<>>
    /\ counts = [type \in Types |-> 0]

(* The objects of a section are appended in some order.  A family the first  *)
(* section does not know is a KeyError, like one that a later section lacks. *)
AddSection ==
    /\ phase = "classified" /\ section <= 12
    /\ section = 1 => DOMAIN families \subseteq ATTACK_MAP
    /\ Needs[section] \subseteq DOMAIN families
    /\ LET s == SectionOf(section)
       IN  /\ objects' = Append(objects, s.objs)
           /\ counts' = [type \in Types |->
                            counts[type] + IF type \in DOMAIN s.tally THEN s.tally[type] ELSE 0]
    /\ section' = section + 1
    /\ UNCHANGED vars

FamilyMissing ==
    /\ phase = "classified" /\ section <= 12
    /\ \/ section = 1 /\ ~(DOMAIN families \subseteq ATTACK_MAP)
       \/ ~(Needs[section] \subseteq DOMAIN families)
    /\ phase' = "failed"
    /\ UNCHANGED <<sessions, todo, ip_data, families, bundleVars>>

WriteBundle ==
    /\ phase = "classified" /\ section = 13
    /\ phase' = "bundled"
    /\ UNCHANGED <<sessions, todo, ip_data, families, bundleVars>>

Next ==
    \/ ClassifyNext /\ UNCHANGED bundleVars
    \/ AddSection
    \/ FamilyMissing
    \/ WriteBundle

Spec == BundleInit /\ [][Next]_<<vars, bundleVars>>

----------------------------------------------------------------------------
(* What is written: the objects, each with the section that adds it.        *)
Entries == UNION {{n} \X objects[n] : n \in DOMAIN objects}

(* gen_stix_bundle.py: the bundle refers to nothing that is not in it,      *)
(* the counts printed are those of the objects, no id occurs twice but for  *)
(* the address of a command server that also attacked, and every membership *)
(* of an address in a family is one relationship.                           *)
RefsResolve == \A d \in Entries : \A r \in d[2].refs : \E e \in Entries : e[2].id = r
OfType(type) == {e \in Entries : e[2].id[1] = type}
CountsExact == \A type \in Types : counts[type] = Cardinality(OfType(type))
SharedAddress(id) ==
    /\ id[1] = "ipv4-addr"
    /\ id[2] \in DOMAIN ip_to_fids \cap ({F5_C2_IP} \cup F10_C2_IPS \cup F11_C2_IPS)
IdsUnique ==
    \A d, e \in Entries : d[2].id = e[2].id => d = e \/ SharedAddress(d[2].id)
MembershipsLinked ==
    \A ip \in DOMAIN ip_data : \A fid \in DOMAIN families :
        Cardinality({e \in OfType("relationship") : e[2].refs = {Ind(ip), Ap(fid)}})
            = IF \E s \in ip_data[ip] : fid \in s.families THEN 1 ELSE 0
BundleClosed ==
    phase = "bundled" => RefsResolve /\ CountsExact /\ IdsUnique /\ MembershipsLinked
================================================================================

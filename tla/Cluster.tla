-------------------------------- MODULE Cluster ---------------------------------
(****************************************************************************)
(* analysis/cluster.py: the rules that put a command shape into a cluster,  *)
(* in order, first match wins, and the report per cluster.                  *)
(*                                                                          *)
(* A shape is a sequence of entries; of an entry's text the model keeps     *)
(* which of the rules' needles it contains ("has") and the text itself.     *)
(****************************************************************************)
EXTENDS Naturals, Sequences, FiniteSets, SequencesExt, FiniteSetsExt, Functions

(* _any_has: some needle is in some entry.                                  *)
AnyHas(shape, needles) == \E i \in DOMAIN shape : shape[i].has \cap needles # {}
Only(shape, texts) == Len(shape) = 1 /\ shape[1].text \in texts

(* A call of passwd, not the line that reads the file.                      *)
CallsPasswd(shape) ==
    \E i \in DOMAIN shape : "passwd call" \in shape[i].has /\ "etc/passwd" \notin shape[i].has

(* RULES, by cluster id.                                                    *)
Fits(shape) ==
    [C00 |-> shape = <<>>,
     C01 |-> Only(shape, {"echo -e <HEX>"}),
     C02 |-> AnyHas(shape, {"SSHCHK"}),
     C03 |-> AnyHas(shape, {"[HEX_INJECT ->"}),
     C04 |-> AnyHas(shape, {"for d in /dev/shm", "w.sh", "astats", "watcher-netai"}),
     C05 |-> AnyHas(shape, {"cat /etc/passwd"})
                 /\ (AnyHas(shape, {"chpasswd"}) \/ CallsPasswd(shape)),
     C06 |-> Only(shape, {"uname -s -m", "uname -a", "hostname"}),
     C07 |-> AnyHas(shape, {"| sh"}) /\ AnyHas(shape, {"wget", "curl"}),
     C08 |-> AnyHas(shape, {"[scp upload started]", "scp -t"}),
     C09 |-> AnyHas(shape, {"lspci | grep VGA", "lspci | egrep VGA",
                            "lspci | grep 3D", "lspci | egrep 3D"}),
     C11 |-> AnyHas(shape, {"meow", "modzmodz"}),
     C14 |-> AnyHas(shape, {"vipies", "wowo", "runningaway"}),
     C10 |-> AnyHas(shape, {"which apt", "apt-get"})
                 /\ AnyHas(shape, {"which yum", "yum ", "pacman", "zypper"}),
     C15 |-> AnyHas(shape, {"chmod +x"}) /\ AnyHas(shape, {"bash -c ./"}),
     C16 |-> AnyHas(shape, {"---SEP---"})]

Order == <<"C00", "C01", "C02", "C03", "C04", "C05", "C06", "C07", "C08", "C09",
           "C11", "C14", "C10", "C15", "C16">>

(* _apply_rules in classify.py, and the same loop in main of cluster.py.    *)
ClusterOf(shape) ==
    LET fits == Fits(shape)
        first == SelectInSeq(Order, LAMBDA cid : fits[cid])
    IN  IF first = 0 THEN "TAIL" ELSE Order[first]

----------------------------------------------------------------------------
(* What fingerprint.py hands over: one pattern per shape, with the number   *)
(* of its sessions and of its addresses.                                    *)
Patterns(sessions) ==
    {[shape |-> shape,
      session_count |-> Cardinality({i \in DOMAIN sessions : sessions[i].shape = shape}),
      ips |-> {s.ip : s \in {q \in ToSet(sessions) : q.shape = shape}}] :
     shape \in {s.shape : s \in ToSet(sessions)}}

(* main: patterns and sessions per cluster, and all addresses of which the  *)
(* script, by way of example_ips, prints at most eight.                     *)
Report(patterns) ==
    LET cid_of == [p \in patterns |-> ClusterOf(p.shape)]
        Bucket(cid) == {p \in patterns : cid_of[p] = cid}
    IN  [cid \in Range(cid_of) |->
            [patterns |-> Cardinality(Bucket(cid)),
             sessions |-> SumFunction([p \in Bucket(cid) |-> p.session_count]),
             ips |-> UNION {p.ips : p \in Bucket(cid)}]]
================================================================================

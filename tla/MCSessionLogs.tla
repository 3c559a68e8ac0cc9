----------------------------- MODULE MCSessionLogs -----------------------------
(****************************************************************************)
(* Two interleaved sessions of four events, and every way of splicing a     *)
(* block of the log in a second time, through the scripts.                  *)
(****************************************************************************)
EXTENDS SessionLogs

CONSTANTS f, g, i1, i2

(* /var/x is sorted after /tmp/x.                                           *)
MCTargets == [t \in {f, g} |-> <<IF t = f THEN "/tmp" ELSE "/var", "x">>]
MCLater(t, u) == t = MCTargets[f] /\ u = MCTargets[g]

MCNorm(t) == <<t[1], "<RAND>">>

MCMagic == <<"E">>

Echo(text, target, bytes, payload) ==
    [text |-> text, norm |-> text, echo |-> TRUE, append |-> TRUE,
     target |-> target, bytes |-> bytes, payload |-> payload]
Plain(text) ==
    [text |-> text, norm |-> text, echo |-> FALSE, append |-> FALSE,
     target |-> Unknown, bytes |-> 0, payload |-> <<>>]

Shell(command) == [msg |-> "shell", command |-> command]
(* The mark is written in plain characters: bytes for the extraction, but   *)
(* no hex for the fingerprint.                                              *)
Elf == Shell(Echo("elf", MCTargets[f], 1, <<"E">>))
MCKinds ==
    [s1 |-> {Elf, Shell(Echo("rest", MCTargets[f], 2, <<"x", "y">>)), Shell(Plain("ls")),
             [msg |-> "handshake ok", ip |-> i1]},
     s2 |-> {Elf, Shell(Echo("mark", MCTargets[g], 0, <<"z">>)), [msg |-> "wget fetch"],
            [msg |-> "handshake failed"]}]

MCSids == {"s1", "s2"}
MCEvents == UNION {{[sid |-> sid] @@ kind : kind \in MCKinds[sid]} : sid \in MCSids}

(* As texts ".99", "1.", "1.5" and "1.55": the second comes after the       *)
(* others, the third after the fourth.                                      *)
MCTimes == <<99, 100, 150, 155>>
MCPlaces == {1, 10, 100}

(* The first event is s1's, and a handshake is the first event of its       *)
(* session.                                                                 *)
MCLogs ==
    {[i \in 1..4 |-> [time |-> MCTimes[i]] @@ evs[i]] : evs \in
        {e \in [1..4 -> MCEvents] :
            /\ e[1].sid = "s1"
            /\ \A i \in 2..4 : e[i].msg # "handshake ok"}}
MCDirtyDates == {MCTimes[1], MCTimes[2], MCTimes[3]}
================================================================================

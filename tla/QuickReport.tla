----------------------------- MODULE QuickReport -------------------------------
(****************************************************************************)
(* analysis/quick-report.py: the header of report.py from one pass over     *)
(* auth.log and a scan of the bytes of session.log.                         *)
(****************************************************************************)
EXTENDS LogLines

(* Mutant: addresses with their ports.                                      *)
RemotesOf(auth) == {e.remote : e \in {q \in ToSet(Attempts(auth)) : q.remote # NoText}}

(* main, the pass over auth.log.                                            *)
attempts(auth) == Len(Attempts(auth))
accepted(auth) == CountIf(Attempts(auth), LAMBDA e : e.outcome = "accepted")
ips(auth) == {Host(e.remote) : e \in {q \in ToSet(Attempts(auth)) : q.remote # NoText}}
times(auth) == {Micros(e.time) : e \in {q \in ToSet(Attempts(auth)) : q.time # NoText}}
span(auth) == IF times(auth) = {} THEN <<>> ELSE <<Min(times(auth)), Max(times(auth))>>

(* The byte scan does not parse: a torn line counts as soon as the name of  *)
(* its command field was written.                                           *)
commands(sess) == CountIf(sess, HasCommand)

Header(auth, sess) ==
    [attempts |-> attempts(auth), ips |-> Cardinality(ips(auth)),
     accepted |-> accepted(auth), commands |-> commands(sess), span |-> span(auth)]
================================================================================

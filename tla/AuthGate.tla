------------------------------- MODULE AuthGate -------------------------------
(***************************************************************************)
(* What the password gate promises each client address, with no            *)
(* connections, locks or goroutines in sight (README.md "Auth behavior",   *)
(* server_test.go TestCallbackResetsOnlyAfterAccept): an address is        *)
(* refused Threshold-1 times, is then let in, stays let in, and the count  *)
(* starts again only after it was let in.  Admission implements this.      *)
(***************************************************************************)
EXTENDS Integers

CONSTANTS
    Host,       \* client IP addresses
    Threshold   \* the attempt that is accepted (already clamped to >= 1)

VARIABLES
    refused,    \* passwords of the address refused since it was last let in
    open        \* the addresses whose next password is accepted

gateVars == <<refused, open>>

Init ==
    /\ refused = [h \in Host |-> 0]
    /\ open = {}

(* A password is harvested and refused. *)
Refuse(h) ==
    /\ h \notin open
    /\ refused[h] < Threshold - 1
    /\ refused' = [refused EXCEPT ![h] = @ + 1]
    /\ UNCHANGED open

(* A password is accepted: the one after Threshold-1 refusals, and any later *)
(* one until the gate shuts.                                                *)
Accept(h) ==
    /\ h \in open \/ refused[h] = Threshold - 1
    /\ refused' = [refused EXCEPT ![h] = 0]
    /\ open' = open \cup {h}

(* The count of an address that was let in starts again. *)
Reset(h) ==
    /\ h \in open
    /\ open' = open \ {h}
    /\ UNCHANGED refused

Next == \E h \in Host : Refuse(h) \/ Accept(h) \/ Reset(h)

Spec == Init /\ [][Next]_gateVars
===============================================================================

----------------------------- MODULE MCConnection -----------------------------
(* Small instances of Connection for TLC. *)
EXTENDS Connection

(* Both programs, and a request that is refused without a reply; a line that *)
(* runs a command, one that starts a transfer, one that ends the shell.      *)
Requests ==
    [kind : {"shell", "exec"}, want : {TRUE}] \cup {[kind |-> "badexec", want |-> FALSE]}
Items == {"cmd", "scp", "exit"}

(* Enough to run programs on several channels at once. *)
Programs == [kind : {"shell", "exec"}, want : {TRUE}]
Lines == {"cmd", "exit"}
===============================================================================

------------------------------- MODULE Timeline --------------------------------
(****************************************************************************)
(* analysis/timeline.py: when each password and command was first and last  *)
(* seen, and the passwords that attackers set with chpasswd and that came   *)
(* back as login attempts.                                                  *)
(****************************************************************************)
EXTENDS LogLines

(* Lines without a password or a time are skipped.                          *)
Logins(auth) ==
    SelectSeq(Attempts(auth), LAMBDA e : e.password # NoText /\ e.time # NoText)
Typed(sess) ==
    SelectSeq(Commands(sess), LAMBDA e : e.command # <<>> /\ e.time # NoText)

(* pw_first, pw_last, pw_count and cmd_first, cmd_last, cmd_count: times     *)
(* are compared as text.                                                    *)
Seen(lines, field) ==
    [k \in {e[field] : e \in ToSet(lines)} |->
        LET times == {e.time : e \in {q \in ToSet(lines) : q[field] = k}}
        IN  [first |-> FirstText(times), last |-> LastText(times),
             count |-> CountIf(lines, LAMBDA e : e[field] = k)]]
PasswordsSeen(auth) == Seen(Logins(auth), "password")
CommandsSeen(sess) == Seen(Typed(sess), "command")

(* echo root:PASSWORD | chpasswd: the password is the word before the pipe. *)
ChpasswdPasswords(sess) ==
    {e.set : e \in {q \in ToSet(Typed(sess)) : Has(q.command, "chpasswd")}} \ {NoText}

FeedbackLoop(auth, sess) == DOMAIN PasswordsSeen(auth) \cap ChpasswdPasswords(sess)
OnlyChpasswd(auth, sess) == ChpasswdPasswords(sess) \ DOMAIN PasswordsSeen(auth)

(* The tables list the earliest first, twenty at most.                      *)
ByFirstSeen(seen) ==
    LET all == SetToSortSeq(DOMAIN seen, LAMBDA a, b : TextBefore(seen[a].first, seen[b].first))
    IN  SubSeq(all, 1, Min({20, Len(all)}))
================================================================================

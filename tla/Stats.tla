--------------------------------- MODULE Stats ---------------------------------
(****************************************************************************)
(* analysis/stats.py: the totals and tables of the terminal report, and the *)
(* credential sprays found with a sliding window.                           *)
(****************************************************************************)
EXTENDS LogLines

CONSTANTS
    SPRAY_MIN_IPS,
    SprayWindow,     \* SPRAY_WINDOW_MINS in ticks
    TmpPaths         \* the words that are paths below /tmp

(* strip_port: remote.rsplit(":", 1)[0] keeps all of an IPv6 address.        *)
strip_port(remote) == SubSeq(remote, 1, Len(remote) - 1)

Values(lines, FieldOf(_)) == {FieldOf(e) : e \in ToSet(lines)} \ {NoText}

(* The pass over auth.log: no line is dropped, and an outcome that is       *)
(* neither accepted nor rejected is in no total.                            *)
Accepted(auth) == CountIf(Attempts(auth), LAMBDA e : e.outcome = "accepted")
Rejected(auth) == CountIf(Attempts(auth), LAMBDA e : e.outcome = "rejected")
Passwords(auth) ==
    LET PasswordOf(e) == e.password
    IN  Tally(Attempts(auth), Values(Attempts(auth), PasswordOf), PasswordOf)
SourceIPs(auth) == {strip_port(r) : r \in Values(Attempts(auth), LAMBDA e : e.remote)}

(* The pass over session.log: a blank command is none.                      *)
Typed(sess) == SelectSeq(Commands(sess), LAMBDA e : e.command # <<>>)

(* re.search(">> (/tmp/\S+)", cmd): what follows the first ">>" under /tmp.  *)
Appends(cmd) ==
    {i \in 2..Len(cmd) : cmd[i - 1] = ">>" /\ cmd[i] \in TmpPaths}
EchoTargets(sess) ==
    LET appends == SelectSeq(Typed(sess), LAMBDA e : Appends(e.command) # {})
        TargetOf(e) == e.command[Min(Appends(e.command))]
    IN  Tally(appends, {TargetOf(e) : e \in ToSet(appends)}, TargetOf)

(* Where the words of a part begin in a command.                            *)
Occurs(cmd, part) == {i \in 1..(Len(cmd) + 1 - Len(part)) : SubSeq(cmd, i, i + Len(part) - 1) = part}

(* FAMILIES: the test of each family, of the whole command or a part of it, *)
(* and family_sids: the sessions with a command that passes it.             *)
Families(cmd) ==
    [echo_injector |-> \E i \in Occurs(cmd, <<"echo", "-e", "-n">>) :
                          \E j \in Appends(cmd) : j > i + 3,
     diicot |-> Occurs(cmd, <<"lspci", "|", "egrep", "VGA">>) # {},
     c2_dropper |-> Has(cmd, "14.46.136.77"),
     astats |-> Occurs(cmd, <<"cat", ">", "astats">>) # {},
     vps_scout |-> Has(cmd, "awk '{printf $1}'"),
     sshchk |-> Has(cmd, "echo") /\ Has(cmd, "\\x6F\\x6B"),
     scanner |-> cmd \in {<<"uname", "-s", "-m">>, <<"uname", "-m">>, <<"uname", "-s">>},
     password_changer |-> Has(cmd, "chpasswd") \/ cmd = <<"passwd">>]
FamilySids(sess) ==
    [name \in DOMAIN Families(<<>>) |->
        {e.sid : e \in {q \in ToSet(Typed(sess)) : Families(q.command)[name]}}]

(* The earliest and the latest time in the three files, sorted as text.     *)
Timestamps(auth, sess, server) ==
    UNION {Values(lines, LAMBDA e : e.time) : lines \in {Attempts(auth), sess, server}}
Earliest(auth, sess, server) == FirstText(Timestamps(auth, sess, server))
Latest(auth, sess, server) == LastText(Timestamps(auth, sess, server))

----------------------------------------------------------------------------
(* spray_buckets: the attempts on one credential, in order of their times   *)
(* as parse_ts reads them, which cuts what is below a microsecond.          *)
Complete(e) == NoText \notin {e.password, e.user, e.remote, e.time}
Credentials(auth) ==
    {<<e.password, e.user>> : e \in {q \in ToSet(Attempts(auth)) : Complete(q)}}
ParseTs(e) == [e EXCEPT !.time = Micros(@)]
Bucket(auth, cred) ==
    LET attempts == Attempts(auth)
        own == {i \in DOMAIN attempts :
                   /\ Complete(attempts[i])
                   /\ <<attempts[i].password, attempts[i].user>> = cred}
        events == Pick(attempts, own)
    IN  ByTime([i \in DOMAIN events |-> ParseTs(events[i])])

(* Mutant: an attempt that is exactly as old as the window has left it.     *)
SlideEarly(parsed, w, right) ==
    LET now == parsed[right].time
        left == Min({i \in w.left..right : now - parsed[i].time < SprayWindow})
        Leaving(ip) == Cardinality({i \in w.left..(left - 1) : strip_port(parsed[i].remote) = ip})
        arrived == strip_port(parsed[right].remote)
        ip_counts == [ip \in DOMAIN w.ip_counts |->
                         w.ip_counts[ip] + (IF ip = arrived THEN 1 ELSE 0) - Leaving(ip)]
        n == Cardinality({ip \in DOMAIN ip_counts : ip_counts[ip] > 0})
        kept == [w EXCEPT !.left = left, !.ip_counts = ip_counts]
    IN  IF n > w.best_n
        THEN [kept EXCEPT !.best_n = n, !.best_span = now - parsed[left].time]
        ELSE kept

(* One turn of the loop: the attempt enters the window, those that are too  *)
(* old leave it, and a window with more addresses than any before is kept.  *)
Slide(parsed, w, right) ==
    LET now == parsed[right].time
        left == Min({i \in w.left..right : now - parsed[i].time <= SprayWindow})
        Leaving(ip) == Cardinality({i \in w.left..(left - 1) : strip_port(parsed[i].remote) = ip})
        arrived == strip_port(parsed[right].remote)
        ip_counts == [ip \in DOMAIN w.ip_counts |->
                         w.ip_counts[ip] + (IF ip = arrived THEN 1 ELSE 0) - Leaving(ip)]
        n == Cardinality({ip \in DOMAIN ip_counts : ip_counts[ip] > 0})
        kept == [w EXCEPT !.left = left, !.ip_counts = ip_counts]
    IN  IF n > w.best_n
        THEN [kept EXCEPT !.best_n = n, !.best_span = now - parsed[left].time]
        ELSE kept

Window(auth, cred) ==
    LET parsed == Bucket(auth, cred)
        empty == [left |-> 1, best_n |-> 0, best_span |-> 0,
                  ip_counts |-> [ip \in SourceIPs(auth) |-> 0]]
        after[right \in 0..Len(parsed)] ==
            IF right = 0 THEN empty ELSE Slide(parsed, after[right - 1], right)
    IN  IF parsed = <<>> THEN empty ELSE after[Len(parsed)]

Sprays(auth) ==
    {cred \in Credentials(auth) : /\ Len(Bucket(auth, cred)) >= SPRAY_MIN_IPS
                                  /\ Window(auth, cred).best_n >= SPRAY_MIN_IPS}
================================================================================

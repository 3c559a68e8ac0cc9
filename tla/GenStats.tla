------------------------------- MODULE GenStats --------------------------------
(****************************************************************************)
(* analysis/gen_stats.py: main reads auth.log, session.log and server.log   *)
(* once, line by line, and counts.  The logs were merged by hand from       *)
(* rotated files, so a block of lines may stand in them twice and out of    *)
(* order; a line torn by a crash does not parse.  The next line of a file   *)
(* is therefore any record.                                                 *)
(*                                                                          *)
(* An empty field and a missing one are both NoText: main treats them the   *)
(* same.                                                                    *)
(****************************************************************************)
EXTENDS LogTimes, Sequences, FiniteSets

CONSTANTS
    AuthRecords,     \* the attempts that occur: time, remote, user, password, outcome
    SessionRecords,  \* the events that occur: time, sid, msg, command, torn
    ServerRecords,   \* the events of server.log: time
    DIRTY_DATES,     \* the times that lie on the days listed in the script
    RepeatedTimes,   \* the times of the blocks that the merge repeated
    MaxLines         \* bound: lines read from the three files together

ASSUME RecordsAssumption ==
    /\ \A r \in AuthRecords : {"time", "remote", "user", "password"} \subseteq DOMAIN r
    /\ \A r \in SessionRecords :
           {"time", "sid", "msg", "command", "torn"} \subseteq DOMAIN r
    /\ \A r \in SessionRecords : r.torn \in BOOLEAN
    /\ \A r \in ServerRecords : "time" \in DOMAIN r
ASSUME TimesAssumption ==
    /\ NoText \notin Nat
    /\ \A r \in AuthRecords \cup SessionRecords \cup ServerRecords :
           r.time \in Nat \cup {NoText}

VARIABLES
    phase,                          \* which file is read
    auth_lines, session_lines, server_lines,   \* history: the lines read so far
    seen_auth, dup_auth, attempts,
    passwords, usernames, source_ips, pairs,
    sids, seen_sess, seen_cmd, dup_sess, commands,
    tally,                          \* handshake_ok, scp_files_offered, scp_quarantined
    ts_min, ts_max

authVars == <<auth_lines, seen_auth, dup_auth, attempts,
              passwords, usernames, source_ips, pairs>>
sessionVars == <<session_lines, sids, seen_sess, seen_cmd, dup_sess, commands, tally>>
spanVars == <<ts_min, ts_max>>
vars == <<phase, authVars, sessionVars, server_lines, spanVars>>

(* rec.get("password"), rec.get("user") and strip_port(remote): a remote is  *)
(* what stands between its colons, the port at the end.                     *)
Passwords == {r.password : r \in AuthRecords} \ {NoText}
Users == {r.user : r \in AuthRecords} \ {NoText}
strip_port(remote) == SubSeq(remote, 1, Len(remote) - 1)
Addresses == {strip_port(r.remote) : r \in {q \in AuthRecords : q.remote # NoText}}

CountedMsgs == {"handshake ok", "scp file", "scp payload saved"}
Files == {"auth", "session", "server", "done"}

(* A Counter that has not been touched reads zero.                          *)
Count(counter, key) == [counter EXCEPT ![key] = @ + 1]
Keys(counter) == {k \in DOMAIN counter : counter[k] > 0}

Init ==
    /\ phase = "auth"
    /\ auth_lines = <<>> /\ session_lines = <<>> /\ server_lines = <<>>
    /\ seen_auth = {} /\ dup_auth = 0 /\ attempts = 0
    /\ passwords = [p \in Passwords |-> 0]
    /\ usernames = [u \in Users |-> 0]
    /\ source_ips = [a \in Addresses |-> 0]
    /\ pairs = {}
    /\ sids = {} /\ seen_sess = {} /\ seen_cmd = {} /\ dup_sess = 0 /\ commands = 0
    /\ tally = [m \in CountedMsgs |-> 0]
    /\ ts_min = NoText /\ ts_max = NoText

----------------------------------------------------------------------------
(* Mutant: the first line read is taken for the first event.                *)
SeeFirst(t) ==
    IF t = NoText THEN UNCHANGED spanVars
    ELSE /\ ts_min' = IF ts_min = NoText THEN t ELSE ts_min
         /\ ts_max' = IF ts_max = NoText \/ TextBefore(ts_max, t) THEN t ELSE ts_max

(* see_ts: times are compared as text.                                      *)
SeeTs(t) ==
    IF t = NoText THEN UNCHANGED spanVars
    ELSE /\ ts_min' = IF ts_min = NoText \/ TextBefore(t, ts_min) THEN t ELSE ts_min
         /\ ts_max' = IF ts_max = NoText \/ TextBefore(ts_max, t) THEN t ELSE ts_max

MoreLines == Len(auth_lines) + Len(session_lines) + Len(server_lines) < MaxLines

AuthKey(rec) == <<rec.time, rec.remote, rec.user, rec.password>>

(* Mutants: a repeated attempt is subtracted again; every line is counted.  *)
SubtractRepeat(rec) ==
    /\ phase = "auth" /\ MoreLines
    /\ AuthKey(rec) \in seen_auth
    /\ auth_lines' = Append(auth_lines, rec)
    /\ dup_auth' = dup_auth + 1 /\ attempts' = attempts - 1
    /\ UNCHANGED <<phase, seen_auth, passwords, usernames, source_ips,
                   pairs, sessionVars, server_lines, spanVars>>
CountEveryUser(rec) ==
    /\ phase = "auth" /\ MoreLines
    /\ auth_lines' = Append(auth_lines, rec)
    /\ usernames' = IF rec.user = NoText THEN usernames ELSE Count(usernames, rec.user)
    /\ IF AuthKey(rec) \in seen_auth
       THEN /\ dup_auth' = dup_auth + 1
            /\ UNCHANGED <<seen_auth, attempts, passwords, source_ips, pairs, spanVars>>
       ELSE /\ seen_auth' = seen_auth \cup {AuthKey(rec)} /\ attempts' = attempts + 1
            /\ passwords' = IF rec.password = NoText THEN passwords
                            ELSE Count(passwords, rec.password)
            /\ source_ips' = IF rec.remote = NoText THEN source_ips
                             ELSE Count(source_ips, strip_port(rec.remote))
            /\ pairs' = IF rec.password = NoText /\ rec.user = NoText THEN pairs
                        ELSE pairs \cup {<<rec.user, rec.password>>}
            /\ SeeTs(rec.time)
            /\ UNCHANGED dup_auth
    /\ UNCHANGED <<phase, sessionVars, server_lines>>

(* An attempt that was already counted is dropped before anything else.     *)
ReadAuthRepeat(rec) ==
    /\ phase = "auth" /\ MoreLines
    /\ AuthKey(rec) \in seen_auth
    /\ auth_lines' = Append(auth_lines, rec)
    /\ dup_auth' = dup_auth + 1
    /\ UNCHANGED <<phase, seen_auth, attempts, passwords, usernames, source_ips,
                   pairs, sessionVars, server_lines, spanVars>>

ReadAuth(rec) ==
    /\ phase = "auth" /\ MoreLines
    /\ AuthKey(rec) \notin seen_auth
    /\ auth_lines' = Append(auth_lines, rec)
    /\ seen_auth' = seen_auth \cup {AuthKey(rec)}
    /\ attempts' = attempts + 1
    /\ passwords' = IF rec.password = NoText THEN passwords
                    ELSE Count(passwords, rec.password)
    /\ usernames' = IF rec.user = NoText THEN usernames ELSE Count(usernames, rec.user)
    /\ source_ips' = IF rec.remote = NoText THEN source_ips
                     ELSE Count(source_ips, strip_port(rec.remote))
    /\ pairs' = IF rec.password = NoText /\ rec.user = NoText THEN pairs
                ELSE pairs \cup {<<rec.user, rec.password>>}
    /\ SeeTs(rec.time)
    /\ UNCHANGED <<phase, dup_auth, sessionVars, server_lines>>

AuthEnds ==
    /\ phase = "auth"
    /\ phase' = "session"
    /\ UNCHANGED <<authVars, sessionVars, server_lines, spanVars>>

----------------------------------------------------------------------------
InFile(lines, rec) == \E i \in DOMAIN lines : lines[i] = rec

(* What every line of session.log does, whatever its message: a line of a   *)
(* repeated block may come again, any other line is new.                    *)
NextSessionLine(rec) ==
    /\ phase = "session" /\ MoreLines
    /\ InFile(session_lines, rec) => rec.time \in RepeatedTimes
    /\ session_lines' = Append(session_lines, rec)
    /\ UNCHANGED <<phase, authVars, server_lines>>

ReadTorn(rec) ==
    /\ NextSessionLine(rec)
    /\ rec.torn
    /\ UNCHANGED <<sids, seen_sess, seen_cmd, dup_sess, commands, tally, spanVars>>

SeeSession(rec) ==
    /\ NextSessionLine(rec)
    /\ ~rec.torn
    /\ SeeTs(rec.time)
    /\ sids' = IF rec.sid = NoText THEN sids ELSE sids \cup {rec.sid}

CommandKey(rec) == <<rec.sid, rec.time>>
EventKey(rec) == <<rec.sid, rec.time, rec.msg>>
IsCommand(rec) == ~rec.torn /\ rec.msg \in {"shell", "exec"} /\ rec.command # NoText
IsCounted(rec) == ~rec.torn /\ ~IsCommand(rec) /\ rec.msg \in CountedMsgs

(* A session runs its commands one after the other and stamps each with the *)
(* nanosecond: outside the listed days, where the script relies on it, no   *)
(* two commands share their session and time.                               *)
ASSUME CommandKeyAssumption ==
    \A r, q \in SessionRecords :
        IsCommand(r) /\ IsCommand(q) /\ CommandKey(r) = CommandKey(q)
            => r = q \/ r.time \in DIRTY_DATES

(* Mutant: commands are looked for among the remembered ones, but none is   *)
(* remembered.                                                              *)
ForgetCommand(rec) ==
    /\ SeeSession(rec)
    /\ IsCommand(rec)
    /\ IF rec.time \in DIRTY_DATES /\ CommandKey(rec) \in seen_cmd
       THEN dup_sess' = dup_sess + 1 /\ UNCHANGED commands
       ELSE commands' = commands + 1 /\ UNCHANGED dup_sess
    /\ UNCHANGED <<seen_sess, seen_cmd, tally>>

(* Commands are remembered on the listed days only.                         *)
ReadCommand(rec) ==
    /\ SeeSession(rec)
    /\ IsCommand(rec)
    /\ \/ /\ rec.time \in DIRTY_DATES /\ CommandKey(rec) \in seen_cmd
          /\ dup_sess' = dup_sess + 1
          /\ UNCHANGED <<seen_cmd, commands>>
       \/ /\ rec.time \in DIRTY_DATES /\ CommandKey(rec) \notin seen_cmd
          /\ seen_cmd' = seen_cmd \cup {CommandKey(rec)}
          /\ commands' = commands + 1
          /\ UNCHANGED dup_sess
       \/ /\ rec.time \notin DIRTY_DATES
          /\ commands' = commands + 1
          /\ UNCHANGED <<seen_cmd, dup_sess>>
    /\ UNCHANGED <<seen_sess, tally>>

ReadCounted(rec) ==
    /\ SeeSession(rec)
    /\ IsCounted(rec)
    /\ \/ /\ EventKey(rec) \in seen_sess
          /\ dup_sess' = dup_sess + 1
          /\ UNCHANGED <<seen_sess, tally>>
       \/ /\ EventKey(rec) \notin seen_sess
          /\ seen_sess' = seen_sess \cup {EventKey(rec)}
          /\ tally' = Count(tally, rec.msg)
          /\ UNCHANGED dup_sess
    /\ UNCHANGED <<seen_cmd, commands>>

ReadOther(rec) ==
    /\ SeeSession(rec)
    /\ ~IsCommand(rec) /\ ~IsCounted(rec)
    /\ UNCHANGED <<seen_sess, seen_cmd, dup_sess, commands, tally>>

SessionEnds ==
    /\ phase = "session"
    /\ phase' = "server"
    /\ UNCHANGED <<authVars, sessionVars, server_lines, spanVars>>

(* server.log extends the span only.                                        *)
ReadServer(rec) ==
    /\ phase = "server" /\ MoreLines
    /\ server_lines' = Append(server_lines, rec)
    /\ SeeTs(rec.time)
    /\ UNCHANGED <<phase, authVars, sessionVars>>

WriteStats ==
    /\ phase = "server"
    /\ phase' = "done"
    /\ UNCHANGED <<authVars, sessionVars, server_lines, spanVars>>

Next ==
    \/ \E rec \in AuthRecords : ReadAuth(rec) \/ ReadAuthRepeat(rec)
    \/ AuthEnds
    \/ \E rec \in SessionRecords :
           ReadTorn(rec) \/ ReadCommand(rec) \/ ReadCounted(rec) \/ ReadOther(rec)
    \/ SessionEnds
    \/ \E rec \in ServerRecords : ReadServer(rec)
    \/ WriteStats

Spec == Init /\ [][Next]_vars

----------------------------------------------------------------------------
(* The lines of a file as a set: what was logged, however often and in      *)
(* whatever order the file holds it.                                        *)
Events(lines) == {lines[i] : i \in DOMAIN lines}
AuthEvents == {AuthKey(r) : r \in Events(auth_lines)}
KeysWith(keys, field, value) == {k \in keys : k[field] = value}
KeysFrom(keys, address) == {k \in keys : k[2] # NoText /\ strip_port(k[2]) = address}

(* The counters have the types main gives them, and the tables of           *)
(* gen_stats.py hold only values that occur.                                *)
TypeOK ==
    /\ phase \in Files
    /\ auth_lines \in Seq(AuthRecords) /\ session_lines \in Seq(SessionRecords)
    /\ server_lines \in Seq(ServerRecords)
    /\ dup_auth \in Nat /\ attempts \in Nat
    /\ passwords \in [Passwords -> Nat] /\ usernames \in [Users -> Nat]
    /\ source_ips \in [Addresses -> Nat]
    /\ dup_sess \in Nat /\ commands \in Nat
    /\ tally \in [CountedMsgs -> Nat]

(* The numbers of auth.log (gen_stats.py main) are those of the set of      *)
(* attempts: no block that the file repeats, and no order of its lines,     *)
(* changes a total, a table or the number of lines reported as dropped.     *)
AuthExact ==
    /\ attempts = Cardinality(AuthEvents)
    /\ attempts + dup_auth = Len(auth_lines)
    /\ \A p \in Passwords : passwords[p] = Cardinality(KeysWith(AuthEvents, 4, p))
    /\ \A u \in Users : usernames[u] = Cardinality(KeysWith(AuthEvents, 3, u))
    /\ \A a \in Addresses : source_ips[a] = Cardinality(KeysFrom(AuthEvents, a))
    /\ pairs = {<<k[3], k[4]>> : k \in AuthEvents} \ {<<NoText, NoText>>}

CommandEvents == {CommandKey(r) : r \in {q \in Events(session_lines) : IsCommand(q)}}
CountedEvents == {EventKey(r) : r \in {q \in Events(session_lines) : IsCounted(q)}}

(* The numbers of session.log are those of the set of events as long as the *)
(* merge repeated blocks of the listed days only: the days are where the    *)
(* bookkeeping for commands is switched on (gen_stats.py:198).              *)
SessionExact ==
    RepeatedTimes \subseteq DIRTY_DATES =>
        /\ commands = Cardinality(CommandEvents)
        /\ \A m \in CountedMsgs : tally[m] = Cardinality(KeysWith(CountedEvents, 3, m))

(* The span of STATS.md covers every event to the second, although the      *)
(* times are compared as text: however fractions are cut, text order and    *)
(* time order differ within one second only (gen_stats.py:136).             *)
SpanToTheSecond ==
    \A r \in Events(auth_lines) \cup {q \in Events(session_lines) : ~q.torn} :
        r.time # NoText => Second(ts_min) <= Second(r.time) /\ Second(r.time) <= Second(ts_max)
================================================================================

-------------------------------- MODULE SeqGroup --------------------------------
(****************************************************************************)
(* analysis/seqgroup.py: ingest reads session.log record by record, folds   *)
(* runs of echo-inject commands and drops the repeated records of the dates *)
(* on which the merge of the rotated logs spliced a block in twice; cluster *)
(* groups the sessions by their exact sequence.                             *)
(*                                                                          *)
(* true_log is what the honeypot wrote, file what the merge made of it.  No *)
(* two events of a session have the same time, as the module's header has   *)
(* it: the records carry nanoseconds.                                       *)
(****************************************************************************)
EXTENDS Naturals, Sequences, FiniteSets, SequencesExt, FiniteSetsExt, Functions, LogTimes

CONSTANTS
    Logs,           \* the logs that the honeypot may have written
    Sids,           \* rec["sid"][:12]
    DIRTY_DATES,    \* the times that lie on the listed dates
    MinCmds,        \* --min-cmds
    Unknown,        \* "?": no target, no address
    KB              \* the bytes of a kilobyte (1024)

ASSUME LogsAssumption ==
    \A log \in Logs :
        /\ log \in Seq(Range(log))
        /\ \A i \in DOMAIN log : log[i].time \in Nat \ {0, NoText}
        /\ \A i, j \in DOMAIN log :
               i < j /\ log[i].sid = log[j].sid => log[i].time < log[j].time
        /\ \A i \in DOMAIN log : log[i].msg \in {"shell", "exec"} => log[i].command.bytes \in Nat
ASSUME MinCmdsAssumption == MinCmds \in Nat
ASSUME KBAssumption == KB \in Nat \ {0}

VARIABLES
    true_log, file, block, dedup_all,    \* chosen at the start
    pos, sessions, dups, groups

given == <<true_log, file, block, dedup_all>>
vars == <<given, pos, sessions, dups, groups>>

----------------------------------------------------------------------------
(* The merge: nothing, or a block of the log put in front of it or behind   *)
(* it although the log already holds it.                                    *)
NoBlock == [from |-> 1, to |-> 0, prepended |-> FALSE]
Blocks(log) ==
    {NoBlock} \cup {b \in [from : DOMAIN log, to : DOMAIN log, prepended : BOOLEAN] :
                        b.from <= b.to}
Splice(log, b) ==
    IF b.prepended THEN SubSeq(log, b.from, b.to) \o log
    ELSE log \o SubSeq(log, b.from, b.to)

(* class Session, __init__                                                  *)
NewSession ==
    [seq |-> <<>>, ip |-> Unknown, first |-> 0, last |-> 0,
     echo_target |-> Unknown, echo_count |-> 0, echo_bytes |-> 0, seen_ts |-> {}]

Init ==
    /\ true_log \in Logs
    /\ block \in Blocks(true_log)
    /\ file = Splice(true_log, block)
    /\ dedup_all \in BOOLEAN
    /\ pos = 1
    /\ sessions = [sid \in {} |-> NewSession]
    /\ dups = 0
    /\ groups = <<>>

----------------------------------------------------------------------------
(* A line of a sequence: a command, a marker of the honeypot (they start    *)
(* with "  [" and are no commands), or a run of echo chunks, in which the   *)
(* number of the chunks and of their kilobytes is part of the text.         *)
Command(rec) == [kind |-> rec.msg, text |-> rec.command.text]
Marker(rec) == [kind |-> "log", text |-> rec.msg]
(* "%.1f": tenths of a kilobyte, a half to the even one.                    *)
Tenths(bytes) ==
    LET down == (10 * bytes) \div KB
        rest == 2 * ((10 * bytes) % KB)
    IN  IF rest > KB \/ (rest = KB /\ down % 2 = 1) THEN down + 1 ELSE down
Run(target, count, bytes) ==
    [kind |-> "echo", target |-> target, count |-> count, kb |-> Tenths(bytes)]

FlushEcho(s) ==
    IF s.echo_target = Unknown THEN s
    ELSE [s EXCEPT !.seq = Append(@, Run(s.echo_target, s.echo_count, s.echo_bytes)),
                   !.echo_target = Unknown, !.echo_count = 0, !.echo_bytes = 0]
(* Mutant: a run stays open over other lines.                               *)
PushInside(s, line) == [s EXCEPT !.seq = Append(@, line)]

Push(s, line) == [FlushEcho(s) EXCEPT !.seq = Append(@, line)]
PushEcho(s, target, bytes) ==
    LET flushed == IF target = s.echo_target THEN s ELSE FlushEcho(s)
    IN  [flushed EXCEPT !.echo_target = target, !.echo_count = @ + 1,
                        !.echo_bytes = @ + bytes]

IsCommand(rec) == rec.msg \in {"shell", "exec"}
(* is_echo_inject(cmd) and echo_target(cmd) != "?"                          *)
IsChunk(rec) == IsCommand(rec) /\ rec.command.echo /\ rec.command.target # Unknown
Marks == {"wget fetch", "curl fetch", "scp receive", "scp file", "scp payload saved"}

SessionOf(sid) == IF sid \in DOMAIN sessions THEN sessions[sid] ELSE NewSession
Remembers(rec) == dedup_all \/ rec.time \in DIRTY_DATES
RecordKey(rec) == <<rec.time, rec.msg>>
IsRepeat(rec) == Remembers(rec) /\ RecordKey(rec) \in SessionOf(rec.sid).seen_ts

(* seen_ts, first and last: what every record that is kept does.            *)
Kept(rec) ==
    LET s == SessionOf(rec.sid)
    IN  [s EXCEPT !.seen_ts = IF Remembers(rec) THEN @ \cup {RecordKey(rec)} ELSE @,
                  !.first = IF @ = 0 THEN rec.time ELSE @, !.last = rec.time]

TakeRecord(rec) ==
    /\ pos \in DOMAIN file
    /\ rec = file[pos]
    /\ pos' = pos + 1
    /\ UNCHANGED <<given, groups>>

DropRepeat(rec) ==
    /\ TakeRecord(rec)
    /\ IsRepeat(rec)
    /\ dups' = dups + 1
    /\ UNCHANGED sessions

Keep(rec, s) ==
    /\ TakeRecord(rec)
    /\ ~IsRepeat(rec)
    /\ sessions' = [sid \in DOMAIN sessions \cup {rec.sid} |->
                       IF sid = rec.sid THEN s ELSE sessions[sid]]
    /\ UNCHANGED dups

IngestChunk(rec) ==
    /\ IsChunk(rec)
    /\ Keep(rec, PushEcho(Kept(rec), rec.command.target, rec.command.bytes))

IngestCommand(rec) ==
    /\ IsCommand(rec) /\ ~IsChunk(rec)
    /\ Keep(rec, Push(Kept(rec), Command(rec)))

IngestMark(rec) ==
    /\ rec.msg \in Marks
    /\ Keep(rec, Push(Kept(rec), Marker(rec)))

(* The other messages leave a run of echo chunks open.                      *)
IngestOther(rec) ==
    /\ ~IsCommand(rec) /\ rec.msg \notin Marks
    /\ Keep(rec, IF rec.msg = "handshake ok" THEN [Kept(rec) EXCEPT !.ip = rec.ip]
                 ELSE Kept(rec))

----------------------------------------------------------------------------
(* cluster: one group per distinct sequence.  The texts of the times are    *)
(* compared as they are.                                                    *)
Flushed == [sid \in DOMAIN sessions |-> FlushEcho(sessions[sid])]
NumCmds(seq) == Len(SelectSeq(seq, LAMBDA line : line.kind # "log"))
Clusters(ss) ==
    LET listed == {sid \in DOMAIN ss : NumCmds(ss[sid].seq) >= MinCmds}
    IN  {[seq |-> seq,
          sids |-> {sid \in listed : ss[sid].seq = seq},
          ips |-> {ss[sid].ip : sid \in {t \in listed : ss[t].seq = seq}},
          first |-> FirstText({ss[sid].first : sid \in {t \in listed : ss[t].seq = seq}}),
          last |-> LastText({ss[sid].last : sid \in {t \in listed : ss[t].seq = seq}})] :
         seq \in {ss[sid].seq : sid \in listed}}

(* The end of ingest and cluster, which also drops the sets of seen times.  *)
GroupSessions ==
    /\ pos = Len(file) + 1 /\ groups = <<>>
    /\ sessions' = [sid \in DOMAIN Flushed |-> [Flushed[sid] EXCEPT !.seen_ts = {}]]
    /\ groups' = <<Clusters(Flushed)>>
    /\ UNCHANGED <<given, pos, dups>>

Next ==
    \/ \E rec \in ToSet(file) :
           \/ DropRepeat(rec) \/ IngestChunk(rec) \/ IngestCommand(rec)
           \/ IngestMark(rec) \/ IngestOther(rec)
    \/ GroupSessions

Spec == Init /\ [][Next]_vars

----------------------------------------------------------------------------
(* The reference, by positions in a log: those of one session, those of     *)
(* them that a sequence tells of, and the chunks of a run: from i to j all  *)
(* that is told are chunks to one target.                                   *)
Own(log, sid) == {i \in DOMAIN log : log[i].sid = sid}
IsTold(rec) == IsCommand(rec) \/ rec.msg \in Marks
Told(log, own) == {i \in own : IsTold(log[i])}
SameRun(log, told, i, j) ==
    \A k \in told : i <= k /\ k <= j =>
        IsChunk(log[k]) /\ log[k].command.target = log[i].command.target
RunFrom(log, told, i) == {j \in told : i <= j /\ SameRun(log, told, i, j)}
Bytes(log, chunks) == UNION {{k} \X (1..log[k].command.bytes) : k \in chunks}

(* One line for each position that does not continue a run, in their order. *)
Starts(log, told) == {j \in told : \A i \in told : i < j => ~SameRun(log, told, i, j)}
LineAt(log, told, i) ==
    LET rec == log[i]
        chunks == RunFrom(log, told, i)
    IN  IF IsChunk(rec)
        THEN Run(rec.command.target, Cardinality(chunks), Cardinality(Bytes(log, chunks)))
        ELSE IF IsCommand(rec) THEN Command(rec) ELSE Marker(rec)
TrueSeq(log, told) ==
    LET starts == Starts(log, told)
    IN  [n \in 1..Cardinality(starts) |-> LineAt(log, told, At(starts, n))]
Hellos(log, own) == {i \in own : log[i].msg = "handshake ok"}
TrueSession(log, own) ==
    LET hellos == Hellos(log, own)
    IN  [NewSession EXCEPT
            !.seq = TrueSeq(log, Told(log, own)),
            !.first = log[Min(own)].time, !.last = log[Max(own)].time,
            !.ip = IF hellos = {} THEN Unknown ELSE log[Max(hellos)].ip]
TrueSessions(log) ==
    [sid \in {rec.sid : rec \in ToSet(log)} |-> TrueSession(log, Own(log, sid))]

(* The merge repeated a block that holds no session without its beginning   *)
(* (an appended block changes no first copy), on dates the script knows.    *)
BlockRecords == {true_log[i] : i \in block.from..block.to}
CutsNoSession ==
    block.prepended =>
        \A rec \in BlockRecords : \A q \in ToSet(true_log) :
            q.sid = rec.sid /\ q.time < rec.time => q \in BlockRecords
KnownDates == dedup_all \/ \A rec \in BlockRecords : rec.time \in DIRTY_DATES

(* seqgroup.py, "dropping the repeat copy is enough": as long as the merge  *)
(* repeated whole sessions, or beginnings of sessions, of the listed dates, *)
(* the sessions and their clusters are those of the log that the honeypot   *)
(* wrote, whatever other sessions' records stand between their own; and the *)
(* dropped records are the repeated ones.                                   *)
SpliceInvisible ==
    groups # <<>> /\ CutsNoSession /\ KnownDates =>
        /\ sessions = TrueSessions(true_log)
        /\ groups = <<Clusters(TrueSessions(true_log))>>
        /\ dups = Len(file) - Len(true_log)
================================================================================

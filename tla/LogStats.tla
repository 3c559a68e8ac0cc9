------------------------------- MODULE LogStats --------------------------------
(****************************************************************************)
(* The counting scripts on the same three logs: GenStats reads them line by *)
(* line, and after every line the other scripts are asked what they would   *)
(* print.                                                                   *)
(****************************************************************************)
EXTENDS GenStats, SequencesExt, FiniteSetsExt, Functions

CONSTANTS
    TicksPerHour, FeedbackMin, VolumeMax,      \* report.py
    SPRAY_MIN_IPS, SprayWindow, TmpPaths       \* stats.py

ASSUME SprayAssumption == SPRAY_MIN_IPS \in Nat /\ SprayWindow \in Nat

L == INSTANCE LogLines
Quick == INSTANCE QuickReport
Rep == INSTANCE Report
Sta == INSTANCE Stats
Tim == INSTANCE Timeline
Pas == INSTANCE Passwords
Per == INSTANCE Periods
Ses == INSTANCE SessionTimelines

parsed == L!Parsed(session_lines)
Sum(f) == SumFunction(f)
Distinct(lines) == IsInjective(lines)

Lacking(lines, field) == L!CountIf(lines, LAMBDA e : e[field] = NoText)

(* How many attempts, addresses and commands there were.  quick-report.py   *)
(* has the numbers of report.py, "matching render_header exactly" (line 55),*)
(* but for the torn command lines, which it counts and no parser sees.  A   *)
(* blank command is counted by all but stats.py and timeline.py, and one    *)
(* without a time by all but the latter.  An attempt without a remote is    *)
(* one more address for periods.py.  report.py and quick-report.py take the *)
(* addresses of an IPv6 network for one, and count what stats.py counts     *)
(* where there are none.                                                    *)
TotalsAgree ==
    LET torn == SelectSeq(session_lines, LAMBDA e : e.torn /\ L!HasCommand(e))
        blank == SelectSeq(parsed, LAMBDA e : e.command = <<>>)
        quick == Quick!Header(auth_lines, session_lines)
        report == Rep!Header(auth_lines, parsed)
        stats == Per!ComputeStats(auth_lines, parsed)
        remotes == {e.remote : e \in Events(auth_lines)} \ {NoText}
        ips == Cardinality(Sta!SourceIPs(auth_lines))
    IN  /\ [quick EXCEPT !.commands = @ - Len(torn)] = report
        /\ report.attempts = stats.attempts /\ report.accepted = stats.accepted
        /\ report.commands = stats.commands
        /\ stats.unique_ips = report.ips + Min({1, Lacking(auth_lines, "remote")})
        /\ report.ips <= ips
        /\ (\A r \in remotes : Len(r) = 2) => report.ips = ips
        /\ report.attempts = Sta!Accepted(auth_lines) + Sta!Rejected(auth_lines)
        /\ report.commands = Len(Sta!Typed(parsed)) + Len(blank)
        /\ Len(Sta!Typed(parsed)) = Len(Tim!Typed(parsed)) + Lacking(Sta!Typed(parsed), "time")
        /\ Distinct(auth_lines) => attempts = report.attempts
        /\ Distinct(session_lines) => commands = report.commands

(* The tables of passwords: what stats.py, timeline.py, passwords.py and    *)
(* gen_stats.py list is the same, but that timeline.py leaves out what has  *)
(* no time; the classes, lengths and suffixes add up to it.  The times of   *)
(* timeline.py, found by comparing texts, are right to the second.          *)
PasswordsAgree ==
    LET tried == Pas!Tried(auth_lines)
        timed == SelectSeq(tried, LAMBDA e : e.time # NoText)
        seen == Tim!PasswordsSeen(auth_lines)
        earliest == Head(Tim!ByFirstSeen(seen))
        bare == SelectSeq(tried, LAMBDA e : Pas!Suffix(e.password) = <<>>)
        digits == SelectSeq(tried, LAMBDA e : Pas!Base(e.password) = <<>>)
    IN  /\ DOMAIN Sta!Passwords(auth_lines) = Keys(passwords)
        /\ DOMAIN seen = {e.password : e \in ToSet(timed)}
        /\ Sta!SourceIPs(auth_lines) = Keys(source_ips)
        /\ Len(tried) = Sum(Sta!Passwords(auth_lines))
        /\ Len(tried) = Cardinality(Pas!Unique(auth_lines)) + Pas!Repeats(auth_lines)
        /\ Len(tried) = Sum(Pas!Charsets(auth_lines))
        /\ Len(tried) = Sum(Pas!Lengths(auth_lines))
        /\ Len(tried) = Sum(Pas!NumericSuffixes(auth_lines)) + Len(bare)
        /\ Len(tried) = Sum(Pas!Bases(auth_lines)) + Len(digits)
        /\ Pas!Charsets(auth_lines)["digits-only"] = Len(digits)
        /\ Distinct(auth_lines) =>
               \A p \in Keys(passwords) : passwords[p] = Sta!Passwords(auth_lines)[p]
        /\ \A p \in DOMAIN seen :
               /\ seen[p].count = L!CountIf(timed, LAMBDA e : e.password = p)
               /\ \A e \in ToSet(timed) :
                      e.password = p => /\ Second(seen[p].first) <= Second(e.time)
                                        /\ Second(e.time) <= Second(seen[p].last)
               /\ Second(seen[earliest].first) <= Second(seen[p].first)
        /\ Tim!FeedbackLoop(auth_lines, parsed) \subseteq Keys(passwords)
        /\ Tim!FeedbackLoop(auth_lines, parsed) \cup Tim!OnlyChpasswd(auth_lines, parsed)
               = Tim!ChpasswdPasswords(parsed)

(* The tables of commands and sessions of stats.py and timeline.py.         *)
CommandsAgree ==
    LET seen == Tim!CommandsSeen(parsed)
        families == Sta!FamilySids(parsed)
        appends == SelectSeq(Sta!Typed(parsed), LAMBDA e : L!Has(e.command, ">>"))
    IN  /\ Sum([c \in DOMAIN seen |-> seen[c].count]) = Len(Tim!Typed(parsed))
        /\ Sum(Sta!EchoTargets(parsed)) = Len(appends)
        /\ families["echo_injector"] = {e.sid : e \in ToSet(appends)}
        /\ UNION {families[name] : name \in DOMAIN families} \subseteq sids

(* Without repeated lines all scripts give one answer to one question, but  *)
(* for what they count differently; stats.py and gen_stats.py print one     *)
(* span.                                                                    *)
ScriptsAgree ==
    /\ TotalsAgree /\ PasswordsAgree /\ CommandsAgree
    /\ Sta!Timestamps(auth_lines, parsed, server_lines) # {} =>
           /\ Sta!Earliest(auth_lines, parsed, server_lines) = ts_min
           /\ Sta!Latest(auth_lines, parsed, server_lines) = ts_max

(* The sections of report.py do not contradict one another, although each   *)
(* filters the lines in its own way: the rows of the addresses are those of *)
(* the header and one for the attempts without a remote, and add up to it;  *)
(* the addresses of the volume alert are the first rows; the hours hold     *)
(* what has a time; the block of a session that logged in from where an     *)
(* attempt was accepted names an address marked ACCEPTED, though one comes  *)
(* from session.log and the other from auth.log; a phase to watch for is in *)
(* no session's story; a numeric chain is one, and is found when no         *)
(* password continues in two ways.                                          *)
ReportConsistent ==
    LET header == Rep!Header(auth_lines, parsed)
        by_hour == Rep!ByHour(auth_lines)
        rows == Rep!IpRows(auth_lines)
        blocks == Rep!SessionBlocks(parsed)
        alerts == Rep!Alerts(auth_lines, parsed)
        chains == Rep!Chains(auth_lines)
        numeric == Rep!Numeric(auth_lines)
        Row(i) == Rep!IpRow(auth_lines, rows[i])
    IN  /\ Len(rows) = header.ips + Min({1, Lacking(auth_lines, "remote")})
        /\ Sum([i \in DOMAIN rows |-> Row(i).attempts]) = header.attempts
        /\ Sum([i \in DOMAIN rows |-> Row(i).accepted]) = header.accepted
        /\ \A i \in DOMAIN rows : rows[i] \in alerts.volume <=> i <= Cardinality(alerts.volume)
        /\ Sum(by_hour) = header.attempts - Lacking(auth_lines, "time")
        /\ Sum([sid \in DOMAIN blocks |-> blocks[sid].commands]) = header.commands
        /\ \A hs \in ToSet(parsed), a \in ToSet(auth_lines) :
               /\ hs.msg = "handshake ok" /\ hs.sid \in DOMAIN blocks
               /\ a.remote = hs.remote /\ a.outcome = "accepted"
               => Rep!IpRow(auth_lines, blocks[hs.sid].ip).accepted > 0
        /\ \A sid \in DOMAIN blocks : ToSet(blocks[sid].story) \cap alerts.predictions = {}
        /\ \A c \in DOMAIN chains : /\ Len(chains[c]) >= 3
                                    /\ \A i \in 2..Len(chains[c]) :
                                           Rep!Extends(chains[c][i], chains[c][i - 1])
        /\ (\A p \in ToSet(numeric) :
                Cardinality({q \in ToSet(numeric) : Rep!Extends(q, p)}) <= 1) =>
           \A p, q, r \in ToSet(numeric) :
               Rep!Extends(q, p) /\ Rep!Extends(r, q) =>
                   \E c \in DOMAIN chains : {p, q, r} \subseteq ToSet(chains[c])

(* The sliding window of stats.py finds, for every credential, the largest  *)
(* number of addresses that tried it within any hour, a credential is       *)
(* listed exactly if that is enough, and the span reported is that of such  *)
(* a burst.  The reference looks at the hour after each attempt.            *)
SprayExact ==
    LET sprays == Sta!Sprays(auth_lines) IN
    \A cred \in Sta!Credentials(auth_lines) :
        LET tried == {Sta!ParseTs(e) : e \in
                         {q \in ToSet(L!Attempts(auth_lines)) :
                             Sta!Complete(q) /\ <<q.password, q.user>> = cred}}
            Within(from, to) ==
                Cardinality({Sta!strip_port(e.remote) : e \in
                    {q \in tried : from <= q.time /\ q.time <= to}})
            found == Sta!Window(auth_lines, cred)
            most == Max({Within(e.time, e.time + SprayWindow) : e \in tried})
        IN  /\ found.best_n = most
            /\ cred \in sprays <=> most >= SPRAY_MIN_IPS
            /\ \E e \in tried : Within(e.time, e.time + found.best_span) = found.best_n
            /\ found.best_span <= SprayWindow

(* periods.py puts every event whose time it can parse, from the first such *)
(* start on, into exactly one period, and no other event into any, in       *)
(* whatever order server.log holds the starts and also when two starts are  *)
(* one and the same line repeated; the periods add up, and no change        *)
(* between them is lost.  What it cannot parse (a fraction of less than six *)
(* digits) opens no period and is in none.                                  *)
PeriodsPartition ==
    LET periods == Per!DetectPeriods(server_lines)
        stats == Per!AllStats(auth_lines, parsed, server_lines)
        deltas == Per!Deltas(stats)
        Started(e) == LET ts == Per!ParseTs(e.time)
                      IN  ts # NoText /\ periods[1].start <= ts
        Covering(e) == {i \in DOMAIN periods : Per!InPeriod(e, periods[i])}
    IN  periods # <<>> =>
        /\ \A e \in ToSet(auth_lines) \cup ToSet(parsed) :
               Cardinality(Covering(e)) = IF Started(e) THEN 1 ELSE 0
        /\ Sum([i \in DOMAIN stats |-> stats[i].attempts])
               = L!CountIf(L!Attempts(auth_lines), Started)
        /\ \A i \in DOMAIN stats : Sum(stats[i].phases) = stats[i].commands
        /\ stats[1].attempts + Sum([i \in DOMAIN deltas |-> deltas[i].attempts.change])
               = stats[Len(stats)].attempts

(* sessions.py, "accepted attempts carry the sid": the section of a session *)
(* whose attempt was accepted is marked [ACCEPTED].                         *)
AcceptedIsMarked ==
    \A hs \in {e \in ToSet(parsed) : e.msg = "handshake ok"} :
        (\E a \in ToSet(auth_lines) : a.remote = hs.remote /\ a.outcome = "accepted")
            => Ses!Sections(auth_lines, parsed)[hs.sid].accepted
================================================================================

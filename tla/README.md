# ssh-honeypot in TLA+

Models, model checking and proofs for the SSH honeypot in `src/` (Go server, Python log
analysis). The code is the reference; each definition is traced to its lines in
`PROJECT.json` ("map"), and each disagreement between code and comments found on the way is
under "findings" with the run that shows it.

## The system

| component | source | state | operations | interacts with |
|---|---|---|---|---|
| admission | `server/server.go` | listener, semaphore of `-max-conn`, `attempts` map under a mutex | accept / reject, password callback, cleanup, release, shutdown | one goroutine per connection; `session.Handle` |
| connection and channels | `session/session.go`, `shell.go`, `exec.go` | one `Session`, per channel: request queue, program, timer | accept or reject channels, answer requests, drain, shell, exec, idle and write timeouts | `golang.org/x/crypto/ssh`, dispatch, scp |
| scp receive | `session/scp.go` | protocol position, `.tmp` and `.bin` files, marks in the `Session` | header / data / trailer, save or drain, 30s limit | a channel, the disk, the session filesystem |
| process lifecycle | `main.go`, `hostkey/`, `logger/`, `systemd/` | host key file, three log files | start, load or generate, serve, signal, close | disk, systemd |
| session filesystem, dispatch | `session/commands.go`, `cmd_fs.go`, `cmd_misc.go`, `cmd_shell.go` | cwd, `fs`, `dirs`, crontab | pipes, `&&`, cd, mkdir, touch, rm, ls, cat, crontab | shared by all channels of a connection |
| text commands | `session/cmd_text.go` | none | head, tail, grep, wc, sort, awk on the stdin of a stage | dispatch |
| arithmetic | `session/commands.go` | none | `$(( ))` | dispatch |
| fixed-output commands | `session/cmd_net.go`, `cmd_recon.go` | none | constant text | dispatch |
| statistics | `analysis/gen_stats.py`, `stats.py`, `timeline.py`, `passwords.py`, `quick-report.py` | counters, sets of seen keys | read line by line, drop repeats, count | the three log files |
| periods | `analysis/periods.py` | periods, statistics per period | detect, slice, compare | the three log files |
| sequence grouping | `analysis/seqgroup.py`, `fingerprint.py`, `replay.py` | a record per session | drop repeats, sort, fold, group | session.log; the patterns go to `cluster.py` |
| kill chain | `analysis/cluster.py`, `classify.py`, `gen_stix_bundle.py` | clusters, families, STIX objects | first matching rule, aggregate, check, bundle | each reads what the one before wrote |
| reports | `analysis/report.py`, `sessions.py` | none | count, chain, alert, join | auth.log, session.log |
| extraction | `analysis/extract_all_binaries.py`, `extract_binary.py` | chunks per target and session | deduplicate, concatenate, choose | session.log |

The logs the scripts read were merged by hand from rotated files: a block of lines may stand in
them twice, out of order, and a line may be torn. This is the environment of all analysis
modules; `seqgroup.py` and `gen_stats.py` describe it and try to undo it.

What is hard: callbacks, closes and cleanups of several connections of one address share a
counter; a slot must come back on every way out of a connection; two goroutines in turn
answer one channel's requests while timers close it; an upload meets disk errors, vanished
senders and a timeout that leaves its reader running; the process is killed between the
steps of creating its key; connection goroutines log while the logs are closed and each of them may fail to
reach the disk; fifteen
scripts parse the same repeated and reordered lines, each with rules of its own. Each of these is listed in `PROJECT.json` ("hazards") at its line, with the properties for it.

What makes each component correct:

* admission: slots and goroutines agree; each address is refused exactly `threshold - 1`
  times between two admissions; nobody stays admitted for ever; the accept loop never waits.
* connection: replies in order, one program per channel, exit-status once and last; the
  multiplexer never stalls; programs and goroutines end.
* scp: payload bytes are never read as records; a file's name is the hash of its content; an
  acknowledged upload is captured; no wait without an end.
* lifecycle: one host key over all restarts; what the logs held when the shutdown began is on
  disk, file by file unless its Sync failed.
* session filesystem and dispatch: cwd exists, ls / cat / cd agree, every command line
  returns an output and a status.
* statistics: totals are those of the events, not of the lines; scripts that answer the same
  question give the same answer; a spray is the densest hour.
* periods: every event that can be dated falls in exactly one.
* sequence grouping: what is shown of a session is what it did, wherever the merge put its
  records and whatever other sessions did in between.
* kill chain: no session is lost or counted twice on its way through clusters, addresses and
  families, and the bundle refers to nothing it lacks.
* extraction: a binary is byte for byte what one session wrote.

## Modules

| module | models | status |
|---|---|---|
| `AuthGate` | the promise to one address: refused `Threshold - 1` times, then let in, counted again only after that | done |
| `Admission` | `server.Serve`: accept loop, semaphore, callback, cleanup, shutdown | done |
| `AdmissionProofs` | theorems about `Admission` | done |
| `MCAdmission` | instances for TLC (symmetry) | done |
| `Connection`, `MCConnection` | `session.Handle`, `handleChannel`, `drainRequests`, `runShell`, `runExec` and their watchers | done |
| `ConnectionProofs` | theorems about `Connection` | done |
| `ScpReceive` | `runSCPReceive`, `savePayload` with an scp sender | done |
| `ScpReceiveProofs` | theorems about `ScpReceive` | done |
| `Lifecycle` | `main`, `hostkey`, `logger` under kills, power loss and restarts | done |
| `LifecycleProofs` | theorems about `Lifecycle` | done |
| `VirtualFs`, `MCVirtualFs` | the `Session`, dispatch, and the commands that change it | done |
| `VirtualFsProofs` | theorems about `VirtualFs` | done |
| `GenStats`, `GenStatsProofs` | `gen_stats.py` line by line, and theorems about it | done |
| `Positions` | parts of a sequence by their positions, and a sequence in the order of a key: what comprehensions and `sort(key=)` do | done |
| `LogTimes` | times as the logs hold them: the order of their texts, and what Python keeps of them | done |
| `LogLines` | what the scripts share: parsing, hosts, attempts, commands | done |
| `QuickReport`, `Stats`, `Timeline`, `Passwords` | the other counting scripts, as functions of the lines | done |
| `Periods`, `KillChain` | `periods.py`; the phase of a command, in `report.py` and `periods.py` | done |
| `Report`, `SessionTimelines` | the numbers of `report.py`; the sections of `sessions.py` | done |
| `LogStats`, `MCLogStats` | `GenStats` and all of the above on the same lines, with the properties that relate them; their instance | done |
| `SeqGroup` | the merge of the logs; `seqgroup.py` | done |
| `Fingerprint`, `Extract` | `fingerprint.py` and `replay.py`; the two extraction scripts | done |
| `SessionLogs`, `MCSessionLogs` | `SeqGroup` with these two on the same file, with the properties about them; their instance | done |
| `SeqGroupProofs` | the theorems about `SeqGroup`, the extraction, the patterns and the replay | done |
| `Cluster`, `Classify`, `StixBundle` | `cluster.py`, `classify.py`, `gen_stix_bundle.py`, each extending the one before | done |
| `StixBundleProofs` | the theorems about `Classify` and `StixBundle` | done |
| `MCKillChain` | the three in a row on generated sessions | done |

What could be next: a composition of `Admission` with `Connection`, to state whom an idle
connection keeps out; the comparisons of `ScriptsAgree` by positions, as `SeqGroupProofs` has them.

### Admission

`serve` is the goroutine in `Serve`, `pc[c]` the goroutine of connection `c`, `sem` the
tokens in the channel, `attempts` the map (0 is an absent key). A step is what happens
between two points where another goroutine can be seen:

* `Count` is `mu.Lock() .. mu.Unlock()` of the callback; `Accept` / `Refuse` its verdict,
  taken later from the local `n`.
* `Admit` / `Reject` are Accept plus the `select` on the semaphore. `AcceptError` is the
  `continue` after an Accept error.
* `HandshakeOk`, `HandshakeFails` are the two ways out of `ssh.NewServerConn`, which is
  external: it calls the callback up to `MaxAuthTries` times and can fail at any moment.
* `Cleanup` is the second critical section, `Release` the deferred `<-sem`.
* `CloseListener`, `ServeReturns` are the two halves of the shutdown.

`refused` is a history variable: the passwords an address had refused since it was last let
in. It is what the README of the program talks about ("harvests up to 9 passwords per IP
before accepting"), so the counter is checked against it. `Gate == INSTANCE AuthGate` maps
`open` to the addresses whose counter is at the threshold; `refused` is used as it is.

### Connection

One SSH connection, a record per channel. `worker` is `handleChannel` and the program it
runs, `drainer` is `drainRequests`, `watcher` the timer goroutine. `asked` and `taken` are
the request queue, `replies` and `log` what the client was sent. The multiplexer of
`golang.org/x/crypto/ssh` is external and modelled by what the code relies on: messages are
delivered in order, a full request queue blocks it, `Close` sends CLOSE and makes later
sends fail, and a blocked Read or Write returns when the client's CLOSE arrives or the
transport dies. The line editor is abstracted to kinds of input (an echoed byte, an ignored
byte, a command line, an scp line, exit, ^D on an empty line, end of input). The writes of
an output and of a prompt are separate steps; a run of outputs is one entry of `log`.

### ScpReceive

The sender follows the scp protocol and may vanish at any point. `reader` is the goroutine
that parses records and saves payloads, `main` the one that waits for it or for 30 seconds.
A stored file is `[file, hashed, stored]`: how much of the payload went into the hash in its
name and how much into the file. A channel without a quarantine directory behaves like one
whose `.tmp` cannot be opened: the payload is drained. D and E records are both "dir".

### Lifecycle

`pc` is main. `keyFile` is absent, torn or a key, `synced` what of it is on stable storage.
`emitted`, `written` and `durable` count log lines per file, `due` remembers what the file held
when main began to close the logs. A line can be lost on its way (`WriteLine`: a full disk or a
closed file, and slog drops the error), the errors of main are lines of server.log themselves (`Fail`).
`SyncLog` may fail: any part of the file is then on the disk, `unsynced` remembers it, and
`Close` goes on to close this file and to sync the others, which is what its mutant
`SyncOrReturn` does not. `Killed` may happen anywhere, `LosePower` only if the
constant `PowerLoss` allows it. Connection goroutines are `Log(f)`: they may log until the
process is gone, because `Serve` does not wait for them.

### VirtualFs

`cwd`, `fs`, `dirs`, `cron` are the `Session`; `segs`, `out`, `exit`, `nested` are where
`dispatch` and `dispatchSegment` are in a command line, one stage per step. A path is the
sequence of components that splitting its text at `/` gives, so that unclean and relative
ones (which uploads leave behind as keys) differ from clean ones; `Clean` is Go's
`path.Clean` on it and `Below` the prefix test of `sessionLS`. `sudo` and `bash -c` are
wrappers around a stage: `Redispatch` takes one off and drops the stage's stdin. Output texts
are reduced to what they are (a listing, an error, ...), flags and variables are left out.
Reading `args[0]` without an argument and cutting a negative number of lines is the state
`pc = "panic"`. Of the text commands the module has what a later stage can see: the status,
whether something is left of the stdin, and the newline that `head` and `tail` make of nothing;
whether a line matches is a free choice. Two channels of one
connection can run commands at the same time; this module is about one command line at a time,
with uploads of other channels in between.

### GenStats and the counting scripts

`auth_lines`, `session_lines` and `server_lines` are the lines read so far (a history; the
script keeps only its counters). A line is any of the records that occur: that gives repeated
blocks, reordering and missing lines at once. `ReadAuthRepeat` is the `continue` of an attempt
seen before, `ReadTorn` a line that does not parse, `ReadCommand` the branch that remembers
commands on the listed days only, `ReadCounted` the three messages with a key of their own. A
line of session.log that comes a second time is one of a repeated block, so its time is in
`RepeatedTimes`.

A time is a number of ticks, and how its text looks depends on the place of its last digit
(`LastPlace`): Go trims all zeros at the end of a fraction, and the fraction itself at a whole
second. `TextRank` is the order of the texts: "Z" sorts after every digit and ".", so `.5Z` comes after `.55Z` and a
whole second after all that happened in it. `Places` are the lengths a fraction can have. Scripts that
compare texts (`gen_stats.py`, `timeline.py`, the span of `stats.py`, the feedback alert of `report.py`, and the sorting of
`sessions.py`, `fingerprint.py`, `replay.py`) are modelled with it, those that parse
with `Micros`: `datetime` cuts after the microsecond. `periods.py` cuts the text itself, and what has fewer than six
digits does not parse any more (`Periods.ParseTs`). The other scripts parse any fraction, which
`datetime.fromisoformat` does from Python 3.11 on; the honeypot is taken to run in UTC, so that a time ends in "Z".

A remote is what stands between its colons, the port last, so that IPv6 is longer: `Host`
(`split(":")[0]`, in `quick-report.py`, `report.py` and `periods.py`) and `strip_port` (`rsplit(":", 1)[0]`, in `stats.py` and
`gen_stats.py`) differ on it. Each script has its own rule for a line without remote, password or time.

The other scripts have no state that survives a line: they are operators from lines to what they
print, one module per script, names as in the script. A command is the sequence of its words.
`LogStats` asks every script after every line, so each property is checked for all logs of up
to four lines over the records of `MCLogStats`. Comprehensions over lines are `Pick`s of positions and
sorting is `InOrder` (in `Positions`; `ByTime` and `ByText` are by its keys), which say which element stands where: that is what proofs need,
and a loop that carries state from one element to the next (the window of a spray) is a recursive function. `KillChain.Classify` is the one function two scripts copied
from each other, with the table of words of each.

### SeqGroup, Fingerprint, Extract

`true_log` is what the honeypot wrote, `block` the part of it that the merge repeated, in front
(`prepended`) or at the end, `file` the result; scripts see only `file`. `SeqGroup` is `ingest` with
one action per kind of record, then `GroupSessions`, which is the end of `ingest` and `cluster`. A line
of a sequence is a record: a command, a marker, or a run of echo chunks with count and bytes.
`Fingerprint` and `Extract` are functions of the same file. The loops of `fingerprint.py` and `replay.py`
go on at the end of a run of chunks or at the next record; `Run` is that run, `Visits` the positions at which such a
loop stops, whatever its steps are, and the output is what stands at these. What a regular expression makes of
a path is the constant `NormTarget`. The records
of a session are sorted by the texts of their times, as in the scripts, and so are the references: that is the order of the log but
within a second. `Clusters` compares first and last times as text; `Tenths` is the size of a run to the tenth of a
kilobyte, which is all that a sequence says of it. (Sequences are grouped as they are; the script joins
them to one text and compares its MD5.) The reference definitions
(`TrueSession`, `Steps`, `Written`) work on `true_log` and use quantifiers where the scripts use
indices and accumulators; that of `SeqGroup` speaks of the positions of a log: `Own` of a session,
`Told` of by a sequence, those that start a line (`Starts`), and the n-th of these (`At`). A command is a record of facts about its text: whether it is an echo,
its target, its hex bytes, whether it appends, its normalised form, its payload. `Extract` works by positions,
too: `FirstCopies` of the chunks among some lines, `Data` those of the whole file, `Chunks` what one
session wrote to one target. `SessionLogs` puts the three on one file and has the properties that
relate what the scripts make of it to `true_log`.

### Cluster, Classify, StixBundle

A shape is a sequence of entries, an entry the set of needles it contains. `Fits` is the table of
rules, `ClusterOf` the first that fits in `Order` (C10 stands after C14 in the script, too).
`Classify` takes the sessions one by one, then aggregates and checks; `family_mapping.json` is not
in the repository, so the mapping is a constant, and the one in `MCKillChain` is representative.
`StixBundle` adds one section per step; `Needs` are the families whose absence is a KeyError, and one
that `ATTACK_MAP` does not know is another. `Report` has all addresses of a cluster, of which `cluster.py`
prints the examples that `fingerprint.py` kept. That the library refuses `?` as an address is not modelled.
`counts` are the counters the script keeps by hand beside its objects, `Entries` what is
written, each object with its section.

## Runs

| run | shows | bounds |
|---|---|---|
| `admission_safety` | `SlotAccounting`, `HarvestExact`, `CounterOwned`, refinement of `AuthGate` | 3 connections, 2 addresses, 2 slots, threshold 3, 2 tries |
| `admission_liveness` | handshakes end, backlog drains, slots return, shutdown ends | 3 connections, 1 address, 2 slots, threshold 2 |
| `connection` | `RepliesInOrder`, `LogOrdered`; the multiplexer runs, goroutines end | 1 channel, shell / exec / unparsable exec, 4 messages, queue of 1 |
| `connection_idle` | violation: the idle timeout leaves Handle and the slot | 1 channel |
| `scp_transfer` | protocol, capture, honest names, no mutual wait, the receiver ends | sizes 0..3 around a limit of 2, 2 records, every disk fault |
| `scp_write_error` | violation: after a write error, payload bytes are read as records | 1 record |
| `lifecycle` | `StableKey`, `ServedIsStored`, `SyncedBeforeClose` under kills and power losses | 2 keys, 2 lines per file |
| `virtualfs` | `MadeIsFound`, `CwdExists`, `PanicsExplained`, `FailureStopsLine` | 4 lines or uploads out of 28 lines and 12 uploads |
| `log_stats` | totals are those of the events; nine scripts agree; sprays; periods | every log of 4 lines out of 8 attempts, 8 events and 4 server lines; fractions of 0 to 3 digits, two of which stand for Python's six |
| `session_logs` | groups, shapes, replays and binaries do not depend on the merge | every log of 4 records of 2 sessions out of 8 kinds (the first is the first session's, a handshake comes first), every block, both ends |
| `kill_chain` | clusters, families and bundle add up | 10 or 11 sessions of all families and 3 free ones out of 12 shapes |
| `sessions_rejected` | violation: no session is ever marked accepted | as `log_stats` |

Why the bounds are enough: `admission_safety` has two connections racing on one counter, a
third waiting for a slot, a second address, and a threshold that no single connection can
reach alone with its tries; the counter itself is not bounded in the model, `CounterOwned`
bounds it. The full queue of the multiplexer happens with `ReqBuf = 1` and two requests.
Payloads of 0, one below, at and above the limit occur in `scp_transfer`. In `Lifecycle` a
second key is all it takes to show an unstable one. `virtualfs` makes things under relative,
nested, unclean and absolute names, removes them under others, and lets segments and stages
fail; four commands suffice to remove home and fall, or to make, move, remove and look. In `log_stats` two equal
lines, two orders, three addresses within and outside an hour, two addresses of one IPv6 network, times of every
length within one second, an attempt without remote and time, and two starts of the server all
fit in four lines, and the records are chosen so that every test of every script goes both ways;
in `session_logs` four records are enough for a run cut by another session, by a marker, by
another target, and by the block; in `kill_chain` two free sessions of one address are in
different families, the third is on the list of excluded ones, and the family of the eleventh is
missing in half of the inputs. `report.py`'s chains and alerts use smaller thresholds than the
script (constants of the instance), so that four lines reach them. No run checks deadlock: in every one of
these systems a quiet end (all connections gone, process down, bound reached) is legal.

Fairness. The goroutines of the server run when they can (`WF` on their steps) and timers
run out: a handshake ends because of its 30s read deadline, a program because of its
watcher, a transfer because of its limit. Nothing makes a client dial, offer a password,
type, or leave. `connection` and `connection_idle` assume that a client that is still
connected answers CLOSE with CLOSE, as SSH requires, since a blocked Write ends only then;
`scp_transfer` that the sender reads what it is sent. With `MaxSent` finite, "the client types nothing more" happens
in every behaviour, which is the case the idle timer is for.

Seen while modelling, in the models but without a run of their own:

* a count is forgotten when any connection of an address at the threshold ends, also one whose
  accepted handshake failed (`server.go:105`; the comment at 103 says "only reset after the bot
  reached the shell");
* two channels of one connection run commands on one `Session` at the same time
  (`session.go:55`; `commands.go:23` says "single-threaded per session");
* lines logged while the files are synced and closed are not on disk at exit (`server.go:88`,
  `logger.go:47`), which `SyncedBeforeClose` leaves out by speaking of earlier lines;
* the files of an upload to a relative target are marked where `ls` and `cat` do not look, and
  so is the directory of an unclean one (`scp.go:127-129`; `MadeIsFound` speaks of files of
  absolute targets);

* after a failed write an upload's file can hold less than what its name is the hash of, or, with
  bytes of the protocol read as records, the same or more (`IntactUnlessWriteFails` says it takes a failed write);
* an scp time record (`T`) is not acknowledged: sender and receiver wait for each other until
  the 30s limit (`NoMutualWait` excepts exactly that record);
* `sudo crontab -` and `bash -c "crontab -"` install an empty crontab, since redispatch drops
  their stdin; `||` is taken for two pipes;
* `cd` without an argument, after `rm -rf /root`, and `head -n` or `tail -n` with a negative
  number panic and end the process (`PanicsExplained` says no other modelled command does);
* an empty upload is acknowledged but neither stored nor marked (`AckedIsCaptured` speaks of the others);
* the host key is never synced, so a power loss can replace a key that clients have seen
  (hence `~lost` in `StableKey`); a key file torn by a crash is an error at every later start;
* `seqgroup.py` recognises a repeat only if the copy comes after it in the session: when the
  merge prepended a part of a session without its beginning, the sequence is reordered
  (`CutsNoSession` in `SpliceInvisible` and `BinariesIntact`);
* `gen_stats.py` counts repeated commands of days that are not listed twice (the premise of
  `SessionExact`);
* `quick-report.py` counts a torn command line that no other script sees (line 62, `TotalsAgree`), although
  line 3 promises the "same numbers as report.py render_header" and line 55 "matching ... exactly";
* `quick-report.py`, `report.py` and `periods.py` take all addresses of an IPv6 network that starts alike for one, `stats.py` and
  `gen_stats.py` do not (`TotalsAgree`);
* `parse_ts` of `periods.py` (line 34) makes "...ZZ" of a time with fewer than six digits, and such an event, or such
  a start of the server, is in no period (`PeriodsPartition` speaks of the others);
* "ISO 8601 strings sort lexicographically" (`stats.py:221`, `gen_stats.py:136`) is not true of times without their trailing
  zeros: the span, `timeline.py` and the order in which `replay.py` and `fingerprint.py` show a session
  are right to the second only (`SpanToTheSecond`, `PasswordsAgree`, `ReplayInOrder`);
* `stats.py` reports the span of the first window that reaches the largest number, which need not
  be the tightest; `SprayExact` asks for a window of that span;
* `report.py` takes the smaller of two passwords that continue a chain, and may miss a longer one;
  `periods.py` knows fewer words than `report.py`, so their phases differ for some commands;
* the extraction scripts recognise a repeated chunk without its session; that two sessions send one beginning of a
  command in the same nanosecond is excluded (`ChunksAssumption`), so `BinariesIntact` says nothing of such a collision;
* targets of one name in different directories overwrite each other's extracted binary, and
  `extract_binary.py` puts them in one file;
* the `session_count` of an address in a family counts all its sessions, those of other families
  included.

## Proofs

`AdmissionProofs` proves, for every set of connections and addresses, every `MaxConn`,
`MaxAuthTries` and every integer `AuthThreshold`:

* `TypeCorrect`, `SlotsAccounted`. The inductive invariant is `Inv`: types, slots,
  `TriesLeft` (a connection that may still offer a password has a try left: without it
  `tries` could exceed its type) and `NoStaleCount`. `SlotAccounting` is needed for the type
  of `sem`, which `Release` decrements. Steps either keep `HoldsSlot` or add or remove one
  connection; the cardinality follows from the finite set theorems.
* `HarvestIsExact`: only `Count` and `Cleanup` touch a counter, the first moves counter and
  history together, the second forgets a count whose history was emptied when it reached the
  threshold.
* `ImplementsGate`: a `Count` is a `Refuse` or an `Accept` of the gate, a `Cleanup` a
  `Reset` or a stutter, everything else a stutter. It rests on `HarvestExact`.
* `CountersOwned`: a `Count` at the threshold adds its connection to `Owners`; ownership is
  lost only in the `Cleanup` that forgets the count. `NoStaleCount` keeps a failed handshake
  from becoming an owner.

`LifecycleProofs` proves, for every set of keys and every `MaxLines`, with and without power
losses:

* `TypeCorrect`; it needs `CountsOrdered`, as a power loss cuts a file back to what was synced.
* `OneHostKey`, `KeyStoredBeforeServed`. `StableKey` alone is not inductive: `KeyKept` adds
  that the key shown is the one in the file and that a key is only created when none was ever
  shown, and it speaks of a machine that has not lost power; `ServedIsStored` ties the key in
  memory to the file, and needs no such condition.
* `LogsSynced`: `ClosedInOrder` says that while main closes the files each has at least the lines that were
  due, so a Sync that succeeds covers them, and that the files before the current one are closed, so none is left at the end.

`VirtualFsProofs` proves, for every set of lines, targets and names, `CwdStays`,
`OnlyTwoPanics`, `MadeStays` and `FailureStops`. The invariant adds `HomeExists`, `MadeIsKept`
and `FailedIsOver`, and the proofs use nothing of how paths are resolved.

`MadeIsAlwaysFound` needs exactly that: `ls` of a path's parent lists the names of all paths
below it by comparing prefixes, so what was made is found only because `path.Clean` left no
empty component in it. `PathInv` says so of every path in `made` and `uploads`, and that every
stage still queued came from a line (`StageAssumption` says what those are made of). `Clean` is a
fold, which the community modules define as a recursive function, chosen among those that satisfy
its equation. `RecursExists` shows that there is one: of the subsets for which there
is none a minimal one would have a predecessor that has one. This is induction without the operator
parameter that the provers cannot instantiate: `MinimalSubset` applies the library's theorem on
well-founded relations to a set, and the set is that of the counterexamples.
`StepsNamed` uses it once more for what `Clean` leaves. String literals are opaque to the provers:
`Names` is `STRING` and the two literals the proofs need.

`ConnectionProofs` proves, for any number of channels, requests, lines and messages and any
capacity of the request queue, `TypeCorrect`, `RepliesOrdered` and `LogsOrdered`. Almost all of
the invariant is about one channel (`Good`), and every goroutine keeps it:

* `Answers`: replies carry requests that were taken from the queue, a request that a goroutine
  holds has no reply yet, and the drainer does not exist before the worker took its last request.
  The last point is why two goroutines cannot interleave their answers.
* `OneConfirmed`: while the worker still takes requests, no program was confirmed.
* `LogTells`: exit-status was sent only if the program is stopping, CLOSE only if the channel is
  closed; that is what keeps a timer that fires late from adding to the log.
* `OpensFirst` is about the connection: the first message to a channel opens it and no other does.
  Without it a second opening would start the channel again, its old replies included.

`ScpReceiveProofs` proves, for all sizes, limits, records and disk errors, `TypeCorrect`,
`StaysInStep`, `QuarantineIsHonest`, `AckMeansCaptured` and `NeverBothWait`. `Aligned` describes,
for every position of the reader, what is on the wire, what the sender is doing and how many
acknowledgements are on their way: at a record boundary (`AtLine`) nothing or one record, inside
a file (`InFile`) the bytes the reader still expects, with the nul if it was sent; `Progress` says
what became of the file so far. It holds until a write fails: then the reader leaves bytes on
the wire, and the theorems claim nothing about records any more, as the violated run
`scp_write_error` shows they must. `QuarantineHonest` needs no alignment and holds throughout.

`GenStatsProofs` proves, for every set of records, any times and any `MaxLines`:

* `TypeCorrect`. Counters are functions over the values that occur, so incrementing one needs
  that the value read from a record is in the domain.
* `AuthCounted`: the invariant ties `seen_auth` to the set of keys of the lines read; each total, and each entry of a table by user, password or source address, is
  then the cardinality of a subset of it, and a new key adds one to those it belongs to.
* `SessionCounted`: there are two sets of seen keys. That of the counted messages is always the set
  of events. That of commands only on the listed days; elsewhere the invariant says that each
  line is new, by `RepeatedTimes \subseteq DIRTY_DATES`, and `CommandKeyAssumption` (a session
  does not stamp two commands with one nanosecond) that its key is.
* `SpanCovers`, for every resolution of the clock and all lengths of fractions (`TicksAssumption`: each place is a
  multiple of the smaller ones, which powers of ten are). `RankInSecond` finds the last digit of a time
  within its second (`FitsIn`), and `RankOrder` concludes that of two times the one with the larger `TextRank` never has an
  earlier second; this is why seconds are all that can be claimed.

Of the scripts that are asked about the same lines, the module proves for all logs, windows and thresholds:

* `SpraysExact`. `Sliding` is the invariant of the loop over the attempts of one credential: the window
  starts at the oldest attempt that is recent enough, `ip_counts` counts exactly what is in it, the best
  window is one of those passed and none of them had more addresses. `SlideKeeps` is one turn (`CountSplit`:
  what arrives less what leaves is what is there), `WindowSlides` the loop. `WindowExact` then compares the
  windows that end at an attempt, which the loop looks at, with those that begin at one, which
  `SprayExact` speaks of: the window that begins at an attempt ends at the last attempt in it.
* `PeriodsExact`, of the events and starts that `parse_ts` reads (`ParseTyped`). `PeriodsAre`: sorted starts make periods that end where the next begins, equal
  starts an empty one. `OnePeriod`: the last period that starts no later than an event is the only one it
  lies in. `PickCount` and `SumCount` make of that the sum of attempts, and `ChangesSum` of the changes
  between neighbours the change from first to last.

They rest on a small library: `AtBijection`, `PickReads` and `OrderReads` (what `Pick` and `InOrder` hold,
from the ranks of a linear order, `RanksExist`), and `SumSteps`, that `SumFunction`, a fold in the order of
CHOOSE, can be summed up in any order.

`StixBundleProofs` proves `BundleAlwaysClosed`, for all sessions, all mappings, all families that
result, and all lists of the script that satisfy `ListsAssumption`. The invariant is `Bundling`: the
sections written so far are exactly the `SectionOf` their numbers, the families each of them names
exist, the counters are the cardinalities of what is written of each type, and, from the moment
they are written, the families are those aggregated from the addresses. The four parts of `BundleClosed`
follow from lemmas about single sections:

* `Tallies`: the numbers a section adds to the counters by hand are those of its objects; each is
  a bijection with the list the section is made of.
* `Resolved`: what an object refers to is a family the section needs, an address of a family, or
  an object of the same section.
* `SectionsPlaced`: an id tells its section (`Place`) and, within the section, its object (`Keyed`).
  The one exception is an address that is a command server and also attacked: the sections on
  command servers do not look whether section 2 has it.
* `LinkOfMember`: a relationship between an indicator and an attack pattern is one of section 4.

It needs that what `classify.py` collects is finite (`Finite`), which holds because it takes one
session per step.

`FamiliesAddUp` states `FamilySums`, for all inputs whose sessions have distinct ids
(`InputsAssumption`: `sessions` is a dictionary by id) and all mappings in which only C09 is F2
(`MappingAssumption`, from the comment "stage is a string for C09/F2 only"; for another mapping
the stages would not add up). The invariant `Classifying` says that `ip_data` holds exactly the
records of the sessions before `todo`, each under its address; it adds `Bundling` for the finiteness.
Both sides are then counts of positions in the input:

* `ReportFacts`: the entry of a cluster in `cluster.py`'s report, a sum over patterns, counts the kept
  sessions whose shape the rules put there; `ClassifiedCount`: no two sessions have one record.
* `FamilyParts`: the sessions of a family are those of its whole clusters and, disjoint from them,
  those of C08 with a fingerprint of the family. The rules themselves (`ClusterOf`) are never opened.
* `SumCount`: a sum of the sizes of disjoint sets is the size of their union. It is
  the step from the folds of the community modules to cardinalities, used for the patterns of a
  cluster, the clusters of a family and the stages of F2.

`SeqGroupProofs` proves `SpliceInvisible` for logs, sessions and blocks of any size, from
`LogsAssumption`: the events of one session have increasing times, from the script's header, and
echo commands have a number of bytes. `Source` is the position of the true log that a record of the file is a
copy of, `Taken` are the positions that were read so far. The invariant (`Reading`) says that every session
`Follows` its own positions in `Taken` and that `dups` counts the others; it is needed in this form
because a run of echo chunks that is still open is not yet in the sequence. The argument:

* `StartAdds`, `RunGrows`: a further position either starts a line of the reference and leaves the others,
  or lengthens the last one. `LineFollows`, `ChunkStarts` and `ChunkContinues` show that `push` and
  `push_echo` do the same to a session (`Folding`: its open run is the reference's last line), and
  `FlushCompletes` that nothing is missing at the end.
* `TakenStep`, `NewIsAfter`: a position is either new, and then later than all others of its session, or it is
  in the block. This is where `CutsNoSession` is needed: without it a prepended block comes before
  the beginning of its session.
* `RepeatIsTaken`: a record is dropped exactly when its position was taken before. This is where
  `KnownDates` is needed, and that time and message tell two events of a session apart.
* `SessionEnds`, `ClustersAgree`: the flushed sessions are the reference's, and clusters read nothing else.

The same positions prove `BinariesIntact`, for all logs, blocks and targets and any magic number. No run of
`ingest` is involved: `extract_all_binaries.py` and `extract_binary.py` read the file on their own, so
`BinariesHold` needs only `Given` (the file is a splice of the log) and `CutsNoSession`.

* `TakenIs`, `FirstsAre`: a chunk is a first copy exactly when its position was not taken before, although the
  scripts compare time and text and not the session (`ChunksAssumption`: one nanosecond and one beginning of
  a command are one chunk).
* `NewsInOrder`: of one session, the new positions stand in the file in the order of the log. `PickSame` turns
  an order-preserving correspondence of positions into equality of sequences. This is why no sorting is needed;
  across sessions the order may differ, and the theorem says nothing of it.
* `FlattenKeeps`, `PrefixKept`: the concatenation starts as its first chunk does, so a session that begins
  with the magic number yields a file that does. `FlattenRuns` shows that the recursion of `FlattenSeq` can be run,
  by the least counterexample.
* `BestAre`, `LastTarget`: the choice of a session, and of the last of the targets with one name
  (`TextAssumption`: targets, as text, are in a strict total order).

`ShapesStable` and `ReplayInOrder` need less: `fingerprint.py` and `replay.py` sort, so a block may cut
sessions, and both theorems hold for every block and with repeated records left in.

* `SortedAre`: the sorted records of a session are its positions of the log in the order of their texts, each as often as
  the file holds its record (`Holds`). `KeyOrders` is the sorting, by `TextKey`: in a session the texts of two times differ
  (`TextKeys`, from `SecondsApart`), so equal texts are copies of one record. Position here is that in the log
  sorted by text (`TextLogIs`), which the log is itself only from one second to the next (`ToldInOrder`). `SourceOnto`: the file holds every position.
* `VisitsLead`: every position lies between a stop of the loop and the next. It holds for any steps that go
  forward and not beyond the end, and `RunShape` shows that runs do: a run has no gaps (`Gapless`), and of at
  least `FoldMin` chunks one is a chunk (`FoldAssumption`: that number is not 0, in the script it is 5).
* `OnceEach`: a sequence that stands still while another one moves (`Stutters`) has the same elements left when
  immediate repetitions are removed. The records of a session do so twice: towards the shape, where a run is one
  entry (`LeadsStutter`), and towards the steps of the log, where a repeated record is one (`HeldRepeats`).
  Both therefore collapse to the same list.
* `Spread`: classes of positions that follow each other, written out one after the other, are the whole
  sequence. For `replay.py` this is used twice, too: the classes are those of the lines, each as long as its
  fold (`FoldedLines`), or those of the records, each as many as its copies (`ReplayIs`).

Assumptions: those declared in the modules (finitely many connections, `NoHost` is no address,
`NoKey` and `Torn` are no keys, number types, what lines and uploads are made of, finite lists of
distinct command servers, logs with increasing times per session, chunks that time and text tell apart,
an order of targets, a fold of at least one chunk, places of a fraction each a multiple of the smaller
ones, a kilobyte that is not 0).

Model-checked only:

* liveness (`admission_liveness`, `MultiplexerRuns`, `GoroutinesEnd`, `ReceiverEnds`): it rests
  on fairness, and ENABLED is out of the prover's reach;
* `ScriptsAgree`, `ReportConsistent`: they compare what nine scripts make of the lines of a file, by
  `SelectSeq`, folds and sorting. The provers know nothing of `SelectSeq`, and each comparison is an
  induction over the lines of its own.

## Not modelled

* The text of outputs, log and report formatting, colours, sorting for display.
* Flag parsing; its values are the constants of the modules.
* `$(( ))`, `wc` and the fixed-output commands: functions from text to text without state; of
  `grep` and `awk`, which lines they select.
* Key exchange and encryption, which are the library's; log rotation, where `copytruncate` can lose
  lines between copy and truncate.
* Regular expressions of the analysis scripts: what they decide about a command is a fact that
  comes with it. `gen_stats.count_families` and the escapes of `seqgroup.normalize` are left out.
* The lengths of `report.py`'s bars (line 238, floating point), and the hash by which `seqgroup.py` names a group
  (lines 121, 200): the model groups by the sequence itself. The addresses that `cluster.py` shows are the
  examples `fingerprint.py` kept; `Cluster.Report` carries all of them.
* `seqgroup.write_output`, the markdown of all scripts, and the timestamps and texts of STIX objects.

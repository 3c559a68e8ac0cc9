-------------------------------- MODULE Periods --------------------------------
(****************************************************************************)
(* analysis/periods.py: every start of the server (a "listening" line of    *)
(* server.log) opens a period that lasts until the next one; the events of  *)
(* the other logs are sliced along them and compared.                       *)
(****************************************************************************)
EXTENDS KillChain

(* parse_ts cuts the text after six digits and puts a "Z" behind it.  With   *)
(* fewer digits the cut leaves the first "Z" in, and what has two does not  *)
(* parse: a time that ends before its sixth digit is none.                  *)
ParseTs(t) == IF t = NoText \/ t % (10 * Micro) = 0 THEN NoText ELSE Micros(t)

(* detect_periods                                                           *)
Starts(server) ==
    LET listening == Pick(server, {i \in DOMAIN server : /\ server[i].msg = "listening"
                                                         /\ ParseTs(server[i].time) # NoText})
    IN  ByTime([i \in DOMAIN listening |->
                   [time |-> ParseTs(listening[i].time),
                    auth_threshold |-> listening[i].auth_threshold]])
DetectPeriods(server) ==
    LET starts == Starts(server)
    IN  [i \in DOMAIN starts |->
            [start |-> starts[i].time,
             end |-> IF i < Len(starts) THEN starts[i + 1].time ELSE NoText,
             threshold |-> starts[i].auth_threshold]]

(* Mutant: the end belongs to both periods.                                 *)
InPeriodClosed(e, p) ==
    LET ts == ParseTs(e.time)
    IN  ts # NoText /\ p.start <= ts /\ (p.end = NoText \/ ts <= p.end)

(* slice_events: the end belongs to the next period.                        *)
InPeriod(e, p) ==
    LET ts == ParseTs(e.time)
    IN  /\ ts # NoText
        /\ p.start <= ts
        /\ p.end = NoText \/ ts < p.end
SliceEvents(events, p) == Pick(events, {i \in DOMAIN events : InPeriod(events[i], p)})

(* compute_stats                                                            *)
ComputeStats(auth, sess) ==
    LET attempts == Attempts(auth)
        ips == {HostOf(e) : e \in ToSet(attempts)}
        by_ip == Tally(attempts, ips, HostOf)
    IN  [attempts |-> Len(attempts),
         accepted |-> CountIf(attempts, LAMBDA e : e.outcome = "accepted"),
         unique_ips |-> Cardinality(ips),
         single_shot |-> Cardinality({ip \in ips : by_ip[ip] = 1}),
         commands |-> Len(Commands(sess)),
         passwords |-> {e.password : e \in ToSet(attempts)},
         phases |-> Tally(Commands(sess), DOMAIN PeriodsWords \cup {"OTHER"},
                          LAMBDA e : Classify(PeriodsWords, e.command))]

AllStats(auth, sess, server) ==
    LET periods == DetectPeriods(server)
    IN  [i \in DOMAIN periods |->
            ComputeStats(SliceEvents(auth, periods[i]), SliceEvents(sess, periods[i]))]

(* fmt_delta: the change between neighbours; no percentage from zero.       *)
Delta(before, after) ==
    [change |-> after - before,
     percent |-> IF before = 0 THEN NoText ELSE (100 * (after - before)) \div before]
Deltas(stats) ==
    [i \in 1..(Len(stats) - 1) |->
        [field \in {"attempts", "unique_ips", "single_shot", "accepted", "commands"} |->
            Delta(stats[i][field], stats[i + 1][field])]]
================================================================================

-------------------------------- MODULE Report ---------------------------------
(****************************************************************************)
(* analysis/report.py: the numbers behind each section of the report.  All  *)
(* sections work on the lines that load could parse.                        *)
(****************************************************************************)
EXTENDS KillChain

CONSTANTS
    TicksPerHour,
    FeedbackMin,    \* rejected attempts after the first accept that raise an alert
    VolumeMax       \* attempts of one address above which there is an alert

Digits == {"0", "1", "2", "3", "4", "5", "6", "7", "8", "9"}

(* render_header.  Only the attempts have a remote; the outcome and the     *)
(* times are taken from every line of auth.log.                             *)
SourceIPs(auth) ==
    {Host(e.remote) : e \in {q \in ToSet(Attempts(auth)) : q.remote # NoText}}
Times(auth) == {Micros(e.time) : e \in {q \in ToSet(auth) : q.time # NoText}}
Header(auth, sess) ==
    [attempts |-> Len(Attempts(auth)),
     ips |-> Cardinality(SourceIPs(auth)),
     accepted |-> CountIf(auth, LAMBDA e : e.outcome = "accepted"),
     commands |-> Len(Commands(sess)),
     span |-> IF Times(auth) = {} THEN <<>> ELSE <<Min(Times(auth)), Max(Times(auth))>>]

(* render_heatmap: attempts per hour of the day, which the bars are drawn   *)
(* from; an attempt whose time does not parse is in none.                   *)
ByHour(auth) ==
    LET timed == SelectSeq(Attempts(auth), LAMBDA e : e.time # NoText)
    IN  Tally(timed, 0..23, LAMBDA e : (e.time \div TicksPerHour) % 24)

(* render_ips: one row per address, which is empty for an attempt without a *)
(* remote, and the sessions that sent an scp.                               *)
Visitors(auth) == {HostOf(e) : e \in ToSet(Attempts(auth))}
AttemptsOf(auth, ip) == SelectSeq(Attempts(auth), LAMBDA e : HostOf(e) = ip)
IpRow(auth, ip) ==
    LET own == AttemptsOf(auth, ip)
        uniq_pw == {e.password : e \in ToSet(own)}
    IN  [attempts |-> Len(own),
         accepted |-> CountIf(own, LAMBDA e : e.outcome = "accepted"),
         uniq_pw |-> Cardinality(uniq_pw)]
DropperSids(sess) == {e.sid : e \in {q \in ToSet(sess) : IsScpUpload(q)}}
IpRows(auth) ==
    SetToSortSeq(Visitors(auth),
                 LAMBDA a, b : Len(AttemptsOf(auth, a)) > Len(AttemptsOf(auth, b)))

(* render_credentials: chains of numeric passwords, each one digit longer   *)
(* than the one before.  A password already in a chain starts no other; of  *)
(* two that could follow, the smaller is taken.                             *)
Extends(q, p) == Len(q) = Len(p) + 1 /\ IsPrefix(p, q)
DigitValue(c) == CHOOSE n \in 0..9 : ToString(n) = c
NumericLess(p, q) ==
    \/ Len(p) < Len(q)
    \/ /\ Len(p) = Len(q)
       /\ \E i \in DOMAIN p : /\ SubSeq(p, 1, i - 1) = SubSeq(q, 1, i - 1)
                              /\ DigitValue(p[i]) < DigitValue(q[i])
Numeric(auth) ==
    SetToSortSeq({p \in {e.password : e \in ToSet(Attempts(auth))} \ {NoText} :
                     ToSet(p) \subseteq Digits}, NumericLess)
ChainFrom(p, later) ==
    FoldLeft(LAMBDA chain, q : IF Extends(q, Last(chain)) THEN Append(chain, q) ELSE chain,
             <<p>>, later)
Chains(auth) ==
    LET numeric == Numeric(auth)
        Step(chains, i) ==
            LET seen == UNION {ToSet(ch) : ch \in ToSet(chains)}
                chain == ChainFrom(numeric[i], SubSeq(numeric, i + 1, Len(numeric)))
            IN  IF numeric[i] \in seen \/ Len(chain) < 3 THEN chains
                ELSE Append(chains, chain)
    IN  FoldLeft(Step, <<>>, [i \in DOMAIN numeric |-> i])

----------------------------------------------------------------------------
(* render_sessions: the commands of each session in file order, the address *)
(* of its handshake, the bot family and the story.                          *)
CommandsOf(sess, sid) == SelectSeq(Commands(sess), LAMBDA e : e.sid = sid)
WithRemote(sess, sid) == SelectSeq(sess, LAMBDA e : e.sid = sid /\ e.remote # NoText)
Unknown == <<"?">>

(* Mutant: here the address is what stands before the port.                 *)
WholeRemoteOf(sess, sid) ==
    LET lines == WithRemote(sess, sid)
    IN  IF lines = <<>> THEN Unknown ELSE Front(Last(lines).remote)

RemoteOf(sess, sid) ==
    LET lines == WithRemote(sess, sid)
    IN  IF lines = <<>> THEN Unknown ELSE Host(Last(lines).remote)

SomeCmd(cmds, Test(_)) == \E i \in DOMAIN cmds : Test(cmds[i])
AnyHas(cmds, words) == SomeCmd(cmds, LAMBDA c : \E w \in words : Has(c, w))

(* fingerprint_bot: first rule that fits; the caller passes no banner.      *)
Mining == {"xmrig", "minerd", "stratum", "monero"}
FingerprintBot(cmds) ==
    LET scp_t == AnyHas(cmds, {"scp"}) /\ AnyHas(cmds, {"-t"})
        lib_dir == AnyHas(cmds, {"/lib/x"}) /\ AnyHas(cmds, {"mkdir"})
        lspci == AnyHas(cmds, {"lspci"})
        nproc == AnyHas(cmds, {"nproc"})
    IN  CASE lspci /\ nproc /\ (scp_t \/ lib_dir) -> "Diicot"
          [] ~(lspci /\ nproc) /\ (scp_t \/ lib_dir) -> "dropper"
          [] ~(scp_t \/ lib_dir) /\ AnyHas(cmds, {"curl", "wget"} \cup Mining) -> "downloader"
          [] OTHER -> IF lspci \/ nproc THEN "miner recon" ELSE "generic scanner"

(* narrate: what the story tells, in the order of the kill chain.           *)
Narrate(cmds) ==
    LET phases == {Classify(ReportWords, cmds[i]) : i \in DOMAIN cmds}
        order == <<"RECON", "STAGE", "UPLOAD", "EXEC", "PERSIST", "CLEANUP">>
    IN  SelectSeq(order, LAMBDA p : p \in phases)

SessionBlocks(sess) ==
    [sid \in {e.sid : e \in ToSet(Commands(sess))} |->
        LET events == CommandsOf(sess, sid)
            cmds == [i \in DOMAIN events |-> events[i].command]
        IN  [commands |-> Len(cmds), ip |-> RemoteOf(sess, sid),
             dropper |-> SomeCmd(cmds, LAMBDA c : Has(c, "scp") /\ Has(c, "-t")),
             family |-> FingerprintBot(cmds), story |-> Narrate(cmds)]]

----------------------------------------------------------------------------
(* render_alerts: an address goes on after its first accepted attempt, by   *)
(* the order of the texts, or makes many.  (An accepted attempt without a   *)
(* time is an error there.)                                                 *)
FeedbackIPs(auth) ==
    {ip \in Visitors(auth) :
        LET own == AttemptsOf(auth, ip)
            accepted_times == {e.time : e \in {q \in ToSet(own) : q.outcome = "accepted"}}
            IsAfter(e) == /\ e.outcome = "rejected" /\ e.time # NoText
                          /\ TextBefore(FirstText(accepted_times), e.time)
        IN  accepted_times # {} /\ CountIf(own, IsAfter) >= FeedbackMin}
VolumeIPs(auth) == {ip \in Visitors(auth) : Len(AttemptsOf(auth, ip)) > VolumeMax}

(* Which phases to watch for: at most one of EXEC and STAGE, and PERSIST.   *)
Predictions(sess) ==
    LET phases == {Classify(ReportWords, e.command) : e \in ToSet(Commands(sess))}
        upload == "UPLOAD" \in phases /\ "EXEC" \notin phases
    IN  (IF upload THEN {"EXEC"} ELSE {})
        \cup (IF ~upload /\ "RECON" \in phases /\ "STAGE" \notin phases
              THEN {"STAGE"} ELSE {})
        \cup (IF "EXEC" \in phases /\ "PERSIST" \notin phases THEN {"PERSIST"} ELSE {})

Alerts(auth, sess) ==
    [scp |-> DropperSids(sess), feedback |-> FeedbackIPs(auth),
     volume |-> VolumeIPs(auth), predictions |-> Predictions(sess)]
================================================================================

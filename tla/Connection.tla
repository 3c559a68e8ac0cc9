------------------------------ MODULE Connection ------------------------------
(***************************************************************************)
(* One SSH connection after its handshake (session.Handle): the goroutine  *)
(* that accepts channels, and for each channel the goroutine that answers  *)
(* its requests and then runs a shell or a command, the goroutine that     *)
(* drains later requests, and the watcher with the idle (5 min) or write   *)
(* (2 min) timer.                                                          *)
(*                                                                         *)
(* External (golang.org/x/crypto/ssh): the multiplexer goroutine, which    *)
(* delivers the client's messages in order and blocks when a channel's     *)
(* request queue is full; ssh.Channel, whose Close sends CLOSE and makes   *)
(* later sends fail, while a blocked Read or Write returns only when the   *)
(* client's CLOSE arrives or the connection ends.                          *)
(***************************************************************************)
EXTENDS Integers, Sequences

CONSTANTS
    Chan,       \* channels the client may open
    Request,    \* requests it may send: [kind : RequestKind, want : BOOLEAN]
    Item,       \* what it may type into a shell: a subset of ItemKind
    ReqBuf,     \* capacity of a channel's request queue (16 in the library)
    MaxSent     \* bound: messages the client sends in all

(* "scp" is an exec of scp -t, "badexec" one whose payload does not parse,  *)
(* "pty" stands for pty-req and env.                                        *)
RequestKind == {"shell", "exec", "scp", "badexec", "pty", "other"}

(* key: a byte that is echoed; silent: one that is ignored; cmd, scp, exit: *)
(* a line; eot: ^D on an empty line; eof: end of input.                     *)
ItemKind == {"key", "silent", "cmd", "scp", "exit", "eot", "eof"}

ASSUME RequestAssumption == Request \subseteq [kind : RequestKind, want : BOOLEAN]
ASSUME ItemAssumption == Item \subseteq ItemKind
ASSUME BoundAssumption == ReqBuf \in Nat \ {0} /\ MaxSent \in Nat

VARIABLES
    up,         \* is the transport alive?
    handle,     \* session.Handle: "serving" | "returned"
    wire,       \* messages of the client the multiplexer has not delivered
    sent,       \* how many the client sent
    client,     \* the client's end of a channel: "idle" | "open" | "closed"
    chan        \* the server's end of a channel (see NoChannel)

vars == <<up, handle, wire, sent, client, chan>>

Idle == {"none", "done"}
Running == {"prompt", "read", "echo", "newline", "output", "dispatch",
            "ready", "transfer", "status", "stop", "close"}

NoChannel ==
    [worker  |-> "none",    \* handleChannel: Idle, "offered", "foreign",
                            \* "requests", "got" (holds a request) or Running
     cur     |-> 0,         \* the request it holds, then the one it serves
     line    |-> "none",    \* the input that brought the shell here
     drainer |-> "none",    \* drainRequests: Idle, "waiting", "got"
     watcher |-> "none",    \* the timer goroutine: Idle, "armed", "fired"
     asked   |-> <<>>,      \* requests delivered so far
     taken   |-> 0,         \* how many of them were received from the queue
     replies |-> <<>>,      \* history: <<request, verdict>> sent to the client
     input   |-> <<>>,      \* typed, not yet read
     log     |-> <<>>,      \* history: "out" | "status" | "close" sent
     reading |-> TRUE,      \* does the client take our output?
     closed  |-> FALSE,     \* CLOSE sent: every later send fails
     hungup  |-> FALSE]     \* the client's CLOSE came, or the transport died

Init ==
    /\ up = TRUE
    /\ handle = "serving"
    /\ wire = <<>>
    /\ sent = 0
    /\ client = [c \in Chan |-> "idle"]
    /\ chan = [c \in Chan |-> NoChannel]

Become(c, r) == chan' = [chan EXCEPT ![c] = r] /\ UNCHANGED <<up, handle, wire, sent, client>>
Move(c, to) == [chan[c] EXCEPT !.worker = to]

(* A message to the client; consecutive outputs are one. *)
Sent(r, m) ==
    IF r.closed \/ (m = "out" /\ r.log # <<>> /\ r.log[Len(r.log)] = "out")
    THEN r
    ELSE [r EXCEPT !.log = Append(@, m), !.closed = (m = "close")]

Replied(r, i, ok) ==
    IF r.closed \/ ~r.asked[i].want THEN r
    ELSE [r EXCEPT !.replies = Append(@, <<i, ok>>)]

Hung(r) == [Sent(r, "close") EXCEPT !.hungup = TRUE]

-------------------------------------------------------------------------------
(* The client. *)

Post(m) ==
    /\ up /\ sent < MaxSent
    /\ wire' = Append(wire, m)
    /\ sent' = sent + 1
    /\ UNCHANGED <<up, handle, chan>>

OpenChannel(c) ==
    /\ client[c] = "idle"
    /\ client' = [client EXCEPT ![c] = "open"]
    /\ \E t \in {"offered", "foreign"} : Post([type |-> t, to |-> c])

(* A client uses a channel once its opening was confirmed. *)
Usable(c) ==
    /\ client[c] = "open"
    /\ chan[c].worker \notin {"none", "offered", "foreign"}

SendRequest(c) ==
    /\ Usable(c)
    /\ \E r \in Request : Post([type |-> "request", to |-> c, body |-> r])
    /\ UNCHANGED client

Type(c) ==
    /\ Usable(c)
    /\ \E i \in Item : Post([type |-> "data", to |-> c, body |-> i])
    /\ UNCHANGED client

(* Of its own accord, or in answer to our CLOSE. *)
ClientClose(c) ==
    /\ up /\ Usable(c)
    /\ client' = [client EXCEPT ![c] = "closed"]
    /\ wire' = Append(wire, [type |-> "close", to |-> c])
    /\ UNCHANGED <<up, handle, sent, chan>>

StopReading(c) ==
    /\ up /\ Usable(c) /\ chan[c].reading
    /\ Become(c, [chan[c] EXCEPT !.reading = FALSE])

(* The transport dies: undelivered messages are lost, every channel ends. *)
Disconnect ==
    /\ up
    /\ up' = FALSE
    /\ wire' = <<>>
    /\ chan' = [c \in Chan |->
                  IF chan[c].worker = "none" THEN chan[c] ELSE Hung(chan[c])]
    /\ UNCHANGED <<handle, sent, client>>

-------------------------------------------------------------------------------
(* The multiplexer. *)

Deliver ==
    LET m == Head(wire)
        r == chan[m.to]
    IN  /\ wire # <<>>
        /\ wire' = Tail(wire)
        /\ \/ /\ m.type \in {"offered", "foreign"}
              /\ chan' = [chan EXCEPT ![m.to].worker = m.type]
           \/ /\ m.type = "request" /\ Len(r.asked) - r.taken < ReqBuf
              /\ chan' = [chan EXCEPT ![m.to].asked = Append(@, m.body)]
           \/ /\ m.type = "data"
              /\ chan' = [chan EXCEPT ![m.to].input = Append(@, m.body)]
           \/ /\ m.type = "close"
              /\ chan' = [chan EXCEPT ![m.to] = Hung(r)]
        /\ UNCHANGED <<up, handle, sent, client>>

-------------------------------------------------------------------------------
(* session.Handle. *)

(* Accept sends a confirmation, and fails if the transport is gone. *)
AcceptChannel(c) ==
    /\ handle = "serving"
    /\ chan[c].worker = "offered"
    /\ Become(c, Move(c, IF up THEN "requests" ELSE "done"))

RejectChannel(c) ==
    /\ handle = "serving"
    /\ chan[c].worker = "foreign"
    /\ chan' = [chan EXCEPT ![c].worker = "done"]
    /\ client' = [client EXCEPT ![c] = "closed"]
    /\ UNCHANGED <<up, handle, wire, sent>>

(* The loop over chans ends when the transport does, and not before. *)
HandleReturns ==
    /\ handle = "serving"
    /\ ~up
    /\ \A c \in Chan : chan[c].worker \notin {"offered", "foreign"}
    /\ handle' = "returned"
    /\ UNCHANGED <<up, wire, sent, client, chan>>

-------------------------------------------------------------------------------
(* Mutant: drainRequests is started before the reply to shell is sent. *)
TakeAndHandOver(c) ==
    LET r == chan[c]
    IN  /\ r.worker = "requests"
        /\ r.taken < Len(r.asked)
        /\ Become(c, [r EXCEPT !.worker = "got", !.taken = @ + 1, !.cur = r.taken + 1,
                               !.drainer = "waiting"])

(* handleChannel: requests until a program starts. *)

TakeRequest(c) ==
    LET r == chan[c]
    IN  /\ r.worker = "requests"
        /\ r.taken < Len(r.asked)
        /\ Become(c, [r EXCEPT !.worker = "got", !.taken = @ + 1, !.cur = r.taken + 1])

NoMoreRequests(c) ==
    LET r == chan[c]
    IN  /\ r.worker = "requests"
        /\ r.taken = Len(r.asked) /\ r.hungup
        /\ Become(c, Move(c, "close"))

(* Mutant: nobody drains the requests that follow. *)
StartUndrained(c) ==
    LET r == chan[c]
        kind == r.asked[r.cur].kind
        first == [shell |-> "prompt", exec |-> "dispatch", scp |-> "ready"]
    IN  /\ r.worker = "got"
        /\ kind \in DOMAIN first
        /\ Become(c, [Replied(r, r.cur, TRUE) EXCEPT !.worker = first[kind], !.watcher = "armed"])

(* A shell or an exec is confirmed, and only then is the queue handed to    *)
(* drainRequests and the program (with its watcher) started.                *)
StartProgram(c) ==
    LET r == chan[c]
        kind == r.asked[r.cur].kind
        first == [shell |-> "prompt", exec |-> "dispatch", scp |-> "ready"]
    IN  /\ r.worker = "got"
        /\ kind \in DOMAIN first
        /\ Become(c, [Replied(r, r.cur, TRUE) EXCEPT
                        !.worker = first[kind], !.drainer = "waiting", !.watcher = "armed"])

AnswerRequest(c) ==
    LET r == chan[c]
        kind == r.asked[r.cur].kind
    IN  /\ r.worker = "got"
        /\ kind \in {"pty", "badexec", "other"}
        /\ Become(c, [Replied(r, r.cur, kind = "pty") EXCEPT !.worker = "requests"])

-------------------------------------------------------------------------------
(* drainRequests. *)

DrainTake(c) ==
    LET r == chan[c]
    IN  /\ r.drainer = "waiting"
        /\ r.taken < Len(r.asked)
        /\ Become(c, [r EXCEPT !.drainer = "got", !.taken = @ + 1])

DrainAnswer(c) ==
    LET r == chan[c]
    IN  /\ r.drainer = "got"
        /\ Become(c, [Replied(r, r.taken, FALSE) EXCEPT !.drainer = "waiting"])

DrainEnd(c) ==
    LET r == chan[c]
    IN  /\ r.drainer = "waiting"
        /\ r.taken = Len(r.asked) /\ r.hungup
        /\ Become(c, [r EXCEPT !.drainer = "done"])

-------------------------------------------------------------------------------
(* runShell, runExec and the frame of runSCPReceive. *)

IsShell(c) == chan[c].asked[chan[c].cur].kind = "shell"

(* Where a program goes when a write succeeds. *)
AfterWrite(c) ==
    CASE chan[c].worker = "prompt" -> "read"
      [] chan[c].worker = "echo" -> "read"
      [] chan[c].worker = "newline" ->
           [cmd |-> "dispatch", scp |-> "ready", exit |-> "status"][chan[c].line]
      [] chan[c].worker = "output" -> IF IsShell(c) THEN "prompt" ELSE "status"
      [] chan[c].worker = "ready" -> "transfer"

(* ch.Write: waits for the client to make room, fails on a closed channel,  *)
(* and a program whose write failed is over.                                *)
Write(c) ==
    LET r == chan[c]
    IN  /\ r.worker \in {"prompt", "echo", "newline", "output", "ready"}
        /\ \/ /\ r.reading /\ ~r.closed
              /\ Become(c, [Sent(r, "out") EXCEPT !.worker = AfterWrite(c)])
           \/ /\ r.hungup \/ (r.reading /\ r.closed)
              /\ Become(c, Move(c, "stop"))

(* ch.Read of one byte, up to the end of its line; each resets the timer.   *)
Read(c) ==
    LET r == chan[c]
        i == Head(r.input)
        to == [key |-> "echo", silent |-> "read", eot |-> "status", eof |-> "stop"]
    IN  /\ r.worker = "read"
        /\ \/ /\ r.input # <<>>
              /\ Become(c, [r EXCEPT !.input = Tail(@), !.line = i, !.worker =
                              IF i \in DOMAIN to THEN to[i] ELSE "newline"])
           \/ /\ r.input = <<>> /\ r.hungup
              /\ Become(c, Move(c, "stop"))

(* sess.dispatch runs on the Session all channels of the connection share.  *)
DispatchEnds(c) ==
    /\ chan[c].worker = "dispatch"
    /\ Become(c, Move(c, "output"))

(* runSCPReceive ends: transfer over, error, or its own 30s limit. *)
TransferEnds(c) ==
    /\ chan[c].worker = "transfer"
    /\ Become(c, Move(c, "status"))
(* Mutant: the shell goes on after exit. *)
ExitStatusGoesOn(c) ==
    /\ chan[c].worker = "status"
    /\ Become(c, [Sent(chan[c], "status") EXCEPT !.worker = IF IsShell(c) THEN "prompt" ELSE "stop"])


ExitStatus(c) ==
    /\ chan[c].worker = "status"
    /\ Become(c, [Sent(chan[c], "status") EXCEPT !.worker = "stop"])

(* The deferred calls: close(stop), then ch.Close(). *)
Stop(c) ==
    /\ chan[c].worker = "stop"
    /\ Become(c, Move(c, "close"))

Close(c) ==
    /\ chan[c].worker = "close"
    /\ Become(c, [Sent(chan[c], "close") EXCEPT !.worker = "done"])

-------------------------------------------------------------------------------
(* The watcher: fires if the timer runs out, ends when stop is closed.      *)

TimerFires(c) ==
    /\ chan[c].watcher = "armed"
    /\ Become(c, [chan[c] EXCEPT !.watcher = "fired"])
(* Mutant: the timeout is logged, the channel stays open. *)
WatcherLogsOnly(c) ==
    /\ chan[c].watcher = "fired"
    /\ Become(c, [chan[c] EXCEPT !.watcher = "done"])


WatcherCloses(c) ==
    /\ chan[c].watcher = "fired"
    /\ Become(c, [Sent(chan[c], "close") EXCEPT !.watcher = "done"])

WatcherStops(c) ==
    /\ chan[c].watcher = "armed"
    /\ chan[c].worker \in {"close", "done"}
    /\ Become(c, [chan[c] EXCEPT !.watcher = "done"])

-------------------------------------------------------------------------------
Worker(c) ==
    \/ TakeRequest(c) \/ NoMoreRequests(c) \/ StartProgram(c) \/ AnswerRequest(c)
    \/ Write(c) \/ Read(c) \/ DispatchEnds(c) \/ TransferEnds(c)
    \/ ExitStatus(c) \/ Stop(c) \/ Close(c)
Drainer(c) == DrainTake(c) \/ DrainAnswer(c) \/ DrainEnd(c)
Watcher(c) == TimerFires(c) \/ WatcherCloses(c) \/ WatcherStops(c)
Accepting(c) == AcceptChannel(c) \/ RejectChannel(c)
Client(c) ==
    \/ OpenChannel(c) \/ SendRequest(c) \/ Type(c) \/ ClientClose(c) \/ StopReading(c)

Next ==
    \/ \E c \in Chan : Client(c) \/ Accepting(c) \/ Worker(c) \/ Drainer(c) \/ Watcher(c)
    \/ Disconnect \/ Deliver \/ HandleReturns

Spec == Init /\ [][Next]_vars

(* Every goroutine of the server runs and timers run out.  Of the client it  *)
(* is assumed only that it answers our CLOSE with its own, as SSH requires.  *)
Fairness ==
    /\ WF_vars(Deliver)
    /\ WF_vars(HandleReturns)
    /\ \A c \in Chan :
         /\ WF_vars(Accepting(c))
         /\ WF_vars(Worker(c))
         /\ WF_vars(Drainer(c))
         /\ WF_vars(Watcher(c))
         /\ WF_vars(chan[c].closed /\ ClientClose(c))

FairSpec == Spec /\ Fairness

-------------------------------------------------------------------------------
(* Properties.                                                             *)

(* session.go:73-118: the requests of a channel are answered in the order   *)
(* they came, none twice, although two goroutines answer them in turn       *)
(* (RFC 4254 5.4: replies carry no identifier, only their order); and at    *)
(* most one shell or exec is confirmed (6.5), also when the client sends    *)
(* the next one while the first still runs.                                 *)
RepliesInOrder ==
    \A c \in Chan :
        LET replies == chan[c].replies
            IsProgram(p) == p[2] /\ chan[c].asked[p[1]].kind # "pty"
        IN  \A i, j \in DOMAIN replies :
               i < j => /\ replies[i][1] < replies[j][1]
                        /\ ~(IsProgram(replies[i]) /\ IsProgram(replies[j]))

(* shell.go, exec.go: exit-status is sent at most once, after all output,   *)
(* and nothing follows CLOSE, however timers, errors and lines interleave.  *)
LogOrdered ==
    \A c \in Chan : \A i, j \in DOMAIN chan[c].log :
        i < j => \/ chan[c].log[i] = "out"
                 \/ chan[c].log[i] = "status" /\ chan[c].log[j] = "close"

(* session.go:85,101 ("go drainRequests"): the multiplexer is never stuck    *)
(* for good behind a full request queue, so input and CLOSE always arrive.  *)
MultiplexerRuns == wire # <<>> ~> wire = <<>>

(* shell.go:18 and exec.go:14: a program ends although its client types     *)
(* nothing or stops reading, and its watcher ends with it; and no goroutine *)
(* outlives the transport for ever.                                         *)
GoroutinesEnd ==
    /\ \A c \in Chan :
           chan[c].worker \in Running ~> chan[c].worker = "done" /\ chan[c].watcher \in Idle
    /\ ~up ~> /\ handle = "returned"
              /\ \A c \in Chan :
                     {chan[c].worker, chan[c].drainer, chan[c].watcher} \subseteq Idle

(* shell.go:18: "bots that connect and just sit there hold a goroutine       *)
(* forever -- drop after 5min idle": once the idle timer of a connection's   *)
(* shell fired, the goroutine in Handle ends.                               *)
IdleBotsDropped ==
    \A c \in Chan : chan[c].watcher = "fired" ~> handle = "returned"
===============================================================================

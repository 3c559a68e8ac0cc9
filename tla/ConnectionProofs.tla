---------------------------- MODULE ConnectionProofs ----------------------------
(***************************************************************************)
(* RepliesInOrder and LogOrdered for any number of channels, any requests   *)
(* and input, any capacity of the request queue and any number of messages. *)
(* Both follow from an invariant of the single channel, which every         *)
(* goroutine keeps, and from the fact that a channel is opened once.        *)
(***************************************************************************)
EXTENDS Connection, TLAPS

Opening == {"offered", "foreign"}
BeforeProgram == {"none", "offered", "foreign", "requests", "got"}

Message ==
    [type : Opening \cup {"close"}, to : Chan]
        \cup [type : {"request"}, to : Chan, body : Request]
        \cup [type : {"data"}, to : Chan, body : Item]

Typed(r) ==
    /\ DOMAIN r = DOMAIN NoChannel
    /\ r.worker \in BeforeProgram \cup Running \cup {"done"}
    /\ r.cur \in Nat /\ r.taken \in Nat
    /\ r.line \in ItemKind \cup {"none"}
    /\ r.drainer \in Idle \cup {"waiting", "got"}
    /\ r.watcher \in Idle \cup {"armed", "fired"}
    /\ r.asked \in Seq(Request)
    /\ r.replies \in Seq(Nat \X BOOLEAN)
    /\ r.input \in Seq(Item)
    /\ r.log \in Seq({"out", "status", "close"})
    /\ r.reading \in BOOLEAN /\ r.closed \in BOOLEAN /\ r.hungup \in BOOLEAN

TypeOK ==
    /\ up \in BOOLEAN
    /\ handle \in {"serving", "returned"}
    /\ wire \in Seq(Message)
    /\ sent \in Nat
    /\ client \in [Chan -> {"idle", "open", "closed"}]
    /\ DOMAIN chan = Chan /\ \A c \in Chan : Typed(chan[c])

(* A line that is neither end of input nor a key is one that is run. *)
LineKnown(r) == r.worker = "newline" => r.line \in {"cmd", "scp", "exit"}

(* Replies carry the requests taken from the queue, in their order; the one  *)
(* that a goroutine holds is not answered; and of the two goroutines that    *)
(* take requests the second starts when the first has stopped taking any.    *)
InOrder(r) ==
    /\ \A i \in DOMAIN r.replies : r.replies[i][1] \in 1..r.taken
    /\ \A i, j \in DOMAIN r.replies : i < j => r.replies[i][1] < r.replies[j][1]
Answers(r) ==
    /\ r.taken <= Len(r.asked)
    /\ InOrder(r)
    /\ r.worker = "got" => r.cur = r.taken
    /\ r.worker = "got" \/ r.drainer = "got" =>
           r.taken > 0 /\ \A i \in DOMAIN r.replies : r.replies[i][1] < r.taken
    /\ r.worker \in BeforeProgram => r.drainer = "none"

(* No program is confirmed before one is started, and no second one. *)
Confirms(r, i) == r.replies[i][2] /\ r.asked[r.replies[i][1]].kind # "pty"
OneConfirmed(r) ==
    /\ r.worker \in BeforeProgram => \A i \in DOMAIN r.replies : ~Confirms(r, i)
    /\ \A i, j \in DOMAIN r.replies : i < j => ~(Confirms(r, i) /\ Confirms(r, j))

(* What was sent tells where the program is: after its exit status it stops, *)
(* and after CLOSE every send fails.                                        *)
Stopping == {"stop", "close", "done"}
LogSorted(r) ==
    \A i, j \in DOMAIN r.log :
        i < j => r.log[i] = "out" \/ (r.log[i] = "status" /\ r.log[j] = "close")
LogTells(r) ==
    /\ \A i \in DOMAIN r.log :
          /\ r.log[i] = "close" => r.closed
          /\ r.log[i] = "status" => r.worker \in Stopping
    /\ LogSorted(r)

Good(r) == Typed(r) /\ LineKnown(r) /\ Answers(r) /\ OneConfirmed(r) /\ LogTells(r)

(* A channel is opened by the first message to it and by no other. *)
OpensFirst ==
    /\ \A i \in DOMAIN wire :
          /\ client[wire[i].to] # "idle"
          /\ wire[i].type \in Opening => chan[wire[i].to].worker = "none"
    /\ \A i, j \in DOMAIN wire :
          i < j /\ wire[i].to = wire[j].to => wire[j].type \notin Opening
    /\ \A c \in Chan : client[c] = "idle" => chan[c].worker = "none"

Inv == TypeOK /\ OpensFirst /\ \A c \in Chan : Good(chan[c])

-------------------------------------------------------------------------------
(* What a reply and a message to the client do to a channel. *)

Held(r) == r.taken > 0 /\ \A i \in DOMAIN r.replies : r.replies[i][1] < r.taken

LEMMA RepliedGood ==
    ASSUME NEW r, Typed(r), Answers(r), Held(r), NEW ok \in BOOLEAN,
           NEW s, s = Replied(r, r.taken, ok)
    PROVE  /\ Typed(s)
           /\ \A f \in DOMAIN NoChannel \ {"replies"} : s[f] = r[f]
           /\ InOrder(s)
           /\ \A k \in DOMAIN s.replies :
                 Confirms(s, k) =>
                     \/ k \in DOMAIN r.replies /\ Confirms(r, k)
                     \/ ok /\ r.asked[r.taken].kind # "pty" /\ k = Len(r.replies) + 1
<1>1. CASE s = r
    BY <1>1 DEF Answers
<1>2. CASE s = [r EXCEPT !.replies = Append(@, <<r.taken, ok>>)]
    <2> DEFINE n == Len(r.replies)
    <2>1. Typed(s) /\ \A f \in DOMAIN NoChannel \ {"replies"} : s[f] = r[f]
        BY <1>2 DEF Typed, NoChannel
    <2>2. /\ n \in Nat
          /\ DOMAIN r.replies = 1..n /\ DOMAIN s.replies = 1..(n + 1)
          /\ s.replies[n + 1] = <<r.taken, ok>>
          /\ \A k \in 1..n : s.replies[k] = r.replies[k]
        BY <1>2 DEF Typed, NoChannel
    <2>3. s.taken = r.taken /\ s.asked = r.asked /\ r.taken \in Nat
        BY <2>1 DEF Typed, NoChannel
    <2>4. InOrder(s)
        <3>1. s.replies[n + 1][1] = r.taken
            BY <2>2
        <3>2. \A k \in 1..n : s.replies[k][1] \in 1..r.taken /\ s.replies[k][1] < r.taken
            BY <2>2 DEF InOrder, Answers, Held
        <3>3. \A k \in DOMAIN s.replies : s.replies[k][1] \in 1..s.taken
            BY <2>2, <2>3, <3>1, <3>2 DEF Held
        <3>4. \A j, k \in DOMAIN s.replies : j < k => s.replies[j][1] < s.replies[k][1]
            <4> SUFFICES ASSUME NEW j \in DOMAIN s.replies, NEW k \in DOMAIN s.replies, j < k
                         PROVE  s.replies[j][1] < s.replies[k][1]
                OBVIOUS
            <4>1. j \in 1..n
                BY <2>2
            <4>2. CASE k = n + 1
                BY <4>1, <4>2, <3>1, <3>2
            <4>3. CASE k \in 1..n
                <5>1. r.replies[j][1] < r.replies[k][1]
                    BY <2>2, <4>1, <4>3 DEF InOrder, Answers
                <5> QED
                    BY <5>1, <2>2, <4>1, <4>3
            <4> QED
                BY <2>2, <4>2, <4>3
        <3> QED
            BY <3>3, <3>4 DEF InOrder
    <2>5. \A k \in 1..n : Confirms(s, k) <=> Confirms(r, k)
        BY <2>2, <2>3 DEF Confirms
    <2>6. Confirms(s, n + 1) => ok /\ r.asked[r.taken].kind # "pty"
        BY <2>2, <2>3 DEF Confirms
    <2> QED
        BY <2>1, <2>2, <2>4, <2>5, <2>6
<1> QED
    BY <1>1, <1>2 DEF Replied

LEMMA SentGood ==
    ASSUME NEW r, Typed(r), LogTells(r), NEW m \in {"out", "status", "close"},
           m # "close" => r.worker \notin Stopping,
           NEW s, s = Sent(r, m)
    PROVE  /\ Typed(s)
           /\ \A f \in DOMAIN NoChannel \ {"log", "closed"} : s[f] = r[f]
           /\ LogSorted(s)
           /\ \A i \in DOMAIN s.log :
                 /\ s.log[i] = "close" => s.closed
                 /\ s.log[i] = "status" => m = "status" \/ r.worker \in Stopping
<1>1. CASE s = r
    BY <1>1 DEF LogTells
<1>2. CASE s # r
    <2> DEFINE n == Len(r.log)
    <2>1. /\ ~r.closed
          /\ s = [r EXCEPT !.log = Append(@, m), !.closed = (m = "close")]
        BY <1>2 DEF Sent
    <2>2. Typed(s) /\ \A f \in DOMAIN NoChannel \ {"log", "closed"} : s[f] = r[f]
        <3> DEFINE x == Append(r.log, m)
                   y == m = "close"
        <3>1. x \in Seq({"out", "status", "close"}) /\ y \in BOOLEAN
            BY DEF Typed
        <3>2. s = [r EXCEPT !.log = x, !.closed = y]
            BY <2>1
        <3> HIDE DEF x, y
        <3>3. Typed(s)
            BY <3>1, <3>2 DEF Typed, NoChannel
        <3>4. \A f \in DOMAIN NoChannel \ {"log", "closed"} : s[f] = r[f]
            BY <3>2 DEF Typed, NoChannel
        <3> QED
            BY <3>3, <3>4
    <2>3. /\ n \in Nat
          /\ DOMAIN r.log = 1..n /\ DOMAIN s.log = 1..(n + 1)
          /\ s.log[n + 1] = m
          /\ \A k \in 1..n : s.log[k] = r.log[k]
        BY <2>1 DEF Typed, NoChannel
    <2>4. m = "close" => s.closed
        BY <2>1 DEF Typed, NoChannel
    <2>5. \A k \in 1..n : r.log[k] # "close" /\ (m # "close" => r.log[k] = "out")
        <3>1. \A k \in 1..n : r.log[k] \in {"out", "status", "close"}
            BY <2>3 DEF Typed
        <3> QED
            BY <2>1, <2>3, <3>1 DEF LogTells
    <2>6. LogSorted(s)
        <3> SUFFICES ASSUME NEW i \in DOMAIN s.log, NEW j \in DOMAIN s.log, i < j
                     PROVE  s.log[i] = "out" \/ (s.log[i] = "status" /\ s.log[j] = "close")
            BY DEF LogSorted
        <3>1. i \in 1..n /\ r.log[i] \in {"out", "status", "close"}
            BY <2>3 DEF Typed
        <3>2. CASE j = n + 1
            BY <2>3, <2>5, <3>1, <3>2
        <3>3. CASE j \in 1..n
            BY <2>3, <3>1, <3>3 DEF LogTells, LogSorted
        <3> QED
            BY <2>3, <3>2, <3>3
    <2>7. \A k \in DOMAIN s.log :
              /\ s.log[k] = "close" => s.closed
              /\ s.log[k] = "status" => m = "status" \/ r.worker \in Stopping
        BY <2>3, <2>4, <2>5 DEF LogTells
    <2> QED
        BY <2>2, <2>6, <2>7
<1> QED
    BY <1>1, <1>2

-------------------------------------------------------------------------------
(* The goroutines of one channel.  First, steps that send nothing.          *)

LEMMA MoveGood ==
    ASSUME NEW r, Good(r), NEW w \in BeforeProgram \cup Running \cup {"done"},
           r.worker # "got", w # "got", w # "newline",
           w \in BeforeProgram => r.worker \in BeforeProgram,
           r.worker \in Stopping => w \in Stopping
    PROVE  Good([r EXCEPT !.worker = w])
<1> DEFINE s == [r EXCEPT !.worker = w]
<1> USE DEF Good
<1>1. Typed(s)
    BY DEF Typed, NoChannel
<1>2. s.worker = w /\ \A f \in DOMAIN NoChannel \ {"worker"} : s[f] = r[f]
    BY DEF Typed, NoChannel
<1>3. /\ s.cur = r.cur /\ s.taken = r.taken /\ s.asked = r.asked
      /\ s.replies = r.replies /\ s.drainer = r.drainer
      /\ s.log = r.log /\ s.closed = r.closed
    BY <1>2 DEF NoChannel
<1> HIDE DEF s
<1>4. LineKnown(s) /\ LogTells(s)
    BY <1>2, <1>3 DEF LineKnown, LogTells, LogSorted
<1>5. Answers(s)
    BY <1>2, <1>3 DEF Answers, InOrder
<1>6. OneConfirmed(s)
    BY <1>2, <1>3 DEF OneConfirmed, Confirms
<1> QED
    BY <1>1, <1>4, <1>5, <1>6 DEF s

LEMMA TakeRequestGood ==
    ASSUME DOMAIN chan = Chan, NEW c \in Chan, Good(chan[c]), TakeRequest(c)
    PROVE  Good(chan'[c])
<1> DEFINE r == chan[c]
           s == [r EXCEPT !.worker = "got", !.taken = @ + 1, !.cur = r.taken + 1]
<1>1. chan'[c] = s
    BY DEF TakeRequest, Become
<1> USE DEF Good, Typed, NoChannel, TakeRequest
<1>2. Typed(s)
    BY DEF BeforeProgram
<1>3. LineKnown(s) /\ LogTells(s)
    BY DEF LineKnown, LogTells, LogSorted, Stopping
<1>4. Answers(s)
    BY DEF Answers, InOrder, BeforeProgram
<1>5. OneConfirmed(s)
    BY DEF OneConfirmed, Confirms, BeforeProgram
<1> QED
    BY <1>1, <1>2, <1>3, <1>4, <1>5

LEMMA StartProgramGood ==
    ASSUME DOMAIN chan = Chan, NEW c \in Chan, Good(chan[c]), StartProgram(c)
    PROVE  Good(chan'[c])
<1> DEFINE r == chan[c]
           t == Replied(r, r.cur, TRUE)
<1>1. PICK w \in {"prompt", "dispatch", "ready"} :
          chan'[c] = [t EXCEPT !.worker = w, !.drainer = "waiting", !.watcher = "armed"]
    <2> DEFINE kind == r.asked[r.cur].kind
               first == [shell |-> "prompt", exec |-> "dispatch", scp |-> "ready"]
    <2>1. kind \in {"shell", "exec", "scp"}
        BY DEF StartProgram
    <2>2. first[kind] \in {"prompt", "dispatch", "ready"}
        BY <2>1
    <2>3. chan'[c] = [t EXCEPT !.worker = first[kind], !.drainer = "waiting", !.watcher = "armed"]
        BY DEF StartProgram, Become
    <2> QED
        BY <2>2, <2>3
<1>2. r.worker = "got" /\ r.cur = r.taken /\ Held(r)
    BY DEF StartProgram, Good, Answers, Held
<1>3. /\ Typed(t)
      /\ \A f \in DOMAIN NoChannel \ {"replies"} : t[f] = r[f]
      /\ InOrder(t)
      /\ \A k \in DOMAIN t.replies :
            Confirms(t, k) =>
                (k \in DOMAIN r.replies /\ Confirms(r, k)) \/ k = Len(r.replies) + 1
    <2> DEFINE ok == TRUE
    <2>1. t = Replied(r, r.taken, ok) /\ ok \in BOOLEAN
        BY <1>2
    <2> HIDE DEF t, ok
    <2> QED
        BY <1>2, <2>1, RepliedGood DEF Good
<1> DEFINE s == [t EXCEPT !.worker = w, !.drainer = "waiting", !.watcher = "armed"]
<1>4. Typed(s)
    BY <1>3 DEF Typed, NoChannel, Running
<1>5. /\ s.worker = w /\ s.drainer = "waiting" /\ s.taken = r.taken /\ s.asked = r.asked
      /\ s.replies = t.replies /\ s.log = r.log /\ s.closed = r.closed
      /\ t.taken = r.taken /\ t.asked = r.asked
    BY <1>3 DEF Typed, NoChannel
<1> HIDE DEF s, t
<1>6. LineKnown(s) /\ LogTells(s)
    BY <1>2, <1>5 DEF LineKnown, LogTells, LogSorted, Good, Stopping
<1>7. Answers(s)
    BY <1>3, <1>5 DEF Answers, InOrder, Good, BeforeProgram
<1>8. OneConfirmed(s)
    <2>1. \A k \in DOMAIN r.replies : ~Confirms(r, k)
        BY <1>2 DEF Good, OneConfirmed, BeforeProgram
    <2>2. \A k \in DOMAIN s.replies : Confirms(s, k) => k = Len(r.replies) + 1
        BY <1>3, <1>5, <2>1 DEF Confirms
    <2> QED
        BY <1>5, <2>2 DEF OneConfirmed, BeforeProgram
<1> QED
    BY <1>1, <1>4, <1>6, <1>7, <1>8 DEF s, Good

LEMMA AnswerRequestGood ==
    ASSUME DOMAIN chan = Chan, NEW c \in Chan, Good(chan[c]), AnswerRequest(c)
    PROVE  Good(chan'[c])
<1> DEFINE r == chan[c]
           ok == r.asked[r.cur].kind = "pty"
           t == Replied(r, r.cur, ok)
<1>1. chan'[c] = [t EXCEPT !.worker = "requests"]
    BY DEF AnswerRequest, Become
<1>2. r.worker = "got" /\ r.cur = r.taken /\ Held(r)
    BY DEF AnswerRequest, Good, Answers, Held
<1>3. ok \in BOOLEAN
    OBVIOUS
<1>4. /\ Typed(t)
      /\ \A f \in DOMAIN NoChannel \ {"replies"} : t[f] = r[f]
      /\ InOrder(t)
      /\ \A k \in DOMAIN t.replies :
            Confirms(t, k) => k \in DOMAIN r.replies /\ Confirms(r, k)
    <2>1. t = Replied(r, r.taken, ok) /\ (ok => r.asked[r.taken].kind = "pty")
        BY <1>2
    <2> HIDE DEF t, ok
    <2> QED
        BY <1>2, <1>3, <2>1, RepliedGood DEF Good
<1> DEFINE s == [t EXCEPT !.worker = "requests"]
<1>5. Typed(s)
    BY <1>4 DEF Typed, NoChannel, BeforeProgram
<1>6. /\ s.worker = "requests" /\ s.drainer = r.drainer /\ s.taken = r.taken
      /\ s.asked = r.asked /\ s.replies = t.replies /\ s.log = r.log /\ s.closed = r.closed
      /\ t.taken = r.taken /\ t.asked = r.asked
    BY <1>4 DEF Typed, NoChannel
<1> HIDE DEF s, t, ok
<1>7. LineKnown(s) /\ LogTells(s)
    BY <1>2, <1>6 DEF LineKnown, LogTells, LogSorted, Good, Stopping
<1>8. Answers(s)
    BY <1>2, <1>4, <1>6 DEF Answers, InOrder, Good, BeforeProgram
<1>9. OneConfirmed(s)
    <2>1. \A k \in DOMAIN r.replies : ~Confirms(r, k)
        BY <1>2 DEF Good, OneConfirmed, BeforeProgram
    <2>2. \A k \in DOMAIN s.replies : ~Confirms(s, k)
        BY <1>4, <1>6, <2>1 DEF Confirms
    <2> QED
        BY <1>6, <2>2 DEF OneConfirmed
<1> QED
    BY <1>1, <1>5, <1>7, <1>8, <1>9 DEF s, Good

LEMMA DrainerGood ==
    ASSUME DOMAIN chan = Chan, NEW c \in Chan, Good(chan[c]), Drainer(c)
    PROVE  Good(chan'[c])
<1> DEFINE r == chan[c]
<1> USE DEF Good
<1>1. r.worker \notin BeforeProgram
    BY DEF Drainer, DrainTake, DrainAnswer, DrainEnd, Answers
<1>2. CASE DrainTake(c)
    <2> DEFINE s == [r EXCEPT !.drainer = "got", !.taken = @ + 1]
    <2>1. chan'[c] = s
        BY <1>2 DEF DrainTake, Become
    <2>2. r.taken < Len(r.asked)
        BY <1>2 DEF DrainTake
    <2>3. Typed(s)
        BY DEF Typed, NoChannel
    <2>4. LineKnown(s) /\ LogTells(s) /\ OneConfirmed(s)
        BY <1>1 DEF Typed, NoChannel, LineKnown, LogTells, LogSorted, OneConfirmed, Confirms
    <2>5. Answers(s)
        BY <1>1, <2>2 DEF Typed, NoChannel, Answers, InOrder, BeforeProgram
    <2> QED
        BY <2>1, <2>3, <2>4, <2>5
<1>3. CASE DrainAnswer(c)
    <2> DEFINE t == Replied(r, r.taken, FALSE)
               s == [t EXCEPT !.drainer = "waiting"]
    <2>1. chan'[c] = s
        BY <1>3 DEF DrainAnswer, Become
    <2>2. /\ Typed(t)
          /\ \A f \in DOMAIN NoChannel \ {"replies"} : t[f] = r[f]
          /\ InOrder(t)
          /\ \A k \in DOMAIN t.replies :
                Confirms(t, k) => k \in DOMAIN r.replies /\ Confirms(r, k)
        <3>1. Held(r)
            BY <1>3 DEF DrainAnswer, Answers, Held
        <3> DEFINE ok == FALSE
        <3>2. t = Replied(r, r.taken, ok) /\ ok \in BOOLEAN /\ ~ok
            OBVIOUS
        <3> HIDE DEF t, ok
        <3> QED
            BY <3>1, <3>2, RepliedGood
    <2>3. Typed(s)
        BY <2>2 DEF Typed, NoChannel
    <2>4. /\ s.worker = r.worker /\ s.drainer = "waiting" /\ s.taken = r.taken
          /\ s.line = r.line /\ s.asked = r.asked /\ s.replies = t.replies /\ s.log = r.log
          /\ s.closed = r.closed /\ t.taken = r.taken /\ t.asked = r.asked
        BY <2>2 DEF Typed, NoChannel
    <2> HIDE DEF s, t
    <2>5. LineKnown(s) /\ LogTells(s)
        BY <2>4 DEF LineKnown, LogTells, LogSorted
    <2>6. Answers(s)
        BY <1>1, <2>2, <2>4 DEF Answers, InOrder, BeforeProgram
    <2>7. OneConfirmed(s)
        <3>1. \A k \in DOMAIN s.replies : Confirms(s, k) => k \in DOMAIN r.replies /\ Confirms(r, k)
            BY <2>2, <2>4 DEF Confirms
        <3> QED
            BY <1>1, <2>4, <3>1 DEF OneConfirmed
    <2> QED
        BY <2>1, <2>3, <2>5, <2>6, <2>7
<1>4. CASE DrainEnd(c)
    <2> DEFINE s == [r EXCEPT !.drainer = "done"]
    <2>1. chan'[c] = s
        BY <1>4 DEF DrainEnd, Become
    <2>2. Typed(s)
        BY DEF Typed, NoChannel, Idle
    <2>3. LineKnown(s) /\ LogTells(s) /\ OneConfirmed(s)
        BY <1>1 DEF Typed, NoChannel, LineKnown, LogTells, LogSorted, OneConfirmed, Confirms
    <2>4. Answers(s)
        BY <1>1 DEF Typed, NoChannel, Answers, InOrder, BeforeProgram
    <2> QED
        BY <2>1, <2>2, <2>3, <2>4
<1> QED
    BY <1>2, <1>3, <1>4 DEF Drainer

(* A step after which worker, requests and messages are what they were. *)
LEMMA SameGood ==
    ASSUME NEW r, Good(r), NEW s, Typed(s),
           \A f \in DOMAIN NoChannel \ {"watcher", "input", "reading", "hungup"} : s[f] = r[f]
    PROVE  Good(s)
<1>1. /\ s.worker = r.worker /\ s.cur = r.cur /\ s.line = r.line /\ s.drainer = r.drainer
      /\ s.asked = r.asked /\ s.taken = r.taken /\ s.replies = r.replies
      /\ s.log = r.log /\ s.closed = r.closed
    BY DEF NoChannel
<1> QED
    BY <1>1 DEF Good, LineKnown, Answers, InOrder, OneConfirmed, Confirms, LogTells, LogSorted

LEMMA CloseGood ==
    ASSUME NEW r, Good(r), NEW s, s = Sent(r, "close")
    PROVE  Good(s)
<1> DEFINE m == "close"
<1>1. s = Sent(r, m) /\ m \in {"out", "status", "close"} /\ ~(m # "close") /\ m # "status"
    OBVIOUS
<1> HIDE DEF m
<1>2. /\ Typed(s)
      /\ \A f \in DOMAIN NoChannel \ {"log", "closed"} : s[f] = r[f]
      /\ LogSorted(s)
      /\ \A i \in DOMAIN s.log :
            /\ s.log[i] = "close" => s.closed
            /\ s.log[i] = "status" => r.worker \in Stopping
    BY <1>1, SentGood DEF Good
<1>3. /\ s.worker = r.worker /\ s.cur = r.cur /\ s.line = r.line /\ s.drainer = r.drainer
      /\ s.asked = r.asked /\ s.taken = r.taken /\ s.replies = r.replies
    BY <1>2 DEF NoChannel
<1> QED
    BY <1>2, <1>3 DEF Good, LineKnown, Answers, InOrder, OneConfirmed, Confirms, LogTells

LEMMA SendGood ==
    ASSUME NEW r, Good(r), r.worker \notin BeforeProgram,
           NEW m \in {"out", "status", "close"}, m # "close" => r.worker \notin Stopping,
           NEW w \in Running \cup {"done"}, w # "newline",
           m = "status" \/ r.worker \in Stopping => w \in Stopping
    PROVE  Good([Sent(r, m) EXCEPT !.worker = w])
<1> DEFINE t == Sent(r, m)
           s == [t EXCEPT !.worker = w]
<1>1. /\ Typed(t)
      /\ \A f \in DOMAIN NoChannel \ {"log", "closed"} : t[f] = r[f]
      /\ LogSorted(t)
      /\ \A i \in DOMAIN t.log :
            /\ t.log[i] = "close" => t.closed
            /\ t.log[i] = "status" => m = "status" \/ r.worker \in Stopping
    BY SentGood DEF Good
<1> HIDE DEF t
<1>2. Typed(s)
    BY <1>1 DEF Typed, NoChannel
<1>3. /\ s.worker = w /\ s.drainer = r.drainer /\ s.taken = r.taken
      /\ s.asked = r.asked /\ s.replies = r.replies /\ s.log = t.log /\ s.closed = t.closed
    BY <1>1 DEF Typed, NoChannel
<1>4. w \notin BeforeProgram
    BY DEF BeforeProgram, Running
<1> HIDE DEF s
<1>5. LineKnown(s) /\ LogTells(s)
    BY <1>1, <1>3 DEF LineKnown, LogTells, LogSorted
<1>6. Answers(s) /\ OneConfirmed(s)
    BY <1>3, <1>4 DEF Good, Answers, InOrder, OneConfirmed, Confirms, BeforeProgram
<1> QED
    BY <1>2, <1>5, <1>6 DEF Good, s, t

LEMMA StopGood ==
    ASSUME NEW r, Good(r),
           r.worker \in {"prompt", "echo", "newline", "output", "ready", "read"}
    PROVE  Good([r EXCEPT !.worker = "stop"])
<1> DEFINE w == "stop"
<1>1. /\ w \in BeforeProgram \cup Running \cup {"done"}
      /\ w # "got" /\ w # "newline" /\ w \notin BeforeProgram /\ w \in Stopping
      /\ r.worker # "got"
    BY DEF BeforeProgram, Running, Stopping
<1> HIDE DEF w
<1>2. Good([r EXCEPT !.worker = w])
    BY <1>1, MoveGood
<1> QED
    BY <1>2 DEF w

LEMMA WriteGood ==
    ASSUME DOMAIN chan = Chan, NEW c \in Chan, Good(chan[c]), Write(c)
    PROVE  Good(chan'[c])
<1> DEFINE r == chan[c]
<1>1. r.worker \in {"prompt", "echo", "newline", "output", "ready"}
    BY DEF Write
<1>2. CASE chan'[c] = [Sent(r, "out") EXCEPT !.worker = AfterWrite(c)]
    <2> DEFINE w == AfterWrite(c)
               m == "out"
    <2>1. w \in {"read", "dispatch", "ready", "status", "prompt", "transfer"}
        BY <1>1 DEF AfterWrite, Good, LineKnown
    <2>2. r.worker \notin BeforeProgram \cup Stopping
        BY <1>1 DEF BeforeProgram, Stopping
    <2>3. w \in Running \cup {"done"} /\ w # "newline" /\ m \in {"out", "status", "close"} /\ m # "status"
        BY <2>1 DEF Running
    <2> HIDE DEF w, m
    <2>4. Good([Sent(r, m) EXCEPT !.worker = w])
        BY <2>2, <2>3, SendGood
    <2> QED
        BY <1>2, <2>4 DEF w, m
<1>3. CASE chan'[c] = Move(c, "stop")
    BY <1>1, <1>3, StopGood DEF Move
<1> QED
    BY <1>2, <1>3 DEF Write, Become

LEMMA ReadGood ==
    ASSUME DOMAIN chan = Chan, NEW c \in Chan, Good(chan[c]), Read(c)
    PROVE  Good(chan'[c])
<1> DEFINE r == chan[c]
           i == Head(r.input)
<1>1. r.worker = "read"
    BY DEF Read
<1>2. CASE r.input = <<>>
    <2>1. chan'[c] = [r EXCEPT !.worker = "stop"]
        BY <1>2 DEF Read, Become, Move
    <2> QED
        BY <1>1, <2>1, StopGood
<1>3. CASE r.input # <<>>
    <2>1. i \in ItemKind /\ Tail(r.input) \in Seq(Item)
        BY <1>3, ItemAssumption DEF Good, Typed
    <2>2. PICK w \in {"echo", "read", "status", "stop", "newline"} :
              /\ chan'[c] = [r EXCEPT !.input = Tail(@), !.line = i, !.worker = w]
              /\ w = "newline" => i \in {"cmd", "scp", "exit"}
        <3> DEFINE to == [key |-> "echo", silent |-> "read", eot |-> "status", eof |-> "stop"]
                   w == IF i \in DOMAIN to THEN to[i] ELSE "newline"
        <3>1. w \in {"echo", "read", "status", "stop", "newline"}
            OBVIOUS
        <3>2. w = "newline" => i \in {"cmd", "scp", "exit"}
            BY <2>1 DEF ItemKind
        <3>3. chan'[c] = [r EXCEPT !.input = Tail(@), !.line = i, !.worker = w]
            BY <1>3 DEF Read, Become
        <3> QED
            BY <3>1, <3>2, <3>3
    <2> DEFINE s == [r EXCEPT !.input = Tail(@), !.line = i, !.worker = w]
    <2>3. Typed(s)
        BY <2>1 DEF Good, Typed, NoChannel, Running
    <2>4. /\ s.worker = w /\ s.line = i /\ s.drainer = r.drainer /\ s.taken = r.taken
          /\ s.asked = r.asked /\ s.replies = r.replies /\ s.log = r.log /\ s.closed = r.closed
        BY DEF Good, Typed, NoChannel
    <2>5. w \notin BeforeProgram /\ r.worker \notin BeforeProgram \cup Stopping
        BY <1>1 DEF BeforeProgram, Stopping
    <2> HIDE DEF s
    <2>6. LineKnown(s) /\ LogTells(s)
        BY <2>2, <2>4, <2>5 DEF Good, LineKnown, LogTells, LogSorted
    <2>7. Answers(s) /\ OneConfirmed(s)
        BY <2>4, <2>5 DEF Good, Answers, InOrder, OneConfirmed, Confirms, BeforeProgram
    <2> QED
        BY <2>2, <2>3, <2>6, <2>7 DEF Good, s
<1> QED
    BY <1>2, <1>3

LEMMA WorkerGood ==
    ASSUME DOMAIN chan = Chan, NEW c \in Chan, Good(chan[c]), Worker(c)
    PROVE  Good(chan'[c])
<1> DEFINE r == chan[c]
<1>1. CASE NoMoreRequests(c) \/ DispatchEnds(c) \/ TransferEnds(c) \/ Stop(c)
    <2>1. PICK w \in {"close", "output", "status"} :
              /\ chan'[c] = [r EXCEPT !.worker = w]
              /\ \/ r.worker \in {"requests", "dispatch", "transfer"}
                 \/ w = "close" /\ r.worker = "stop"
        <3>1. CASE NoMoreRequests(c)
            BY <3>1 DEF NoMoreRequests, Become, Move
        <3>2. CASE DispatchEnds(c)
            BY <3>2 DEF DispatchEnds, Become, Move
        <3>3. CASE TransferEnds(c)
            BY <3>3 DEF TransferEnds, Become, Move
        <3>4. CASE Stop(c)
            BY <3>4 DEF Stop, Become, Move
        <3> QED
            BY <1>1, <3>1, <3>2, <3>3, <3>4
    <2>2. /\ w \in BeforeProgram \cup Running \cup {"done"}
          /\ r.worker # "got" /\ w # "got" /\ w # "newline"
          /\ w \notin BeforeProgram
          /\ r.worker \in Stopping => w \in Stopping
        BY <2>1 DEF BeforeProgram, Running, Stopping
    <2>3. Good([r EXCEPT !.worker = w])
        BY <2>2, MoveGood
    <2> QED
        BY <2>1, <2>3
<1>2. CASE ExitStatus(c) \/ Close(c)
    <2>1. PICK m \in {"status", "close"}, w \in {"stop", "done"} :
              /\ chan'[c] = [Sent(r, m) EXCEPT !.worker = w]
              /\ \/ m = "status" /\ r.worker = "status"
                 \/ m = "close" /\ r.worker = "close"
        BY <1>2 DEF ExitStatus, Close, Become
    <2>2. /\ r.worker \notin BeforeProgram
          /\ m \in {"out", "status", "close"}
          /\ m # "close" => r.worker \notin Stopping
          /\ w \in Running \cup {"done"} /\ w # "newline"
          /\ w \in Stopping
        BY <2>1 DEF BeforeProgram, Running, Stopping
    <2>3. Good([Sent(r, m) EXCEPT !.worker = w])
        BY <2>2, SendGood
    <2> QED
        BY <2>1, <2>3
<1> QED
    BY <1>1, <1>2, TakeRequestGood, StartProgramGood, AnswerRequestGood, WriteGood, ReadGood
    DEF Worker

LEMMA WatcherGood ==
    ASSUME DOMAIN chan = Chan, NEW c \in Chan, Good(chan[c]), Watcher(c)
    PROVE  Good(chan'[c])
<1>1. PICK t \in {chan[c], Sent(chan[c], "close")}, w \in {"fired", "done"} :
          chan'[c] = [t EXCEPT !.watcher = w]
    <2>1. CASE TimerFires(c)
        BY <2>1 DEF TimerFires, Become
    <2>2. CASE WatcherCloses(c)
        BY <2>2 DEF WatcherCloses, Become
    <2>3. CASE WatcherStops(c)
        BY <2>3 DEF WatcherStops, Become
    <2> QED
        BY <2>1, <2>2, <2>3 DEF Watcher
<1>2. Good(t)
    BY <1>1, CloseGood
<1> DEFINE s == [t EXCEPT !.watcher = w]
<1>3. Typed(s) /\ \A f \in DOMAIN NoChannel \ {"watcher"} : s[f] = t[f]
    BY <1>2 DEF Good, Typed, NoChannel, Idle
<1> HIDE DEF s
<1>4. Good(s)
    BY <1>2, <1>3, SameGood
<1> QED
    BY <1>1, <1>4 DEF s

LEMMA HungGood ==
    ASSUME NEW r, Good(r)
    PROVE  Good(Hung(r))
<1> DEFINE t == Sent(r, "close")
           s == [t EXCEPT !.hungup = TRUE]
<1>1. Good(t)
    BY CloseGood
<1> HIDE DEF t
<1>2. Typed(s) /\ \A f \in DOMAIN NoChannel \ {"hungup"} : s[f] = t[f]
    BY <1>1 DEF Good, Typed, NoChannel
<1> HIDE DEF s
<1>3. Good(s)
    BY <1>1, <1>2, SameGood
<1> QED
    BY <1>3 DEF s, t, Hung

-------------------------------------------------------------------------------
(* The connection: what is on the wire, and that a channel opens once.      *)

LEMMA MessageFields ==
    ASSUME NEW m \in Message
    PROVE  /\ m.type \in Opening \cup {"request", "data", "close"}
           /\ m.to \in Chan
           /\ m.type = "request" => m.body \in Request
           /\ m.type = "data" => m.body \in Item
BY DEF Message, Opening

(* A step of one channel of which the wire and the client see nothing. *)
LEMMA OneChannel ==
    ASSUME Inv, NEW c \in Chan, NEW s, Good(s), chan' = [chan EXCEPT ![c] = s],
           chan[c].worker = "none" => s.worker = "none",
           UNCHANGED <<up, handle, wire, sent>>,
           client' \in [Chan -> {"idle", "open", "closed"}],
           \A d \in Chan : client'[d] = "idle" <=> client[d] = "idle"
    PROVE  Inv'
<1> USE DEF Inv, TypeOK
<1>1. DOMAIN chan' = Chan /\ \A d \in Chan : chan'[d] = IF d = c THEN s ELSE chan[d]
    OBVIOUS
<1>2. \A d \in Chan : Good(chan'[d])
    BY <1>1
<1>3. TypeOK'
    BY <1>1, <1>2 DEF Good
<1>4. \A d \in Chan : chan[d].worker = "none" => chan'[d].worker = "none"
    BY <1>1
<1>5. \A i \in DOMAIN wire : wire[i].to \in Chan
    BY MessageFields
<1>6. OpensFirst'
    BY <1>4, <1>5 DEF OpensFirst
<1> QED
    BY <1>2, <1>3, <1>6

LEMMA GoroutineInv ==
    ASSUME Inv, NEW c \in Chan, Worker(c) \/ Drainer(c) \/ Watcher(c)
    PROVE  Inv'
<1>1. DOMAIN chan = Chan /\ Good(chan[c])
    BY DEF Inv, TypeOK
<1>2. Good(chan'[c])
    BY <1>1, WorkerGood, DrainerGood, WatcherGood
<1>3. /\ UNCHANGED <<up, handle, wire, sent, client>>
      /\ \E s : chan' = [chan EXCEPT ![c] = s]
    <2>1. CASE Worker(c)
        BY <2>1 DEF Worker, TakeRequest, NoMoreRequests, StartProgram, AnswerRequest, Write,
                    Read, DispatchEnds, TransferEnds, ExitStatus, Stop, Close, Become
    <2>2. CASE Drainer(c)
        BY <2>2 DEF Drainer, DrainTake, DrainAnswer, DrainEnd, Become
    <2>3. CASE Watcher(c)
        BY <2>3 DEF Watcher, TimerFires, WatcherCloses, WatcherStops, Become
    <2> QED
        BY <2>1, <2>2, <2>3
<1>4. chan' = [chan EXCEPT ![c] = chan'[c]]
    BY <1>1, <1>3
<1>5. chan[c].worker = "none" => chan'[c].worker = "none"
    <2>1. CASE Worker(c)
        BY <2>1 DEF Worker, TakeRequest, NoMoreRequests, StartProgram, AnswerRequest, Write,
                    Read, DispatchEnds, TransferEnds, ExitStatus, Stop, Close
    <2>2. CASE Drainer(c)
        BY <1>1, <2>2 DEF Drainer, DrainTake, DrainAnswer, DrainEnd, Good, Answers, BeforeProgram
    <2>3. CASE Watcher(c)
        BY <1>1, <2>3 DEF Watcher, TimerFires, WatcherCloses, WatcherStops, Become, Sent, Good,
                          Typed, NoChannel
    <2> QED
        BY <2>1, <2>2, <2>3
<1> QED
    BY <1>2, <1>3, <1>4, <1>5, OneChannel DEF Inv, TypeOK

LEMMA AcceptingInv ==
    ASSUME Inv, NEW c \in Chan, Accepting(c)
    PROVE  Inv'
<1> DEFINE r == chan[c]
<1>1. r.worker \in Opening /\ Good(r)
    BY DEF Accepting, AcceptChannel, RejectChannel, Opening, Inv
<1>2. PICK w \in {"requests", "done"} :
          /\ chan' = [chan EXCEPT ![c] = [r EXCEPT !.worker = w]]
          /\ UNCHANGED <<up, handle, wire, sent>>
          /\ client' = client \/ client' = [client EXCEPT ![c] = "closed"]
    <2>1. CASE AcceptChannel(c)
        BY <2>1 DEF AcceptChannel, Become, Move
    <2>2. CASE RejectChannel(c)
        BY <2>2 DEF RejectChannel
    <2> QED
        BY <2>1, <2>2 DEF Accepting
<1>3. Good([r EXCEPT !.worker = w])
    <2>1. /\ w \in BeforeProgram \cup Running \cup {"done"}
          /\ r.worker # "got" /\ w # "got" /\ w # "newline"
          /\ w \in BeforeProgram => r.worker \in BeforeProgram
          /\ r.worker \in Stopping => w \in Stopping
        BY <1>1 DEF BeforeProgram, Stopping, Opening
    <2> QED
        BY <1>1, <2>1, MoveGood
<1>4. client[c] # "idle"
    BY <1>1 DEF Inv, OpensFirst, Opening
<1>5. /\ client' \in [Chan -> {"idle", "open", "closed"}]
      /\ \A d \in Chan : client'[d] = "idle" <=> client[d] = "idle"
    BY <1>2, <1>4 DEF Inv, TypeOK
<1>6. r.worker # "none"
    BY <1>1 DEF Opening
<1> QED
    BY <1>2, <1>3, <1>5, <1>6, OneChannel

LEMMA DisconnectInv ==
    ASSUME Inv, Disconnect
    PROVE  Inv'
<1> USE DEF Inv, TypeOK, Disconnect
<1>1. \A c \in Chan : chan'[c] = chan[c] \/ (chan[c].worker # "none" /\ chan'[c] = Hung(chan[c]))
    OBVIOUS
<1>2. \A c \in Chan : Good(chan'[c])
    BY <1>1, HungGood
<1>3. TypeOK'
    <2>1. DOMAIN chan' = Chan /\ wire' \in Seq(Message)
        OBVIOUS
    <2>2. \A c \in Chan : Typed(chan'[c])
        BY <1>2 DEF Good
    <2> QED
        BY <2>1, <2>2
<1>4. OpensFirst'
    <2>1. \A c \in Chan : client'[c] = "idle" => chan'[c].worker = "none"
        BY <1>1 DEF OpensFirst
    <2> QED
        BY <2>1 DEF OpensFirst
<1> QED
    BY <1>2, <1>3, <1>4

(* A message is put on the wire: an opening by a channel nobody used, any    *)
(* other by one that is in use.                                             *)
LEMMA PostInv ==
    ASSUME Inv, NEW m \in Message, wire' = Append(wire, m), sent' \in Nat,
           UNCHANGED <<up, handle, chan>>,
           client' \in [Chan -> {"idle", "open", "closed"}],
           \A d \in Chan : client[d] # "idle" => client'[d] # "idle",
           client'[m.to] # "idle",
           \A d \in Chan \ {m.to} : client'[d] = "idle" <=> client[d] = "idle",
           m.type \in Opening => client[m.to] = "idle"
    PROVE  Inv'
<1> DEFINE n == Len(wire)
<1> USE DEF Inv
<1>1. /\ n \in Nat /\ DOMAIN wire = 1..n /\ DOMAIN wire' = 1..(n + 1)
      /\ wire'[n + 1] = m /\ \A i \in 1..n : wire'[i] = wire[i] /\ wire[i].to \in Chan
    BY MessageFields DEF TypeOK
<1>2. TypeOK'
    BY DEF TypeOK
<1>3. m.to \in Chan
    BY MessageFields
<1>4. \A i \in DOMAIN wire' :
          /\ client'[wire'[i].to] # "idle"
          /\ wire'[i].type \in Opening => chan'[wire'[i].to].worker = "none"
    BY <1>1, <1>3 DEF OpensFirst
<1>5. \A i, j \in DOMAIN wire' :
          i < j /\ wire'[i].to = wire'[j].to => wire'[j].type \notin Opening
    <2> SUFFICES ASSUME NEW i \in DOMAIN wire', NEW j \in DOMAIN wire', i < j,
                        wire'[i].to = wire'[j].to
                 PROVE  wire'[j].type \notin Opening
        OBVIOUS
    <2>1. i \in 1..n
        BY <1>1
    <2>2. CASE j = n + 1
        BY <1>1, <2>1, <2>2 DEF OpensFirst
    <2>3. CASE j \in 1..n
        BY <1>1, <2>1, <2>3 DEF OpensFirst
    <2> QED
        BY <1>1, <2>2, <2>3
<1>6. \A d \in Chan : client'[d] = "idle" => chan'[d].worker = "none"
    BY DEF OpensFirst
<1>7. OpensFirst'
    BY <1>4, <1>5, <1>6 DEF OpensFirst
<1> QED
    BY <1>2, <1>7

LEMMA ClientInv ==
    ASSUME Inv, NEW c \in Chan, Client(c)
    PROVE  Inv'
<1> USE DEF Inv
<1>1. CASE OpenChannel(c)
    <2>1. PICK t \in Opening : Post([type |-> t, to |-> c])
        BY <1>1 DEF OpenChannel, Opening
    <2> DEFINE m == [type |-> t, to |-> c]
    <2>2. m \in Message /\ m.to = c
        BY DEF Message
    <2>3. /\ wire' = Append(wire, m) /\ sent' = sent + 1 /\ UNCHANGED <<up, handle, chan>>
          /\ client[c] = "idle" /\ client' = [client EXCEPT ![c] = "open"]
        BY <1>1, <2>1 DEF OpenChannel, Post
    <2>4. /\ client' \in [Chan -> {"idle", "open", "closed"}] /\ client'[c] = "open"
          /\ \A d \in Chan \ {c} : client'[d] = client[d]
          /\ sent' \in Nat
        BY <2>3 DEF TypeOK
    <2> HIDE DEF m
    <2> QED
        BY <2>2, <2>3, <2>4, PostInv
<1>2. CASE SendRequest(c) \/ Type(c) \/ ClientClose(c)
    <2>1. PICK m \in Message :
              /\ m.to = c /\ m.type \notin Opening
              /\ wire' = Append(wire, m) /\ sent' \in Nat
              /\ UNCHANGED <<up, handle, chan>>
        <3>1. CASE SendRequest(c)
            <4>1. PICK b \in Request : Post([type |-> "request", to |-> c, body |-> b])
                BY <3>1 DEF SendRequest
            <4> DEFINE m == [type |-> "request", to |-> c, body |-> b]
            <4>2. m \in Message /\ m.to = c /\ m.type = "request"
                BY DEF Message
            <4>3. wire' = Append(wire, m) /\ sent' \in Nat /\ UNCHANGED <<up, handle, chan>>
                BY <4>1 DEF Post, TypeOK
            <4> HIDE DEF m
            <4> QED
                BY <4>2, <4>3 DEF Opening
        <3>2. CASE Type(c)
            <4>1. PICK b \in Item : Post([type |-> "data", to |-> c, body |-> b])
                BY <3>2 DEF Type
            <4> DEFINE m == [type |-> "data", to |-> c, body |-> b]
            <4>2. m \in Message /\ m.to = c /\ m.type = "data"
                BY DEF Message
            <4>3. wire' = Append(wire, m) /\ sent' \in Nat /\ UNCHANGED <<up, handle, chan>>
                BY <4>1 DEF Post, TypeOK
            <4> HIDE DEF m
            <4> QED
                BY <4>2, <4>3 DEF Opening
        <3>3. CASE ClientClose(c)
            <4> DEFINE m == [type |-> "close", to |-> c]
            <4>1. m \in Message /\ m.to = c /\ m.type = "close"
                BY DEF Message
            <4>2. wire' = Append(wire, m) /\ sent' \in Nat /\ UNCHANGED <<up, handle, chan>>
                BY <3>3 DEF ClientClose, TypeOK
            <4> HIDE DEF m
            <4> QED
                BY <4>1, <4>2 DEF Opening
        <3> QED
            BY <1>2, <3>1, <3>2, <3>3
    <2>2. /\ client[c] = "open"
          /\ client' = client \/ client' = [client EXCEPT ![c] = "closed"]
        BY <1>2 DEF SendRequest, Type, ClientClose, Usable
    <2>3. /\ client' \in [Chan -> {"idle", "open", "closed"}]
          /\ client'[c] # "idle"
          /\ \A d \in Chan \ {c} : client'[d] = client[d]
        BY <2>2 DEF TypeOK
    <2> QED
        BY <2>1, <2>2, <2>3, PostInv
<1>3. CASE StopReading(c)
    <2> DEFINE s == [chan[c] EXCEPT !.reading = FALSE]
    <2>1. Typed(s) /\ \A f \in DOMAIN NoChannel \ {"reading"} : s[f] = chan[c][f]
        BY DEF TypeOK, Typed, NoChannel
    <2>2. s.worker = chan[c].worker
        BY <2>1 DEF NoChannel
    <2>3. chan' = [chan EXCEPT ![c] = s] /\ UNCHANGED <<up, handle, wire, sent, client>>
        BY <1>3 DEF StopReading, Become
    <2> HIDE DEF s
    <2>4. Good(s)
        BY <2>1, SameGood
    <2> QED
        BY <2>2, <2>3, <2>4, OneChannel DEF TypeOK
<1> QED
    BY <1>1, <1>2, <1>3 DEF Client

LEMMA DeliveredGood ==
    ASSUME NEW r, Good(r), NEW m \in Message, NEW s,
           \/ m.type \in Opening /\ r.worker = "none" /\ s = [r EXCEPT !.worker = m.type]
           \/ m.type = "request" /\ s = [r EXCEPT !.asked = Append(@, m.body)]
           \/ m.type = "data" /\ s = [r EXCEPT !.input = Append(@, m.body)]
           \/ m.type = "close" /\ s = Hung(r)
    PROVE  Good(s)
<1>1. CASE m.type \in Opening /\ r.worker = "none" /\ s = [r EXCEPT !.worker = m.type]
    <2>1. /\ m.type \in BeforeProgram \cup Running \cup {"done"}
          /\ m.type # "got" /\ m.type # "newline"
          /\ r.worker \in BeforeProgram /\ r.worker \notin Stopping /\ r.worker # "got"
        BY <1>1 DEF Opening, BeforeProgram, Stopping
    <2> QED
        BY <1>1, <2>1, MoveGood
<1>2. CASE m.type = "request" /\ s = [r EXCEPT !.asked = Append(@, m.body)]
    <2>1. Typed(s) /\ \A f \in DOMAIN NoChannel \ {"asked"} : s[f] = r[f]
        BY <1>2, MessageFields DEF Good, Typed, NoChannel
    <2>2. /\ s.worker = r.worker /\ s.cur = r.cur /\ s.line = r.line /\ s.drainer = r.drainer
          /\ s.taken = r.taken /\ s.replies = r.replies
          /\ s.log = r.log /\ s.closed = r.closed
        BY <2>1 DEF NoChannel
    <2>3. Len(s.asked) = Len(r.asked) + 1 /\ \A k \in 1..Len(r.asked) : s.asked[k] = r.asked[k]
        BY <1>2 DEF Good, Typed, NoChannel
    <2>4. Answers(s)
        BY <2>2, <2>3 DEF Good, Typed, Answers, InOrder
    <2>5. \A i \in DOMAIN r.replies : Confirms(s, i) <=> Confirms(r, i)
        <3>1. \A i \in DOMAIN r.replies : r.replies[i][1] \in 1..Len(r.asked)
            BY DEF Good, Typed, Answers, InOrder
        <3> QED
            BY <2>2, <2>3, <3>1 DEF Confirms
    <2> QED
        BY <2>1, <2>2, <2>4, <2>5 DEF Good, LineKnown, OneConfirmed, LogTells, LogSorted
<1>3. CASE m.type = "data" /\ s = [r EXCEPT !.input = Append(@, m.body)]
    <2>1. Typed(s) /\ \A f \in DOMAIN NoChannel \ {"input"} : s[f] = r[f]
        BY <1>3, MessageFields DEF Good, Typed, NoChannel
    <2> QED
        BY <2>1, SameGood
<1>4. CASE m.type = "close" /\ s = Hung(r)
    BY <1>4, HungGood
<1> QED
    BY <1>1, <1>2, <1>3, <1>4

LEMMA DeliverInv ==
    ASSUME Inv, Deliver
    PROVE  Inv'
<1> USE DEF Inv
<1> DEFINE m == Head(wire)
           c == m.to
           r == chan[c]
           n == Len(wire)
<1>1. /\ n \in Nat \ {0} /\ wire' = Tail(wire) /\ m = wire[1] /\ m \in Message
      /\ DOMAIN wire = 1..n /\ DOMAIN wire' = 1..(n - 1)
      /\ \A i \in 1..(n - 1) : wire'[i] = wire[i + 1]
      /\ \A i \in 1..n : wire[i].to \in Chan
      /\ wire' \in Seq(Message)
      /\ UNCHANGED <<up, handle, sent, client>>
    BY MessageFields DEF TypeOK, Deliver
<1>2. c \in Chan
    BY <1>1
<1>3. m.type \in Opening => r.worker = "none"
    BY <1>1 DEF OpensFirst
<1>4. PICK s : /\ chan' = [chan EXCEPT ![c] = s]
               /\ \/ m.type \in Opening /\ r.worker = "none" /\ s = [r EXCEPT !.worker = m.type]
                  \/ m.type = "request" /\ s = [r EXCEPT !.asked = Append(@, m.body)]
                  \/ m.type = "data" /\ s = [r EXCEPT !.input = Append(@, m.body)]
                  \/ m.type = "close" /\ s = Hung(r)
    BY <1>3 DEF Deliver, Opening
<1>5. Good(s)
    BY <1>1, <1>2, <1>4, DeliveredGood
<1>6. DOMAIN chan' = Chan /\ \A d \in Chan : chan'[d] = IF d = c THEN s ELSE chan[d]
    BY <1>2, <1>4 DEF TypeOK
<1>7. \A d \in Chan : Good(chan'[d])
    BY <1>5, <1>6
<1>8. TypeOK'
    BY <1>1, <1>6, <1>7 DEF TypeOK, Good
<1>9. r.worker = "none" => s.worker = "none" \/ m.type \in Opening
    BY <1>2, <1>4 DEF TypeOK, Typed, NoChannel, Hung, Sent
<1>10. OpensFirst'
    <2>1. \A i \in DOMAIN wire' :
              /\ client'[wire'[i].to] # "idle"
              /\ wire'[i].type \in Opening => chan'[wire'[i].to].worker = "none"
        <3> SUFFICES ASSUME NEW i \in 1..(n - 1)
                     PROVE  /\ client[wire[i + 1].to] # "idle"
                            /\ wire[i + 1].type \in Opening => chan'[wire[i + 1].to].worker = "none"
            BY <1>1
        <3>1. i + 1 \in DOMAIN wire /\ 1 \in DOMAIN wire /\ 1 < i + 1
            BY <1>1
        <3>2. wire[i + 1].type \in Opening => wire[i + 1].to # c
            BY <1>1, <3>1 DEF OpensFirst
        <3> QED
            BY <1>1, <1>6, <3>1, <3>2 DEF OpensFirst
    <2>2. \A i, j \in DOMAIN wire' :
              i < j /\ wire'[i].to = wire'[j].to => wire'[j].type \notin Opening
        BY <1>1 DEF OpensFirst
    <2>3. \A d \in Chan : client'[d] = "idle" => chan'[d].worker = "none"
        <3>1. client[c] # "idle"
            BY <1>1 DEF OpensFirst
        <3> QED
            BY <1>1, <1>6, <3>1 DEF OpensFirst
    <2> QED
        BY <2>1, <2>2, <2>3 DEF OpensFirst
<1> QED
    BY <1>7, <1>8, <1>10

LEMMA InitInv == Init => Inv
<1> SUFFICES ASSUME Init PROVE Inv
    OBVIOUS
<1>1. Good(NoChannel)
    BY DEF Good, Typed, NoChannel, LineKnown, Answers, InOrder, OneConfirmed, LogTells, LogSorted,
           BeforeProgram, Idle
<1>2. TypeOK
    BY <1>1 DEF Init, TypeOK, Good
<1>3. OpensFirst
    BY DEF Init, OpensFirst, NoChannel
<1> QED
    BY <1>1, <1>2, <1>3 DEF Init, Inv

LEMMA NextInv == Inv /\ [Next]_vars => Inv'
<1> SUFFICES ASSUME Inv, [Next]_vars PROVE Inv'
    OBVIOUS
<1>1. ASSUME NEW c \in Chan, Client(c) PROVE Inv'
    BY <1>1, ClientInv
<1>2. ASSUME NEW c \in Chan, Accepting(c) PROVE Inv'
    BY <1>2, AcceptingInv
<1>3. ASSUME NEW c \in Chan, Worker(c) \/ Drainer(c) \/ Watcher(c) PROVE Inv'
    BY <1>3, GoroutineInv
<1>4. CASE Disconnect
    BY <1>4, DisconnectInv
<1>5. CASE Deliver
    BY <1>5, DeliverInv
<1>6. CASE HandleReturns \/ UNCHANGED vars
    BY <1>6 DEF HandleReturns, vars, Inv, TypeOK, OpensFirst
<1> QED
    BY <1>1, <1>2, <1>3, <1>4, <1>5, <1>6 DEF Next

LEMMA InvInvariant == Spec => []Inv
BY InitInv, NextInv, PTL DEF Spec

(* Every state component has its type, and no step leaves the cases the code *)
(* distinguishes: a line read is a key, an end, or one of the three kinds.  *)
THEOREM TypeCorrect == Spec => []TypeOK
<1>1. Inv => TypeOK
    BY DEF Inv
<1> QED
    BY InvInvariant, <1>1, PTL

(* session.go:73-118: the two goroutines of a channel answer its requests in *)
(* order, none twice, and confirm at most one shell or exec.                *)
THEOREM RepliesOrdered == Spec => []RepliesInOrder
<1>1. Inv => RepliesInOrder
    BY DEF Inv, Good, Answers, InOrder, OneConfirmed, Confirms, RepliesInOrder
<1> QED
    BY InvInvariant, <1>1, PTL

(* shell.go:18-32, exec.go:12-46: exit-status once, after all output, nothing *)
(* after CLOSE, whichever of program, timer and client closes first.        *)
THEOREM LogsOrdered == Spec => []LogOrdered
<1>1. Inv => LogOrdered
    BY DEF Inv, Good, LogTells, LogSorted, LogOrdered
<1> QED
    BY InvInvariant, <1>1, PTL

===============================================================================

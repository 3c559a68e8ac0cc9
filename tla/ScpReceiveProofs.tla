---------------------------- MODULE ScpReceiveProofs ----------------------------
(***************************************************************************)
(* The safety properties of ScpReceive for all sizes, limits, records and   *)
(* disk errors.  As long as no write fails, the receiver knows of every     *)
(* unit on the wire what the sender meant by it (Aligned).                  *)
(***************************************************************************)
EXTENDS ScpReceive, TLAPS

Unit ==
    [type : {"byte", "nul", "dir", "times"}]
        \cup [type : {"file"}, size : Nat, id : Nat]

Job == [file : Nat, left : Nat, save : BOOLEAN, hashed : Nat, stored : Nat]

TypeOK ==
    /\ sender \in {"await", "choose", "data", "ended"}
    /\ next \in {"choose", "data", "file", "times"}
    /\ left \in Nat /\ sizes \in Seq(Nat) /\ records \in Nat
    /\ wire \in Seq(Unit) /\ acks \in Nat
    /\ main \in {"ready", "wait", "exit", "done"}
    /\ reader \in {"none", "line", "open", "copy", "trailer", "done"}
    /\ junk \in BOOLEAN
    /\ job \in Job

(* The hash follows the file as long as it takes every write. *)
HashFollows ==
    /\ <<job.file, "write">> \notin faulty => job.hashed = job.stored
    /\ \A s \in saved : <<s.file, "write">> \notin faulty => s.hashed = s.stored

(* The reader starts when the client was told that we are ready.             *)
ReadyFirst == main = "ready" => reader = "none"

TmpIsOpen == tmp \subseteq (IF reader = "copy" THEN {job.file} ELSE {})

Latest == Len(sizes)
Faulty(f) == \E e \in Faults : <<f, e>> \in faulty

(* What AckedIsCaptured asks of one file. *)
Captured(f) ==
    /\ sizes[f] > 0 => f \in visible
    /\ sizes[f] \in 1..MaxPayload /\ ~Faulty(f) =>
           [file |-> f, hashed |-> sizes[f], stored |-> sizes[f]] \in saved

(* Between records: nothing is on its way, or the one record that was sent.  *)
AtLine ==
    /\ sender # "data"
    /\ \/ /\ wire = <<>>
          /\ next = "data" => Eof
          /\ next = "file" => sizes # <<>> /\ Captured(Latest)
          /\ sender = "choose" => acks = 0
          /\ sender = "await" =>
                /\ acks <= 1
                /\ next = "times" => acks = 0
                /\ next # "times" /\ ~Closed => acks = 1
       \/ /\ Len(wire) = 1 /\ sender \in {"await", "ended"}
          /\ sender = "await" => acks = 0
          /\ \/ /\ next = "data" /\ sizes # <<>> /\ left = sizes[Latest]
                /\ wire[1] = [type |-> "file", size |-> left, id |-> Latest]
             \/ next = "choose" /\ wire[1].type = "dir"
             \/ next = "times" /\ wire[1].type = "times"

(* In a file: what the reader still expects is on the wire or not yet sent.  *)
InFile ==
    /\ sizes # <<>> /\ job.file = Latest
    /\ sender # "choose"
    /\ \/ /\ next = "data"
          /\ \A i \in DOMAIN wire : wire[i].type = "byte"
          /\ Len(wire) + left = job.left
          /\ sender = "data" => acks = 0
          /\ sender = "await" => wire = <<>> /\ acks <= 1 /\ (~Closed => acks = 1)
       \/ /\ next = "file" /\ left = 0
          /\ sender \in {"await", "ended"} /\ (sender = "await" => acks = 0)
          /\ Len(wire) = job.left + 1
          /\ \A i \in DOMAIN wire : wire[i].type = IF i = Len(wire) THEN "nul" ELSE "byte"

(* What has become of the file so far. *)
Progress ==
    CASE reader = "open" ->
           ~job.save /\ job.hashed = 0 /\ job.stored = 0 /\ job.left = sizes[Latest]
      [] reader = "copy" ->
           IF job.save
           THEN job.hashed = job.stored /\ job.hashed + job.left = sizes[Latest]
           ELSE sizes[Latest] > MaxPayload \/ Faulty(Latest)
      [] reader = "trailer" ->
           (job.left = 0 /\ Captured(Latest)) \/ (Eof /\ wire = <<>>)

Aligned ==
    /\ ~junk
    /\ reader = "none" =>
          /\ main \in {"ready", "done"} /\ wire = <<>> /\ acks = 0
          /\ sender \in {"await", "ended"} /\ next = "choose"
    /\ reader = "line" => AtLine
    /\ reader \in {"open", "copy", "trailer"} => InFile /\ Progress
    /\ reader = "done" => Eof /\ wire = <<>>

AckedAreCaptured == \A f \in acked : f \in DOMAIN sizes /\ Captured(f)

Inv ==
    /\ TypeOK /\ HashFollows /\ ReadyFirst /\ TmpIsOpen
    /\ WriteFailed \/ (Aligned /\ AckedAreCaptured)

-------------------------------------------------------------------------------
(* Types, and what only grows. *)

LEMMA UnitFields ==
    ASSUME NEW u \in Unit
    PROVE  /\ u.type \in {"byte", "nul", "dir", "times", "file"}
           /\ u.type = "file" => u.size \in Nat /\ u.id \in Nat
BY DEF Unit

LEMMA WireStep ==
    ASSUME wire \in Seq(Unit), wire # <<>>
    PROVE  Head(wire) \in Unit /\ Head(wire) = wire[1] /\ Tail(wire) \in Seq(Unit)
OBVIOUS

LEMMA SendType ==
    ASSUME NEW u \in Unit, wire \in Seq(Unit)
    PROVE  wire \o <<u>> = Append(wire, u) /\ Append(wire, u) \in Seq(Unit)
OBVIOUS

LEMMA JobStart ==
    ASSUME NEW id \in Nat, NEW size \in Nat
    PROVE  [file |-> id, left |-> size, save |-> FALSE, hashed |-> 0, stored |-> 0] \in Job
BY DEF Job

LEMMA NoJobType == NoJob \in Job /\ NoJob.hashed = NoJob.stored
BY DEF NoJob, Job

(* The job after the header of a file is that file, from its beginning.      *)
LEMMA JobOfLine ==
    ASSUME TypeOK, ReadLine
    PROVE  \/ UNCHANGED job
           \/ /\ wire[1].type = "file" /\ job' \in Job
              /\ job'.file = wire[1].id /\ job'.left = wire[1].size
              /\ ~job'.save /\ job'.hashed = 0 /\ job'.stored = 0
<1> DEFINE u == Head(wire)
<1>1. u \in Unit /\ u = wire[1]
    BY WireStep DEF ReadLine, TypeOK
<1>2. CASE UNCHANGED job
    BY <1>2
<1>3. CASE u.type = "file" /\ job' = [NoJob EXCEPT !.file = u.id, !.left = u.size]
    <2>1. u.id \in Nat /\ u.size \in Nat
        BY <1>1, <1>3, UnitFields
    <2> DEFINE id == u.id
               size == u.size
    <2>2. id \in Nat /\ size \in Nat /\ id = wire[1].id /\ size = wire[1].size
          /\ job' = [NoJob EXCEPT !.file = id, !.left = size] /\ wire[1].type = "file"
        BY <1>1, <1>3, <2>1
    <2> HIDE DEF u, id, size
    <2>3. job' = [NoJob EXCEPT !.file = id, !.left = size]
        BY <2>2
    <2>4. job' = [file |-> id, left |-> size, save |-> FALSE, hashed |-> 0, stored |-> 0]
        BY <2>3 DEF NoJob
    <2>5. id \in Nat /\ size \in Nat
        BY <2>2
    <2>6. [file |-> id, left |-> size, save |-> FALSE, hashed |-> 0, stored |-> 0] \in Job
        BY <2>5, JobStart
    <2>7. job' \in Job
        BY <2>4, <2>6
    <2>8. job'.save = FALSE
        BY <2>4
    <2>9. job'.file = id /\ job'.left = size /\ job'.hashed = 0 /\ job'.stored = 0
        BY <2>4
    <2> QED
        BY <2>2, <2>7, <2>8, <2>9
<1> QED
    BY <1>2, <1>3 DEF ReadLine

LEMMA InitInv == Init => Inv
<1> SUFFICES ASSUME Init PROVE Inv
    OBVIOUS
<1>1. TypeOK
    <2>1. <<>> \in Seq(Nat) /\ <<>> \in Seq(Unit)
        OBVIOUS
    <2> QED
        BY <2>1, NoJobType DEF Init, TypeOK
<1>2. HashFollows /\ ReadyFirst /\ TmpIsOpen
    BY NoJobType DEF Init, HashFollows, ReadyFirst, TmpIsOpen
<1>3. Aligned /\ AckedAreCaptured
    BY DEF Init, Aligned, AckedAreCaptured
<1> QED
    BY <1>1, <1>2, <1>3 DEF Inv

LEMMA TypeNext == TypeOK /\ [Next]_vars => TypeOK'
<1> SUFFICES ASSUME TypeOK, [Next]_vars PROVE TypeOK'
    OBVIOUS
<1> USE DEF TypeOK, senderVars, diskVars
<1>1. ASSUME NEW f \in Sizes, SendFile(f) PROVE TypeOK'
    <2> DEFINE u == [type |-> "file", size |-> f, id |-> Len(sizes) + 1]
    <2>1. u \in Unit /\ f \in Nat
        BY SizesAssumption DEF Unit
    <2>2. wire' = wire \o <<u>>
        BY <1>1 DEF SendFile, Send
    <2> HIDE DEF u
    <2>3. wire' \in Seq(Unit)
        BY <2>1, <2>2, SendType
    <2> QED
        BY <1>1, <2>1, <2>3 DEF SendFile, Send
<1>2. ASSUME NEW m \in Marks, SendMark(m) PROVE TypeOK'
    <2> DEFINE u == [type |-> m]
    <2>1. u \in Unit
        BY MarksAssumption DEF Unit
    <2>2. wire' = wire \o <<u>>
        BY <1>2 DEF SendMark, Send
    <2> HIDE DEF u
    <2>3. wire' \in Seq(Unit)
        BY <2>1, <2>2, SendType
    <2> QED
        BY <1>2, <2>3 DEF SendMark, Send
<1>3. CASE SendData
    <2>1. [type |-> "byte"] \in Unit /\ [type |-> "nul"] \in Unit
        BY DEF Unit
    <2>2. wire' \in Seq(Unit)
        BY <1>3, <2>1, SendType DEF SendData, Send
    <2> QED
        BY <1>3, <2>2 DEF SendData, Send
<1>4. CASE GetAck \/ SenderEnds \/ Ready \/ StopWaiting \/ Exit \/ UNCHANGED vars
    BY <1>4 DEF GetAck, SenderEnds, Ready, StopWaiting, Exit, vars
<1>5. CASE ReadLine
    <2>1. wire' \in Seq(Unit) /\ Head(wire) \in Unit
        BY <1>5, WireStep DEF ReadLine
    <2>2. acks' \in Nat
        BY <1>5 DEF ReadLine, Ack
    <2>3. job' \in Job
        BY <1>5, JobOfLine
    <2> QED
        BY <1>5, <2>1, <2>2, <2>3 DEF ReadLine
<1>6. CASE ReadEof
    BY <1>6 DEF ReadEof
<1>7. CASE OpenTmp
    BY <1>7 DEF OpenTmp, Job
<1>8. CASE CopyByte
    <2>1. wire' \in Seq(Unit)
        BY <1>8, WireStep DEF CopyByte
    <2>2. job' \in Job
        <3> DEFINE h == IF job.save THEN job.hashed + 1 ELSE job.hashed
                   t == IF job.save THEN job.stored + 1 ELSE job.stored
        <3>1. job.left - 1 \in Nat /\ h \in Nat /\ t \in Nat
            BY <1>8 DEF CopyByte, Job
        <3>2. job' = [job EXCEPT !.left = job.left - 1, !.stored = t, !.hashed = h]
            BY <1>8 DEF CopyByte
        <3> HIDE DEF h, t
        <3> QED
            BY <3>1, <3>2 DEF Job
    <2> QED
        BY <1>8, <2>1, <2>2 DEF CopyByte
<1>9. CASE WriteFails
    <2>1. wire' \in Seq(Unit)
        BY <1>9, WireStep DEF WriteFails
    <2>2. PICK part \in 0..1 : job' = [job EXCEPT !.left = 0, !.stored = job.stored + part]
        BY <1>9 DEF WriteFails
    <2>3. job.stored + part \in Nat
        BY DEF Job
    <2>4. job' \in Job
        BY <2>2, <2>3 DEF Job
    <2> QED
        BY <1>9, <2>1, <2>4 DEF WriteFails
<1>10. CASE Rename
    BY <1>10 DEF Rename
<1>11. CASE Trailer
    <2>1. wire' = wire \/ (wire # <<>> /\ wire' = Tail(wire))
        BY <1>11 DEF Trailer
    <2>2. wire' \in Seq(Unit)
        BY <2>1, WireStep
    <2>3. acks' \in Nat
        BY <1>11 DEF Trailer, Ack
    <2> QED
        BY <1>11, <2>2, <2>3, NoJobType DEF Trailer
<1> QED
    BY <1>1, <1>2, <1>3, <1>4, <1>5, <1>6, <1>7, <1>8, <1>9, <1>10, <1>11
    DEF Next, Sender, Reader

(* No step takes back a size, a stored file, a mark or an error. *)
LEMMA Grows ==
    ASSUME TypeOK, [Next]_vars
    PROVE  /\ Len(sizes) <= Len(sizes')
           /\ \A f \in DOMAIN sizes : f \in DOMAIN sizes' /\ sizes'[f] = sizes[f]
           /\ saved \subseteq saved' /\ visible \subseteq visible' /\ faulty \subseteq faulty'
<1> USE DEF senderVars, diskVars
<1>1. ASSUME NEW f \in Sizes, SendFile(f)
      PROVE  sizes' = Append(sizes, f) /\ f \in Nat /\ UNCHANGED <<saved, visible, faulty>>
    BY <1>1, SizesAssumption DEF SendFile
<1>2. CASE (\E m \in Marks : SendMark(m)) \/ SendData \/ GetAck \/ SenderEnds \/ Ready
           \/ StopWaiting \/ Exit \/ UNCHANGED vars
    <2>1. UNCHANGED <<sizes, saved, visible, faulty>>
        BY <1>2 DEF SendMark, SendData, GetAck, SenderEnds, Ready, StopWaiting, Exit, vars
    <2> QED
        BY <2>1 DEF TypeOK
<1>3. CASE Reader
    <2>1. /\ UNCHANGED sizes
          /\ saved \subseteq saved' /\ visible \subseteq visible' /\ faulty \subseteq faulty'
        <3>1. CASE ReadLine \/ ReadEof \/ CopyByte \/ Trailer
            BY <3>1 DEF ReadLine, ReadEof, CopyByte, Trailer
        <3>2. CASE OpenTmp \/ WriteFails
            BY <3>2 DEF OpenTmp, WriteFails
        <3>3. CASE Rename
            BY <3>3 DEF Rename
        <3> QED
            BY <1>3, <3>1, <3>2, <3>3 DEF Reader
    <2> QED
        BY <2>1 DEF TypeOK
<1>4. CASE \E f \in Sizes : SendFile(f)
    <2>1. PICK f \in Nat : sizes' = Append(sizes, f) /\ UNCHANGED <<saved, visible, faulty>>
        BY <1>1, <1>4
    <2>2. /\ Len(sizes') = Len(sizes) + 1 /\ DOMAIN sizes = 1..Len(sizes)
          /\ DOMAIN sizes' = 1..(Len(sizes) + 1) /\ Len(sizes) \in Nat
          /\ \A k \in 1..Len(sizes) : sizes'[k] = sizes[k]
        BY <2>1 DEF TypeOK
    <2> QED
        BY <2>1, <2>2
<1> QED
    BY <1>2, <1>3, <1>4 DEF Next, Sender

LEMMA CapturedStays ==
    ASSUME TypeOK, [Next]_vars, NEW f \in DOMAIN sizes, Captured(f)
    PROVE  f \in DOMAIN sizes' /\ Captured(f)'
BY Grows DEF Captured, Faulty

LEMMA WriteFailedStays ==
    ASSUME TypeOK, [Next]_vars, WriteFailed
    PROVE  WriteFailed'
BY Grows DEF WriteFailed

-------------------------------------------------------------------------------
(* The quarantine directory. *)

LEMMA HashNext == TypeOK /\ HashFollows /\ [Next]_vars => HashFollows'
<1> SUFFICES ASSUME TypeOK, HashFollows, [Next]_vars PROVE HashFollows'
    OBVIOUS
<1> USE DEF HashFollows, senderVars, diskVars
<1>1. CASE Sender \/ SenderEnds \/ Ready \/ StopWaiting \/ Exit \/ ReadEof \/ UNCHANGED vars
    BY <1>1 DEF Sender, SendFile, SendMark, SendData, GetAck, SenderEnds, Ready, StopWaiting,
                Exit, ReadEof, vars
<1>2. CASE ReadLine \/ Trailer
    <2>1. job' = job \/ job'.hashed = job'.stored
        BY <1>2, JobOfLine, NoJobType DEF Trailer
    <2> QED
        BY <1>2, <2>1 DEF ReadLine, Trailer
<1>3. CASE OpenTmp
    <2>1. /\ job'.file = job.file /\ job'.hashed = job.hashed /\ job'.stored = job.stored
          /\ saved' = saved
        BY <1>3 DEF OpenTmp, TypeOK, Job
    <2>2. \A f : <<f, "write">> \in faulty => <<f, "write">> \in faulty'
        BY <1>3 DEF OpenTmp
    <2> QED
        BY <2>1, <2>2
<1>4. CASE CopyByte
    <2>1. /\ job'.file = job.file
          /\ job.hashed = job.stored => job'.hashed = job'.stored
        BY <1>4 DEF CopyByte, TypeOK, Job
    <2> QED
        BY <1>4, <2>1 DEF CopyByte
<1>5. CASE WriteFails
    <2>1. job'.file = job.file /\ <<job.file, "write">> \in faulty' /\ faulty \subseteq faulty'
        BY <1>5 DEF WriteFails, TypeOK, Job
    <2> QED
        BY <1>5, <2>1 DEF WriteFails
<1>6. CASE Rename
    BY <1>6 DEF Rename
<1> QED
    BY <1>1, <1>2, <1>3, <1>4, <1>5, <1>6 DEF Next, Reader

LEMMA TmpNext ==
    TypeOK /\ ReadyFirst /\ TmpIsOpen /\ [Next]_vars => ReadyFirst' /\ TmpIsOpen'
<1> SUFFICES ASSUME TypeOK, ReadyFirst, TmpIsOpen, [Next]_vars PROVE ReadyFirst' /\ TmpIsOpen'
    OBVIOUS
<1> USE DEF ReadyFirst, TmpIsOpen, senderVars, diskVars
<1>1. CASE Sender \/ SenderEnds \/ StopWaiting \/ Exit \/ UNCHANGED vars
    BY <1>1 DEF Sender, SendFile, SendMark, SendData, GetAck, SenderEnds, StopWaiting, Exit, vars
<1>2. CASE Ready
    <2>1. tmp = {} /\ tmp' = tmp /\ main' # "ready"
        BY <1>2 DEF Ready
    <2> QED
        BY <2>1
<1>3. CASE ReadLine \/ ReadEof \/ Trailer
    <2>1. tmp' = tmp /\ reader # "copy" /\ reader # "none" /\ main' = main
        BY <1>3 DEF ReadLine, ReadEof, Trailer
    <2> QED
        BY <2>1
<1>4. CASE OpenTmp
    BY <1>4 DEF OpenTmp, TypeOK, Job
<1>5. CASE CopyByte \/ WriteFails
    <2>1. job'.file = job.file
        BY <1>5 DEF CopyByte, WriteFails, TypeOK, Job
    <2> QED
        BY <1>5, <2>1 DEF CopyByte, WriteFails
<1>6. CASE Rename
    BY <1>6 DEF Rename, CopyEnded
<1> QED
    BY <1>1, <1>2, <1>3, <1>4, <1>5, <1>6 DEF Next, Reader

-------------------------------------------------------------------------------
(* Alignment.  What the reader does to it: *)

LEMMA AlignedReadLine ==
    ASSUME TypeOK, Aligned, ReadLine PROVE Aligned'
<1>1. /\ wire # <<>> /\ ~junk /\ reader = "line" /\ AtLine
      /\ Len(wire) = 1 /\ wire' = <<>> /\ Head(wire) = wire[1]
    BY WireStep DEF ReadLine, Aligned, AtLine, TypeOK
<1>2. /\ UNCHANGED <<sender, next, left, sizes, main, saved, visible, faulty>>
      /\ sender \in {"await", "ended"} /\ (sender = "await" => acks = 0)
    BY <1>1 DEF ReadLine, AtLine, senderVars, diskVars
<1>3. CASE next = "data"
    <2> DEFINE size == sizes[Latest]
    <2>1. /\ wire[1] = [type |-> "file", size |-> left, id |-> Latest]
          /\ sizes # <<>> /\ left = size
        BY <1>1, <1>3 DEF AtLine
    <2>2. wire[1].type = "file" /\ wire[1].size = left /\ wire[1].id = Latest
        BY <2>1
    <2>3. /\ Ack /\ UNCHANGED junk
          /\ reader' = IF left > 0 THEN "open" ELSE "trailer"
          /\ job' = [NoJob EXCEPT !.file = Latest, !.left = left]
        BY <1>1, <2>2 DEF ReadLine
    <2>4. /\ job'.file = Latest /\ job'.left = left
          /\ ~job'.save /\ job'.hashed = 0 /\ job'.stored = 0
        BY <2>3 DEF NoJob
    <2>5. Latest' = Latest /\ sizes'[Latest'] = left /\ sizes' # <<>>
        BY <1>2, <2>1 DEF Latest
    <2>6. InFile'
        BY <1>1, <1>2, <1>3, <2>3, <2>4, <2>5 DEF InFile, Ack, TypeOK, Closed
    <2>7. CASE left > 0
        BY <1>1, <2>3, <2>4, <2>5, <2>6, <2>7 DEF Aligned, Progress
    <2>8. CASE left = 0
        <3>1. Captured(Latest)'
            BY <2>5, <2>8 DEF Captured
        <3> QED
            BY <1>1, <2>3, <2>4, <2>6, <2>8, <3>1 DEF Aligned, Progress
    <2> QED
        BY <2>7, <2>8 DEF TypeOK
<1>4. CASE next = "choose"
    <2>1. wire[1].type = "dir"
        BY <1>1, <1>4 DEF AtLine
    <2>2. Ack /\ UNCHANGED <<reader, junk>>
        BY <1>1, <2>1 DEF ReadLine
    <2> QED
        BY <1>1, <1>2, <1>4, <2>2 DEF Aligned, AtLine, Ack, Closed
<1>5. CASE next = "times"
    <2>1. wire[1].type = "times"
        BY <1>1, <1>5 DEF AtLine
    <2>2. UNCHANGED <<reader, acks>> /\ ~junk'
        BY <1>1, <2>1 DEF ReadLine
    <2> QED
        BY <1>1, <1>2, <1>5, <2>2 DEF Aligned, AtLine
<1> QED
    BY <1>1, <1>3, <1>4, <1>5 DEF AtLine

LEMMA AlignedReadEof ==
    ASSUME TypeOK, Aligned, ReadEof PROVE Aligned'
BY DEF ReadEof, Aligned, Eof, senderVars

LEMMA AlignedOpenTmp ==
    ASSUME TypeOK, Aligned, OpenTmp PROVE Aligned'
<1>1. /\ reader = "open" /\ reader' = "copy" /\ ~junk' /\ InFile /\ Progress
      /\ UNCHANGED <<sender, next, left, sizes, main, wire, acks>>
    BY DEF OpenTmp, Aligned, senderVars
<1>2. job'.file = job.file /\ job'.left = job.left
    BY DEF OpenTmp, TypeOK, Job
<1>3. InFile'
    BY <1>1, <1>2 DEF InFile, Latest, Closed
<1>4. Latest' = Latest /\ sizes'[Latest'] = job.left
    BY <1>1 DEF Progress, Latest
<1>5. CASE job' = [job EXCEPT !.save = TRUE]
    <2>1. job.hashed = 0 /\ job.stored = 0
        BY <1>1 DEF Progress
    <2>2. job'.save = TRUE
        BY <1>5 DEF TypeOK, Job
    <2>3. job'.hashed = 0 /\ job'.stored = 0 /\ job'.left = job.left /\ job.left \in Nat
        BY <1>5, <2>1 DEF TypeOK, Job
    <2>4. Progress'
        BY <1>1, <1>4, <2>2, <2>3 DEF Progress
    <2> QED
        BY <1>1, <1>3, <2>4 DEF Aligned
<1>6. CASE /\ job' = job
            /\ \/ job.left > MaxPayload
               \/ "open" \in Faults /\ <<job.file, "open">> \in faulty'
    <2>1. ~job'.save /\ (sizes'[Latest'] > MaxPayload \/ Faulty(Latest)')
        BY <1>1, <1>4, <1>6 DEF Progress, InFile, Faulty
    <2> QED
        BY <1>1, <1>3, <2>1 DEF Aligned, Progress
<1>7. \/ job' = job /\ job.left > MaxPayload
      \/ job' = job /\ "open" \in Faults /\ <<job.file, "open">> \in faulty'
      \/ job' = [job EXCEPT !.save = TRUE]
    BY DEF OpenTmp
<1> QED
    BY <1>5, <1>6, <1>7

LEMMA AlignedCopyByte ==
    ASSUME TypeOK, Aligned, CopyByte PROVE Aligned'
<1>1. /\ reader = "copy" /\ reader' = "copy" /\ ~junk' /\ InFile /\ Progress
      /\ job.left > 0 /\ wire # <<>> /\ wire' = Tail(wire)
      /\ UNCHANGED <<sender, next, left, sizes, main, acks, faulty>>
    BY DEF CopyByte, Aligned, senderVars, diskVars
<1>2. /\ job'.file = job.file /\ job'.save = job.save /\ job'.left = job.left - 1
      /\ job.save => job'.stored = job.stored + 1 /\ job'.hashed = job.hashed + 1
    BY DEF CopyByte, TypeOK, Job
<1>3. /\ Len(wire) \in Nat \ {0} /\ Len(wire') = Len(wire) - 1
      /\ DOMAIN wire = 1..Len(wire) /\ DOMAIN wire' = 1..(Len(wire) - 1)
      /\ \A i \in DOMAIN wire' : i + 1 \in DOMAIN wire /\ wire'[i] = wire[i + 1]
    BY <1>1 DEF TypeOK
<1>4. InFile'
    <2>1. CASE next = "data"
        <3>1. sender # "await" /\ Len(wire') + left = job'.left
            BY <1>1, <1>2, <1>3, <2>1 DEF InFile, TypeOK, Job
        <3>2. \A i \in DOMAIN wire' : wire'[i].type = "byte"
            BY <1>1, <1>3, <2>1 DEF InFile
        <3> QED
            BY <1>1, <1>2, <2>1, <3>1, <3>2 DEF InFile, Latest
    <2>2. CASE next = "file"
        <3>1. Len(wire) = job.left + 1 /\ job.left \in Nat
            BY <1>1, <2>2 DEF InFile, TypeOK, Job
        <3>3. Len(wire') = job'.left + 1
            BY <1>2, <1>3, <3>1
        <3>2. \A i \in DOMAIN wire' :
                 wire'[i].type = IF i = Len(wire') THEN "nul" ELSE "byte"
            BY <1>1, <1>3, <2>2 DEF InFile
        <3> QED
            BY <1>1, <1>2, <2>2, <3>2, <3>3 DEF InFile, Latest
    <2> QED
        BY <1>1, <2>1, <2>2 DEF InFile
<1>5. Progress'
    <2>1. job.left \in Nat /\ job.hashed \in Nat /\ sizes'[Latest'] = sizes[Latest]
        BY <1>1 DEF TypeOK, Job, Latest
    <2>2. CASE job.save
        <3>1. job.hashed = job.stored /\ job.hashed + job.left = sizes[Latest]
            BY <1>1, <2>2 DEF Progress
        <3>2. job'.hashed = job'.stored /\ job'.hashed + job'.left = sizes[Latest]
            BY <1>2, <2>1, <2>2, <3>1
        <3> QED
            BY <1>1, <1>2, <2>1, <2>2, <3>2 DEF Progress
    <2>3. CASE ~job.save
        <3>1. sizes[Latest] > MaxPayload \/ Faulty(Latest)
            BY <1>1, <2>3 DEF Progress
        <3> QED
            BY <1>1, <1>2, <2>3, <3>1 DEF Progress, Faulty, Latest
    <2> QED
        BY <2>2, <2>3
<1> QED
    BY <1>1, <1>4, <1>5 DEF Aligned

(* A failed write is a failed write of a file that was announced. *)
LEMMA WriteFailsFails ==
    ASSUME TypeOK, Aligned, WriteFails PROVE WriteFailed'
<1>1. /\ sizes' = sizes /\ <<job.file, "write">> \in faulty'
      /\ sizes # <<>> /\ job.file = Len(sizes)
    BY DEF WriteFails, Aligned, InFile, Latest, senderVars
<1>2. Len(sizes) \in DOMAIN sizes
    BY <1>1 DEF TypeOK
<1> QED
    BY <1>1, <1>2 DEF WriteFailed

LEMMA AlignedRename ==
    ASSUME TypeOK, Aligned, Rename PROVE Aligned'
<1>1. /\ reader = "copy" /\ reader' = "trailer" /\ ~junk' /\ InFile /\ Progress
      /\ UNCHANGED <<sender, next, left, sizes, main, acks, wire, job>>
      /\ visible' = visible \cup {job.file}
    BY DEF Rename, CopyEnded, Aligned, senderVars
<1>2. InFile' /\ Latest' = Latest /\ job.file = Latest
    BY <1>1 DEF InFile, Latest, Closed
<1>3. CASE wire = <<>> /\ Eof
    <2>1. Progress'
        BY <1>1, <1>3 DEF Progress, Eof
    <2> QED
        BY <1>1, <1>2, <2>1 DEF Aligned
<1>4. CASE job.left = 0
    <2>1. Latest \in visible'
        BY <1>1, <1>2
    <2>2. ASSUME sizes[Latest] \in 1..MaxPayload, ~Faulty(Latest)'
          PROVE  [file |-> Latest, hashed |-> sizes[Latest], stored |-> sizes[Latest]] \in saved'
        <3>1. faulty \subseteq faulty'
            BY DEF Rename
        <3>2. ~Faulty(Latest)
            BY <1>2, <2>2, <3>1 DEF Faulty
        <3>3. job.save /\ job.hashed = sizes[Latest] /\ job.stored = sizes[Latest]
            BY <1>1, <1>4, <2>2, <3>2, SizesAssumption DEF Progress, TypeOK, Job
        <3>4. ~("rename" \in Faults /\ <<job.file, "rename">> \in faulty')
            BY <1>2, <2>2 DEF Faulty
        <3> QED
            BY <1>2, <3>3, <3>4 DEF Rename
    <2>3. Captured(Latest)'
        BY <1>1, <1>2, <2>1, <2>2 DEF Captured
    <2>4. Progress'
        BY <1>1, <1>4, <2>3 DEF Progress
    <2> QED
        BY <1>1, <1>2, <2>4 DEF Aligned
<1> QED
    BY <1>3, <1>4 DEF Rename, CopyEnded

LEMMA AlignedTrailer ==
    ASSUME TypeOK, Aligned, Trailer PROVE Aligned'
<1>1. /\ reader = "trailer" /\ reader' = "line" /\ ~junk' /\ InFile /\ Progress
      /\ UNCHANGED <<sender, next, left, sizes, main, saved, visible, faulty>> /\ Ack
    BY DEF Trailer, Aligned, senderVars, diskVars
<1>2. Len(wire) \in Nat /\ (wire = <<>> <=> Len(wire) = 0)
    BY DEF TypeOK
<1>3. CASE wire = <<>>
    <2>1. Eof /\ wire' = <<>>
        BY <1>3 DEF Trailer
    <2>2. next = "data"
        BY <1>1, <1>2, <1>3 DEF InFile, TypeOK, Job
    <2> QED
        BY <1>1, <2>1, <2>2 DEF Aligned, AtLine, Eof
<1>4. CASE wire # <<>>
    <2>1. job.left = 0 /\ Captured(Latest) /\ wire' = Tail(wire)
        BY <1>1, <1>4 DEF Progress, Trailer
    <2>2. next = "file" /\ Len(wire) = 1
        BY <1>1, <1>2, <1>4, <2>1 DEF InFile, TypeOK
    <2>3. wire' = <<>>
        BY <2>1, <2>2 DEF TypeOK
    <2>4. sizes' # <<>> /\ Captured(Latest)'
        BY <1>1, <2>1 DEF Captured, Faulty, Latest, InFile
    <2>5. sender \in {"await", "ended"} /\ (sender = "await" => acks = 0)
        BY <1>1, <2>2 DEF InFile
    <2> QED
        BY <1>1, <2>2, <2>3, <2>4, <2>5 DEF Aligned, AtLine, Ack, Closed
<1> QED
    BY <1>3, <1>4

(* What the others do to it: *)

LEMMA AlignedSender ==
    ASSUME TypeOK, Aligned, Sender PROVE Aligned'
<1>1. /\ sender # "ended" /\ UNCHANGED <<main, reader, junk, job, saved, visible, faulty>>
      /\ ~junk /\ reader # "done"
    BY DEF Sender, SendFile, SendMark, SendData, GetAck, Aligned, Eof, diskVars
<1>2. ASSUME NEW s \in Sizes, SendFile(s) PROVE Aligned'
    <2> DEFINE u == [type |-> "file", size |-> s, id |-> Len(sizes) + 1]
    <2>1. sender = "choose" /\ reader = "line" /\ wire = <<>> /\ acks = 0
        BY <1>1, <1>2 DEF SendFile, Aligned, AtLine, InFile, TypeOK
    <2>2. wire' = <<u>>
        BY <1>2, <2>1 DEF SendFile, Send
    <2>3. Len(wire') = 1 /\ wire'[1] = u
        BY <2>2
    <2>4. sizes' # <<>> /\ Latest' = Len(sizes) + 1 /\ sizes'[Latest'] = s
        BY <1>2, SizesAssumption DEF SendFile, Latest, TypeOK
    <2>5. left' = s /\ next' = "data" /\ sender' = "await" /\ acks' = 0
        BY <1>2, <2>1 DEF SendFile, Send
    <2>6. wire'[1] = [type |-> "file", size |-> left', id |-> Latest']
        BY <2>3, <2>4, <2>5
    <2>7. AtLine'
        BY <2>3, <2>4, <2>5, <2>6 DEF AtLine
    <2> QED
        BY <1>1, <2>1, <2>7 DEF Aligned
<1>3. ASSUME NEW m \in Marks, SendMark(m) PROVE Aligned'
    <2>1. sender = "choose" /\ reader = "line" /\ wire = <<>> /\ acks = 0
        BY <1>1, <1>3 DEF SendMark, Aligned, AtLine, InFile, TypeOK
    <2>2. wire' = <<[type |-> m]>>
        BY <1>3, <2>1 DEF SendMark, Send
    <2>3. Len(wire') = 1 /\ wire'[1].type = m
        BY <2>2
    <2>4. /\ next' = IF m = "times" THEN "times" ELSE "choose"
          /\ sender' = "await" /\ acks' = 0 /\ m \in {"dir", "times"}
        BY <1>3, <2>1, MarksAssumption DEF SendMark, Send
    <2>5. AtLine'
        BY <2>3, <2>4 DEF AtLine
    <2> QED
        BY <1>1, <2>1, <2>5 DEF Aligned
<1>4. CASE SendData
    <2>1. /\ reader \in {"open", "copy", "trailer"} /\ InFile /\ Progress
          /\ sender = "data" /\ next = "data" /\ acks = 0
        BY <1>1, <1>4 DEF SendData, Aligned, AtLine, InFile, TypeOK
    <2>2. /\ UNCHANGED <<sizes, acks, reader, job>> /\ Latest' = Latest
          /\ job.file = Latest /\ sizes # <<>>
          /\ \A i \in DOMAIN wire : wire[i].type = "byte"
          /\ Len(wire) + left = job.left
        BY <1>4, <2>1 DEF SendData, InFile, Latest
    <2>3. ASSUME left > 0 PROVE InFile'
        <3>1. /\ wire' = Append(wire, [type |-> "byte"]) /\ left' = left - 1
              /\ UNCHANGED <<sender, next>>
            BY <1>4, <2>3 DEF SendData
        <3>2. /\ Len(wire') = Len(wire) + 1
              /\ \A i \in DOMAIN wire' : wire'[i].type = "byte"
            BY <2>2, <3>1 DEF TypeOK
        <3>3. Len(wire') + left' = job'.left
            BY <2>2, <2>3, <3>1, <3>2 DEF TypeOK
        <3> QED
            BY <2>1, <2>2, <3>1, <3>2, <3>3 DEF InFile
    <2>4. ASSUME left = 0 PROVE InFile'
        <3>1. wire' = Append(wire, [type |-> "nul"]) /\ left' = 0 /\ sender' = "await"
              /\ next' = "file"
            BY <1>4, <2>4 DEF SendData, Send, TypeOK
        <3>2. /\ Len(wire') = Len(wire) + 1
              /\ \A i \in DOMAIN wire' :
                    wire'[i].type = IF i = Len(wire') THEN "nul" ELSE "byte"
            BY <2>2, <3>1 DEF TypeOK
        <3>3. Len(wire') = job'.left + 1
            BY <2>2, <2>4, <3>2 DEF TypeOK
        <3> QED
            BY <2>1, <2>2, <3>1, <3>2, <3>3 DEF InFile
    <2>5. InFile'
        BY <2>3, <2>4 DEF TypeOK
    <2>6. Progress'
        <3>1. ~Eof
            BY <2>1 DEF Eof
        <3> QED
            BY <1>1, <2>1, <2>2, <3>1 DEF Progress, Captured, Faulty
    <2> QED
        BY <1>1, <2>1, <2>5, <2>6 DEF Aligned
<1>5. CASE GetAck
    <2>1. /\ sender = "await" /\ acks > 0 /\ acks' = acks - 1 /\ Latest' = Latest
          /\ sender' = IF next = "data" THEN "data" ELSE "choose"
          /\ UNCHANGED <<next, left, sizes, wire>>
        BY <1>5 DEF GetAck, Latest
    <2>5. Captured(Latest) => Captured(Latest)'
        BY <1>1, <2>1 DEF Captured, Faulty
    <2>2. CASE reader = "line"
        <3>1. wire = <<>> /\ acks = 1 /\ next # "data" /\ AtLine
            BY <2>1, <2>2 DEF Aligned, AtLine, Eof, TypeOK
        <3>2. next = "file" => sizes # <<>> /\ Captured(Latest)
            BY <3>1 DEF AtLine
        <3>3. sender' = "choose" /\ acks' = 0 /\ wire' = <<>> /\ next' # "data"
            BY <2>1, <3>1
        <3>4. next' = "file" => sizes' # <<>> /\ Captured(Latest)'
            BY <2>1, <2>5, <3>2
        <3>5. AtLine'
            BY <3>3, <3>4 DEF AtLine
        <3> QED
            BY <1>1, <2>2, <3>5 DEF Aligned
    <2>3. CASE reader \in {"open", "copy", "trailer"}
        <3>1. InFile /\ Progress /\ next = "data" /\ acks = 1 /\ wire = <<>>
            BY <2>1, <2>3 DEF Aligned, InFile, TypeOK
        <3>2. InFile'
            BY <1>1, <2>1, <3>1 DEF InFile
        <3>3. Progress'
            <4>1. ~Eof
                BY <2>1 DEF Eof
            <4>2. CASE reader = "trailer"
                <5>1. job.left = 0 /\ Captured(Latest)'
                    BY <2>5, <3>1, <4>1, <4>2 DEF Progress
                <5> QED
                    BY <1>1, <4>2, <5>1 DEF Progress
            <4>3. CASE reader # "trailer"
                BY <1>1, <2>1, <2>3, <3>1, <4>3 DEF Progress, Faulty
            <4> QED
                BY <4>2, <4>3
        <3> QED
            BY <1>1, <2>3, <3>2, <3>3 DEF Aligned
    <2>4. reader # "none"
        BY <2>1 DEF Aligned
    <2> QED
        BY <1>1, <2>2, <2>3, <2>4 DEF TypeOK
<1> QED
    BY <1>2, <1>3, <1>4, <1>5 DEF Sender

LEMMA AlignedOthers ==
    ASSUME TypeOK, ReadyFirst, Aligned,
           SenderEnds \/ Ready \/ StopWaiting \/ Exit \/ UNCHANGED vars
    PROVE  Aligned'
<1>1. /\ UNCHANGED <<next, left, sizes, wire, junk, job, saved, visible, faulty>>
      /\ Latest' = Latest
    BY DEF SenderEnds, Ready, StopWaiting, Exit, vars, senderVars, diskVars, Latest
<1>2. (Eof => Eof') /\ (Closed => Closed') /\ (sender' = sender \/ sender' = "ended")
    BY DEF SenderEnds, Ready, StopWaiting, Exit, vars, senderVars, Eof, Closed
<1>3. CASE reader' = reader /\ acks' = acks
    <2>1. reader = "line" => AtLine'
        BY <1>1, <1>2, <1>3 DEF Aligned, AtLine, Captured, Faulty
    <2>2. reader \in {"open", "copy", "trailer"} => InFile'
        BY <1>1, <1>2, <1>3 DEF Aligned, InFile
    <2>3. reader \in {"open", "copy", "trailer"} => Progress'
        BY <1>1, <1>2, <1>3 DEF Aligned, Progress, Captured, Faulty
    <2>4. reader = "none" => main' \in {"ready", "done"}
        <3>1. reader = "none" => main \in {"ready", "done"}
            BY DEF Aligned
        <3>2. main' = main \/ main \in {"wait", "exit"} \/ main' \in {"wait", "done"}
            BY DEF SenderEnds, Ready, StopWaiting, Exit, vars
        <3>3. main' = "wait" => main = "wait" \/ reader' = "line"
            BY DEF SenderEnds, Ready, StopWaiting, Exit, vars
        <3> QED
            BY <1>3, <3>1, <3>2, <3>3
    <2> QED
        BY <1>1, <1>2, <1>3, <2>1, <2>2, <2>3, <2>4 DEF Aligned
<1>4. CASE Ready /\ reader' = "line" /\ acks' = acks + 1
    <2>1. /\ reader = "none" /\ wire = <<>> /\ acks = 0 /\ sender' \in {"await", "ended"}
          /\ next = "choose"
        BY <1>2, <1>4 DEF Ready, ReadyFirst, Aligned
    <2>2. AtLine'
        BY <1>1, <1>4, <2>1 DEF AtLine
    <2> QED
        BY <1>1, <1>4, <2>2 DEF Aligned
<1> QED
    BY <1>3, <1>4 DEF SenderEnds, Ready, StopWaiting, Exit, vars, senderVars

LEMMA AlignedNext ==
    ASSUME TypeOK, ReadyFirst, Aligned, [Next]_vars, ~WriteFailed' PROVE Aligned'
BY AlignedReadLine, AlignedReadEof, AlignedOpenTmp, AlignedCopyByte, WriteFailsFails,
   AlignedRename, AlignedTrailer, AlignedSender, AlignedOthers DEF Next, Reader

LEMMA AckedNext ==
    ASSUME TypeOK, Aligned, AckedAreCaptured, [Next]_vars PROVE AckedAreCaptured'
<1>1. \A f \in acked : f \in DOMAIN sizes' /\ Captured(f)'
    BY CapturedStays DEF AckedAreCaptured
<1>2. CASE GetAck /\ next = "file"
    <2>1. acked' = acked \cup {Len(sizes)} /\ sender = "await" /\ acks > 0
        BY <1>2 DEF GetAck
    <2>2. sizes # <<>> /\ Captured(Latest)
        BY <1>2, <2>1 DEF Aligned, AtLine, InFile, Eof, TypeOK
    <2>3. PICK f \in DOMAIN sizes : f = Latest
        BY <2>2 DEF TypeOK, Latest
    <2>4. f \in DOMAIN sizes' /\ Captured(f)'
        BY <2>2, <2>3, CapturedStays
    <2> QED
        BY <1>1, <2>1, <2>3, <2>4 DEF AckedAreCaptured, Latest
<1>3. CASE acked' = acked
    BY <1>1, <1>3 DEF AckedAreCaptured
<1> QED
    BY <1>2, <1>3 DEF Next, Sender, Reader, SendFile, SendMark, SendData, GetAck, SenderEnds,
       Ready, StopWaiting, Exit, ReadLine, ReadEof, OpenTmp, CopyByte, WriteFails, Rename,
       Trailer, vars

LEMMA InvNext == Inv /\ [Next]_vars => Inv'
<1> SUFFICES ASSUME Inv, [Next]_vars PROVE Inv'
    OBVIOUS
<1>1. TypeOK' /\ HashFollows' /\ ReadyFirst' /\ TmpIsOpen'
    BY TypeNext, HashNext, TmpNext DEF Inv
<1>2. ASSUME ~WriteFailed' PROVE Aligned' /\ AckedAreCaptured'
    <2>1. ~WriteFailed
        BY <1>2, WriteFailedStays DEF Inv
    <2> QED
        BY <1>2, <2>1, AlignedNext, AckedNext DEF Inv
<1> QED
    BY <1>1, <1>2 DEF Inv

THEOREM InvHolds == Spec => []Inv
BY InitInv, InvNext, PTL DEF Spec

-------------------------------------------------------------------------------
(* The types of the sender, the wire, the reader and its job.                *)
THEOREM TypeCorrect == Spec => []TypeOK
<1>1. Inv => TypeOK
    BY DEF Inv
<1> QED
    BY <1>1, InvHolds, PTL

(* runSCPReceive and savePayload never read payload bytes as a record, for   *)
(* any sizes and any errors except a write that failed.                      *)
THEOREM StaysInStep == Spec => []IntactUnlessWriteFails
<1>1. Inv => IntactUnlessWriteFails
    BY DEF Inv, IntactUnlessWriteFails, ProtocolIntact, Aligned
<1> QED
    BY <1>1, InvHolds, PTL

(* savePayload names a file by the hash of what it holds and leaves no .tmp  *)
(* behind, whatever else fails and however the upload ends.                  *)
THEOREM QuarantineIsHonest == Spec => []QuarantineHonest
<1>1. Inv => QuarantineHonest
    BY DEF Inv, QuarantineHonest, HashFollows, TmpIsOpen
<1> QED
    BY <1>1, InvHolds, PTL

(* The acknowledgement after a file is sent when the file is in quarantine   *)
(* and marked in the session's filesystem.                                   *)
THEOREM AckMeansCaptured == Spec => []AckedIsCaptured
<1>1. Inv => AckedIsCaptured
    BY DEF Inv, AckedIsCaptured, AckedAreCaptured, Captured, Faulty
<1> QED
    BY <1>1, InvHolds, PTL

(* While runSCPReceive waits, its reader owes the sender an acknowledgement  *)
(* or the sender owes it data; only a T record is read and not answered.     *)
THEOREM NeverBothWait == Spec => []NoMutualWait
<1>1. Inv => NoMutualWait
    <2> SUFFICES ASSUME Inv, sender = "await", acks = 0, wire = <<>>, main = "wait",
                        reader \in {"line", "trailer"}, ~WriteFailed
                 PROVE  next = "times"
        BY DEF NoMutualWait
    <2>1. Aligned /\ TypeOK /\ ~Closed /\ ~Eof
        BY DEF Inv, Closed, Eof
    <2>2. CASE reader = "line"
        BY <2>1, <2>2 DEF Aligned, AtLine
    <2>3. CASE reader = "trailer"
        BY <2>1, <2>3 DEF Aligned, InFile, TypeOK, Job
    <2> QED
        BY <2>2, <2>3
<1> QED
    BY <1>1, InvHolds, PTL
===============================================================================

------------------------------ MODULE ScpReceive ------------------------------
(***************************************************************************)
(* session.runSCPReceive and savePayload: the receiving side of one scp    *)
(* upload, the sender it talks to, and the quarantine directory.           *)
(*                                                                         *)
(* A header line is one unit on the wire; a payload of size k is k units   *)
(* "byte", and "nul" is the byte that ends it.  A stored file is named by  *)
(* how much of the payload was hashed and holds how much was written: two  *)
(* numbers that agree exactly when the SHA-256 in its name is its own.     *)
(***************************************************************************)
EXTENDS Integers, Sequences

CONSTANTS
    Sizes,          \* payload sizes the sender may announce
    MaxPayload,     \* maxPayloadBytes
    Marks,          \* other records it may send, a subset of {"dir", "times"}
    Faults,         \* disk errors that may happen: {"open", "write", "rename"}
    MaxRecords      \* bound: records the sender sends

(* "dir" is a D or E record, which is acknowledged; "times" is the T record  *)
(* of scp -p, which the code only logs.                                      *)
ASSUME SizesAssumption == Sizes \subseteq Nat /\ MaxPayload \in Nat
ASSUME MarksAssumption == Marks \subseteq {"dir", "times"}
ASSUME FaultsAssumption == Faults \subseteq {"open", "write", "rename"}
ASSUME BoundAssumption == MaxRecords \in Nat

VARIABLES
    sender,     \* "await" (an acknowledgement) | "choose" | "data" | "ended"
    next,       \* what is to be acknowledged: "choose" (the start, a directory)
                \*   | "data" (a file record) | "file" (its data) | "times"
    left,       \* payload bytes it still has to send
    sizes,      \* the sizes of the files it announced, in order
    records,    \* how many records it sent
    wire,       \* sender to receiver
    acks,       \* acknowledgement bytes on their way back
    main,       \* runSCPReceive: "ready" | "wait" | "exit" | "done"
    reader,     \* its goroutine: "none" | "line" | "open" | "copy" | "rename"
                \*                | "trailer" | "done"
    junk,       \* does the line being read start with something else?
    job,        \* the payload being received
    tmp,        \* files with a .tmp in the quarantine directory
    saved,      \* the .bin files there
    visible,    \* files marked in the session's filesystem
    faulty,     \* history: <<file, fault>> of every disk error
    acked       \* history: files the sender saw acknowledged to the end

senderVars == <<sender, next, left, sizes, records>>
diskVars == <<tmp, saved, visible, faulty>>
vars == <<senderVars, wire, acks, main, reader, junk, job, diskVars, acked>>

NoJob == [file |-> 0, left |-> 0, save |-> FALSE, hashed |-> 0, stored |-> 0]

Init ==
    /\ sender = "await" /\ next = "choose" /\ left = 0
    /\ sizes = <<>> /\ records = 0
    /\ wire = <<>> /\ acks = 0
    /\ main = "ready" /\ reader = "none" /\ junk = FALSE /\ job = NoJob
    /\ tmp = {} /\ saved = {} /\ visible = {} /\ faulty = {} /\ acked = {}

Eof == sender = "ended"         \* the channel will bring nothing more
Closed == main = "done"         \* and takes nothing more from the receiver

-------------------------------------------------------------------------------
(* The sender: external, an scp client. *)

Send(u, then) ==
    /\ wire' = wire \o u
    /\ sender' = "await"
    /\ next' = then

SendFile(s) ==
    /\ sender = "choose" /\ records < MaxRecords
    /\ Send(<<[type |-> "file", size |-> s, id |-> Len(sizes) + 1]>>, "data")
    /\ sizes' = Append(sizes, s)
    /\ left' = s
    /\ records' = records + 1
    /\ UNCHANGED <<acks, main, reader, junk, job, diskVars, acked>>

SendMark(m) ==
    /\ sender = "choose" /\ records < MaxRecords
    /\ Send(<<[type |-> m]>>, IF m = "times" THEN "times" ELSE "choose")
    /\ records' = records + 1
    /\ UNCHANGED <<left, sizes, acks, main, reader, junk, job, diskVars, acked>>

(* One byte of payload, or the nul after the last. *)
SendData ==
    /\ sender = "data"
    /\ \/ /\ left > 0
          /\ left' = left - 1
          /\ wire' = Append(wire, [type |-> "byte"])
          /\ UNCHANGED <<sender, next>>
       \/ /\ left = 0
          /\ Send(<<[type |-> "nul"]>>, "file")
          /\ UNCHANGED left
    /\ UNCHANGED <<sizes, records, acks, main, reader, junk, job, diskVars, acked>>

GetAck ==
    /\ sender = "await" /\ acks > 0
    /\ acks' = acks - 1
    /\ sender' = IF next = "data" THEN "data" ELSE "choose"
    /\ acked' = IF next = "file" THEN acked \cup {Len(sizes)} ELSE acked
    /\ UNCHANGED <<next, left, sizes, records, wire, main, reader, junk, job, diskVars>>

(* It is finished, gives up, is gone, or sees our CLOSE. *)
SenderEnds ==
    /\ sender # "ended"
    /\ sender' = "ended"
    /\ UNCHANGED <<next, left, sizes, records, wire, acks, main, reader, junk, job,
                   diskVars, acked>>

-------------------------------------------------------------------------------
(* runSCPReceive. *)

Ready ==
    /\ main = "ready"
    /\ \/ main' = "wait" /\ reader' = "line" /\ acks' = acks + 1
       \/ Eof /\ main' = "done" /\ UNCHANGED <<reader, acks>>   \* the write fails
    /\ UNCHANGED <<senderVars, wire, junk, job, diskVars, acked>>

(* Mutant: no 30s limit. *)
WaitForReader ==
    /\ main = "wait" /\ reader = "done"
    /\ main' = "exit"
    /\ UNCHANGED <<senderVars, wire, acks, reader, junk, job, diskVars, acked>>

(* The reader is done, or 30 seconds are over. *)
StopWaiting ==
    /\ main = "wait"
    /\ main' = "exit"
    /\ UNCHANGED <<senderVars, wire, acks, reader, junk, job, diskVars, acked>>

(* exit-status 0, then the deferred Close.  The reader goes on by itself.    *)
Exit ==
    /\ main = "exit"
    /\ main' = "done"
    /\ UNCHANGED <<senderVars, wire, acks, reader, junk, job, diskVars, acked>>

-------------------------------------------------------------------------------
(* The reader goroutine.  A write on a closed channel fails, unnoticed.      *)

Ack == acks' = IF Closed THEN acks ELSE acks + 1

(* Mutant: directory records are not acknowledged. *)
ReadLineFilesOnly ==
    LET u == Head(wire)
    IN  /\ reader = "line" /\ wire # <<>>
        /\ wire' = Tail(wire)
        /\ \/ /\ u.type # "file"
              /\ UNCHANGED <<acks, reader, job>>
           \/ /\ u.type = "file"
              /\ Ack
              /\ job' = [NoJob EXCEPT !.file = u.id, !.left = u.size]
              /\ reader' = IF u.size > 0 THEN "open" ELSE "trailer"
        /\ UNCHANGED <<senderVars, main, junk, diskVars, acked>>

(* ReadString('\n') and what the line starts with.  Payload bytes read here  *)
(* become part of a line that no case matches.                               *)
ReadLine ==
    LET u == Head(wire)
    IN  /\ reader = "line" /\ wire # <<>>
        /\ wire' = Tail(wire)
        /\ \/ /\ u.type \in {"byte", "nul"}
              /\ junk' = TRUE
              /\ UNCHANGED <<acks, reader, job>>
           \/ /\ u.type = "times" \/ (junk /\ u.type \in {"file", "dir"})
              /\ junk' = FALSE
              /\ UNCHANGED <<acks, reader, job>>
           \/ /\ u.type = "dir" /\ ~junk
              /\ Ack
              /\ UNCHANGED <<reader, junk, job>>
           \/ /\ u.type = "file" /\ ~junk
              /\ Ack
              /\ job' = [NoJob EXCEPT !.file = u.id, !.left = u.size]
              /\ reader' = IF u.size > 0 THEN "open" ELSE "trailer"
              /\ UNCHANGED junk
        /\ UNCHANGED <<senderVars, main, diskVars, acked>>

ReadEof ==
    /\ reader = "line" /\ wire = <<>> /\ Eof
    /\ reader' = "done"
    /\ UNCHANGED <<senderVars, wire, acks, main, junk, job, diskVars, acked>>

(* Mutants: a payload that is not kept is not drained either; a payload of   *)
(* exactly the maximal size is dropped.                                      *)
OpenOrSkip ==
    /\ reader = "open"
    /\ reader' = "copy"
    /\ IF job.left > MaxPayload
         THEN job' = [job EXCEPT !.left = 0] /\ UNCHANGED tmp
         ELSE job' = [job EXCEPT !.save = TRUE] /\ tmp' = tmp \cup {job.file}
    /\ UNCHANGED <<senderVars, wire, acks, main, junk, saved, visible, faulty, acked>>
OpenBelowMax ==
    /\ reader = "open"
    /\ reader' = "copy"
    /\ IF job.left >= MaxPayload
         THEN UNCHANGED <<job, tmp>>
         ELSE job' = [job EXCEPT !.save = TRUE] /\ tmp' = tmp \cup {job.file}
    /\ UNCHANGED <<senderVars, wire, acks, main, junk, saved, visible, faulty, acked>>

(* savePayload: a payload that is too large, or cannot be opened, or (with   *)
(* no quarantine directory) is not kept, is drained.                         *)
OpenTmp ==
    /\ reader = "open"
    /\ reader' = "copy"
    /\ \/ /\ job.left > MaxPayload
          /\ UNCHANGED <<job, tmp, faulty>>
       \/ /\ job.left <= MaxPayload /\ "open" \in Faults
          /\ faulty' = faulty \cup {<<job.file, "open">>}
          /\ UNCHANGED <<job, tmp>>
       \/ /\ job.left <= MaxPayload
          /\ job' = [job EXCEPT !.save = TRUE]
          /\ tmp' = tmp \cup {job.file}
          /\ UNCHANGED faulty
    /\ UNCHANGED <<senderVars, wire, acks, main, junk, saved, visible, acked>>

(* io.Copy, a unit at a time: MultiWriter writes to the file, then hashes.   *)
CopyByte ==
    /\ reader = "copy" /\ job.left > 0 /\ wire # <<>>
    /\ wire' = Tail(wire)
    /\ job' = [job EXCEPT !.left = @ - 1,
                          !.stored = IF job.save THEN @ + 1 ELSE @,
                          !.hashed = IF job.save THEN @ + 1 ELSE @]
    /\ UNCHANGED <<senderVars, acks, main, reader, junk, diskVars, acked>>

(* The file refuses a write, perhaps after taking part of it: Copy returns   *)
(* at once, its error is dropped, and the rest stays on the wire.            *)
WriteFails ==
    /\ reader = "copy" /\ job.save /\ job.left > 0 /\ wire # <<>>
    /\ "write" \in Faults
    /\ wire' = Tail(wire)
    /\ \E part \in 0..1 :
         job' = [job EXCEPT !.left = 0, !.stored = @ + part]
    /\ faulty' = faulty \cup {<<job.file, "write">>}
    /\ UNCHANGED <<senderVars, acks, main, reader, junk, tmp, saved, visible, acked>>

(* All announced bytes were copied, or there will be no more. *)
CopyEnded == reader = "copy" /\ (job.left = 0 \/ (wire = <<>> /\ Eof))

(* Mutant: the name is taken from the announced size. *)
RenameAnnounced ==
    /\ CopyEnded
    /\ tmp' = tmp \ {job.file}
    /\ saved' = IF job.save
                  THEN saved \cup {[file |-> job.file, hashed |-> sizes[job.file], stored |-> job.stored]}
                  ELSE saved
    /\ visible' = visible \cup {job.file}
    /\ reader' = "trailer"
    /\ UNCHANGED <<senderVars, wire, acks, main, junk, job, faulty, acked>>

(* Copy ended: name the file by its hash, or remove it; the session's        *)
(* filesystem shows it either way.                                           *)
Rename ==
    /\ CopyEnded
    /\ tmp' = tmp \ {job.file}
    /\ \/ /\ job.save
          /\ saved' = saved \cup {[file |-> job.file, hashed |-> job.hashed, stored |-> job.stored]}
          /\ UNCHANGED faulty
       \/ /\ job.save /\ "rename" \in Faults
          /\ faulty' = faulty \cup {<<job.file, "rename">>}
          /\ UNCHANGED saved
       \/ ~job.save /\ UNCHANGED <<saved, faulty>>
    /\ visible' = visible \cup {job.file}
    /\ reader' = "trailer"
    /\ UNCHANGED <<senderVars, wire, acks, main, junk, job, acked>>

(* ReadByte takes whatever comes next, or the end of input. *)
Trailer ==
    /\ reader = "trailer"
    /\ \/ wire # <<>> /\ wire' = Tail(wire)
       \/ wire = <<>> /\ Eof /\ UNCHANGED wire
    /\ Ack
    /\ reader' = "line"
    /\ job' = NoJob
    /\ UNCHANGED <<senderVars, main, junk, diskVars, acked>>

Reader == ReadLine \/ ReadEof \/ OpenTmp \/ CopyByte \/ WriteFails \/ Rename \/ Trailer
Sender == (\E s \in Sizes : SendFile(s)) \/ (\E m \in Marks : SendMark(m)) \/ SendData \/ GetAck

Next == Sender \/ SenderEnds \/ Ready \/ StopWaiting \/ Exit \/ Reader

Spec == Init /\ [][Next]_vars

(* The server's goroutines run and its timer runs out; the sender answers    *)
(* what it receives and closes its end when the receiver closed.             *)
FairSpec ==
    /\ Spec
    /\ WF_vars(Ready) /\ WF_vars(StopWaiting) /\ WF_vars(Exit) /\ WF_vars(Reader)
    /\ WF_vars(GetAck) /\ WF_vars(SendData) /\ WF_vars(Closed /\ SenderEnds)

-------------------------------------------------------------------------------
(* Properties.                                                             *)

(* Did the quarantine file ever refuse a write? *)
WriteFailed == \E f \in DOMAIN sizes : <<f, "write">> \in faulty

(* scp.go:49 "Falls back to io.Discard on any error so the SCP protocol      *)
(* stays intact": payload bytes are never read as a record.                  *)
ProtocolIntact == ~junk

(* The same for every error but a failed write: too large, cannot be opened,  *)
(* cannot be renamed, sender gone.                                           *)
IntactUnlessWriteFails == WriteFailed \/ ProtocolIntact

(* scp.go:49 "writes the incoming bytes to quarantineDir/<sha256>-<name>":   *)
(* the hash in a file's name is the hash of what the file holds, also for   *)
(* an upload cut short; and no .tmp file is left behind by an error, a      *)
(* sender that vanished or the 30s limit.                                   *)
QuarantineHonest ==
    /\ \A s \in saved : <<s.file, "write">> \notin faulty => s.hashed = s.stored
    /\ tmp \subseteq (IF reader = "copy" THEN {job.file} ELSE {})

(* An upload the sender saw acknowledged, of a size that is kept, is         *)
(* complete in quarantine unless the disk failed; and it is in the session's *)
(* filesystem unless it is empty (scp.go:126 "mark file in session FS so     *)
(* subsequent ls/cat see it").                                              *)
AckedIsCaptured ==
    \A f \in acked :
        /\ sizes[f] > 0 => f \in visible \/ WriteFailed
        /\ sizes[f] \in 1..MaxPayload /\ (\A e \in Faults : <<f, e>> \notin faulty) =>
               \/ WriteFailed
               \/ [file |-> f, hashed |-> sizes[f], stored |-> sizes[f]] \in saved

(* scp.go:37 "just enough of the protocol to make the client think the        *)
(* transfer worked": sender and receiver are never both waiting for the       *)
(* other, except over a T record, which the code reads and does not answer.  *)
NoMutualWait ==
    sender = "await" /\ acks = 0 /\ wire = <<>>
        /\ main = "wait" /\ reader \in {"line", "trailer"}
    => next = "times" \/ WriteFailed

(* scp.go:152: the receiver ends, however slow the sender, and with it in     *)
(* the end its reader goroutine.                                             *)
ReceiverEnds == main = "wait" ~> main = "done" /\ reader = "done"
===============================================================================

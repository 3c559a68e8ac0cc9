------------------------------ MODULE SessionLogs ------------------------------
(****************************************************************************)
(* The scripts that read session.log as a whole, fingerprint.py, replay.py  *)
(* and the extraction of binaries, on the file that seqgroup.py reads.      *)
(****************************************************************************)
EXTENDS SeqGroup

CONSTANTS
    FoldMin,             \* replay.py
    NormTarget(_),       \* fingerprint.py
    Magic,               \* extract_all_binaries.py
    TextLess(_, _)

Fp == INSTANCE Fingerprint
Ex == INSTANCE Extract

(* A payload is a sequence of bytes; no two chunks of a log have the same   *)
(* beginning and the same nanosecond; targets as text are in an order.      *)
ASSUME ChunksAssumption ==
    \A log \in Logs : \A i, j \in DOMAIN log : Ex!IsChunk(log[i]) /\ Ex!IsChunk(log[j]) =>
        /\ log[i].command.payload \in Seq(Range(log[i].command.payload))
        /\ Ex!Key(log[i]) = Ex!Key(log[j]) => i = j
ASSUME FoldAssumption == FoldMin \in Nat \ {0}
AllTargets == UNION {Ex!Targets(log) : log \in Logs}
ASSUME TextAssumption ==
    \A t, u \in AllTargets :
        /\ ~TextLess(t, t)
        /\ t = u \/ TextLess(t, u) \/ TextLess(u, t)
        /\ \A v \in AllTargets : TextLess(t, u) /\ TextLess(u, v) => TextLess(t, v)
ASSUME MagicAssumption == Magic \in Seq(Range(Magic))

----------------------------------------------------------------------------
TrueSids == {rec.sid : rec \in ToSet(true_log)}

(* What the log tells of a session, in the order of the texts of its times: *)
(* the order of the log but, within a second, for times of fewer digits.    *)
InText(sid) == ByText(Pick(true_log, Own(true_log, sid)))
ToldRecords(sid) == LET log == InText(sid) IN Pick(log, Told(log, DOMAIN log))
Copies(rec) == Cardinality({i \in DOMAIN file : file[i] = rec})

(* fingerprint.py: the pattern of a session does not depend on where the    *)
(* merge put a block a second time, nor on how many chunks a binary came    *)
(* in: it is the list of the session's steps, in the order of the texts of  *)
(* their times and without immediate repetitions.                           *)
(* Sessions share a pattern exactly when these lists are the same; a        *)
(* session that never got past the handshake has none.                      *)
Steps(sid) ==
    LET told == ToldRecords(sid)
        all == [i \in DOMAIN told |-> Fp!ShapeEntry(told[i])]
    IN  Pick(all, {i \in DOMAIN all : i = 1 \/ all[i - 1] # all[i]})
ShapesStable ==
    groups # <<>> =>
        LET begun == {sid \in TrueSids : Fp!KeptOf(true_log, sid) # {}}
            steps == [sid \in TrueSids |-> Steps(sid)]
        IN  /\ \A sid \in TrueSids : Fp!Shape(file, sid) = steps[sid]
            /\ Fp!Patterns(file) = {{t \in begun : steps[t] = steps[sid]} : sid \in begun}

(* replay.py: folded or not, a session is shown in one order wherever the   *)
(* merge put its records, that of the texts of the times, which follows the *)
(* seconds ("keep chronological order", line 256, is true of these only);   *)
(* nothing is lost in a fold, and only a record that the file holds twice   *)
(* is shown twice.                                                          *)
Unfold(lines) ==
    FlattenSeq([i \in DOMAIN lines |->
        [n \in 1..lines[i][3] |-> <<lines[i][1], lines[i][2]>>]])
Line(rec) == LET p == Fp!Printed(rec, 1) IN <<p[1], p[2]>>
ReplayInOrder ==
    groups # <<>> =>
        \A sid \in TrueSids :
            LET told == ToldRecords(sid)
            IN  /\ \A fold \in BOOLEAN :
                       Unfold(Fp!RenderSession(file, sid, fold)) =
                           FlattenSeq([i \in DOMAIN told |->
                               [n \in 1..Copies(told[i]) |-> Line(told[i])]])
                /\ \A i, j \in DOMAIN told :
                       Second(told[i].time) < Second(told[j].time) => i < j

(* extract_all_binaries.py and extract_binary.py: as long as the merge cut  *)
(* no session, a saved binary is byte for byte what one session wrote to    *)
(* one target, although the scripts read the file without sorting it.  It   *)
(* is an ELF if some session began one there, and of these the longest.     *)
Parts(target, sid) ==
    Ex!Payloads(Pick(true_log, {i \in DOMAIN true_log :
        /\ Ex!IsChunk(true_log[i])
        /\ true_log[i].sid = sid /\ true_log[i].command.target = target}))
Written(target, sid) == FlattenSeq(Parts(target, sid))
BeginsElf(target, sid) ==
    Parts(target, sid) # <<>> /\ IsPrefix(Magic, Head(Parts(target, sid)))
BinariesIntact ==
    groups # <<>> /\ CutsNoSession =>
        /\ \A target \in Ex!Targets(file) : \A sid \in Ex!BestSids(file, target) :
               LET begun == {t \in TrueSids : BeginsElf(target, t)}
               IN  /\ FlattenSeq(Ex!Chunks(file, target, sid)) = Written(target, sid)
                   /\ begun # {} => IsPrefix(Magic, Written(target, sid))
                   /\ \A t \in IF begun # {} THEN begun ELSE TrueSids :
                          Len(Written(target, t)) <= Len(Written(target, sid))
        /\ \A name \in {t[2] : t \in Ex!Targets(file)} : \A bytes \in Ex!Saved(file, name) :
               \E target \in Ex!Targets(file), sid \in TrueSids :
                   target[2] = name /\ bytes = Written(target, sid)
        /\ \A target \in Ex!Targets(file), sid \in TrueSids :
               (\A t \in Ex!Targets(file) : t[2] = target[2] => t = target) =>
                   Ex!OneSession(file, sid, target[2]) = Written(target, sid)
================================================================================

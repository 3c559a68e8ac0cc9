------------------------------ MODULE Fingerprint ------------------------------
(****************************************************************************)
(* analysis/fingerprint.py and analysis/replay.py: both collect the records *)
(* of each session, sort them by the texts of their times and fold runs of  *)
(* echo chunks, but by rules of their own.  Neither drops repeated records. *)
(****************************************************************************)
EXTENDS Naturals, Sequences, FiniteSets, LogTimes

CONSTANTS
    Unknown,           \* "?": no target
    FoldMin,           \* replay.py: the shortest run that is folded (5)
    NormTarget(_)      \* _RAND_PATH.sub

IsCommand(rec) == rec.msg \in {"shell", "exec"}
KEEP_MSGS == {"handshake ok", "shell", "exec", "wget fetch", "curl fetch",
              "scp receive", "scp file", "scp payload saved"}
KeptOf(log, sid) == {i \in DOMAIN log : log[i].sid = sid /\ log[i].msg \in KEEP_MSGS}

(* Mutant: the order of the file.                                           *)
Unsorted(log, sid) == Pick(log, KeptOf(log, sid))

(* _build_sessions, and the same in replay.py.                              *)
Sorted(log, sid) == ByText(Pick(log, KeptOf(log, sid)))

(* From i on, the chunks that follow each other to one target.              *)
Run(evs, chunks, i) ==
    {j \in i..Len(evs) : \A k \in i..j :
         k \in chunks /\ evs[k].command.target = evs[i].command.target}

(* while i < len(evs): the positions at which a loop stops that goes on at  *)
(* next[i] after i.                                                         *)
Visits(next) ==
    LET at[k \in 1..(Len(next) + 1)] ==
            IF k = 1 THEN 1
            ELSE LET i == at[k - 1] IN IF i \in DOMAIN next THEN next[i] ELSE i
    IN  {at[k] : k \in DOMAIN at} \cap DOMAIN next

----------------------------------------------------------------------------
(* _is_hex_inject: flags and a quote, a hex byte, and ">>".                 *)
IsHexInject(rec) ==
    IsCommand(rec) /\ rec.command.echo /\ rec.command.bytes > 0 /\ rec.command.append

(* _norm_cmd, _norm_url and the scp entries: what varies is replaced, in a  *)
(* target as well.                                                          *)
ShapeEntry(rec) ==
    IF IsHexInject(rec) THEN <<"hex", NormTarget(rec.command.target)>>
    ELSE IF IsCommand(rec) THEN <<"cmd", rec.command.norm>> ELSE <<"log", rec.msg>>

(* Mutant: retries and repeated records stay in the shape.                  *)
KeepAll(shape) == shape

Collapse(shape) ==
    Pick(shape, {i \in DOMAIN shape : i = 1 \/ shape[i - 1] # shape[i]})

(* _shape_and_raw: one entry per run of chunks; a handshake has none but    *)
(* ends a run.  The raw list counts the chunks.                             *)
ShapeAndRaw(evs) ==
    LET hex == {i \in DOMAIN evs : IsHexInject(evs[i])}
        size == [i \in DOMAIN evs |-> IF i \in hex THEN Cardinality(Run(evs, hex, i)) ELSE 1]
        shown == {i \in Visits([i \in DOMAIN evs |-> i + size[i]]) : evs[i].msg # "handshake ok"}
    IN  [shape |-> Collapse(Pick([i \in DOMAIN evs |-> ShapeEntry(evs[i])], shown)),
         raw |-> Pick(size, {i \in shown : Rank(shown, i) <= 60})]

Shape(log, sid) == ShapeAndRaw(Sorted(log, sid)).shape

(* main: sessions with one shape are one pattern.                           *)
Patterns(log) ==
    LET sids == {log[i].sid : i \in {j \in DOMAIN log : log[j].msg \in KEEP_MSGS}}
        shape == [sid \in sids |-> Shape(log, sid)]
    IN  {{t \in sids : shape[t] = shape[sid]} : sid \in sids}

----------------------------------------------------------------------------
(* replay.py, render_session: the entries without the handshake; a run of   *)
(* FoldMin chunks or more is one line, a shorter one a line per chunk.      *)
IsEcho(rec) == IsCommand(rec) /\ rec.command.echo /\ rec.command.target # Unknown
Cmds(evs) == Pick(evs, {i \in DOMAIN evs : evs[i].msg # "handshake ok"})
Printed(rec, n) ==
    IF IsEcho(rec) THEN <<"echo", rec.command.target, n>>
    ELSE IF IsCommand(rec) THEN <<rec.msg, rec.command.text, n>> ELSE <<"log", rec.msg, n>>
RenderSession(log, sid, fold) ==
    LET cmds == Cmds(Sorted(log, sid))
        echo == {i \in DOMAIN cmds : IsEcho(cmds[i])}
        size == [i \in DOMAIN cmds |->
                    LET run == Cardinality(Run(cmds, echo, i))
                    IN  IF fold /\ run >= FoldMin THEN run ELSE 1]
    IN  Pick([i \in DOMAIN cmds |-> Printed(cmds[i], size[i])],
             Visits([i \in DOMAIN cmds |-> i + size[i]]))
================================================================================

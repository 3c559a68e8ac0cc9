-------------------------------- MODULE Extract --------------------------------
(****************************************************************************)
(* analysis/extract_all_binaries.py and analysis/extract_binary.py: the     *)
(* bytes that bots wrote with echo -e -n are put together again, chunk by   *)
(* chunk in the order of the file.  A target is a directory and a name.     *)
(****************************************************************************)
EXTENDS Naturals, Sequences, FiniteSets, SequencesExt, Positions

CONSTANTS
    Unknown,             \* no target
    Magic,               \* ELF_MAGIC
    TextLess(_, _)       \* the order of targets as text

(* Lines that hold "echo -e -n": the payload is what parse_hex decodes and  *)
(* is empty for any other command.                                          *)
IsChunk(rec) == rec.msg \in {"shell", "exec"} /\ rec.command.payload # <<>>

(* Mutant: chunks are not compared.                                         *)
AllCopies(lines, among) == {i \in among : IsChunk(lines[i])}

(* seen: of some lines, the first copy of each chunk; the key is the time   *)
(* and the beginning of the command, not the session.                       *)
Key(rec) == <<rec.time, rec.command.text>>
FirstCopies(lines, among) ==
    {i \in among : /\ IsChunk(lines[i])
                   /\ \A j \in among : j < i /\ IsChunk(lines[j]) => Key(lines[j]) # Key(lines[i])}
Payloads(chunks) == [n \in DOMAIN chunks |-> chunks[n].command.payload]

(* data[target][sid]                                                        *)
Data(lines) == FirstCopies(lines, DOMAIN lines)
Chunks(lines, target, sid) ==
    Payloads(Pick(lines, {i \in Data(lines) : /\ lines[i].command.target = target
                                              /\ lines[i].sid = sid}))
Targets(lines) == {lines[i].command.target : i \in Data(lines)} \ {Unknown}
Writers(lines, target) ==
    {lines[i].sid : i \in {j \in Data(lines) : lines[j].command.target = target}}

(* Of the sessions that begin with the magic number, or of all if none      *)
(* does, one with the most bytes.                                           *)
StartsElf(chunks) == chunks # <<>> /\ IsPrefix(Magic, Head(chunks))
BestSids(lines, target) ==
    LET binary == [sid \in Writers(lines, target) |->
                      FlattenSeq(Chunks(lines, target, sid))]
        elf == {sid \in DOMAIN binary : StartsElf(Chunks(lines, target, sid))}
        pool == IF elf # {} THEN elf ELSE DOMAIN binary
    IN  {sid \in pool : \A other \in pool : Len(binary[other]) <= Len(binary[sid])}

(* What may be saved under a name: of the targets with that name the last   *)
(* one, in the order of sorted(data), replaces the others.                  *)
Saved(lines, name) ==
    LET named == {t \in Targets(lines) : t[2] = name}
        last == CHOOSE t \in named : \A u \in named : u = t \/ TextLess(u, t)
    IN  {FlattenSeq(Chunks(lines, last, sid)) : sid \in BestSids(lines, last)}

(* extract_binary.py: one session, and all its targets of one name in one.  *)
OneSession(lines, sid, name) ==
    LET seen == FirstCopies(lines, {i \in DOMAIN lines : lines[i].sid = sid})
        own == {i \in seen : /\ lines[i].command.target # Unknown
                             /\ lines[i].command.target[2] = name}
    IN  FlattenSeq(Payloads(Pick(lines, own)))
================================================================================

------------------------------- MODULE LogLines --------------------------------
(****************************************************************************)
(* What the scripts of analysis/ share: the lines of the three logs and the *)
(* ways of reading them.  A line is a record; a missing or empty field is   *)
(* NoText; a command is the sequence of its words, so a blank one is <<>>;  *)
(* a remote is the sequence of what stands between its colons, the port at  *)
(* the end, so it is longer for IPv6; a password is a sequence of           *)
(* characters.  "torn" says that the line does not parse.                   *)
(****************************************************************************)
EXTENDS LogTimes, Sequences, FiniteSets, SequencesExt, FiniteSetsExt, TLC

(* load, load_jsonl, load_jsonlines: a line that does not parse is skipped. *)
Parsed(lines) == Pick(lines, {i \in DOMAIN lines : ~lines[i].torn})

(* remote.split(":")[0] is the address of an IPv4 remote and the first       *)
(* group of an IPv6 one; e.get("remote", ":") makes it empty for none.      *)
Host(remote) == <<remote[1]>>
HostOf(e) == IF e.remote = NoText THEN NoText ELSE Host(e.remote)
Attempts(auth) == Pick(auth, {i \in DOMAIN auth : auth[i].msg = "auth attempt"})

(* msg in ("shell", "exec") and "command" in e                              *)
HasCommand(e) == e.msg \in {"shell", "exec"} /\ e.command # NoText
Commands(sess) == Pick(sess, {i \in DOMAIN sess : HasCommand(sess[i])})
Has(cmd, word) == \E i \in DOMAIN cmd : cmd[i] = word
IsScpUpload(e) == HasCommand(e) /\ Has(e.command, "scp") /\ Has(e.command, "-t")

(* How many lines have a property, and the values of a field.               *)
CountIf(lines, Test(_)) == Cardinality({i \in DOMAIN lines : Test(lines[i])})
Tally(lines, keys, KeyOf(_)) ==
    [k \in keys |-> Cardinality({i \in DOMAIN lines : KeyOf(lines[i]) = k})]
================================================================================

------------------------------- MODULE VirtualFs -------------------------------
(***************************************************************************)
(* The pretended machine behind one connection (session/commands.go): a     *)
(* working directory, files, directories and a crontab, and the command     *)
(* lines that change them.  A line is split at && into segments and those   *)
(* at | into stages; a step runs one stage.  Uploads (scp.go) mark their    *)
(* files here at any time.                                                  *)
(*                                                                         *)
(* A path is what strings.Split(p, "/") makes of it: "/tmp/x" is            *)
(* <<"", "tmp", "x">>, "/" is <<"", "">>, "x/" is <<"x", "">>.              *)
(***************************************************************************)
EXTENDS Integers, Sequences, SequencesExt

CONSTANTS
    Line,       \* command lines a client may enter
    Target,     \* target directories it may name in scp -t
    FileName,   \* names of the files it may upload
    MaxLines    \* bound: command lines and uploads of a connection

(* A stage is a command and its arguments that are no flags, behind so many  *)
(* "sudo" or "bash -c", which both run the rest as a line of its own.  The   *)
(* arguments of these commands are paths.                                   *)
Stages == UNION {UNION {Range(l[i]) : i \in DOMAIN l} : l \in Line}
TakesPaths(stage) == stage.cmd \in {"cd", "mkdir", "touch"}
ASSUME LineAssumption ==
    \A l \in Line :
        l \in Seq(Seq(Stages)) /\ l # <<>> /\ \A i \in DOMAIN l : l[i] # <<>>
ASSUME StageAssumption ==
    \A s \in Stages :
        /\ s \in [cmd : STRING, wraps : Nat, args : {s.args}]
        /\ TakesPaths(s) => s.args \in Seq(Seq(STRING))
ASSUME UploadAssumption == Target \subseteq Seq(STRING) /\ FileName \subseteq STRING
ASSUME LinesAssumption == MaxLines \in Nat

VARIABLES
    cwd,        \* the Session: working directory,
    fs,         \*   content of each file ("empty" | "text" | "elf"),
    dirs,       \*   directories,
    cron,       \*   crontab
    pc,         \* "prompt" | "run" | "panic"
    segs,       \* dispatch: the segments to run, in the first what is left of it
    nested,     \* is the stage run by sudo or bash -c?
    out,        \* the output so far, which is the stdin of the next stage
    exit,       \* the exit status so far
    lines,      \* lines and uploads so far
    failed,     \* history: did a segment of this line fail?
    made,       \* history: what mkdir and touch made and nobody removed
    uploads,    \* history: what was uploaded and nobody removed
    removed     \* history: all that was ever removed

sessionVars == <<cwd, fs, dirs, cron>>
history == <<made, uploads, removed>>
vars == <<sessionVars, pc, segs, nested, out, exit, lines, failed, history>>

-------------------------------------------------------------------------------
(* Paths. *)

Root == <<"", "">>
Home == <<"", "root">>

Absolute(p) == Len(p) > 1 /\ p[1] = ""

Enter(abs, s, c) ==
    CASE c \in {"", "."} -> s
      [] c = ".." /\ s # <<>> /\ Last(s) # ".." -> Front(s)
      [] c = ".." /\ s = <<>> /\ abs -> s
      [] OTHER -> Append(s, c)

(* path.Clean *)
Clean(p) ==
    LET abs == Absolute(p)
        s == FoldLeft(LAMBDA a, c : Enter(abs, a, c), <<>>, p)
    IN IF abs THEN <<"">> \o (IF s = <<>> THEN <<"">> ELSE s)
       ELSE IF s = <<>> THEN <<".">> ELSE s

(* path.Dir of a clean absolute path *)
Parent(p) == IF Len(p) <= 2 THEN Root ELSE Front(p)

Resolve(a) ==
    IF a \in {<<"">>, <<".">>} THEN cwd
    ELSE IF a \in {<<"~">>, <<"~", "">>} THEN Home
    ELSE Clean(IF Absolute(a) THEN a ELSE cwd \o a)

(* What sessionLS lists: everything below dir by its next component, which    *)
(* has a slash unless a file is, or is below, that entry.  For "/" the code  *)
(* looks below "." instead.                                                 *)
Below(dir, S) ==
    LET d == IF dir = Root THEN <<".">> ELSE dir
        n == Len(d)
    IN {p[n + 1] : p \in {q \in S : Len(q) > n /\ SubSeq(q, 1, n) = d}} \ {""}
SessionLS(dir) == Below(dir, DOMAIN fs) \cup Below(dir, dirs)

-------------------------------------------------------------------------------
FakeFiles == [p \in {<<"", "etc", "hostname">>, <<"", "bin", "echo">>} |->
                IF p[2] = "etc" THEN "text" ELSE "elf"]
FakeDirs == {Root, Home, <<"", "tmp">>, <<"", "etc">>, <<"", "bin">>}
PermDenied == {<<"", "etc", "shadow">>}

Init ==
    /\ cwd = Home /\ fs = FakeFiles /\ dirs = FakeDirs /\ cron = ""
    /\ pc = "prompt" /\ segs = <<>> /\ nested = FALSE /\ out = "" /\ exit = 0
    /\ lines = 0 /\ failed = FALSE
    /\ made = {} /\ uploads = {} /\ removed = {}

-------------------------------------------------------------------------------
(* dispatch, dispatchSegment. *)

StartLine(l) ==
    /\ pc = "prompt" /\ lines < MaxLines
    /\ pc' = "run" /\ segs' = l /\ nested' = FALSE /\ out' = "" /\ exit' = 0
    /\ lines' = lines + 1 /\ failed' = FALSE
    /\ UNCHANGED <<sessionVars, history>>

Stage == segs[1][1]
Running(cmd) == pc = "run" /\ Stage.wraps = 0 /\ Stage.cmd = cmd
Args == Range(Stage.args)

(* Mutant: the status is ignored. *)
EndSegmentAnyway(o, e) ==
    /\ failed' = (e # 0)
    /\ IF Len(segs) > 1
         THEN segs' = Tail(segs) /\ out' = "" /\ exit' = 0 /\ UNCHANGED pc
         ELSE segs' = <<>> /\ out' = o /\ exit' = e /\ pc' = "prompt"

(* The end of a segment: the next one if there is one and this one did not   *)
(* fail.  Its stages start from an empty output and status 0.               *)
EndSegment(o, e) ==
    /\ failed' = (e # 0)
    /\ IF e = 0 /\ Len(segs) > 1
         THEN segs' = Tail(segs) /\ out' = "" /\ exit' = 0 /\ UNCHANGED pc
         ELSE segs' = <<>> /\ out' = o /\ exit' = e /\ pc' = "prompt"

(* The end of a stage with output o and status e. *)
Finish(o, e) ==
    /\ IF Len(segs[1]) > 1
         THEN /\ segs' = [segs EXCEPT ![1] = Tail(@)]
              /\ out' = o /\ exit' = e
              /\ UNCHANGED <<pc, failed>>
         ELSE EndSegment(o, e)
    /\ nested' = FALSE
    /\ UNCHANGED lines

(* A stage with nothing in it, as in "a || b", is passed over. *)
SkipStage ==
    /\ Running("")
    /\ Finish(out, exit)
    /\ UNCHANGED <<sessionVars, history>>

(* An unknown command ends its pipeline; behind sudo that is the inner one. *)
NotFound ==
    /\ Running("unknown")
    /\ IF nested THEN Finish("error", 127)
       ELSE EndSegment("error", 127) /\ UNCHANGED <<nested, lines>>
    /\ UNCHANGED <<sessionVars, history>>

(* sudo and bash -c run their arguments as a line, without their stdin. *)
Redispatch ==
    /\ pc = "run" /\ Stage.wraps > 0
    /\ segs' = [segs EXCEPT ![1][1].wraps = @ - 1]
    /\ nested' = TRUE /\ out' = "" /\ exit' = 0
    /\ UNCHANGED <<sessionVars, pc, lines, failed, history>>

(* An index out of range, which nothing recovers from. *)
Panic ==
    /\ pc' = "panic"
    /\ UNCHANGED <<segs, nested, out, exit, lines, failed>>

-------------------------------------------------------------------------------
(* The commands that read or write the Session. *)

(* Mutant: the directory need not exist. *)
CdUnchecked ==
    /\ Running("cd")
    /\ LET target == IF Stage.args = <<>> THEN Home ELSE Resolve(Stage.args[1])
       IN cwd' = target /\ Finish("", 0)
    /\ UNCHANGED <<fs, dirs, cron, history>>

(* The message for a directory that does not exist quotes args[0]. *)
Cd ==
    /\ Running("cd")
    /\ LET target == IF Stage.args = <<>> THEN Home ELSE Resolve(Stage.args[1])
       IN \/ target \in dirs /\ cwd' = target /\ Finish("", 0)
          \/ /\ target \notin dirs /\ Stage.args # <<>>
             /\ Finish("error", 1) /\ UNCHANGED cwd
          \/ /\ target \notin dirs /\ Stage.args = <<>>
             /\ Panic /\ UNCHANGED cwd
    /\ UNCHANGED <<fs, dirs, cron, history>>

(* Mutant: the directory is marked as it was typed. *)
MkdirTyped ==
    /\ Running("mkdir")
    /\ dirs' = dirs \cup Args \cup {Parent(Resolve(a)) : a \in Args}
    /\ made' = made \cup {Resolve(a) : a \in Args}
    /\ Finish("", 0)
    /\ UNCHANGED <<cwd, fs, cron, uploads, removed>>

Mkdir ==
    /\ Running("mkdir")
    /\ LET new == {Resolve(a) : a \in Args}
           all == new \cup {Parent(p) : p \in new}
       IN dirs' = dirs \cup all /\ made' = made \cup all
    /\ Finish("", 0)
    /\ UNCHANGED <<cwd, fs, cron, uploads, removed>>

Touch ==
    /\ Running("touch")
    /\ LET new == {Resolve(a) : a \in Args}
       IN /\ fs' = [p \in DOMAIN fs \cup new |-> IF p \in DOMAIN fs THEN fs[p] ELSE "empty"]
          /\ made' = made \cup new
    /\ Finish("", 0)
    /\ UNCHANGED <<cwd, dirs, cron, uploads, removed>>

(* Mutant: rm takes what is below the path with it. *)
RmTree ==
    /\ Running("rm")
    /\ LET gone == {Resolve(a) : a \in Args}
           kept(S) == {p \in S : ~\E g \in gone : p = g \/ g = Root \/ IsPrefix(g, p)}
       IN /\ fs' = [p \in kept(DOMAIN fs) |-> fs[p]]
          /\ dirs' = kept(dirs)
          /\ made' = made \ gone
          /\ uploads' = {u \in uploads : u.path \notin gone}
          /\ removed' = removed \cup gone
    /\ Finish("", 0)
    /\ UNCHANGED <<cwd, cron>>

Rm ==
    /\ Running("rm")
    /\ LET gone == {Resolve(a) : a \in Args}
       IN /\ fs' = [p \in DOMAIN fs \ gone |-> fs[p]]
          /\ dirs' = dirs \ gone
          /\ made' = made \ gone
          /\ uploads' = {u \in uploads : u.path \notin gone}
          /\ removed' = removed \cup gone
    /\ Finish("", 0)
    /\ UNCHANGED <<cwd, cron>>

Ls ==
    /\ Running("ls")
    /\ Finish("listing", 0)
    /\ UNCHANGED <<sessionVars, history>>

Cat ==
    /\ Running("cat")
    /\ LET p == IF Stage.args = <<>> THEN Root ELSE Resolve(Stage.args[1])
       IN \/ Stage.args = <<>> /\ Finish("", 0)
          \/ /\ Stage.args # <<>> /\ (p \in PermDenied \/ p \notin DOMAIN fs)
             /\ Finish("error", 1)
          \/ /\ Stage.args # <<>> /\ p \in DOMAIN fs \ PermDenied
             /\ Finish(IF fs[p] = "empty" THEN "" ELSE "content", 0)
    /\ UNCHANGED <<sessionVars, history>>

(* The text commands (cmd_text.go).  Of an argument "-n" or "-c" with its     *)
(* number the stage has the pair; the number is missing if it is none.      *)
Option == IF Stage.args = <<>> THEN <<>> ELSE Stage.args[1]
Counts(flag) == Len(Option) = 2 /\ Option[1] = flag

(* The first or last n lines: an empty text has one line, which is empty,    *)
(* and what is left of the lines gets a newline.                            *)
SomeLines(n) == IF out = "" \/ n = 0 THEN "newline" ELSE out

HeadCmd ==
    /\ Running("head")
    /\ \/ Option = <<>> /\ Finish(SomeLines(10), 0)
       \/ Len(Option) = 1 /\ Finish("error", 1)
       \/ Counts("-c") /\ Finish(IF Option[2] <= 0 THEN "" ELSE out, 0)
       \/ Counts("-n") /\ Option[2] >= 0 /\ Finish(SomeLines(Option[2]), 0)
       \/ Counts("-n") /\ Option[2] < 0 /\ Panic
    /\ UNCHANGED <<sessionVars, history>>

TailCmd ==
    /\ Running("tail")
    /\ \/ ~Counts("-n") /\ Finish(SomeLines(10), 0)
       \/ Counts("-n") /\ Option[2] >= 0 /\ Finish(SomeLines(Option[2]), 0)
       \/ Counts("-n") /\ Option[2] < 0 /\ Panic
    /\ UNCHANGED <<sessionVars, history>>

(* Which lines match depends on the text; a search in nothing finds nothing, *)
(* and flags alone are no pattern.                                          *)
GrepCmd ==
    /\ Running("grep")
    /\ \/ Stage.args = <<>> /\ Finish("usage", 2)
       \/ Finish("", 1)
       \/ Stage.args # <<>> /\ out # "" /\ Finish(out, 0)
    /\ UNCHANGED <<sessionVars, history>>

SortCmd ==
    /\ Running("sort")
    /\ Finish(out, 0)
    /\ UNCHANGED <<sessionVars, history>>

AwkCmd ==
    /\ Running("awk")
    /\ \E o \in {out, ""} : Finish(o, 0)
    /\ UNCHANGED <<sessionVars, history>>

(* Commands with an output and no state: echo, pwd, ps, wc, ... *)
Echo ==
    /\ Running("echo")
    /\ Finish("echoed", 0)
    /\ UNCHANGED <<sessionVars, history>>

(* Commands without either: kill, rmdir, crontab with another argument, ... *)
Noop ==
    /\ Running("noop")
    /\ Finish("", 0)
    /\ UNCHANGED <<sessionVars, history>>

(* crontab - | -l | -r; without an argument it reads stdin, too.  What is     *)
(* stored has no newlines at its end, so that a newline alone is no crontab. *)
CrontabInstall ==
    /\ Running("crontab") /\ Stage.args \in {<<>>, <<<<"-">>>>}
    /\ cron' = IF out = "newline" THEN "" ELSE out
    /\ Finish("", 0)
    /\ UNCHANGED <<cwd, fs, dirs, history>>

CrontabList ==
    /\ Running("crontab") /\ Stage.args = <<<<"-l">>>>
    /\ IF cron = "" THEN Finish("error", 1) ELSE Finish(cron, 0)
    /\ UNCHANGED <<sessionVars, history>>

CrontabRemove ==
    /\ Running("crontab") /\ Stage.args = <<<<"-r">>>>
    /\ cron' = ""
    /\ Finish("", 0)
    /\ UNCHANGED <<cwd, fs, dirs, history>>

(* runSCPReceive marks a stored file below the target as it was typed. *)
Upload(t, n) ==
    /\ pc # "panic" /\ lines < MaxLines
    /\ LET file == Clean(t \o <<n>>)
       IN /\ fs' = [p \in DOMAIN fs \cup {file} |-> IF p = file THEN "empty" ELSE fs[p]]
          /\ dirs' = dirs \cup {t}
    /\ uploads' = uploads \cup {[target |-> t, path |-> Resolve(t \o <<n>>)]}
    /\ lines' = lines + 1
    /\ UNCHANGED <<cwd, cron, pc, segs, nested, out, exit, failed, made, removed>>

Command ==
    \/ SkipStage \/ NotFound \/ Redispatch
    \/ Cd \/ Mkdir \/ Touch \/ Rm \/ Ls \/ Cat \/ Echo \/ Noop
    \/ HeadCmd \/ TailCmd \/ GrepCmd \/ SortCmd \/ AwkCmd
    \/ CrontabInstall \/ CrontabList \/ CrontabRemove

Next ==
    \/ \E l \in Line : StartLine(l)
    \/ Command
    \/ \E t \in Target, n \in FileName : Upload(t, n)

Spec == Init /\ [][Next]_vars

-------------------------------------------------------------------------------
(* Properties.                                                             *)

(* Can a client find p again?  cat or cd takes it, and ls of its directory   *)
(* shows it, except that ls / shows a constant text.                        *)
Found(p) ==
    /\ p \in DOMAIN fs \cup dirs
    /\ Parent(p) = Root \/ Last(p) \in SessionLS(Parent(p))

(* README.md:372 "mkdir /tmp/x then ls /tmp shows it": whatever mkdir or      *)
(* touch made is found, however it was named and wherever cd went since,    *)
(* until it is removed itself; so is an upload to an absolute target.        *)
MadeIsFound ==
    /\ \A p \in made : Found(p)
    /\ \A u \in uploads :
          Absolute(u.target) => Found(u.path) /\ u.path \in DOMAIN fs

(* The working directory exists unless it was removed. *)
CwdExists == cwd \in dirs \cup removed

(* Commands index their arguments and their stdin without checks of their    *)
(* own, and nothing recovers from a panic: only a cd home after home was      *)
(* removed (cmd_misc.go:52) and a negative number of lines (cmd_text.go:154, *)
(* 181) can bring the process down.                                         *)
NegativeCount == Stage.cmd \in {"head", "tail"} /\ Counts("-n") /\ Option[2] < 0
PanicsExplained == pc = "panic" => Home \in removed \/ NegativeCount

(* dispatch_test.go:190 "first side fails -- second side must not run": once  *)
(* a segment failed, no command of the line changes the session.            *)
FailureStopsLine == [][failed /\ Command => UNCHANGED sessionVars]_vars
===============================================================================

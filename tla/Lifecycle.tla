------------------------------- MODULE Lifecycle -------------------------------
(***************************************************************************)
(* The life of the process (main.go): open the logs (logger.New), load or  *)
(* generate the host key (hostkey), serve, and on a signal close the logs  *)
(* (logger.Close) and exit, while the connection goroutines, for which     *)
(* nobody waits, keep logging.  systemd (Restart=always) starts it again.  *)
(*                                                                         *)
(* The machine may kill the process at any point and, if PowerLoss, lose   *)
(* what was written but not synced.                                        *)
(***************************************************************************)
EXTENDS Integers, FiniteSets, Sequences

CONSTANTS
    Key,        \* host keys that may be generated
    NoKey,      \* no host key file
    Torn,       \* a host key file that was created but not completely written
    PowerLoss,  \* may the machine lose unsynced writes?
    MaxLines    \* bound: lines logged per file and run

ASSUME KeyAssumption == NoKey \notin Key /\ Torn \notin Key /\ NoKey # Torn
ASSUME PowerAssumption == PowerLoss \in BOOLEAN
ASSUME LinesAssumption == MaxLines \in Nat \ {0}

(* The files in the order logger.New opens and logger.Close closes them.    *)
Files == <<"auth", "session", "server">>
File == {"auth", "session", "server"}

VARIABLES
    pc,         \* main: "down" | "openLogs" | "readKey" | "create" | "write"
                \*       | "serve" | "sync" | "close" | "exit"
    current,    \* the file logger.Close is working on, as an index of Files
    signalled,  \* SIGTERM came
    open,       \* files that accept writes
    keyFile,    \* what the host key file holds
    synced,     \* what it holds on stable storage
    key,        \* the key in memory
    served,     \* history: every key the process ever served with
    emitted,    \* history: lines logged in this run, per file
    written,    \* lines in the file
    durable,    \* lines of it on stable storage
    due,        \* history: lines in the file when main began to close the logs
    unsynced,   \* history: files whose Sync failed in this run
    lost        \* history: did the machine ever lose power?

logVars == <<emitted, written, durable, due, unsynced>>
vars == <<pc, current, signalled, open, keyFile, synced, key, served, logVars, lost>>

NoLines == [f \in File |-> 0]

Init ==
    /\ pc = "down" /\ current = 1 /\ signalled = FALSE /\ open = {}
    /\ keyFile = NoKey /\ synced = NoKey /\ key = NoKey /\ served = {}
    /\ emitted = NoLines /\ written = NoLines /\ durable = NoLines /\ due = NoLines
    /\ unsynced = {}
    /\ lost = FALSE

-------------------------------------------------------------------------------
(* systemd and the machine. *)

Start ==
    /\ pc = "down"
    /\ pc' = "openLogs"
    /\ signalled' = FALSE /\ key' = NoKey
    /\ emitted' = NoLines /\ written' = NoLines /\ durable' = NoLines
    /\ due' = NoLines /\ unsynced' = {}
    /\ UNCHANGED <<current, open, keyFile, synced, served, lost>>

Signal ==
    /\ pc = "serve" /\ ~signalled
    /\ signalled' = TRUE
    /\ UNCHANGED <<pc, current, open, keyFile, synced, key, served, logVars, lost>>

(* SIGKILL, a panic, the OOM killer: nothing deferred runs. *)
Killed ==
    /\ pc # "down"
    /\ pc' = "down" /\ open' = {} /\ key' = NoKey /\ signalled' = FALSE
    /\ UNCHANGED <<current, keyFile, synced, served, logVars, lost>>

(* The machine goes down: the file is as it was last synced, or as the       *)
(* kernel had written it back, or anything in between.                      *)
LosePower ==
    /\ PowerLoss /\ pc # "down"
    /\ pc' = "down" /\ open' = {} /\ key' = NoKey /\ signalled' = FALSE
    /\ keyFile' \in {keyFile, synced} \cup (IF keyFile = synced THEN {} ELSE {Torn})
    /\ synced' = keyFile'
    /\ written' = durable
    /\ lost' = TRUE
    /\ UNCHANGED <<current, served, emitted, durable, due, unsynced>>

(* Write-back in the background. *)
WriteBack ==
    /\ PowerLoss /\ synced # keyFile
    /\ synced' = keyFile
    /\ UNCHANGED <<pc, current, signalled, open, keyFile, key, served, logVars, lost>>

-------------------------------------------------------------------------------
(* main. *)

(* All three or none: New closes what it opened before it reports an error. *)
OpenLogs ==
    /\ pc = "openLogs"
    /\ \/ pc' = "readKey" /\ open' = File
       \/ pc' = "down" /\ open' = {}
    /\ UNCHANGED <<current, signalled, keyFile, synced, key, served, logVars, lost>>

(* slog appends a line with one write.  It fails when the file is closed, or *)
(* when the disk is full, and slog drops the error.                         *)
WriteLine(f) ==
    /\ emitted[f] < MaxLines
    /\ emitted' = [emitted EXCEPT ![f] = @ + 1]
    /\ \/ f \in open /\ written' = [written EXCEPT ![f] = @ + 1]
       \/ UNCHANGED written

(* main returns through the deferred Close, with a line in server.log if it  *)
(* is for an error.                                                         *)
CloseLogs == pc' = "sync" /\ current' = 1 /\ due' = written'
Quit == UNCHANGED <<emitted, written>> /\ CloseLogs
Fail == WriteLine("server") /\ CloseLogs

Generate == pc' = "create" /\ UNCHANGED <<current, emitted, written, due, key>>
UseKey ==
    /\ keyFile \in Key /\ key' = keyFile /\ pc' = "serve"
    /\ UNCHANGED <<current, emitted, written, due>>

(* Mutant: every read error is taken for "no key yet". *)
ReadKeyOrGenerate ==
    /\ pc = "readKey"
    /\ Generate \/ UseKey
    /\ served' = IF pc' = "serve" THEN served \cup {keyFile} ELSE served
    /\ UNCHANGED <<signalled, open, keyFile, synced, durable, unsynced, lost>>

(* LoadOrGenerate: only a file that does not exist is generated; one that    *)
(* cannot be read or parsed is an error.                                    *)
ReadKey ==
    /\ pc = "readKey"
    /\ \/ keyFile = NoKey /\ Generate
       \/ UseKey
       \/ Fail /\ UNCHANGED key
    /\ served' = IF pc' = "serve" THEN served \cup {keyFile} ELSE served
    /\ UNCHANGED <<signalled, open, keyFile, synced, durable, unsynced, lost>>

(* os.WriteFile creates the file, then fills it; neither is synced.          *)
CreateKeyFile ==
    /\ pc = "create"
    /\ \/ keyFile' = Torn /\ pc' = "write" /\ UNCHANGED <<current, emitted, written, due>>
       \/ UNCHANGED keyFile /\ Fail                      \* cannot be created
    /\ UNCHANGED <<signalled, open, synced, key, served, durable, unsynced, lost>>

(* Mutant: the error of WriteFile is dropped, the key used all the same. *)
WriteKeyUnchecked(k) ==
    /\ pc = "write"
    /\ k \notin served
    /\ key' = k /\ pc' = "serve"
    /\ served' = served \cup {k}
    /\ keyFile' \in {k, keyFile}
    /\ UNCHANGED <<current, signalled, open, synced, logVars, lost>>

WriteKeyFile(k) ==
    /\ pc = "write"
    /\ k \notin served              \* a generated key is fresh
    /\ \/ /\ keyFile' = k /\ key' = k /\ pc' = "serve"
          /\ served' = served \cup {k}
          /\ UNCHANGED <<current, emitted, written, due>>
       \/ UNCHANGED <<keyFile, key, served>> /\ Fail              \* disk full
    /\ UNCHANGED <<signalled, open, synced, durable, unsynced, lost>>

(* A line from Serve or a connection goroutine: nobody waits for these, and   *)
(* they log on while main closes the files and until it has returned.       *)
Log(f) ==
    /\ pc \in {"serve", "sync", "close", "exit"} /\ key # NoKey
    /\ WriteLine(f)
    /\ UNCHANGED <<pc, current, signalled, open, keyFile, synced, key, served,
                   durable, due, unsynced, lost>>

(* Serve returns after the signal, or because it could not listen, which is  *)
(* an error and before anything was logged.                                 *)
ServeReturns ==
    /\ pc = "serve"
    /\ \/ signalled /\ Quit
       \/ emitted = NoLines /\ Fail
    /\ UNCHANGED <<signalled, open, keyFile, synced, key, served, durable, unsynced, lost>>

(* Mutants: Close returns at the first error; one file too many. *)
SyncOrReturn ==
    /\ pc = "sync"
    /\ LET f == Files[current] IN
       \/ /\ durable' = [durable EXCEPT ![f] = written[f]]
          /\ pc' = "close" /\ UNCHANGED unsynced
       \/ /\ \E n \in durable[f]..written[f] : durable' = [durable EXCEPT ![f] = n]
          /\ pc' = "exit" /\ unsynced' = unsynced \cup {f}
    /\ UNCHANGED <<current, signalled, open, keyFile, synced, key, served,
                   emitted, written, due, lost>>
CloseOneMore ==
    /\ pc = "close"
    /\ open' = open \ {Files[current]}
    /\ IF current <= Len(Files)
         THEN pc' = "sync" /\ current' = current + 1
         ELSE pc' = "exit" /\ UNCHANGED current
    /\ UNCHANGED <<signalled, keyFile, synced, key, served, logVars, lost>>

(* logger.Close, file by file: Sync, then Close.  After a failed Sync any     *)
(* part of the file may be on the disk; the error is kept for the caller     *)
(* (main drops it), and Close goes on with this file and the others.        *)
SyncLog ==
    /\ pc = "sync"
    /\ LET f == Files[current] IN
       \/ durable' = [durable EXCEPT ![f] = written[f]] /\ UNCHANGED unsynced
       \/ /\ \E n \in durable[f]..written[f] : durable' = [durable EXCEPT ![f] = n]
          /\ unsynced' = unsynced \cup {f}
    /\ pc' = "close"
    /\ UNCHANGED <<current, signalled, open, keyFile, synced, key, served,
                   emitted, written, due, lost>>

(* The descriptor is gone even if Close reports an error. *)
CloseLog ==
    /\ pc = "close"
    /\ open' = open \ {Files[current]}
    /\ IF current < Len(Files)
         THEN pc' = "sync" /\ current' = current + 1
         ELSE pc' = "exit" /\ UNCHANGED current
    /\ UNCHANGED <<signalled, keyFile, synced, key, served, logVars, lost>>

MainReturns ==
    /\ pc = "exit"
    /\ pc' = "down" /\ current' = 1 /\ key' = NoKey /\ open' = {}
    /\ UNCHANGED <<signalled, keyFile, synced, served, logVars, lost>>

Main ==
    \/ OpenLogs \/ ReadKey \/ CreateKeyFile \/ (\E k \in Key : WriteKeyFile(k))
    \/ ServeReturns \/ SyncLog \/ CloseLog \/ MainReturns

Next ==
    \/ Start \/ Signal \/ Killed \/ LosePower \/ WriteBack
    \/ Main
    \/ \E f \in File : Log(f)

Spec == Init /\ [][Next]_vars

-------------------------------------------------------------------------------
(* Properties.                                                             *)

(* Every variable has its type. *)
TypeOK ==
    /\ pc \in {"down", "openLogs", "readKey", "create", "write", "serve", "sync", "close", "exit"}
    /\ current \in 1..Len(Files)
    /\ signalled \in BOOLEAN
    /\ open \subseteq File
    /\ keyFile \in Key \cup {NoKey, Torn} /\ synced \in Key \cup {NoKey, Torn}
    /\ key \in Key \cup {NoKey} /\ served \subseteq Key
    /\ emitted \in [File -> 0..MaxLines] /\ written \in [File -> 0..MaxLines]
    /\ durable \in [File -> 0..MaxLines] /\ due \in [File -> 0..MaxLines]
    /\ unsynced \subseteq File /\ lost \in BOOLEAN

(* hostkey.go:16 "we want it stable across restarts": over all its runs the   *)
(* server shows its clients one host key, wherever it is killed.  (The file  *)
(* is never synced, so a power loss can take a key that was served.)        *)
StableKey == ~lost => Cardinality(served) <= 1

(* A key is only shown to clients once a restart will find it again.         *)
ServedIsStored == pc = "serve" => keyFile = key

(* logger.go:47: "fsync before close so the last batch of logs hits disk on   *)
(* SIGTERM".  What a file held when main began to close the logs is on       *)
(* stable storage once its turn has passed, unless its own Sync failed; a    *)
(* failure on one file costs the others nothing, and no file is left open.   *)
Passed(i) == i < current \/ (i = current /\ pc \in {"close", "exit"})
SyncedBeforeClose ==
    /\ pc \in {"sync", "close", "exit"} =>
          \A i \in DOMAIN Files :
              Passed(i) /\ Files[i] \notin unsynced => durable[Files[i]] >= due[Files[i]]
    /\ pc = "exit" => current = Len(Files) /\ open = {}
===============================================================================

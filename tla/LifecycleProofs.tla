---------------------------- MODULE LifecycleProofs ----------------------------
(***************************************************************************)
(* What Lifecycle promises for every set of keys and every number of lines, *)
(* with and without power losses, full disks and failed syncs: types, one   *)
(* host key over all restarts, and a shutdown in which no error on one log  *)
(* keeps another from being synced and closed.                              *)
(***************************************************************************)
EXTENDS Lifecycle, FiniteSetTheorems, TLAPS

(* A file never has more lines than were logged, nor stable storage more     *)
(* than the file: it keeps the line counts within their type.               *)
CountsOrdered ==
    \A f \in File : durable[f] <= written[f] /\ written[f] <= emitted[f]

(* Until the machine loses power, the key that was shown is the key in the   *)
(* file, and a key is only created when none was ever shown.                *)
KeyKept ==
    ~lost =>
        /\ served = {} \/ (keyFile \in Key /\ served = {keyFile})
        /\ pc \in {"create", "write"} => served = {}

(* While main closes the files, a file has at least what it held when main   *)
(* began, and those before the current one are closed.                      *)
ClosedInOrder ==
    /\ pc \in {"sync", "close", "exit"} => \A f \in File : written[f] >= due[f]
    /\ pc \in {"sync", "close"} =>
          \A i \in DOMAIN Files : i < current => Files[i] \notin open

Inv == TypeOK /\ CountsOrdered /\ KeyKept /\ ServedIsStored /\ ClosedInOrder
           /\ SyncedBeforeClose

USE KeyAssumption, PowerAssumption, LinesAssumption

LEMMA FilesAreFile ==
    /\ Len(Files) = 3 /\ DOMAIN Files = 1..3
    /\ \A i \in 1..3 : Files[i] \in File
    /\ \A i, j \in 1..3 : Files[i] = Files[j] => i = j
    /\ File = {Files[1], Files[2], Files[3]} /\ "server" \in File
BY DEF Files, File

LEMMA NoLinesType ==
    NoLines \in [File -> 0..MaxLines] /\ \A f \in File : NoLines[f] = 0
BY DEF NoLines

LEMMA InitInv == Init => Inv
<1> SUFFICES ASSUME Init PROVE Inv
    OBVIOUS
<1> USE FilesAreFile, NoLinesType DEF Init
<1>1. TypeOK
    <2>1. signalled \in BOOLEAN /\ lost \in BOOLEAN
        OBVIOUS
    <2>2. open \subseteq File /\ served \subseteq Key
        OBVIOUS
    <2> QED
        BY <2>1, <2>2 DEF TypeOK
<1>2. CountsOrdered /\ KeyKept /\ ServedIsStored /\ ClosedInOrder
    BY DEF CountsOrdered, KeyKept, ServedIsStored, ClosedInOrder
<1>3. SyncedBeforeClose
    BY DEF SyncedBeforeClose
<1> QED
    BY <1>1, <1>2, <1>3 DEF Inv

LEMMA NextTypeOK == TypeOK /\ CountsOrdered /\ [Next]_vars => TypeOK' /\ CountsOrdered'
<1> SUFFICES ASSUME TypeOK, CountsOrdered, [Next]_vars
             PROVE  TypeOK' /\ CountsOrdered'
    OBVIOUS
<1> USE FilesAreFile DEF TypeOK, CountsOrdered, logVars
<1>1. CASE Start
    <2>1. signalled' \in BOOLEAN /\ lost' \in BOOLEAN
        BY <1>1 DEF Start
    <2>2. CountsOrdered'
        BY <1>1, NoLinesType DEF Start
    <2> QED
        BY <1>1, <2>1, <2>2, NoLinesType DEF Start
<1>2. CASE Signal
    BY <1>2 DEF Signal
<1>3. CASE Killed
    BY <1>3 DEF Killed
<1>4. CASE LosePower
    <2>1. keyFile' \in Key \cup {NoKey, Torn}
        BY <1>4 DEF LosePower
    <2>2. signalled' \in BOOLEAN /\ lost' \in BOOLEAN
        BY <1>4 DEF LosePower
    <2>3. open' \subseteq File
        BY <1>4 DEF LosePower
    <2>4. CountsOrdered'
        BY <1>4 DEF LosePower
    <2> QED
        BY <1>4, <2>1, <2>2, <2>3, <2>4 DEF LosePower
<1>5. CASE WriteBack
    BY <1>5 DEF WriteBack
<1>6. CASE OpenLogs
    BY <1>6 DEF OpenLogs
<1> DEFINE LinesOK ==
        /\ emitted' \in [File -> 0..MaxLines] /\ written' \in [File -> 0..MaxLines]
        /\ \A f \in File : durable[f] <= written'[f] /\ written'[f] <= emitted'[f]
<1>a. ASSUME NEW f \in File, WriteLine(f) PROVE LinesOK
    BY <1>a DEF WriteLine
<1>b. ASSUME emitted' = emitted, written' = written PROVE LinesOK
    BY <1>b
<1>c. ASSUME Fail PROVE LinesOK /\ due' = written' /\ current' = 1 /\ pc' = "sync"
    BY <1>a, <1>c DEF Fail, CloseLogs
<1> HIDE DEF LinesOK
<1>d. ASSUME LinesOK, durable' = durable PROVE CountsOrdered'
    BY <1>d DEF LinesOK
<1>7. CASE ReadKey
    <2>1. LinesOK
        BY <1>7, <1>b, <1>c DEF ReadKey, Generate, UseKey
    <2> QED
        BY <1>7, <1>c, <1>d, <2>1 DEF ReadKey, Generate, UseKey, LinesOK
<1>8. CASE CreateKeyFile
    <2>1. LinesOK
        BY <1>8, <1>b, <1>c DEF CreateKeyFile
    <2> QED
        BY <1>8, <1>c, <1>d, <2>1 DEF CreateKeyFile, LinesOK
<1>9. ASSUME NEW k \in Key, WriteKeyFile(k) PROVE TypeOK' /\ CountsOrdered'
    <2>1. LinesOK
        BY <1>9, <1>b, <1>c DEF WriteKeyFile
    <2> QED
        BY <1>9, <1>c, <1>d, <2>1 DEF WriteKeyFile, LinesOK
<1>10. CASE ServeReturns
    <2>1. LinesOK /\ due' = written' /\ current' = 1 /\ pc' = "sync"
        BY <1>10, <1>b, <1>c DEF ServeReturns, Quit, CloseLogs
    <2> QED
        BY <1>10, <1>d, <2>1 DEF ServeReturns, LinesOK
<1>11. CASE SyncLog
    <2>1. PICK n \in 0..MaxLines :
              /\ durable' = [durable EXCEPT ![Files[current]] = n]
              /\ n <= written[Files[current]]
        BY <1>11 DEF SyncLog
    <2>2. unsynced' \subseteq File
        BY <1>11 DEF SyncLog
    <2> QED
        BY <1>11, <2>1, <2>2 DEF SyncLog
<1>12. CASE CloseLog
    BY <1>12 DEF CloseLog
<1>12a. CASE MainReturns
    BY <1>12a DEF MainReturns
<1>13. ASSUME NEW f \in File, Log(f) PROVE TypeOK' /\ CountsOrdered'
    <2>1. LinesOK
        BY <1>13, <1>a DEF Log
    <2> QED
        BY <1>13, <1>d, <2>1 DEF Log, LinesOK
<1>14. CASE UNCHANGED vars
    BY <1>14 DEF vars
<1> QED
    BY <1>1, <1>2, <1>3, <1>4, <1>5, <1>6, <1>7, <1>8, <1>9, <1>10, <1>11, <1>12,
       <1>12a, <1>13, <1>14 DEF Next, Main

(* The key: only a start that finds no file creates one, and it shows the     *)
(* key once it is in the file.                                              *)
LEMMA NextKeyKept ==
    TypeOK /\ KeyKept /\ ServedIsStored /\ [Next]_vars => KeyKept' /\ ServedIsStored'
<1> SUFFICES ASSUME TypeOK, KeyKept, ServedIsStored, [Next]_vars
             PROVE  KeyKept' /\ ServedIsStored'
    OBVIOUS
<1> USE DEF KeyKept, ServedIsStored
<1>1. CASE Start
    BY <1>1 DEF Start
<1>2. CASE Signal
    BY <1>2 DEF Signal
<1>3. CASE Killed
    BY <1>3 DEF Killed
<1>4. CASE LosePower
    BY <1>4 DEF LosePower
<1>5. CASE WriteBack
    BY <1>5 DEF WriteBack
<1>6. CASE OpenLogs
    BY <1>6 DEF OpenLogs
<1>7. CASE ReadKey
    <2>1. CASE keyFile = NoKey /\ Generate
        BY <1>7, <2>1 DEF ReadKey, Generate
    <2>2. CASE UseKey
        BY <1>7, <2>2 DEF ReadKey, UseKey
    <2>3. CASE Fail /\ UNCHANGED key
        BY <1>7, <2>3 DEF ReadKey, Fail, CloseLogs
    <2> QED
        BY <1>7, <2>1, <2>2, <2>3 DEF ReadKey
<1>8. CASE CreateKeyFile
    BY <1>8 DEF CreateKeyFile, Fail, CloseLogs
<1>9. ASSUME NEW k \in Key, WriteKeyFile(k) PROVE KeyKept' /\ ServedIsStored'
    BY <1>9 DEF WriteKeyFile, Fail, CloseLogs
<1>10. CASE ServeReturns
    BY <1>10 DEF ServeReturns, Fail, Quit, CloseLogs
<1>11. CASE SyncLog
    BY <1>11 DEF SyncLog
<1>12. CASE CloseLog
    BY <1>12 DEF CloseLog
<1>12a. CASE MainReturns
    BY <1>12a DEF MainReturns
<1>13. ASSUME NEW f \in File, Log(f) PROVE KeyKept' /\ ServedIsStored'
    BY <1>13 DEF Log, logVars
<1>14. CASE UNCHANGED vars
    BY <1>14 DEF vars
<1> QED
    BY <1>1, <1>2, <1>3, <1>4, <1>5, <1>6, <1>7, <1>8, <1>9, <1>10, <1>11, <1>12,
       <1>12a, <1>13, <1>14 DEF Next, Main

(* The logs: a write only adds lines, Sync takes all of a file or tells, and *)
(* a file that is behind main is never touched again.                       *)
LEMMA NextClosedInOrder ==
    TypeOK /\ ClosedInOrder /\ [Next]_vars => ClosedInOrder'
<1> SUFFICES ASSUME TypeOK, ClosedInOrder, [Next]_vars PROVE ClosedInOrder'
    OBVIOUS
<1> USE FilesAreFile DEF TypeOK, ClosedInOrder
<1>1. CASE Start \/ Killed \/ LosePower \/ OpenLogs \/ MainReturns
    BY <1>1 DEF Start, Killed, LosePower, OpenLogs, MainReturns
<1>2. CASE Signal \/ WriteBack \/ UNCHANGED vars
    BY <1>2 DEF Signal, WriteBack, vars, logVars
<1>3. ASSUME CloseLogs, written' \in [File -> Int] PROVE ClosedInOrder'
    BY <1>3 DEF CloseLogs
<1>4. ASSUME Fail \/ Quit PROVE ClosedInOrder'
    <2>1. written' \in [File -> Int]
        BY <1>4 DEF Fail, Quit, WriteLine
    <2> QED
        BY <1>3, <1>4, <2>1 DEF Fail, Quit
<1> HIDE DEF ClosedInOrder
<1>5. CASE ReadKey
    BY <1>4, <1>5 DEF ReadKey, Generate, UseKey, ClosedInOrder
<1>6. CASE CreateKeyFile
    BY <1>4, <1>6 DEF CreateKeyFile, ClosedInOrder
<1>7. ASSUME NEW k \in Key, WriteKeyFile(k) PROVE ClosedInOrder'
    BY <1>4, <1>7 DEF WriteKeyFile, ClosedInOrder
<1>8. CASE ServeReturns
    BY <1>4, <1>8 DEF ServeReturns
<1>9. CASE SyncLog
    BY <1>9 DEF SyncLog, ClosedInOrder
<1>10. CASE CloseLog
    BY <1>10 DEF CloseLog, logVars, ClosedInOrder
<1>11. ASSUME NEW f \in File, Log(f) PROVE ClosedInOrder'
    <2>1. \A g \in File : written'[g] \in Nat /\ written'[g] >= written[g]
        BY <1>11 DEF Log, WriteLine
    <2> QED
        BY <1>11, <2>1 DEF Log, ClosedInOrder
<1> QED
    BY <1>1, <1>2, <1>5, <1>6, <1>7, <1>8, <1>9, <1>10, <1>11 DEF Next, Main

LEMMA NextSyncedBeforeClose ==
    TypeOK /\ ClosedInOrder /\ SyncedBeforeClose /\ [Next]_vars => SyncedBeforeClose'
<1> SUFFICES ASSUME TypeOK, ClosedInOrder, SyncedBeforeClose, [Next]_vars
             PROVE  SyncedBeforeClose'
    OBVIOUS
<1> USE FilesAreFile DEF TypeOK, SyncedBeforeClose, Passed
<1>1. CASE Start \/ Killed \/ LosePower \/ OpenLogs \/ MainReturns
    BY <1>1 DEF Start, Killed, LosePower, OpenLogs, MainReturns
<1>2. CASE Signal \/ WriteBack \/ UNCHANGED vars
    BY <1>2 DEF Signal, WriteBack, vars, logVars
<1>3. ASSUME CloseLogs PROVE SyncedBeforeClose'
    BY <1>3 DEF CloseLogs
<1>4. ASSUME Fail \/ Quit PROVE SyncedBeforeClose'
    BY <1>3, <1>4 DEF Fail, Quit
<1>5. CASE ReadKey
    BY <1>4, <1>5 DEF ReadKey, Generate, UseKey
<1>6. CASE CreateKeyFile
    BY <1>4, <1>6 DEF CreateKeyFile
<1>7. ASSUME NEW k \in Key, WriteKeyFile(k) PROVE SyncedBeforeClose'
    BY <1>4, <1>7 DEF WriteKeyFile
<1>8. CASE ServeReturns
    BY <1>4, <1>8 DEF ServeReturns
<1>9. CASE SyncLog
    <2>1. \/ durable' = [durable EXCEPT ![Files[current]] = written[Files[current]]]
          \/ /\ unsynced' = unsynced \cup {Files[current]}
             /\ \A f \in File \ {Files[current]} : durable'[f] = durable[f]
        BY <1>9 DEF SyncLog
    <2>2. unsynced \subseteq unsynced' /\ due' = due /\ current' = current
        BY <1>9 DEF SyncLog
    <2>3. written[Files[current]] >= due[Files[current]]
        BY <1>9 DEF SyncLog, ClosedInOrder
    <2> QED
        BY <1>9, <2>1, <2>2, <2>3 DEF SyncLog
<1>10. CASE CloseLog
    <2>1. current = 3 => open' = {}
        BY <1>10 DEF CloseLog, ClosedInOrder
    <2> QED
        BY <1>10, <2>1 DEF CloseLog, logVars
<1>11. ASSUME NEW f \in File, Log(f) PROVE SyncedBeforeClose'
    BY <1>11 DEF Log
<1> QED
    BY <1>1, <1>2, <1>5, <1>6, <1>7, <1>8, <1>9, <1>10, <1>11 DEF Next, Main

LEMMA InvInvariant == Spec => []Inv
<1>1. Inv /\ [Next]_vars => Inv'
    BY NextTypeOK, NextKeyKept, NextClosedInOrder, NextSyncedBeforeClose DEF Inv
<1> QED
    BY InitInv, <1>1, PTL DEF Spec

(* Every variable keeps its type (hostkey.go, logger.go, main.go).           *)
THEOREM TypeCorrect == Spec => []TypeOK
<1>1. Inv => TypeOK
    BY DEF Inv
<1> QED
    BY InvInvariant, <1>1, PTL

(* hostkey.go:16: wherever the process is killed, and however often it is     *)
(* started again, it shows one host key, until the machine loses power.      *)
THEOREM OneHostKey == Spec => []StableKey
<1>1. Inv => StableKey
    <2> SUFFICES ASSUME Inv, ~lost PROVE Cardinality(served) <= 1
        BY DEF StableKey
    <2>1. CASE served = {}
        BY <2>1, FS_EmptySet
    <2>2. CASE served = {keyFile}
        <3>1. Cardinality({keyFile}) = 1
            BY FS_Singleton
        <3> QED
            BY <2>2, <3>1
    <2> QED
        BY <2>1, <2>2 DEF Inv, KeyKept
<1> QED
    BY InvInvariant, <1>1, PTL

(* hostkey.go:54: a key is shown only once a restart will find it.           *)
THEOREM KeyStoredBeforeServed == Spec => []ServedIsStored
<1>1. Inv => ServedIsStored
    BY DEF Inv
<1> QED
    BY InvInvariant, <1>1, PTL

(* logger.go:47: when a file's turn has passed, everything it held when main  *)
(* began to close the logs is on stable storage, unless its own Sync failed; *)
(* whatever fails on one file, Close leaves none open.                      *)
THEOREM LogsSynced == Spec => []SyncedBeforeClose
<1>1. Inv => SyncedBeforeClose
    BY DEF Inv
<1> QED
    BY InvInvariant, <1>1, PTL

===============================================================================

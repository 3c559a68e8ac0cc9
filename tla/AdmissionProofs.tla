---------------------------- MODULE AdmissionProofs ----------------------------
(***************************************************************************)
(* The safety properties of Admission for every set of connections and     *)
(* addresses, every -max-conn, -auth-threshold and MaxAuthTries, and that  *)
(* Admission implements AuthGate.                                          *)
(***************************************************************************)
EXTENDS Admission, FiniteSetTheorems, TLAPS

LEMMA ThresholdPositive == Threshold \in Nat /\ Threshold >= 1
BY ThresholdAssumption DEF Threshold

(* A connection that may still offer a password has a try left, and one that *)
(* has not offered one since its last verdict carries no count.              *)
TriesLeft ==
    \A c \in Conn :
        pc[c] \in {"free", "backlog", "handshake", "verdict"} =>
            tries[c] < MaxAuthTries
NoStaleCount ==
    \A c \in Conn : pc[c] \in {"free", "backlog", "handshake"} => n[c] = 0

Inv == TypeOK /\ TriesLeft /\ NoStaleCount /\ SlotAccounting

LEMMA HoldsSlotFinite ==
    /\ IsFiniteSet(HoldsSlot)
    /\ Cardinality(HoldsSlot) \in Nat
<1>1. HoldsSlot \subseteq Conn
  BY DEF HoldsSlot
<1>2. IsFiniteSet(HoldsSlot)
  BY <1>1, ConnAssumption, FS_Subset
<1> QED
  BY <1>2, FS_CardinalityType

(* The four shapes a step can have as far as slots are concerned.            *)
LEMMA SlotKept ==
    ASSUME SlotAccounting, sem' = sem, HoldsSlot' = HoldsSlot
    PROVE  SlotAccounting'
BY DEF SlotAccounting

LEMMA SlotTaken ==
    ASSUME NEW c \in Conn, SlotAccounting, TypeOK, Admit(c)
    PROVE  SlotAccounting'
<1>1. HoldsSlot' = HoldsSlot \cup {c} /\ c \notin HoldsSlot
  BY DEF HoldsSlot, Admit, TypeOK, InFlight, InHandshake
<1>2. Cardinality(HoldsSlot') = Cardinality(HoldsSlot) + 1
  BY <1>1, HoldsSlotFinite, FS_AddElement
<1>3. sem' = sem + 1 /\ sem < MaxConn /\ sem \in Nat
  BY DEF Admit, TypeOK
<1> QED
  BY <1>2, <1>3, MaxConnAssumption DEF SlotAccounting

LEMMA SlotGivenBack ==
    ASSUME NEW c \in Conn, SlotAccounting, TypeOK, Release(c)
    PROVE  SlotAccounting' /\ sem' \in Nat
<1>1. HoldsSlot' = HoldsSlot \ {c} /\ c \in HoldsSlot
  BY DEF HoldsSlot, Release, TypeOK, InFlight, InHandshake
<1>2. Cardinality(HoldsSlot') = Cardinality(HoldsSlot) - 1
  BY <1>1, HoldsSlotFinite, FS_RemoveElement
<1>3. Cardinality(HoldsSlot') \in Nat
  <2>1. HoldsSlot' \subseteq HoldsSlot
    BY <1>1
  <2> QED
    BY <2>1, HoldsSlotFinite, FS_Subset, FS_CardinalityType
<1>4. sem' = sem - 1 /\ sem \in Nat /\ sem = Cardinality(HoldsSlot) /\ sem <= MaxConn
  BY DEF Release, TypeOK, SlotAccounting
<1> QED
  BY <1>2, <1>3, <1>4, MaxConnAssumption DEF SlotAccounting

LEMMA InvInit == Init => Inv
<1> SUFFICES ASSUME Init PROVE Inv
  OBVIOUS
<1>1. TypeOK
  <2>1. 0 \in 0..MaxAuthTries
    BY TriesAssumption
  <2>2. tries \in [Conn -> 0..MaxAuthTries]
    BY <2>1 DEF Init
  <2>3. \A c \in Conn : host[c] = NoHost /\ pc[c] = "free"
    BY DEF Init
  <2> QED
    BY <2>2, <2>3 DEF Init, TypeOK, Stage
<1>2. TriesLeft /\ NoStaleCount
  BY TriesAssumption DEF Init, TriesLeft, NoStaleCount
<1>3. SlotAccounting
  <2>1. HoldsSlot = {}
    BY DEF Init, HoldsSlot, InFlight, InHandshake
  <2> QED
    BY <2>1, FS_EmptySet, MaxConnAssumption DEF Init, SlotAccounting
<1> QED
  BY <1>1, <1>2, <1>3 DEF Inv

(* Closing the listener only frees connections that hold no slot. *)
LEMMA DropBacklogKeepsInv ==
    ASSUME Inv, DropBacklog, sem' = sem, attempts' = attempts, refused' = refused,
           cancelled' = cancelled,
           listener' \in {"unbound", "open", "closed"},
           serve' \in {"starting", "accepting", "returned"}
    PROVE  Inv'
<1> USE DEF Inv, DropBacklog
<1>1. TypeOK'
  BY HostAssumption DEF TypeOK, Stage, InFlight, InHandshake
<1>2. TriesLeft' /\ NoStaleCount'
  BY DEF TypeOK, TriesLeft, NoStaleCount
<1>3. HoldsSlot' = HoldsSlot
  BY DEF TypeOK, HoldsSlot, InFlight, InHandshake
<1> QED
  BY <1>1, <1>2, <1>3, SlotKept

(* A step of one connection that keeps its slot. *)
LEMMA GoroutineKeepsInv ==
    ASSUME NEW c \in Conn, Inv, Goroutine(c)
    PROVE  Inv'
<1> USE ThresholdPositive, HostAssumption, TriesAssumption
        DEF Inv, TypeOK, Stage, InFlight, InHandshake, serverVars
<1>1. CASE Count(c)
  <2>1. TypeOK'
    BY <1>1 DEF Count
  <2>2. TriesLeft' /\ NoStaleCount'
    BY <1>1 DEF Count, TriesLeft, NoStaleCount
  <2>3. HoldsSlot' = HoldsSlot /\ sem' = sem
    BY <1>1 DEF Count, HoldsSlot
  <2> QED
    BY <2>1, <2>2, <2>3, SlotKept
<1>2. CASE Accept(c)
  <2>1. TypeOK'
    BY <1>2 DEF Accept
  <2>2. TriesLeft' /\ NoStaleCount'
    BY <1>2 DEF Accept, TriesLeft, NoStaleCount
  <2>3. HoldsSlot' = HoldsSlot /\ sem' = sem
    BY <1>2 DEF Accept, HoldsSlot
  <2> QED
    BY <2>1, <2>2, <2>3, SlotKept
<1>3. CASE Refuse(c)
  <2>1. tries[c] < MaxAuthTries /\ pc[c] = "verdict"
    BY <1>3 DEF Refuse, TriesLeft
  <2>2. TypeOK'
    BY <1>3, <2>1 DEF Refuse
  <2>3. TriesLeft' /\ NoStaleCount'
    BY <1>3, <2>1 DEF Refuse, TriesLeft, NoStaleCount
  <2>4. HoldsSlot' = HoldsSlot /\ sem' = sem
    BY <1>3 DEF Refuse, HoldsSlot
  <2> QED
    BY <2>2, <2>3, <2>4, SlotKept
<1>4. CASE HandshakeOk(c) \/ HandshakeFails(c) \/ HandleReturns(c)
  <2>1. TypeOK'
    BY <1>4 DEF HandshakeOk, HandshakeFails, HandleReturns
  <2>2. TriesLeft' /\ NoStaleCount'
    BY <1>4 DEF HandshakeOk, HandshakeFails, HandleReturns, TriesLeft, NoStaleCount
  <2>3. HoldsSlot' = HoldsSlot /\ sem' = sem
    BY <1>4 DEF HandshakeOk, HandshakeFails, HandleReturns, HoldsSlot
  <2> QED
    BY <2>1, <2>2, <2>3, SlotKept
<1>5. CASE Cleanup(c)
  <2>1. TypeOK'
    BY <1>5 DEF Cleanup
  <2>2. TriesLeft' /\ NoStaleCount'
    BY <1>5 DEF Cleanup, TriesLeft, NoStaleCount
  <2>3. HoldsSlot' = HoldsSlot /\ sem' = sem
    BY <1>5 DEF Cleanup, HoldsSlot
  <2> QED
    BY <2>1, <2>2, <2>3, SlotKept
<1>6. CASE Release(c)
  <2>1. SlotAccounting' /\ sem' \in Nat
    BY <1>6, SlotGivenBack
  <2>2. TypeOK'
    BY <1>6, <2>1 DEF Release
  <2>3. TriesLeft' /\ NoStaleCount'
    BY <1>6 DEF Release, TriesLeft, NoStaleCount
  <2> QED
    BY <2>1, <2>2, <2>3
<1> QED
  BY <1>1, <1>2, <1>3, <1>4, <1>5, <1>6 DEF Goroutine

LEMMA InvNext == Inv /\ [Next]_vars => Inv'
<1> SUFFICES ASSUME Inv, [Next]_vars PROVE Inv'
  OBVIOUS
<1>1. CASE Cancel \/ Listen \/ ListenFails \/ AcceptError \/ UNCHANGED vars
  <2>1. TypeOK'
    BY <1>1 DEF Inv, TypeOK, Cancel, Listen, ListenFails, AcceptError, vars, connVars
  <2>2. UNCHANGED <<pc, n, tries, sem>>
    BY <1>1 DEF Cancel, Listen, ListenFails, AcceptError, vars, connVars
  <2>3. TriesLeft' /\ NoStaleCount' /\ HoldsSlot' = HoldsSlot
    BY <2>2 DEF Inv, TriesLeft, NoStaleCount, HoldsSlot
  <2> QED
    BY <2>1, <2>2, <2>3, SlotKept DEF Inv
<1>2. CASE CloseListener \/ ServeReturns
  BY <1>2, DropBacklogKeepsInv DEF CloseListener, ServeReturns, Inv, TypeOK
<1>3. ASSUME NEW c \in Conn, NEW h \in Host, Dial(c, h) PROVE Inv'
  <2>1. TypeOK'
    BY <1>3, HostAssumption
    DEF Inv, TypeOK, Dial, serverVars, Stage, InFlight, InHandshake
  <2>2. TriesLeft' /\ NoStaleCount'
    BY <1>3 DEF Inv, TypeOK, Dial, TriesLeft, NoStaleCount
  <2>3. HoldsSlot' = HoldsSlot /\ sem' = sem
    BY <1>3 DEF Inv, TypeOK, Dial, HoldsSlot, InFlight, InHandshake
  <2> QED
    BY <2>1, <2>2, <2>3, SlotKept DEF Inv
<1>4. ASSUME NEW c \in Conn, Admit(c) PROVE Inv'
  <2>1. TypeOK'
    BY <1>4 DEF Inv, TypeOK, Admit, serverVars, Stage, InFlight, InHandshake
  <2>2. TriesLeft' /\ NoStaleCount'
    BY <1>4 DEF Inv, TypeOK, Admit, TriesLeft, NoStaleCount
  <2> QED
    BY <1>4, <2>1, <2>2, SlotTaken DEF Inv
<1>5. ASSUME NEW c \in Conn, Reject(c) PROVE Inv'
  <2>1. TypeOK'
    BY <1>5, HostAssumption
    DEF Inv, TypeOK, Reject, serverVars, Stage, InFlight, InHandshake
  <2>2. TriesLeft' /\ NoStaleCount'
    BY <1>5 DEF Inv, TypeOK, Reject, TriesLeft, NoStaleCount
  <2>3. HoldsSlot' = HoldsSlot /\ sem' = sem
    BY <1>5 DEF Inv, TypeOK, Reject, HoldsSlot, InFlight, InHandshake
  <2> QED
    BY <2>1, <2>2, <2>3, SlotKept DEF Inv
<1> QED
  BY <1>1, <1>2, <1>3, <1>4, <1>5, GoroutineKeepsInv DEF Next, Server

(* Type correctness: sem never goes below zero, no connection is refused      *)
(* more than MaxAuthTries passwords, and every connection that is not free    *)
(* has a client address.                                                      *)
THEOREM TypeCorrect == Spec => []TypeOK
<1>1. Inv => TypeOK
  BY DEF Inv
<1> QED
  BY InvInit, InvNext, <1>1, PTL DEF Spec

(* However connections end, the semaphore holds one token for each goroutine  *)
(* in flight and there are never more than -max-conn of them.                 *)
THEOREM SlotsAccounted == Spec => []SlotAccounting
<1>1. Inv => SlotAccounting
  BY DEF Inv
<1> QED
  BY InvInit, InvNext, <1>1, PTL DEF Spec

-------------------------------------------------------------------------------
(* The counter of each address.                                            *)

LEMMA HarvestInit == Init => HarvestExact
BY ThresholdPositive DEF Init, HarvestExact

(* Only Count and Cleanup touch a counter: Count moves counter and history   *)
(* together, Cleanup forgets a count whose history was already emptied.      *)
LEMMA HarvestNext == TypeOK /\ HarvestExact /\ [Next]_vars => HarvestExact'
<1> SUFFICES ASSUME TypeOK, HarvestExact, [Next]_vars PROVE HarvestExact'
  OBVIOUS
<1> USE ThresholdPositive DEF HarvestExact
<1>1. ASSUME NEW c \in Conn, Count(c) PROVE HarvestExact'
  <2>1. host[c] \in Host /\ attempts[host[c]] \in Nat /\ refused[host[c]] \in Nat
    BY <1>1 DEF TypeOK, Count
  <2> QED
    BY <1>1, <2>1 DEF TypeOK, Count
<1>2. ASSUME NEW c \in Conn, Cleanup(c) PROVE HarvestExact'
  <2>1. host[c] \in Host
    BY <1>2 DEF TypeOK, Cleanup
  <2> QED
    BY <1>2, <2>1 DEF TypeOK, Cleanup
<1>3. CASE UNCHANGED <<attempts, refused>>
  BY <1>3
<1>4. ASSUME NEW c \in Conn, Goroutine(c), ~Count(c), ~Cleanup(c)
      PROVE  UNCHANGED <<attempts, refused>>
  BY <1>4 DEF Goroutine, Accept, Refuse, HandshakeOk, HandshakeFails,
              HandleReturns, Release
<1>5. ASSUME NEW c \in Conn, NEW h \in Host, Dial(c, h) \/ Admit(c) \/ Reject(c)
      PROVE  UNCHANGED <<attempts, refused>>
  BY <1>5 DEF Dial, Admit, Reject
<1>6. CASE \/ Cancel \/ Listen \/ ListenFails \/ AcceptError
           \/ CloseListener \/ ServeReturns \/ UNCHANGED vars
  BY <1>6, <1>3 DEF Cancel, Listen, ListenFails, AcceptError, CloseListener,
                    ServeReturns, vars
<1>7. ASSUME NEW c \in Conn, Admit(c) \/ Reject(c)
      PROVE  UNCHANGED <<attempts, refused>>
  BY <1>7 DEF Admit, Reject
<1> QED
  BY <1>1, <1>2, <1>3, <1>4, <1>5, <1>6, <1>7 DEF Next, Server

(* The history of refused passwords and the shared counter never disagree,   *)
(* whatever the interleaving of callbacks, closes and cleanups.              *)
THEOREM HarvestIsExact == Spec => []HarvestExact
<1>1. Inv => TypeOK
  BY DEF Inv
<1> QED
  BY InvInit, InvNext, HarvestInit, HarvestNext, <1>1, PTL DEF Spec

(* What a step can do to the gate of one address.                           *)
LEMMA GateStep ==
    TypeOK /\ HarvestExact /\ [Next]_vars => [Gate!Next]_(Gate!gateVars)
<1> SUFFICES ASSUME TypeOK, HarvestExact, [Next]_vars
             PROVE  [Gate!Next]_(Gate!gateVars)
  OBVIOUS
<1> DEFINE open == {h \in Host : attempts[h] >= Threshold}
<1> USE ThresholdPositive
<1>1. ASSUME NEW c \in Conn, Count(c) PROVE Gate!Next
  <2> DEFINE h == host[c]
  <2>1. h \in Host /\ attempts[h] \in Nat /\ refused[h] \in Nat
    BY <1>1 DEF TypeOK, Count
  <2>2. refused[h] = IF attempts[h] < Threshold THEN attempts[h] ELSE 0
    BY <2>1 DEF HarvestExact
  <2>3. attempts' = [attempts EXCEPT ![h] = attempts[h] + 1]
    BY <1>1 DEF Count
  <2>4. CASE attempts[h] + 1 < Threshold
    <3>1. refused' = [refused EXCEPT ![h] = @ + 1]
      BY <1>1, <2>4 DEF Count
    <3>2. open' = open /\ h \notin open
      BY <2>1, <2>3, <2>4 DEF TypeOK
    <3>3. refused[h] < Threshold - 1
      BY <2>1, <2>2, <2>4
    <3> QED
      BY <2>1, <3>1, <3>2, <3>3 DEF Gate!Next, Gate!Refuse
  <2>5. CASE ~(attempts[h] + 1 < Threshold)
    <3>1. refused' = [refused EXCEPT ![h] = 0]
      BY <1>1, <2>5 DEF Count
    <3>2. open' = open \cup {h}
      BY <2>1, <2>3, <2>5 DEF TypeOK
    <3>3. h \in open \/ refused[h] = Threshold - 1
      BY <2>1, <2>2, <2>5
    <3> QED
      BY <2>1, <3>1, <3>2, <3>3 DEF Gate!Next, Gate!Accept
  <2> QED
    BY <2>4, <2>5
<1>2. ASSUME NEW c \in Conn, Cleanup(c) PROVE [Gate!Next]_(Gate!gateVars)
  <2> DEFINE h == host[c]
  <2>1. h \in Host
    BY <1>2 DEF TypeOK, Cleanup
  <2>2. refused' = refused
    BY <1>2 DEF Cleanup
  <2>3. CASE attempts[h] >= Threshold
    <3>1. attempts' = [attempts EXCEPT ![h] = 0]
      BY <1>2, <2>3 DEF Cleanup
    <3>2. open' = open \ {h} /\ h \in open
      BY <2>1, <2>3, <3>1 DEF TypeOK
    <3> QED
      BY <2>1, <2>2, <3>2 DEF Gate!Next, Gate!Reset
  <2>4. CASE ~(attempts[h] >= Threshold)
    BY <1>2, <2>2, <2>4 DEF Cleanup, Gate!gateVars
  <2> QED
    BY <2>3, <2>4
<1>3. CASE UNCHANGED <<attempts, refused>>
  BY <1>3 DEF Gate!gateVars
<1>4. ASSUME NEW c \in Conn, Goroutine(c), ~Count(c), ~Cleanup(c)
      PROVE  UNCHANGED <<attempts, refused>>
  BY <1>4 DEF Goroutine, Accept, Refuse, HandshakeOk, HandshakeFails,
              HandleReturns, Release
<1>5. ASSUME NEW c \in Conn, NEW h \in Host, Dial(c, h)
      PROVE  UNCHANGED <<attempts, refused>>
  BY <1>5 DEF Dial
<1>6. ASSUME NEW c \in Conn, Admit(c) \/ Reject(c)
      PROVE  UNCHANGED <<attempts, refused>>
  BY <1>6 DEF Admit, Reject
<1>7. ASSUME \/ Cancel \/ Listen \/ ListenFails \/ AcceptError
             \/ CloseListener \/ ServeReturns \/ UNCHANGED vars
      PROVE  UNCHANGED <<attempts, refused>>
  BY <1>7 DEF Cancel, Listen, ListenFails, AcceptError, CloseListener,
              ServeReturns, vars
<1> QED
  BY <1>1, <1>2, <1>3, <1>4, <1>5, <1>6, <1>7 DEF Next, Server

LEMMA GateInit == Init => Gate!Init
BY ThresholdPositive DEF Init, Gate!Init

(* The accept loop, callbacks and cleanups together implement the promise     *)
(* made to each address: refused exactly Threshold-1 times, then let in, and   *)
(* counted from zero only after having been let in.                           *)
THEOREM ImplementsGate == Spec => GateSpec
<1>1. Inv => TypeOK
  BY DEF Inv
<1> QED
  BY InvInit, InvNext, HarvestInit, HarvestNext, GateInit, GateStep, <1>1, PTL
  DEF Spec, GateSpec, Gate!Spec

-------------------------------------------------------------------------------
(* Every count over the threshold has owners.                              *)

LEMMA OwnersFinite ==
    ASSUME NEW h \in Host
    PROVE  IsFiniteSet(Owners(h)) /\ Cardinality(Owners(h)) \in Nat
<1>1. Owners(h) \subseteq Conn
  BY DEF Owners
<1> QED
  BY <1>1, ConnAssumption, FS_Subset, FS_CardinalityType

LEMMA OwnedInit == Init => CounterOwned
BY ThresholdPositive DEF Init, CounterOwned

(* No counter moves and no owner is lost. *)
LEMMA OwnedKept ==
    ASSUME CounterOwned, attempts' = attempts,
           \A h \in Host : Owners(h)' = Owners(h)
    PROVE  CounterOwned'
BY DEF CounterOwned

(* A password counted at or past the threshold makes its connection an owner. *)
LEMMA OwnedCount ==
    ASSUME Inv, CounterOwned, NEW c \in Conn, Count(c)
    PROVE  CounterOwned'
<1>g. PICK g \in Host : g = host[c]
  BY DEF Inv, TypeOK, Count
<1>1. attempts[g] \in Nat
  BY DEF Inv, TypeOK
<1>2. attempts' = [attempts EXCEPT ![g] = attempts[g] + 1]
  BY <1>g DEF Count
<1>3. SUFFICES ASSUME NEW h \in Host, attempts'[h] >= Threshold
               PROVE  attempts'[h] - Threshold < Cardinality(Owners(h)')
  BY DEF CounterOwned
<1>4. CASE h # g
  <2>1. attempts'[h] = attempts[h]
    BY <1>1, <1>2, <1>4 DEF Inv, TypeOK
  <2>2. Owners(h)' = Owners(h)
    BY <1>g, <1>4 DEF Inv, TypeOK, Count, Owners
  <2> QED
    BY <1>3, <2>1, <2>2 DEF CounterOwned
<1>5. CASE h = g
  <2>1. attempts'[g] = attempts[g] + 1
    BY <1>1, <1>2 DEF Inv, TypeOK
  <2>2. Owners(g)' = Owners(g) \cup {c} /\ c \notin Owners(g)
    BY <1>g, <1>3, <1>5, <2>1
    DEF Inv, TypeOK, Count, Owners, InFlight, InHandshake
  <2>3. Cardinality(Owners(g)') = Cardinality(Owners(g)) + 1
    BY <1>1, <2>2, OwnersFinite, FS_AddElement
  <2>4. attempts'[g] - Threshold < Cardinality(Owners(g)')
    <3>1. Cardinality(Owners(g)) \in Nat
      BY <1>1, OwnersFinite
    <3>2. CASE attempts[g] >= Threshold
      <4>1. attempts[g] - Threshold < Cardinality(Owners(g))
        BY <1>1, <3>2 DEF CounterOwned
      <4> QED
        BY <1>1, <2>1, <2>3, <3>1, <4>1, ThresholdPositive
    <3>3. CASE ~(attempts[g] >= Threshold)
      BY <1>1, <2>1, <2>3, <3>1, <3>3, ThresholdPositive
    <3> QED
      BY <3>2, <3>3
  <2> QED
    BY <1>5, <2>4
<1> QED
  BY <1>4, <1>5

(* Cleanup ends an ownership only together with the count.                   *)
LEMMA OwnedCleanup ==
    ASSUME Inv, CounterOwned, NEW c \in Conn, Cleanup(c)
    PROVE  CounterOwned'
<1> DEFINE g == host[c]
<1>1. g \in Host /\ attempts[g] \in Nat
  BY DEF Inv, TypeOK, Cleanup
<1>2. attempts'[g] < Threshold
  BY <1>1, ThresholdPositive DEF Inv, TypeOK, Cleanup
<1>3. ASSUME NEW h \in Host, h # g
      PROVE  attempts'[h] = attempts[h] /\ Owners(h)' = Owners(h)
  BY <1>3 DEF Inv, TypeOK, Cleanup, Owners
<1>4. attempts'[g] \in Nat
  BY <1>1 DEF Inv, TypeOK, Cleanup
<1> QED
  BY <1>2, <1>3, <1>4, ThresholdPositive DEF CounterOwned

LEMMA OwnedNext == Inv /\ CounterOwned /\ [Next]_vars => CounterOwned'
<1> SUFFICES ASSUME Inv, CounterOwned, [Next]_vars PROVE CounterOwned'
  OBVIOUS
<1> USE ThresholdPositive DEF Inv
<1>1. ASSUME NEW c \in Conn, Goroutine(c) PROVE CounterOwned'
  <2>1. CASE Count(c)
    BY <2>1, OwnedCount
  <2>2. CASE Cleanup(c)
    BY <2>2, OwnedCleanup
  <2>3. CASE Accept(c) \/ HandshakeOk(c) \/ HandshakeFails(c) \/ HandleReturns(c)
    <3>1. \A h \in Host : Owners(h)' = Owners(h)
      BY <2>3 DEF TypeOK, NoStaleCount, Owners, InFlight, InHandshake,
                  Accept, HandshakeOk, HandshakeFails, HandleReturns
    <3> QED
      BY <2>3, <3>1, OwnedKept
      DEF Accept, HandshakeOk, HandshakeFails, HandleReturns
  <2>4. CASE Refuse(c) \/ Release(c)
    <3>1. \A h \in Host : Owners(h)' = Owners(h)
      BY <2>4 DEF TypeOK, Owners, InFlight, InHandshake, Refuse, Release
    <3> QED
      BY <2>4, <3>1, OwnedKept DEF Refuse, Release
  <2> QED
    BY <1>1, <2>1, <2>2, <2>3, <2>4 DEF Goroutine
<1>2. CASE CloseListener \/ ServeReturns
  <2>1. \A h \in Host : Owners(h)' = Owners(h)
    BY <1>2 DEF TypeOK, Owners, InFlight, InHandshake, CloseListener,
                ServeReturns, DropBacklog
  <2> QED
    BY <1>2, <2>1, OwnedKept DEF CloseListener, ServeReturns
<1>3. CASE Cancel \/ Listen \/ ListenFails \/ AcceptError \/ UNCHANGED vars
  <2>1. UNCHANGED <<pc, host, n, attempts>>
    BY <1>3 DEF Cancel, Listen, ListenFails, AcceptError, vars, connVars
  <2> QED
    BY <2>1, OwnedKept DEF Owners
<1>4. ASSUME NEW c \in Conn, Admit(c) \/ Reject(c) \/ \E h \in Host : Dial(c, h)
      PROVE  CounterOwned'
  <2>1. \A h \in Host : Owners(h)' = Owners(h)
    BY <1>4 DEF TypeOK, Owners, InFlight, InHandshake, Admit, Reject, Dial
  <2> QED
    BY <1>4, <2>1, OwnedKept DEF Admit, Reject, Dial
<1> QED
  BY <1>1, <1>2, <1>3, <1>4 DEF Next, Server

(* An address is over the threshold only while connections it had accepted    *)
(* are in flight, at least one for each count past it: the cleanup of any of   *)
(* them forgets the count, and the counter is bounded by the connections.     *)
THEOREM CountersOwned == Spec => []CounterOwned
BY InvInit, InvNext, OwnedInit, OwnedNext, PTL DEF Spec
===============================================================================

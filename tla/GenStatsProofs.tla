---------------------------- MODULE GenStatsProofs -----------------------------
(****************************************************************************)
(* The numbers of gen_stats.py for logs of every length, with every record  *)
(* repeated as often and in whatever order the merge left them: the totals  *)
(* are those of the sets of events.  And, of the scripts that are asked     *)
(* about the same lines: the sprays of stats.py are the bursts there are,   *)
(* and the periods of periods.py share the events out.                      *)
(****************************************************************************)
EXTENDS LogStats, Positions, FiniteSetTheorems, FunctionTheorems, WellFoundedInduction, TLAPS

(* A line more is an event more, or the same events.                        *)
LEMMA EventsAppend ==
    ASSUME NEW S, NEW lines \in Seq(S), NEW rec \in S
    PROVE  Events(Append(lines, rec)) = Events(lines) \cup {rec}
<1>1. \A i \in 1..Len(lines) : Append(lines, rec)[i] = lines[i]
  OBVIOUS
<1>2. Append(lines, rec)[Len(lines) + 1] = rec
  OBVIOUS
<1>3. /\ DOMAIN lines = 1..Len(lines) /\ Len(lines) \in Nat
      /\ DOMAIN Append(lines, rec) = 1..(Len(lines) + 1)
  OBVIOUS
<1>4. 1..(Len(lines) + 1) = 1..Len(lines) \cup {Len(lines) + 1}
  BY <1>3
<1> QED
  BY <1>1, <1>2, <1>3, <1>4 DEF Events

LEMMA EventsTyped ==
    ASSUME NEW S, NEW lines \in Seq(S)
    PROVE  Events(lines) \subseteq S
BY DEF Events

LEMMA NoEvents == Events(<<>>) = {}
BY DEF Events

(* How many keys of a value there are, before and after one is added.       *)
LEMMA KeysWithAdd ==
    ASSUME NEW keys, NEW k, NEW field, NEW value, IsFiniteSet(keys), k \notin keys
    PROVE  /\ Cardinality(KeysWith(keys, field, value)) \in Nat
           /\ Cardinality(KeysWith(keys \cup {k}, field, value)) =
                IF k[field] = value THEN Cardinality(KeysWith(keys, field, value)) + 1
                ELSE Cardinality(KeysWith(keys, field, value))
<1> DEFINE old == KeysWith(keys, field, value)
           new == KeysWith(keys \cup {k}, field, value)
<1>1. IsFiniteSet(old) /\ k \notin old
  <2>1. old \subseteq keys
    BY DEF KeysWith
  <2> QED
    BY <2>1, FS_Subset
<1>2. Cardinality(old) \in Nat
  BY <1>1, FS_CardinalityType
<1>3. CASE k[field] = value
  <2>1. new = old \cup {k}
    BY <1>3 DEF KeysWith
  <2>2. Cardinality(old \cup {k}) = Cardinality(old) + 1
    BY <1>1, FS_AddElement
  <2> QED
    BY <1>2, <1>3, <2>1, <2>2
<1>4. CASE k[field] # value
  <2>1. new = old
    BY <1>4 DEF KeysWith
  <2> QED
    BY <1>2, <1>4, <2>1
<1> QED
  BY <1>3, <1>4

(* And the same of those that come from an address.                         *)
LEMMA KeysFromAdd ==
    ASSUME NEW keys, NEW k, NEW address, IsFiniteSet(keys), k \notin keys
    PROVE  /\ Cardinality(KeysFrom(keys, address)) \in Nat
           /\ Cardinality(KeysFrom(keys \cup {k}, address)) =
                IF k[2] # NoText /\ strip_port(k[2]) = address
                THEN Cardinality(KeysFrom(keys, address)) + 1
                ELSE Cardinality(KeysFrom(keys, address))
<1> DEFINE old == KeysFrom(keys, address)
           new == KeysFrom(keys \cup {k}, address)
           Its == k[2] # NoText /\ strip_port(k[2]) = address
<1>1. IsFiniteSet(old) /\ k \notin old
  <2>1. old \subseteq keys
    BY DEF KeysFrom
  <2> QED
    BY <2>1, FS_Subset
<1>2. Cardinality(old) \in Nat
  BY <1>1, FS_CardinalityType
<1>3. CASE Its
  <2>1. new = old \cup {k}
    BY <1>3 DEF KeysFrom
  <2>2. Cardinality(old \cup {k}) = Cardinality(old) + 1
    BY <1>1, FS_AddElement
  <2> QED
    BY <1>2, <1>3, <2>1, <2>2
<1>4. CASE ~Its
  <2>1. new = old
    BY <1>4 DEF KeysFrom
  <2> QED
    BY <1>2, <1>4, <2>1
<1> QED
  BY <1>3, <1>4

LEMMA CountTyped ==
    ASSUME NEW S, NEW counter \in [S -> Nat], NEW key
    PROVE  Count(counter, key) \in [S -> Nat]
<1>1. \A k \in S : Count(counter, key)[k] = IF k = key THEN counter[k] + 1 ELSE counter[k]
  BY DEF Count
<1>2. Count(counter, key) = [k \in S |-> Count(counter, key)[k]]
  BY DEF Count
<1> QED
  BY <1>1, <1>2

(****************************************************************************)
(* Types.                                                                   *)
(****************************************************************************)
THEOREM TypeCorrect == Spec => []TypeOK
<1>1. Init => TypeOK
  BY DEF Init, TypeOK, Files
<1>2. TypeOK /\ [Next]_vars => TypeOK'
  <2> SUFFICES ASSUME TypeOK, [Next]_vars PROVE TypeOK'
    OBVIOUS
  <2>1. ASSUME NEW rec \in AuthRecords, ReadAuth(rec) PROVE TypeOK'
    <3>1. /\ passwords' \in [Passwords -> Nat] /\ usernames' \in [Users -> Nat]
          /\ source_ips' \in [Addresses -> Nat]
      BY <2>1, CountTyped DEF ReadAuth, TypeOK
    <3>2. auth_lines' \in Seq(AuthRecords) /\ attempts' \in Nat
      BY <2>1 DEF ReadAuth, TypeOK
    <3> QED
      BY <2>1, <3>1, <3>2 DEF ReadAuth, TypeOK, sessionVars
  <2>2. ASSUME NEW rec \in AuthRecords, ReadAuthRepeat(rec) PROVE TypeOK'
    BY <2>2 DEF ReadAuthRepeat, TypeOK, sessionVars
  <2>3. ASSUME NEW rec \in SessionRecords, NextSessionLine(rec)
        PROVE  /\ session_lines' \in Seq(SessionRecords)
               /\ UNCHANGED <<phase, authVars, server_lines>>
    BY <2>3 DEF NextSessionLine, TypeOK
  <2>4. ASSUME NEW rec \in SessionRecords, ReadTorn(rec) PROVE TypeOK'
    BY <2>3, <2>4 DEF ReadTorn, TypeOK, authVars
  <2>5. ASSUME NEW rec \in SessionRecords, ReadCommand(rec) PROVE TypeOK'
    <3>1. commands' \in Nat /\ dup_sess' \in Nat /\ UNCHANGED tally
      BY <2>5 DEF ReadCommand, TypeOK
    <3> QED
      BY <2>3, <2>5, <3>1 DEF ReadCommand, SeeSession, TypeOK, authVars
  <2>6. ASSUME NEW rec \in SessionRecords, ReadCounted(rec) PROVE TypeOK'
    <3>1. \/ tally' = tally /\ dup_sess' = dup_sess + 1
          \/ tally' = Count(tally, rec.msg) /\ dup_sess' = dup_sess
      BY <2>6 DEF ReadCounted
    <3>2. Count(tally, rec.msg) \in [CountedMsgs -> Nat]
      BY CountTyped DEF TypeOK
    <3>3. tally \in [CountedMsgs -> Nat] /\ dup_sess \in Nat
      BY DEF TypeOK
    <3>4. tally' \in [CountedMsgs -> Nat] /\ dup_sess' \in Nat
      BY <3>1, <3>2, <3>3
    <3>5. UNCHANGED commands
      BY <2>6 DEF ReadCounted
    <3> QED
      BY <2>3, <2>6, <3>4, <3>5 DEF ReadCounted, SeeSession, TypeOK, authVars
  <2>7. ASSUME NEW rec \in SessionRecords, ReadOther(rec) PROVE TypeOK'
    BY <2>3, <2>7 DEF ReadOther, SeeSession, TypeOK, authVars
  <2>8. CASE AuthEnds \/ SessionEnds \/ WriteStats
    BY <2>8 DEF AuthEnds, SessionEnds, WriteStats, TypeOK, Files, authVars, sessionVars
  <2>9. ASSUME NEW rec \in ServerRecords, ReadServer(rec) PROVE TypeOK'
    BY <2>9 DEF ReadServer, TypeOK, authVars, sessionVars
  <2>10. CASE UNCHANGED vars
    BY <2>10 DEF vars, TypeOK, authVars, sessionVars
  <2> QED
    BY <2>1, <2>2, <2>4, <2>5, <2>6, <2>7, <2>8, <2>9, <2>10 DEF Next
<1> QED
  BY <1>1, <1>2, PTL DEF Spec

(****************************************************************************)
(* auth.log.  What the script remembers is the set of attempts, and each of *)
(* its tables counts that set.                                              *)
(****************************************************************************)
SeenIsLogged == seen_auth = AuthEvents /\ IsFiniteSet(seen_auth)
AuthInv == SeenIsLogged /\ AuthExact

LEMMA AuthRecordFields ==
    ASSUME NEW rec \in AuthRecords
    PROVE  /\ AuthKey(rec)[2] = rec.remote
           /\ AuthKey(rec)[3] = rec.user /\ AuthKey(rec)[4] = rec.password
           /\ rec.remote # NoText => strip_port(rec.remote) \in Addresses
           /\ rec.password # NoText => rec.password \in Passwords
           /\ rec.user # NoText => rec.user \in Users
BY DEF AuthKey, Addresses, Passwords, Users

LEMMA AuthEventsAppend ==
    ASSUME NEW rec \in AuthRecords, auth_lines \in Seq(AuthRecords),
           auth_lines' = Append(auth_lines, rec)
    PROVE  AuthEvents' = AuthEvents \cup {AuthKey(rec)}
<1>1. Events(auth_lines)' = Events(auth_lines) \cup {rec}
  BY EventsAppend
<1>2. AuthEvents' = {AuthKey(r) : r \in Events(auth_lines)'}
  BY DEF AuthEvents
<1> QED
  BY <1>1, <1>2 DEF AuthEvents

LEMMA AuthRepeat ==
    ASSUME TypeOK, AuthInv, NEW rec \in AuthRecords, ReadAuthRepeat(rec)
    PROVE  AuthInv'
<1>1. AuthEvents' = AuthEvents
  BY AuthEventsAppend DEF TypeOK, ReadAuthRepeat, AuthInv, SeenIsLogged
<1>2. Len(auth_lines') = Len(auth_lines) + 1
  BY DEF TypeOK, ReadAuthRepeat
<1>3. attempts' + dup_auth' = Len(auth_lines')
  BY <1>2 DEF TypeOK, ReadAuthRepeat, AuthInv, AuthExact
<1> QED
  BY <1>1, <1>3 DEF ReadAuthRepeat, AuthInv, AuthExact, SeenIsLogged

LEMMA AuthNew ==
    ASSUME TypeOK, AuthInv, NEW rec \in AuthRecords, ReadAuth(rec)
    PROVE  AuthInv'
<1> DEFINE k == AuthKey(rec)
<1>1. seen_auth' = seen_auth \cup {k} /\ k \notin seen_auth
  BY DEF ReadAuth
<1>2. AuthEvents' = seen_auth' /\ AuthEvents = seen_auth
  BY <1>1, AuthEventsAppend DEF TypeOK, ReadAuth, AuthInv, SeenIsLogged
<1>3. IsFiniteSet(seen_auth) /\ IsFiniteSet(seen_auth')
  BY <1>1, FS_AddElement DEF AuthInv, SeenIsLogged
<1>4. attempts' = Cardinality(AuthEvents')
  <2>1. Cardinality(seen_auth') = Cardinality(seen_auth) + 1
    BY <1>1, <1>3, FS_AddElement
  <2> QED
    BY <1>2, <2>1 DEF ReadAuth, AuthInv, AuthExact
<1>5. attempts' + dup_auth' = Len(auth_lines')
  <2>1. Len(auth_lines') = Len(auth_lines) + 1
    BY DEF TypeOK, ReadAuth
  <2>2. attempts' = attempts + 1 /\ dup_auth' = dup_auth
    BY DEF ReadAuth
  <2>3. attempts \in Nat /\ dup_auth \in Nat /\ Len(auth_lines) \in Nat
    BY DEF TypeOK
  <2>4. attempts + dup_auth = Len(auth_lines)
    BY DEF AuthInv, AuthExact
  <2> QED
    BY <2>1, <2>2, <2>3, <2>4
<1>6. ASSUME NEW p \in Passwords
      PROVE  passwords'[p] = Cardinality(KeysWith(AuthEvents', 4, p))
  <2>1. passwords[p] = Cardinality(KeysWith(seen_auth, 4, p))
    BY <1>2 DEF AuthInv, AuthExact
  <2>2. Cardinality(KeysWith(seen_auth', 4, p)) =
          IF rec.password = p THEN passwords[p] + 1 ELSE passwords[p]
    BY <1>1, <1>3, <2>1, KeysWithAdd, AuthRecordFields
  <2>3. passwords'[p] = IF rec.password = p THEN passwords[p] + 1 ELSE passwords[p]
    BY AuthRecordFields DEF TypeOK, ReadAuth, Count, Passwords
  <2> QED
    BY <1>2, <2>2, <2>3
<1>7. ASSUME NEW u \in Users
      PROVE  usernames'[u] = Cardinality(KeysWith(AuthEvents', 3, u))
  <2>1. usernames[u] = Cardinality(KeysWith(seen_auth, 3, u))
    BY <1>2 DEF AuthInv, AuthExact
  <2>2. Cardinality(KeysWith(seen_auth', 3, u)) =
          IF rec.user = u THEN usernames[u] + 1 ELSE usernames[u]
    BY <1>1, <1>3, <2>1, KeysWithAdd, AuthRecordFields
  <2>3. usernames'[u] = IF rec.user = u THEN usernames[u] + 1 ELSE usernames[u]
    BY AuthRecordFields DEF TypeOK, ReadAuth, Count, Users
  <2> QED
    BY <1>2, <2>2, <2>3
<1>8. pairs' = {<<e[3], e[4]>> : e \in AuthEvents'} \ {<<NoText, NoText>>}
  <2>1. pairs = {<<e[3], e[4]>> : e \in seen_auth} \ {<<NoText, NoText>>}
    BY <1>2 DEF AuthInv, AuthExact
  <2>2. {<<e[3], e[4]>> : e \in seen_auth'} =
          {<<e[3], e[4]>> : e \in seen_auth} \cup {<<rec.user, rec.password>>}
    BY <1>1, AuthRecordFields
  <2>3. pairs' = (pairs \cup {<<rec.user, rec.password>>}) \ {<<NoText, NoText>>}
    BY <2>1 DEF ReadAuth
  <2> QED
    BY <1>2, <2>1, <2>2, <2>3
<1>9. ASSUME NEW a \in Addresses
      PROVE  source_ips'[a] = Cardinality(KeysFrom(AuthEvents', a))
  <2> DEFINE Its == rec.remote # NoText /\ strip_port(rec.remote) = a
  <2>1. source_ips[a] = Cardinality(KeysFrom(seen_auth, a))
    BY <1>2 DEF AuthInv, AuthExact
  <2>2. Cardinality(KeysFrom(seen_auth', a)) =
          IF Its THEN source_ips[a] + 1 ELSE source_ips[a]
    BY <1>1, <1>3, <2>1, KeysFromAdd, AuthRecordFields
  <2>3. source_ips \in [Addresses -> Nat]
    BY DEF TypeOK
  <2>4. source_ips'[a] = IF Its THEN source_ips[a] + 1 ELSE source_ips[a]
    BY <2>3, AuthRecordFields DEF ReadAuth, Count
  <2> QED
    BY <1>2, <2>2, <2>4
<1>10. AuthExact'
  BY <1>4, <1>5, <1>6, <1>7, <1>8, <1>9 DEF AuthExact
<1> QED
  BY <1>2, <1>3, <1>10 DEF AuthInv, SeenIsLogged

LEMMA AuthUnchanged ==
    ASSUME AuthInv, UNCHANGED authVars PROVE AuthInv'
BY DEF authVars, AuthInv, AuthExact, SeenIsLogged, AuthEvents

LEMMA AuthInvariant == Spec => []AuthInv
<1>1. Init => AuthInv
  <2> SUFFICES ASSUME Init PROVE AuthInv
    OBVIOUS
  <2>1. AuthEvents = {} /\ Len(auth_lines) = 0
    BY NoEvents DEF Init, AuthEvents
  <2>2. \A field, value : Cardinality(KeysWith(AuthEvents, field, value)) = 0
    BY <2>1, FS_EmptySet DEF KeysWith
  <2>3. Cardinality(AuthEvents) = 0 /\ SeenIsLogged
    BY <2>1, FS_EmptySet DEF Init, SeenIsLogged
  <2>4. /\ \A p \in Passwords : passwords[p] = 0
        /\ \A u \in Users : usernames[u] = 0
        /\ \A a \in Addresses : source_ips[a] = 0
        /\ attempts = 0 /\ dup_auth = 0 /\ pairs = {}
    BY DEF Init
  <2>6. \A a \in Addresses : Cardinality(KeysFrom(AuthEvents, a)) = 0
    BY <2>1, FS_EmptySet DEF KeysFrom
  <2>5. pairs = {<<k[3], k[4]>> : k \in AuthEvents} \ {<<NoText, NoText>>}
    BY <2>1, <2>4
  <2> QED
    BY <2>1, <2>2, <2>3, <2>4, <2>5, <2>6 DEF AuthInv, AuthExact
<1>2. TypeOK /\ AuthInv /\ [Next]_vars => AuthInv'
  <2> SUFFICES ASSUME TypeOK, AuthInv, [Next]_vars PROVE AuthInv'
    OBVIOUS
  <2>1. ASSUME NEW rec \in SessionRecords,
               ReadTorn(rec) \/ ReadCommand(rec) \/ ReadCounted(rec) \/ ReadOther(rec)
        PROVE  UNCHANGED authVars
    BY <2>1 DEF ReadTorn, ReadCommand, ReadCounted, ReadOther, SeeSession, NextSessionLine
  <2>2. ASSUME NEW rec \in ServerRecords, ReadServer(rec) PROVE UNCHANGED authVars
    BY <2>2 DEF ReadServer
  <2>3. CASE AuthEnds \/ SessionEnds \/ WriteStats \/ UNCHANGED vars
    BY <2>3, AuthUnchanged DEF AuthEnds, SessionEnds, WriteStats, vars
  <2> QED
    BY <2>1, <2>2, <2>3, AuthRepeat, AuthNew, AuthUnchanged DEF Next
<1> QED
  BY <1>1, <1>2, TypeCorrect, PTL DEF Spec

(* The totals, the tables of passwords, users and source addresses, the     *)
(* pairs and the number of dropped lines are those of the set of attempts   *)
(* (gen_stats.py:107-131).                                                  *)
THEOREM AuthCounted == Spec => []AuthExact
<1>1. AuthInv => AuthExact
  BY DEF AuthInv
<1> QED
  BY <1>1, AuthInvariant, PTL

(****************************************************************************)
(* session.log.  What the script remembers is, for the counted messages,    *)
(* the set of events, and for the commands those of the listed days; a      *)
(* command of any other day is in the file once.                            *)
(****************************************************************************)
Commands == {q \in Events(session_lines) : IsCommand(q)}
Counted == {q \in Events(session_lines) : IsCounted(q)}

TallyInv ==
    /\ seen_sess = CountedEvents /\ IsFiniteSet(seen_sess)
    /\ \A m \in CountedMsgs : tally[m] = Cardinality(KeysWith(CountedEvents, 3, m))
CommandInv ==
    /\ IsFiniteSet(CommandEvents)
    /\ seen_cmd = {CommandKey(r) : r \in {q \in Commands : q.time \in DIRTY_DATES}}
    /\ commands = Cardinality(CommandEvents)
SessionInv == RepeatedTimes \subseteq DIRTY_DATES => TallyInv /\ CommandInv

LEMMA NoMoreCounted ==
    ASSUME Counted' = Counted, seen_sess' = seen_sess, tally' = tally, TallyInv
    PROVE  TallyInv'
BY DEF TallyInv, CountedEvents, Counted

LEMMA NoMoreCommands ==
    ASSUME Commands' = Commands, seen_cmd' = seen_cmd, commands' = commands, CommandInv
    PROVE  CommandInv'
BY DEF CommandInv, CommandEvents, Commands

LEMMA LineSorted ==
    ASSUME TypeOK, NEW rec \in SessionRecords, NextSessionLine(rec)
    PROVE  /\ Commands' = IF IsCommand(rec) THEN Commands \cup {rec} ELSE Commands
           /\ Counted' = IF IsCounted(rec) THEN Counted \cup {rec} ELSE Counted
<1>1. Events(session_lines)' = Events(session_lines) \cup {rec}
  BY EventsAppend DEF TypeOK, NextSessionLine
<1> QED
  BY <1>1 DEF Commands, Counted

LEMMA CommandNew ==
    ASSUME TypeOK, NEW rec \in SessionRecords, IsCommand(rec), NextSessionLine(rec),
           CommandInv, CommandKey(rec) \notin CommandEvents,
           commands' = commands + 1,
           seen_cmd' = IF rec.time \in DIRTY_DATES THEN seen_cmd \cup {CommandKey(rec)}
                       ELSE seen_cmd
    PROVE  CommandInv'
<1>1. Commands' = Commands \cup {rec}
  BY LineSorted
<1>2. CommandEvents' = CommandEvents \cup {CommandKey(rec)}
  BY <1>1 DEF CommandEvents, Commands
<1>3. IsFiniteSet(CommandEvents') /\ commands' = Cardinality(CommandEvents')
  BY <1>2, FS_AddElement DEF CommandInv
<1>4. seen_cmd' = {CommandKey(r) : r \in {q \in Commands' : q.time \in DIRTY_DATES}}
  BY <1>1 DEF CommandInv
<1> QED
  BY <1>3, <1>4 DEF CommandInv

(* A command is counted unless it is remembered, and it is not remembered   *)
(* only if it is new.                                                       *)
LEMMA CommandRead ==
    ASSUME TypeOK, SessionInv, NEW rec \in SessionRecords, ReadCommand(rec)
    PROVE  SessionInv'
<1> SUFFICES ASSUME RepeatedTimes \subseteq DIRTY_DATES PROVE TallyInv' /\ CommandInv'
  BY DEF SessionInv
<1>1. IsCommand(rec) /\ ~IsCounted(rec) /\ NextSessionLine(rec)
  BY DEF ReadCommand, SeeSession, IsCounted
<1>2. TallyInv /\ CommandInv
  BY DEF SessionInv
<1>3. Commands' = Commands \cup {rec} /\ Counted' = Counted
  BY <1>1, LineSorted
<1>4. TallyInv'
  BY <1>2, <1>3, NoMoreCounted DEF ReadCommand
<1>5. CommandEvents = {CommandKey(r) : r \in Commands}
  BY DEF CommandEvents, Commands
<1>6. CASE rec.time \in DIRTY_DATES /\ CommandKey(rec) \in seen_cmd
  <2>1. CommandKey(rec) \in {CommandKey(r) : r \in {q \in Commands : q.time \in DIRTY_DATES}}
    BY <1>2, <1>6 DEF CommandInv
  <2>2. CommandEvents' = CommandEvents
    BY <1>3, <2>1 DEF CommandEvents, Commands
  <2>3. {CommandKey(r) : r \in {q \in Commands' : q.time \in DIRTY_DATES}} =
          {CommandKey(r) : r \in {q \in Commands : q.time \in DIRTY_DATES}}
    BY <1>3, <2>1
  <2> QED
    BY <1>2, <1>4, <1>6, <2>2, <2>3 DEF ReadCommand, CommandInv
<1>7. CASE rec.time \in DIRTY_DATES /\ CommandKey(rec) \notin seen_cmd
  <2>1. CommandKey(rec) \notin CommandEvents
    <3> SUFFICES ASSUME NEW r \in Commands, CommandKey(r) = CommandKey(rec) PROVE FALSE
      BY <1>5
    <3>1. r.time \in DIRTY_DATES
      BY <1>7 DEF CommandKey
    <3> QED
      BY <1>2, <1>7, <3>1 DEF CommandInv
  <2> QED
    BY <1>1, <1>2, <1>4, <1>7, <2>1, CommandNew DEF ReadCommand
<1>8. CASE rec.time \notin DIRTY_DATES
  <2>1. CommandKey(rec) \notin CommandEvents
    <3> SUFFICES ASSUME NEW r \in Commands, CommandKey(r) = CommandKey(rec) PROVE FALSE
      BY <1>5
    <3>1. r \in SessionRecords /\ IsCommand(r) /\ r \in Events(session_lines)
      BY EventsTyped DEF Commands, TypeOK
    <3>2. r = rec
      BY <1>1, <1>8, <3>1, CommandKeyAssumption DEF CommandKey
    <3>3. InFile(session_lines, rec)
      BY <3>1, <3>2 DEF Events, InFile
    <3> QED
      BY <1>1, <1>8, <3>3 DEF NextSessionLine
  <2> QED
    BY <1>1, <1>2, <1>4, <1>8, <2>1, CommandNew DEF ReadCommand
<1> QED
  BY <1>6, <1>7, <1>8

LEMMA CountedRead ==
    ASSUME TypeOK, SessionInv, NEW rec \in SessionRecords, ReadCounted(rec)
    PROVE  SessionInv'
<1> SUFFICES ASSUME RepeatedTimes \subseteq DIRTY_DATES PROVE TallyInv' /\ CommandInv'
  BY DEF SessionInv
<1>1. ~IsCommand(rec) /\ IsCounted(rec) /\ NextSessionLine(rec)
  BY DEF ReadCounted, SeeSession, IsCounted
<1>2. TallyInv /\ CommandInv
  BY DEF SessionInv
<1>3. Commands' = Commands /\ Counted' = Counted \cup {rec}
  BY <1>1, LineSorted
<1>4. CommandInv'
  BY <1>2, <1>3, NoMoreCommands DEF ReadCounted
<1> DEFINE k == EventKey(rec)
<1>5. CountedEvents' = CountedEvents \cup {k}
  BY <1>3 DEF CountedEvents, Counted
<1>6. seen_sess = CountedEvents /\ IsFiniteSet(seen_sess)
  BY <1>2 DEF TallyInv
<1>7. CASE k \in seen_sess
  <2>1. seen_sess' = seen_sess /\ tally' = tally
    BY <1>7 DEF ReadCounted
  <2> QED
    BY <1>2, <1>4, <1>5, <1>6, <1>7, <2>1 DEF TallyInv
<1>8. CASE k \notin seen_sess
  <2>1. seen_sess' = seen_sess \cup {k} /\ tally' = Count(tally, rec.msg)
    BY <1>8 DEF ReadCounted
  <2>2. IsFiniteSet(seen_sess') /\ seen_sess' = CountedEvents'
    BY <1>5, <1>6, <2>1, FS_AddElement
  <2>3. ASSUME NEW m \in CountedMsgs
        PROVE  tally'[m] = Cardinality(KeysWith(CountedEvents', 3, m))
    <3>1. tally[m] = Cardinality(KeysWith(seen_sess, 3, m))
      BY <1>2, <1>6 DEF TallyInv
    <3>2. Cardinality(KeysWith(seen_sess', 3, m)) =
            IF rec.msg = m THEN tally[m] + 1 ELSE tally[m]
      BY <1>6, <1>8, <2>1, <3>1, KeysWithAdd DEF EventKey
    <3>3. tally'[m] = IF rec.msg = m THEN tally[m] + 1 ELSE tally[m]
      BY <2>1 DEF TypeOK, Count
    <3> QED
      BY <2>2, <3>2, <3>3
  <2> QED
    BY <1>4, <2>2, <2>3 DEF TallyInv
<1> QED
  BY <1>7, <1>8

LEMMA SessionSame ==
    ASSUME SessionInv, Commands' = Commands, Counted' = Counted,
           UNCHANGED <<seen_cmd, commands, seen_sess, tally>>
    PROVE  SessionInv'
BY NoMoreCounted, NoMoreCommands DEF SessionInv

LEMMA OtherRead ==
    ASSUME TypeOK, SessionInv, NEW rec \in SessionRecords, ReadTorn(rec) \/ ReadOther(rec)
    PROVE  SessionInv'
<1>1. NextSessionLine(rec) /\ ~IsCommand(rec) /\ ~IsCounted(rec)
  BY DEF ReadTorn, ReadOther, SeeSession, IsCommand, IsCounted
<1>2. Commands' = Commands /\ Counted' = Counted
  BY <1>1, LineSorted
<1>3. UNCHANGED <<seen_cmd, commands, seen_sess, tally>>
  BY DEF ReadTorn, ReadOther
<1> QED
  BY <1>2, <1>3, SessionSame

(* The command total and the tallies are those of the set of events as long *)
(* as the merge repeated blocks of the listed days only                     *)
(* (gen_stats.py:176-214).                                                  *)
THEOREM SessionCounted == Spec => []SessionExact
<1>1. Init => SessionInv
  <2> SUFFICES ASSUME Init PROVE SessionInv
    OBVIOUS
  <2>1. Commands = {} /\ CommandEvents = {} /\ CountedEvents = {}
    BY NoEvents DEF Init, Commands, CommandEvents, CountedEvents
  <2>2. \A field, value : Cardinality(KeysWith(CountedEvents, field, value)) = 0
    BY <2>1, FS_EmptySet DEF KeysWith
  <2>3. \A m \in CountedMsgs : tally[m] = 0
    BY DEF Init
  <2>4. TallyInv
    BY <2>1, <2>2, <2>3, FS_EmptySet DEF Init, TallyInv
  <2>5. CommandInv
    BY <2>1, FS_EmptySet DEF Init, CommandInv
  <2> QED
    BY <2>4, <2>5 DEF SessionInv
<1>2. TypeOK /\ SessionInv /\ [Next]_vars => SessionInv'
  <2> SUFFICES ASSUME TypeOK, SessionInv, [Next]_vars PROVE SessionInv'
    OBVIOUS
  <2>1. ASSUME NEW rec \in AuthRecords, ReadAuth(rec) \/ ReadAuthRepeat(rec)
        PROVE  UNCHANGED sessionVars
    BY <2>1 DEF ReadAuth, ReadAuthRepeat
  <2>2. ASSUME NEW rec \in ServerRecords, ReadServer(rec) PROVE UNCHANGED sessionVars
    BY <2>2 DEF ReadServer
  <2>3. AuthEnds \/ SessionEnds \/ WriteStats \/ UNCHANGED vars => UNCHANGED sessionVars
    BY DEF AuthEnds, SessionEnds, WriteStats, vars
  <2>4. UNCHANGED sessionVars => SessionInv'
    BY SessionSame DEF sessionVars, Commands, Counted
  <2> QED
    BY <2>1, <2>2, <2>3, <2>4, CommandRead, CountedRead, OtherRead DEF Next
<1>3. SessionInv => SessionExact
  BY DEF SessionInv, TallyInv, CommandInv, SessionExact
<1> QED
  BY <1>1, <1>2, <1>3, TypeCorrect, PTL DEF Spec

(****************************************************************************)
(* The span.  Text order and time order differ within one second only.      *)
(****************************************************************************)
LEMMA DivMod ==
    ASSUME NEW t \in Nat
    PROVE  /\ Second(t) \in Int
           /\ t % TicksPerSecond \in 0..(TicksPerSecond - 1)
           /\ t = TicksPerSecond * Second(t) + (t % TicksPerSecond)
BY TicksAssumption DEF Second

LEMMA TimesStep ==
    ASSUME NEW T \in Nat \ {0}, NEW x \in Int, NEW y \in Int, T * x < T * y + T
    PROVE  x <= y
<1> SUFFICES ASSUME x >= y + 1 PROVE FALSE
  OBVIOUS
<1>1. T * (x - (y + 1)) >= 0
  OBVIOUS
<1>2. T * (x - (y + 1)) = T * x - (T * y + T)
  OBVIOUS
<1>3. T * x \in Int /\ T * y \in Int
  OBVIOUS
<1> QED
  BY <1>1, <1>2, <1>3

(* The least of some naturals, and the greatest of finitely many.           *)
LEMMA SomeLeast ==
    ASSUME NEW X \in SUBSET Nat, X # {}
    PROVE  \E x \in X : \A y \in X : x <= y
<1>1. PICK x \in X : \A y \in X : <<y, x>> \notin OpToRel(<, Nat)
    BY NatLessThanWellFounded, WFMin
<1>2. ASSUME NEW y \in X, ~(x <= y) PROVE FALSE
    <2>1. x \in Nat /\ y \in Nat /\ y < x
        BY <1>2
    <2>2. <<y, x>> \in OpToRel(<, Nat)
        BY <2>1 DEF OpToRel
    <2> QED
        BY <1>1, <2>2
<1> QED
    BY <1>2

LEMMA LeastNat ==
    ASSUME NEW X \in SUBSET Nat, X # {}
    PROVE  Min(X) \in X /\ \A x \in X : Min(X) <= x
BY SomeLeast DEF Min

LEMMA GreatestNat ==
    ASSUME NEW X \in SUBSET Nat, X # {}, NEW m \in Nat, \A x \in X : x <= m
    PROVE  Max(X) \in X /\ \A x \in X : x <= Max(X)
<1> DEFINE Y == {m - x : x \in X}
<1>1. \A x \in X : x \in Nat /\ m - x \in Nat
    OBVIOUS
<1>2. Y \in SUBSET Nat /\ Y # {}
    BY <1>1
<1>3. PICK y \in Y : \A z \in Y : y <= z
    <2> HIDE DEF Y
    <2> QED
        BY <1>2, SomeLeast
<1>4. PICK x \in X : y = m - x
    BY <1>3
<1>5. \A z \in X : z <= x
    <2> SUFFICES ASSUME NEW z \in X PROVE z <= x
        OBVIOUS
    <2>1. m - x <= m - z /\ x \in Nat /\ z \in Nat
        BY <1>1, <1>3, <1>4
    <2> QED
        BY <2>1
<1> QED
    BY <1>5 DEF Max

(* The last digit of a time stands at one of the places.                    *)
LEMMA LastPlaceIs ==
    ASSUME NEW t \in Nat
    PROVE  LastPlace(t) \in Places /\ t % LastPlace(t) = 0
<1> DEFINE X == {u \in Places : t % u = 0}
<1>1. X \in SUBSET Nat /\ \A u \in X : u <= TicksPerSecond
  <2>1. \A u \in X : u \in 1..TicksPerSecond
    BY TicksAssumption
  <2>2. \A u \in 1..TicksPerSecond : u \in Nat /\ u <= TicksPerSecond
    BY TicksAssumption
  <2> HIDE DEF X
  <2> QED
    BY <2>1, <2>2
<1>2. t % 1 = 0
  OBVIOUS
<1>3. 1 \in X
  BY <1>2, TicksAssumption
<1>4. Max(X) \in X /\ \A u \in X : u <= Max(X)
  <2> HIDE DEF X
  <2> QED
    BY <1>1, <1>3, GreatestNat, TicksAssumption
<1>5. /\ Max(X) \in Places /\ t % Max(X) = 0
      /\ \A v \in Places : t % v = 0 => v <= Max(X)
  BY <1>4
<1> QED
  BY <1>5 DEF LastPlace

(* What divides a time and a second fits in after the time.                 *)
LEMMA FitsIn ==
    ASSUME NEW u \in Nat \ {0}, NEW T \in Nat \ {0}, NEW t \in Nat,
           t % u = 0, T % u = 0
    PROVE  (t % T) + u <= T
<1> DEFINE a == t \div u
           b == T \div u
           q == t \div T
           c == a - b * q
<1>1. a \in Int /\ b \in Int /\ q \in Int /\ t = u * a /\ T = u * b /\ t = T * q + (t % T)
  OBVIOUS
<1>2. (t % T) \in Int /\ (t % T) < T
  OBVIOUS
<1> HIDE DEF a, b, q
<1>3. b * q \in Int /\ c \in Int
  BY <1>1
<1>4. (u * b) * q = u * (b * q)
  BY <1>1
<1>5. t % T = u * a - u * (b * q)
  BY <1>1, <1>2, <1>3, <1>4
<1>6. u * c = u * a - u * (b * q)
  BY <1>1, <1>3
<1> HIDE DEF c
<1>7. u * (c + 1) = u * c + u
  BY <1>3
<1>8. u * c \in Int /\ u * b \in Int
  BY <1>1, <1>3
<1>9. u * (c + 1) < u * b + u
  BY <1>1, <1>2, <1>5, <1>6, <1>7, <1>8
<1>10. c + 1 <= b
  BY <1>1, <1>3, <1>9, TimesStep
<1>11. u * (b - (c + 1)) >= 0
  BY <1>1, <1>3, <1>10
<1>12. u * (b - (c + 1)) = u * b - u * (c + 1)
  BY <1>1, <1>3
<1>13. u * c + u <= u * b
  BY <1>7, <1>8, <1>11, <1>12
<1> QED
  BY <1>1, <1>5, <1>6, <1>13

(* The text of a time stands before one that is not after the end of the    *)
(* second the time lies in.                                                 *)
LEMMA RankInSecond ==
    ASSUME NEW t \in Nat
    PROVE  /\ TextRank(t) \in Nat /\ TicksPerSecond * Second(t) \in Int
           /\ LastPlace(t) \in 1..TicksPerSecond
           /\ TicksPerSecond * Second(t) < t + LastPlace(t)
           /\ t + LastPlace(t) <= TicksPerSecond * Second(t) + TicksPerSecond
<1> DEFINE start == TicksPerSecond * Second(t)
           rest == t % TicksPerSecond
           u == LastPlace(t)
<1>1. start \in Int
  BY DivMod, TicksAssumption
<1>2. /\ rest \in Nat /\ rest < TicksPerSecond /\ t = start + rest
      /\ TicksPerSecond \in Nat \ {0}
  BY <1>1, DivMod, TicksAssumption
<1>3. u \in Places /\ u \in 1..TicksPerSecond /\ t % u = 0
  BY LastPlaceIs, TicksAssumption
<1>4. TicksPerSecond % u = 0
  BY <1>3, TicksAssumption
<1>5. rest + u <= TicksPerSecond
  BY <1>2, <1>3, <1>4, FitsIn
<1>6. TextRank(t) = (t + u) * (TicksPerSecond + 1) + u
  BY DEF TextRank
<1> HIDE DEF start, rest, u
<1>7. t + u \in Nat /\ TicksPerSecond + 1 \in Nat /\ u \in Nat
  BY <1>2, <1>3
<1>8. TextRank(t) \in Nat
  BY <1>6, <1>7
<1>9. start < t + u /\ t + u <= start + TicksPerSecond
  BY <1>1, <1>2, <1>3, <1>5
<1> QED
  BY <1>1, <1>3, <1>8, <1>9 DEF start, u

LEMMA RankOrder ==
    ASSUME NEW a \in Nat, NEW b \in Nat, ~TextBefore(b, a)
    PROVE  Second(a) <= Second(b)
<1> DEFINE T == TicksPerSecond + 1
           u == LastPlace(a)
           v == LastPlace(b)
           x == a + u
           y == b + v
<1>1. TextRank(a) <= TextRank(b)
  BY RankInSecond DEF TextBefore
<1>2. TextRank(a) = x * T + u /\ TextRank(b) = y * T + v
  BY DEF TextRank
<1>3. u \in 1..TicksPerSecond /\ v \in 1..TicksPerSecond /\ TicksPerSecond \in Nat \ {0}
  BY RankInSecond, TicksAssumption
<1>4. /\ T \in Nat \ {0} /\ x \in Int /\ y \in Int
      /\ u \in Int /\ v \in Int /\ u > 0 /\ v < T
  BY <1>3
<1> HIDE DEF T, x, y, u, v
<1>5. x * T = T * x /\ y * T = T * y /\ T * x \in Int /\ T * y \in Int
  BY <1>4
<1>6. T * x < T * y + T
  BY <1>1, <1>2, <1>4, <1>5
<1>7. x <= y
  BY <1>4, <1>6, TimesStep
<1>8. TicksPerSecond * Second(a) < x /\ y <= TicksPerSecond * Second(b) + TicksPerSecond
  BY RankInSecond DEF x, y, u, v
<1>9. TicksPerSecond * Second(a) < TicksPerSecond * Second(b) + TicksPerSecond
  BY <1>3, <1>4, <1>7, <1>8, RankInSecond
<1> QED
  BY <1>3, <1>9, DivMod, TimesStep

Seen == Events(auth_lines) \cup {q \in Events(session_lines) : ~q.torn}
Spanned(t) ==
    /\ ts_min \in Nat /\ ts_max \in Nat
    /\ ~TextBefore(t, ts_min) /\ ~TextBefore(ts_max, t)
SpanInv ==
    /\ ts_min \in Nat \cup {NoText} /\ ts_max \in Nat \cup {NoText}
    /\ \A r \in Seen : r.time # NoText => Spanned(r.time)

(* see_ts keeps the times it has seen within the span, and adds one.        *)
LEMMA SeeTsSpans ==
    ASSUME SpanInv, NEW t \in Nat \cup {NoText}, SeeTs(t)
    PROVE  /\ ts_min' \in Nat \cup {NoText} /\ ts_max' \in Nat \cup {NoText}
           /\ t # NoText => Spanned(t)'
           /\ \A s \in Nat : Spanned(s) => Spanned(s)'
<1>1. CASE t = NoText
  BY <1>1 DEF SeeTs, spanVars, SpanInv, Spanned
<1>2. CASE t # NoText
  <2>1. t \in Nat
    BY <1>2
  <2>2. \A s \in Nat : TextRank(s) \in Nat
    BY RankInSecond
  <2>3. /\ ts_min' \in Nat
        /\ TextRank(ts_min') <= TextRank(t)
        /\ ts_min \in Nat => TextRank(ts_min') <= TextRank(ts_min)
    BY <1>2, <2>1, <2>2, TimesAssumption DEF SeeTs, SpanInv, TextBefore
  <2>4. /\ ts_max' \in Nat
        /\ TextRank(t) <= TextRank(ts_max')
        /\ ts_max \in Nat => TextRank(ts_max) <= TextRank(ts_max')
    BY <1>2, <2>1, <2>2, TimesAssumption DEF SeeTs, SpanInv, TextBefore
  <2>5. Spanned(t)'
    BY <2>1, <2>2, <2>3, <2>4 DEF Spanned, TextBefore
  <2>6. ASSUME NEW s \in Nat, Spanned(s) PROVE Spanned(s)'
    <3>1. /\ ts_min \in Nat /\ ts_max \in Nat
          /\ TextRank(ts_min) <= TextRank(s) /\ TextRank(s) <= TextRank(ts_max)
      BY <2>2, <2>6 DEF Spanned, TextBefore
    <3> QED
      BY <2>2, <2>3, <2>4, <3>1 DEF Spanned, TextBefore
  <2> QED
    BY <2>3, <2>4, <2>5, <2>6
<1> QED
  BY <1>1, <1>2

LEMMA SeenTimes ==
    ASSUME TypeOK PROVE \A r \in Seen : r.time \in Nat \cup {NoText}
<1>1. Seen \subseteq AuthRecords \cup SessionRecords
  BY EventsTyped DEF Seen, TypeOK
<1> QED
  BY <1>1, TimesAssumption

LEMMA SpanExtended ==
    ASSUME TypeOK, SpanInv, NEW rec, rec.time \in Nat \cup {NoText}, SeeTs(rec.time),
           Seen' \subseteq Seen \cup {rec}
    PROVE  SpanInv'
<1>1. ASSUME NEW r \in Seen', r.time # NoText PROVE Spanned(r.time)'
  <2>1. CASE r = rec
    BY <1>1, <2>1, SeeTsSpans
  <2>2. CASE r \in Seen
    BY <1>1, <2>2, SeeTsSpans, SeenTimes DEF SpanInv
  <2> QED
    BY <2>1, <2>2
<1> QED
  BY <1>1, SeeTsSpans DEF SpanInv

LEMMA SpanKept ==
    ASSUME SpanInv, UNCHANGED spanVars, Seen' = Seen PROVE SpanInv'
BY DEF SpanInv, Spanned, spanVars

(* The span printed covers every event of auth.log and session.log to the   *)
(* second (gen_stats.py:136-144).                                           *)
THEOREM SpanCovers == Spec => []SpanToTheSecond
<1>1. Init => SpanInv
  BY NoEvents DEF Init, SpanInv, Seen
<1>2. TypeOK /\ AuthInv /\ SpanInv /\ [Next]_vars => SpanInv'
  <2> SUFFICES ASSUME TypeOK, AuthInv, SpanInv, [Next]_vars PROVE SpanInv'
    OBVIOUS
  <2>1. ASSUME NEW rec \in AuthRecords, ReadAuth(rec) PROVE SpanInv'
    <3>1. Events(auth_lines)' = Events(auth_lines) \cup {rec}
      BY <2>1, EventsAppend DEF ReadAuth, TypeOK
    <3>2. Seen' = Seen \cup {rec}
      BY <2>1, <3>1 DEF ReadAuth, sessionVars, Seen
    <3>3. SeeTs(rec.time) /\ rec.time \in Nat \cup {NoText}
      BY <2>1, TimesAssumption DEF ReadAuth
    <3> QED
      BY <3>2, <3>3, SpanExtended
  <2>2. ASSUME NEW rec \in AuthRecords, ReadAuthRepeat(rec) PROVE SpanInv'
    <3>1. Events(auth_lines)' = Events(auth_lines) \cup {rec}
      BY <2>2, EventsAppend DEF ReadAuthRepeat, TypeOK
    <3>2. Seen' = Seen \cup {rec}
      BY <2>2, <3>1 DEF ReadAuthRepeat, sessionVars, Seen
    <3>3. PICK r \in Events(auth_lines) : AuthKey(r) = AuthKey(rec)
      BY <2>2 DEF ReadAuthRepeat, AuthInv, SeenIsLogged, AuthEvents
    <3>4. r \in Seen /\ r.time = rec.time
      BY <3>3 DEF Seen, AuthKey
    <3>5. UNCHANGED spanVars
      BY <2>2 DEF ReadAuthRepeat
    <3> QED
      BY <3>2, <3>4, <3>5 DEF SpanInv, Spanned, spanVars
  <2>3. ASSUME NEW rec \in SessionRecords, NextSessionLine(rec)
        PROVE  Seen' = IF rec.torn THEN Seen ELSE Seen \cup {rec}
    <3>1. Events(session_lines)' = Events(session_lines) \cup {rec}
      BY <2>3, EventsAppend DEF NextSessionLine, TypeOK
    <3>2. auth_lines' = auth_lines
      BY <2>3 DEF NextSessionLine, authVars
    <3> QED
      BY <3>1, <3>2 DEF Seen
  <2>4. ASSUME NEW rec \in SessionRecords, ReadTorn(rec) PROVE SpanInv'
    BY <2>3, <2>4, SpanKept DEF ReadTorn
  <2>5. ASSUME NEW rec \in SessionRecords,
               ReadCommand(rec) \/ ReadCounted(rec) \/ ReadOther(rec)
        PROVE  SpanInv'
    <3>1. NextSessionLine(rec) /\ ~rec.torn /\ SeeTs(rec.time)
      BY <2>5 DEF ReadCommand, ReadCounted, ReadOther, SeeSession
    <3> QED
      BY <2>3, <3>1, SpanExtended, TimesAssumption
  <2>6. ASSUME NEW rec \in ServerRecords, ReadServer(rec) PROVE SpanInv'
    <3>1. Seen' = Seen /\ SeeTs(rec.time)
      BY <2>6 DEF ReadServer, authVars, sessionVars, Seen
    <3> QED
      BY <3>1, SpanExtended, TimesAssumption
  <2>7. CASE AuthEnds \/ SessionEnds \/ WriteStats \/ UNCHANGED vars
    BY <2>7, SpanKept DEF AuthEnds, SessionEnds, WriteStats, vars, authVars, sessionVars, Seen
  <2> QED
    BY <2>1, <2>2, <2>4, <2>5, <2>6, <2>7 DEF Next
<1>3. TypeOK /\ SpanInv => SpanToTheSecond
  <2> SUFFICES ASSUME TypeOK, SpanInv, NEW r \in Seen, r.time # NoText
               PROVE  Second(ts_min) <= Second(r.time) /\ Second(r.time) <= Second(ts_max)
    BY DEF SpanToTheSecond, Seen
  <2>1. r.time \in Nat /\ Spanned(r.time)
    BY SeenTimes DEF SpanInv
  <2> QED
    BY <2>1, RankOrder DEF Spanned
<1> QED
  BY <1>1, <1>2, <1>3, TypeCorrect, AuthInvariant, PTL DEF Spec

----------------------------------------------------------------------------
(* Ranks: up[i] is what comes no later than i in a linear order of S.       *)
LEMMA RanksExist ==
    ASSUME NEW S, IsFiniteSet(S), NEW up,
           \A i \in S : i \in up[i] /\ up[i] \subseteq S,
           \A i, k \in S : i = k \/ (up[i] \subseteq up[k] /\ k \notin up[i])
                                 \/ (up[k] \subseteq up[i] /\ i \notin up[k])
    PROVE  /\ \A i \in S : Cardinality(up[i]) \in 1..Cardinality(S)
           /\ \A i, k \in S : Cardinality(up[i]) = Cardinality(up[k]) => i = k
           /\ \A n \in 1..Cardinality(S) : \E i \in S : Cardinality(up[i]) = n
<1> DEFINE c == Cardinality(S)
           f == [i \in S |-> Cardinality(up[i])]
<1>1. ASSUME NEW i \in S PROVE IsFiniteSet(up[i]) /\ Cardinality(up[i]) \in 1..c
    <2>1. IsFiniteSet(up[i]) /\ Cardinality(up[i]) <= c
        BY FS_Subset
    <2>2. Cardinality(up[i]) \in Nat /\ c \in Nat /\ Cardinality(up[i]) # 0
        BY <2>1, FS_CardinalityType, FS_EmptySet
    <2> QED
        BY <2>1, <2>2
<1>2. ASSUME NEW i \in S, NEW k \in S, up[i] \subseteq up[k], k \notin up[i]
      PROVE  Cardinality(up[i]) # Cardinality(up[k])
    <2>1. up[i] # up[k]
        BY <1>2
    <2> QED
        BY <1>1, <1>2, <2>1, FS_Subset
<1>3. \A i, k \in S : Cardinality(up[i]) = Cardinality(up[k]) => i = k
    BY <1>2
<1>4. f \in [S -> 1..c] /\ \A i, k \in S : f[i] = f[k] => i = k
    BY <1>1, <1>3
<1>5. f \in Injection(S, 1..c)
    <2> HIDE DEF f
    <2> QED
        BY <1>4 DEF Injection, IsInjective
<1>6. c \in Nat /\ IsFiniteSet(1..c) /\ Cardinality(1..c) = c
    BY FS_CardinalityType, FS_Interval
<1>7. f \in Surjection(S, 1..c)
    <2> HIDE DEF f
    <2> QED
        BY <1>5, <1>6, FS_Injection, FS_Surjection DEF Bijection
<1>8. \A n \in 1..c : \E i \in S : f[i] = n
    <2> HIDE DEF f
    <2> QED
        BY <1>7 DEF Surjection
<1> QED
    BY <1>1, <1>3, <1>8

(* The part of a sequence at some positions: At counts through them.        *)
LEMMA AtBijection ==
    ASSUME NEW S, IsFiniteSet(S), S \subseteq Nat
    PROVE  [n \in 1..Cardinality(S) |-> At(S, n)] \in Bijection(1..Cardinality(S), S)
<1> DEFINE up == [i \in S |-> {j \in S : j <= i}]
           c == Cardinality(S)
           f == [n \in 1..c |-> At(S, n)]
<1>1. /\ \A i \in S : i \in up[i] /\ up[i] \subseteq S
      /\ \A i, k \in S : i = k \/ (up[i] \subseteq up[k] /\ k \notin up[i])
                               \/ (up[k] \subseteq up[i] /\ i \notin up[k])
    <2>1. ASSUME NEW i \in S, NEW k \in S, i < k
          PROVE  up[i] \subseteq up[k] /\ k \notin up[i]
        <3>1. i \in Nat /\ k \in Nat /\ \A j \in S : j \in Nat
            OBVIOUS
        <3>2. ~(k <= i) /\ \A j \in S : j <= i => j <= k
            BY <2>1, <3>1
        <3> QED
            BY <3>2
    <2>2. \A i, k \in S : i = k \/ i < k \/ k < i
        OBVIOUS
    <2>3. \A i \in S : i \in up[i] /\ up[i] \subseteq S
        OBVIOUS
    <2> HIDE DEF up
    <2> QED
        BY <2>1, <2>2, <2>3
<1>2. /\ \A i \in S : Cardinality(up[i]) \in 1..c
      /\ \A i, k \in S : Cardinality(up[i]) = Cardinality(up[k]) => i = k
      /\ \A n \in 1..c : \E i \in S : Cardinality(up[i]) = n
    <2> HIDE DEF up
    <2> QED
        BY <1>1, RanksExist
<1>3. \A i \in S : Rank(S, i) = Cardinality(up[i])
    BY DEF Rank
<1> HIDE DEF up
<1>4. \A n \in 1..c : f[n] \in S /\ Rank(S, f[n]) = n
    BY <1>2, <1>3 DEF At
<1>5. ASSUME NEW i \in S PROVE \E n \in 1..c : f[n] = i
    <2> DEFINE n == Cardinality(up[i])
    <2> HIDE DEF f
    <2>1. n \in 1..c /\ f[n] \in S /\ Rank(S, f[n]) = n
        BY <1>2, <1>4
    <2>2. f[n] = i
        BY <1>2, <1>3, <2>1
    <2> QED
        BY <2>1, <2>2
<1>6. f \in [1..c -> S] /\ \A n, m \in 1..c : f[n] = f[m] => n = m
    BY <1>4
<1>7. f \in Bijection(1..c, S)
    <2> HIDE DEF f, c
    <2> QED
        BY <1>5, <1>6 DEF Bijection, Injection, Surjection, IsInjective
<1> QED
    BY <1>7

(* p holds what s has at the positions A, each of them once.                *)
Reads(p, s, A) ==
    \E b \in Bijection(DOMAIN p, A) : \A n \in DOMAIN p : p[n] = s[b[n]]

(* Both hold the same values.                                               *)
LEMMA ReadsValues ==
    ASSUME NEW p, NEW s, NEW A, Reads(p, s, A)
    PROVE  /\ \A n \in DOMAIN p : \E i \in A : p[n] = s[i]
           /\ \A i \in A : \E n \in DOMAIN p : p[n] = s[i]
<1>1. PICK b \in Bijection(DOMAIN p, A) : \A n \in DOMAIN p : p[n] = s[b[n]]
    BY DEF Reads
<1>2. (\A n \in DOMAIN p : b[n] \in A) /\ \A i \in A : \E n \in DOMAIN p : b[n] = i
    BY DEF Bijection, Surjection
<1> QED
    BY <1>1, <1>2

(* A function on 1..n is a sequence of length n.                            *)
LEMMA LenOf ==
    ASSUME NEW f, NEW n \in Nat, DOMAIN f = 1..n, NEW V, \A i \in 1..n : f[i] \in V,
           f = [i \in 1..n |-> f[i]]
    PROVE  f \in Seq(V) /\ Len(f) = n
<1>1. f \in [1..n -> V]
    OBVIOUS
<1> QED
    BY <1>1

(* Pick holds what is at the positions.                                     *)
LEMMA PickReads ==
    ASSUME NEW s, NEW A, IsFiniteSet(A), A \subseteq Nat
    PROVE  /\ DOMAIN Pick(s, A) = 1..Cardinality(A)
           /\ Len(Pick(s, A)) = Cardinality(A)
           /\ Reads(Pick(s, A), s, A)
           /\ {Pick(s, A)[n] : n \in 1..Cardinality(A)} = {s[i] : i \in A}
<1> DEFINE b == [n \in 1..Cardinality(A) |-> At(A, n)]
<1>1. b \in Bijection(1..Cardinality(A), A)
    BY AtBijection
<1>2. Cardinality(A) \in Nat
    BY FS_CardinalityType
<1>3. DOMAIN Pick(s, A) = 1..Cardinality(A) /\ \A n \in 1..Cardinality(A) : Pick(s, A)[n] = s[b[n]]
    BY DEF Pick
<1>4. Pick(s, A) = [n \in 1..Cardinality(A) |-> Pick(s, A)[n]]
    BY DEF Pick
<1>5. Len(Pick(s, A)) = Cardinality(A)
    <2> DEFINE V == {Pick(s, A)[n] : n \in 1..Cardinality(A)}
    <2> QED
        BY <1>2, <1>3, <1>4, LenOf
<1> HIDE DEF b
<1>6. Reads(Pick(s, A), s, A)
    BY <1>1, <1>3 DEF Reads
<1> DEFINE q == Pick(s, A)
           S == A
<1>7. {q[n] : n \in DOMAIN q} = {s[i] : i \in S}
    <2>1. Reads(q, s, S)
        BY <1>6
    <2> HIDE DEF q, S
    <2>2. (\A n \in DOMAIN q : \E i \in S : q[n] = s[i]) /\ \A i \in S : \E n \in DOMAIN q : q[n] = s[i]
        BY <2>1, ReadsValues
    <2> QED
        BY <2>2
<1> QED
    BY <1>3, <1>5, <1>6, <1>7

(* q is s from the smallest key to the greatest.                            *)
Ordered(q, s, key, n) ==
    \E b \in Bijection(1..n, 1..n) :
        /\ \A m \in 1..n : q[m] = s[b[m]]
        /\ \A i, j \in 1..n : i <= j => key[b[i]] <= key[b[j]]

(* InOrder holds what the sequence does, in the order of the key.           *)
LEMMA OrderReads ==
    ASSUME NEW s, NEW key, NEW n \in Nat, DOMAIN s = 1..n, DOMAIN key = 1..n,
           \A i \in 1..n : key[i] \in Nat
    PROVE  LET q == InOrder(s, key)
           IN  /\ DOMAIN q = 1..n /\ Len(q) = n
               /\ Reads(q, s, 1..n) /\ Ordered(q, s, key, n)
<1> DEFINE S == 1..n
           up == [i \in S |-> UpTo(key, i)]
           b == [m \in S |-> CHOOSE i \in S : Cardinality(UpTo(key, i)) = m]
<1>1. IsFiniteSet(S) /\ Cardinality(S) = n
    BY FS_Interval
<1>2. \A i \in S : i \in up[i] /\ up[i] \subseteq S
    BY DEF UpTo
<1>3. ASSUME NEW i \in S, NEW k \in S, key[i] < key[k] \/ (key[i] = key[k] /\ i < k)
      PROVE  up[i] \subseteq up[k] /\ k \notin up[i]
    <2>1. \A j \in S : key[j] \in Nat /\ j \in Nat
        OBVIOUS
    <2>2. k \notin UpTo(key, i)
        BY <1>3, <2>1 DEF UpTo
    <2>3. \A j \in UpTo(key, i) : j \in UpTo(key, k)
        BY <1>3, <2>1 DEF UpTo
    <2> QED
        BY <2>2, <2>3
<1>4. \A i, k \in S : i = k \/ (up[i] \subseteq up[k] /\ k \notin up[i])
                            \/ (up[k] \subseteq up[i] /\ i \notin up[k])
    <2>1. \A i, k \in S : \/ i = k
                          \/ key[i] < key[k] \/ (key[i] = key[k] /\ i < k)
                          \/ key[k] < key[i] \/ (key[k] = key[i] /\ k < i)
        <3> SUFFICES ASSUME NEW i \in S, NEW k \in S
                     PROVE  \/ i = k
                            \/ key[i] < key[k] \/ (key[i] = key[k] /\ i < k)
                            \/ key[k] < key[i] \/ (key[k] = key[i] /\ k < i)
            OBVIOUS
        <3>1. key[i] \in Nat /\ key[k] \in Nat /\ i \in Nat /\ k \in Nat
            OBVIOUS
        <3> QED
            BY <3>1
    <2> HIDE DEF up, S
    <2> QED
        BY <1>3, <2>1
<1>5. /\ \A i \in S : Cardinality(up[i]) \in 1..n
      /\ \A i, k \in S : Cardinality(up[i]) = Cardinality(up[k]) => i = k
      /\ \A m \in 1..n : \E i \in S : Cardinality(up[i]) = m
    <2> HIDE DEF up, S
    <2> QED
        BY <1>1, <1>2, <1>4, RanksExist
<1>6. \A m \in S : b[m] \in S /\ Cardinality(up[b[m]]) = m
    <2>1. \A i \in S : up[i] = UpTo(key, i)
        OBVIOUS
    <2> HIDE DEF up
    <2>2. \A m \in S : \E i \in S : Cardinality(UpTo(key, i)) = m
        BY <1>5, <2>1
    <2> QED
        BY <2>1, <2>2
<1>7. /\ DOMAIN InOrder(s, key) = S /\ \A m \in S : InOrder(s, key)[m] = s[b[m]]
      /\ InOrder(s, key) = [m \in S |-> InOrder(s, key)[m]]
    BY DEF InOrder
<1>8. b \in Bijection(S, S)
    <2>1. \A i \in S : b[Cardinality(up[i])] = i
        <3> SUFFICES ASSUME NEW i \in S PROVE b[Cardinality(up[i])] = i
            OBVIOUS
        <3> DEFINE m == Cardinality(up[i])
        <3> HIDE DEF b, up
        <3>1. m \in S
            BY <1>5
        <3>2. b[m] \in S /\ Cardinality(up[b[m]]) = m
            BY <1>6, <3>1
        <3> QED
            BY <1>5, <3>2
    <2>2. b \in [S -> S] /\ \A m, k \in S : b[m] = b[k] => m = k
        <3>1. b \in [S -> S]
            BY <1>6
        <3> HIDE DEF b, up
        <3> QED
            BY <1>6, <3>1
    <2>3. \A i \in S : \E m \in S : b[m] = i
        <3> HIDE DEF b, up
        <3> QED
            BY <1>5, <2>1
    <2> HIDE DEF b, S
    <2> QED
        BY <2>2, <2>3 DEF Bijection, Injection, Surjection, IsInjective
<1>9. ASSUME NEW i \in S, NEW j \in S, i <= j PROVE key[b[i]] <= key[b[j]]
    <2> SUFFICES ASSUME key[b[j]] < key[b[i]] PROVE FALSE
        <3>1. key[b[j]] \in Nat /\ key[b[i]] \in Nat
            BY <1>6
        <3> QED
            BY <3>1
    <2> DEFINE x == b[j]
               y == b[i]
    <2>1. x \in S /\ y \in S /\ Cardinality(up[x]) = j /\ Cardinality(up[y]) = i
        <3> HIDE DEF b, up
        <3> QED
            BY <1>6
    <2>2. up[x] \subseteq up[y] /\ y \notin up[x] /\ y \in up[y]
        <3> HIDE DEF b, up
        <3> QED
            BY <1>2, <1>3, <2>1
    <2>3. IsFiniteSet(up[y])
        <3> HIDE DEF b, up, x, y
        <3> QED
            BY <1>1, <1>2, <2>1, FS_Subset
    <2>4. j <= i /\ (i = j => up[x] = up[y])
        <3> HIDE DEF b, up, x, y
        <3> QED
            BY <2>1, <2>2, <2>3, FS_Subset
    <2> HIDE DEF b, up, x, y
    <2> QED
        BY <1>9, <2>2, <2>4
<1>10. Len(InOrder(s, key)) = n
    <2> DEFINE V == {InOrder(s, key)[m] : m \in 1..n}
    <2> QED
        BY <1>7, LenOf
<1> HIDE DEF b
<1>11. Reads(InOrder(s, key), s, S)
    BY <1>7, <1>8 DEF Reads
<1>12. Ordered(InOrder(s, key), s, key, n)
    BY <1>7, <1>8, <1>9 DEF Ordered
<1> QED
    BY <1>7, <1>10, <1>11, <1>12

(* ByTime holds what the sequence does, in order of time.                   *)
LEMMA TimeReads ==
    ASSUME NEW s, NEW n \in Nat, DOMAIN s = 1..n, \A i \in 1..n : s[i].time \in Nat
    PROVE  /\ DOMAIN ByTime(s) = 1..n /\ Len(ByTime(s)) = n
           /\ Reads(ByTime(s), s, 1..n)
           /\ {ByTime(s)[i] : i \in 1..n} = {s[i] : i \in 1..n}
           /\ \A i, j \in 1..n : i <= j => ByTime(s)[i].time <= ByTime(s)[j].time
<1> DEFINE key == [i \in DOMAIN s |-> s[i].time]
           q == ByTime(s)
<1>1. DOMAIN key = 1..n /\ \A i \in 1..n : key[i] = s[i].time /\ key[i] \in Nat
    OBVIOUS
<1>2. q = InOrder(s, key)
    BY DEF ByTime
<1> HIDE DEF key, q
<1>3. DOMAIN q = 1..n /\ Len(q) = n /\ Reads(q, s, 1..n) /\ Ordered(q, s, key, n)
    BY <1>1, <1>2, OrderReads
<1> DEFINE S == 1..n
<1>4. {q[m] : m \in DOMAIN q} = {s[i] : i \in S}
    <2>1. Reads(q, s, S)
        BY <1>3
    <2> HIDE DEF S
    <2>2. (\A m \in DOMAIN q : \E i \in S : q[m] = s[i]) /\ \A i \in S : \E m \in DOMAIN q : q[m] = s[i]
        BY <2>1, ReadsValues
    <2> QED
        BY <2>2
<1>5. PICK b \in Bijection(1..n, 1..n) :
          /\ \A m \in 1..n : q[m] = s[b[m]]
          /\ \A i, j \in 1..n : i <= j => key[b[i]] <= key[b[j]]
    BY <1>3 DEF Ordered
<1>6. \A i \in 1..n : b[i] \in 1..n /\ q[i].time = key[b[i]]
    BY <1>1, <1>5 DEF Bijection, Surjection
<1> QED
    BY <1>3, <1>4, <1>5, <1>6 DEF q

(* It holds a value as often as the positions do.                           *)
LEMMA ReadsCount ==
    ASSUME NEW p, NEW s, NEW A, Reads(p, s, A), IsFiniteSet(A), NEW V
    PROVE  /\ IsFiniteSet({i \in A : s[i] \in V})
           /\ Cardinality({n \in DOMAIN p : p[n] \in V}) = Cardinality({i \in A : s[i] \in V})
<1>1. PICK b \in Bijection(DOMAIN p, A) : \A n \in DOMAIN p : p[n] = s[b[n]]
    BY DEF Reads
<1> DEFINE X == {n \in DOMAIN p : p[n] \in V}
           Y == {i \in A : s[i] \in V}
           f == [n \in X |-> b[n]]
<1>2. /\ \A n \in DOMAIN p : b[n] \in A
      /\ \A i \in A : \E n \in DOMAIN p : b[n] = i
      /\ \A n, m \in DOMAIN p : b[n] = b[m] => n = m
    BY DEF Bijection, Surjection, Injection, IsInjective
<1>3. IsFiniteSet(Y)
    BY FS_Subset
<1>4. f \in Bijection(X, Y)
    <2>1. f \in [X -> Y] /\ \A n, m \in X : f[n] = f[m] => n = m
        BY <1>1, <1>2
    <2>2. \A i \in Y : \E n \in X : f[n] = i
        BY <1>1, <1>2
    <2> HIDE DEF f, X, Y
    <2> QED
        BY <2>1, <2>2 DEF Bijection, Injection, Surjection, IsInjective
<1>5. ExistsBijection(Y, X)
    <2> HIDE DEF f, X, Y
    <2> QED
        BY <1>4, Fun_ExistsBijSymmetric DEF ExistsBijection
<1> QED
    BY <1>3, <1>5, FS_Bijection

----------------------------------------------------------------------------
(* The values of a function on a finite set.                                *)
LEMMA FiniteImage ==
    ASSUME NEW f, IsFiniteSet(DOMAIN f)
    PROVE  IsFiniteSet({f[x] : x \in DOMAIN f})
<1> DEFINE T == {f[x] : x \in DOMAIN f}
           g == [x \in DOMAIN f |-> f[x]]
<1>1. g \in Surjection(DOMAIN f, T)
    BY DEF Surjection
<1> QED
    BY <1>1, FS_Surjection

(* The window over the attempts p on a credential, in order of time: who    *)
(* made attempt i, how often an address made those from i to j, the         *)
(* attempts that are no older than the window when r is made, the first of  *)
(* them, and the number of addresses that made them.                        *)
Adr(p, i) == Sta!strip_port(p[i].remote)
Near(p, ip, i, j) == Cardinality({k \in i..j : Adr(p, k) = ip})
Recent(p, r) == {i \in 1..r : p[r].time - p[i].time <= SprayWindow}
Oldest(p, r) == Min(Recent(p, r))
Crowd(p, r) == Cardinality({Adr(p, i) : i \in Oldest(p, r)..r})
(* The attempts are in order of time.                                       *)
Timed(p, n) ==
    /\ \A i \in 1..n : p[i].time \in Nat
    /\ \A i, j \in 1..n : i <= j => p[i].time <= p[j].time
(* The invariant of the loop, after attempt r: the window begins at the     *)
(* oldest recent attempt and ip_counts counts it; the best window so far is *)
(* one of those passed, and none of them had more addresses.                *)
Sliding(p, I, w, r) ==
    /\ w = [left |-> w.left, best_n |-> w.best_n, best_span |-> w.best_span,
            ip_counts |-> [ip \in I |-> Cardinality({i \in w.left..r : Adr(p, i) = ip})]]
    /\ w.left = IF r = 0 THEN 1 ELSE Oldest(p, r)
    /\ r = 0 => w.best_n = 0
    /\ r > 0 => \E k \in 1..r : /\ w.best_n = Crowd(p, k)
                                 /\ w.best_span = p[k].time - p[Oldest(p, k)].time
    /\ \A k \in 1..r : Crowd(p, k) <= w.best_n

(* What is recent is an interval up to now.                                 *)
LEMMA OldestIs ==
    ASSUME NEW p, NEW n \in Nat, Timed(p, n), NEW r \in 1..n
    PROVE  /\ Oldest(p, r) \in 1..r /\ r \in Recent(p, r)
           /\ Recent(p, r) = Oldest(p, r)..r
<1>1. SprayWindow \in Nat
    BY SprayAssumption
<1>2. r \in Recent(p, r) /\ Recent(p, r) \in SUBSET Nat
    BY <1>1 DEF Recent, Timed
<1>3. Oldest(p, r) \in Recent(p, r) /\ \A i \in Recent(p, r) : Oldest(p, r) <= i
    BY <1>2, LeastNat DEF Oldest
<1>4. ASSUME NEW i \in Oldest(p, r)..r PROVE i \in Recent(p, r)
    <2> DEFINE o == Oldest(p, r)
    <2>1. o \in 1..r /\ p[r].time - p[o].time <= SprayWindow
        BY <1>3 DEF Recent
    <2>i. i \in o..r
        OBVIOUS
    <2> HIDE DEF o
    <2>2. i \in 1..n /\ o \in 1..n /\ o <= i
        BY <2>1, <2>i
    <2>3. p[o].time <= p[i].time /\ p[o].time \in Nat /\ p[i].time \in Nat /\ p[r].time \in Nat
        BY <2>2 DEF Timed
    <2>4. p[r].time - p[i].time <= SprayWindow
        BY <2>1, <2>3, <1>1
    <2> QED
        BY <2>1, <2>2, <2>4 DEF Recent
<1>5. Oldest(p, r) \in 1..r
    BY <1>3 DEF Recent
<1>6. \A i \in Recent(p, r) : i \in Oldest(p, r)..r
    BY <1>3, <1>5 DEF Recent
<1> QED
    BY <1>2, <1>4, <1>5, <1>6

(* The attempt made now is in its window.                                   *)
LEMMA CrowdIs ==
    ASSUME NEW p, NEW n \in Nat, Timed(p, n), NEW r \in 1..n
    PROVE  /\ IsFiniteSet({Adr(p, i) : i \in Oldest(p, r)..r})
           /\ Crowd(p, r) \in Nat /\ Crowd(p, r) > 0
<1> DEFINE X == {Adr(p, i) : i \in Oldest(p, r)..r}
<1>1. Oldest(p, r) \in 1..r
    BY OldestIs
<1>2. IsFiniteSet(Oldest(p, r)..r) /\ r \in Oldest(p, r)..r
    BY <1>1, FS_Interval
<1> DEFINE a == [i \in Oldest(p, r)..r |-> Adr(p, i)]
<1>3. IsFiniteSet(X) /\ Adr(p, r) \in X
    <2>1. DOMAIN a = Oldest(p, r)..r /\ X = {a[i] : i \in DOMAIN a}
        OBVIOUS
    <2> HIDE DEF a
    <2> QED
        BY <1>2, <2>1, FiniteImage
<1>4. Cardinality(X) \in Nat /\ Cardinality(X) # 0
    <2> HIDE DEF X
    <2> QED
        BY <1>3, FS_CardinalityType, FS_EmptySet
<1> QED
    BY <1>3, <1>4 DEF Crowd

(* The loop can be run: the recursive function of Window exists.            *)
LEMMA WindowRuns ==
    ASSUME NEW p, NEW e, NEW n \in Nat
    PROVE  \E g : g = [r \in 0..n |-> IF r = 0 THEN e ELSE Sta!Slide(p, g[r - 1], r)]
<1> DEFINE Runs(m) ==
        \E g : g = [r \in 0..m |-> IF r = 0 THEN e ELSE Sta!Slide(p, g[r - 1], r)]
           X == {m \in Nat : ~Runs(m)}
<1>1. Runs(0)
    <2> DEFINE g == [r \in 0..0 |-> e]
    <2>1. g = [r \in 0..0 |-> IF r = 0 THEN e ELSE Sta!Slide(p, g[r - 1], r)]
        OBVIOUS
    <2> HIDE DEF g
    <2> QED
        BY <2>1
<1>2. ASSUME NEW m \in Nat, m > 0, Runs(m - 1) PROVE Runs(m)
    <2>1. PICK h : h = [r \in 0..(m - 1) |-> IF r = 0 THEN e ELSE Sta!Slide(p, h[r - 1], r)]
        BY <1>2
    <2> DEFINE g == [r \in 0..m |-> IF r < m THEN h[r] ELSE Sta!Slide(p, h[m - 1], m)]
    <2>2. \A r \in 0..m : g[r] = IF r = 0 THEN e ELSE Sta!Slide(p, g[r - 1], r)
        <3> SUFFICES ASSUME NEW r \in 0..m
                     PROVE  g[r] = IF r = 0 THEN e ELSE Sta!Slide(p, g[r - 1], r)
            OBVIOUS
        <3>1. CASE r = m
            <4>1. m - 1 \in 0..m /\ m - 1 < m
                BY <1>2
            <4>2. g[m - 1] = h[m - 1]
                BY <4>1
            <4>3. g[m] = Sta!Slide(p, h[m - 1], m)
                OBVIOUS
            <4> HIDE DEF g
            <4> QED
                BY <1>2, <3>1, <4>2, <4>3
        <3>2. CASE r < m /\ r > 0
            <4>1. r \in 0..(m - 1) /\ r - 1 \in 0..m /\ r - 1 < m
                BY <3>2
            <4>2. g[r - 1] = h[r - 1] /\ g[r] = h[r]
                BY <3>2, <4>1
            <4>3. h[r] = Sta!Slide(p, h[r - 1], r)
                BY <2>1, <3>2, <4>1
            <4> HIDE DEF g
            <4> QED
                BY <3>2, <4>2, <4>3
        <3>3. CASE r = 0
            <4>1. 0 \in 0..(m - 1)
                BY <1>2
            <4>2. g[0] = h[0] /\ h[0] = e
                BY <1>2, <2>1, <4>1
            <4> QED
                BY <3>3, <4>2
        <3> QED
            BY <3>1, <3>2, <3>3
    <2>3. g = [r \in 0..m |-> g[r]]
        OBVIOUS
    <2> HIDE DEF g
    <2>4. g = [r \in 0..m |-> IF r = 0 THEN e ELSE Sta!Slide(p, g[r - 1], r)]
        BY <2>2, <2>3
    <2> QED
        BY <2>4
<1>3. X = {}
    <2> SUFFICES ASSUME X # {} PROVE FALSE
        OBVIOUS
    <2> HIDE DEF Runs
    <2>1. PICK m \in X : \A k \in X : m <= k
        BY SomeLeast
    <2>2. m \in Nat /\ m # 0 /\ ~Runs(m)
        BY <1>1
    <2>3. m - 1 \in Nat /\ ~(m <= m - 1)
        BY <2>2
    <2>4. Runs(m - 1)
        BY <2>1, <2>3
    <2> QED
        BY <1>2, <2>2, <2>4
<1> QED
    BY <1>3

(* The instance counts as this module does.                                 *)
LEMMA SameCardinality == \A S : Sta!Cardinality(S) = Cardinality(S)
BY DEF Sta!Cardinality, Cardinality

(* Counting the arrival in and the leavers out is counting the new window.  *)
LEMMA CountSplit ==
    ASSUME NEW p, NEW l \in Nat, NEW o \in Nat, NEW r \in Nat,
           l <= o, o <= r, l >= 1, NEW ip
    PROVE  /\ Near(p, ip, l, r - 1) + (IF ip = Adr(p, r) THEN 1 ELSE 0) - Near(p, ip, l, o - 1)
               = Near(p, ip, o, r)
           /\ Near(p, ip, o, r) \in Nat
           /\ Near(p, ip, o, r) > 0 <=> ip \in {Adr(p, i) : i \in o..r}
<1> DEFINE S(i, j) == {k \in i..j : Adr(p, k) = ip}
           A == S(l, r - 1)
           B == S(l, o - 1)
           C == S(o, r)
           D == S(l, r)
<1>1. \A i, j \in Int : IsFiniteSet(S(i, j))
    <2> SUFFICES ASSUME NEW i \in Int, NEW j \in Int PROVE IsFiniteSet(S(i, j))
        OBVIOUS
    <2>1. IsFiniteSet(i..j) /\ S(i, j) \subseteq i..j
        BY FS_Interval
    <2> QED
        BY <2>1, FS_Subset
<1>2. IsFiniteSet(A) /\ IsFiniteSet(B) /\ IsFiniteSet(C) /\ IsFiniteSet(D)
    <2>1. l \in Int /\ r - 1 \in Int /\ o - 1 \in Int /\ o \in Int /\ r \in Int
        OBVIOUS
    <2> HIDE DEF S
    <2> QED
        BY <1>1, <2>1
<1>3. D = B \cup C /\ B \cap C = {}
    OBVIOUS
<1>4. D = IF ip = Adr(p, r) THEN A \cup {r} ELSE A
    <2>1. l..r = (l..(r - 1)) \cup {r}
        OBVIOUS
    <2> QED
        BY <2>1
<1>5. r \notin A
    OBVIOUS
<1>6. C # {} <=> ip \in {Adr(p, i) : i \in o..r}
    OBVIOUS
<1> HIDE DEF A, B, C, D
<1>7. /\ Cardinality(A) \in Nat /\ Cardinality(B) \in Nat /\ Cardinality(C) \in Nat
      /\ Cardinality({}) = 0
    BY <1>2, FS_CardinalityType, FS_EmptySet
<1>8. Cardinality(D) = Cardinality(B) + Cardinality(C)
    <2>1. Cardinality(B \cup C) = Cardinality(B) + Cardinality(C) - Cardinality(B \cap C)
        BY <1>2, FS_Union
    <2>2. Cardinality(B \cap C) = 0 /\ Cardinality(D) = Cardinality(B \cup C)
        BY <1>3, <1>7
    <2> QED
        BY <1>7, <2>1, <2>2
<1>9. Cardinality(D) = Cardinality(A) + (IF ip = Adr(p, r) THEN 1 ELSE 0)
    BY <1>2, <1>4, <1>5, <1>7, FS_AddElement
<1>10. Cardinality(C) > 0 <=> C # {}
    BY <1>2, <1>7, FS_EmptySet
<1>11. Cardinality(A) + (IF ip = Adr(p, r) THEN 1 ELSE 0) - Cardinality(B) = Cardinality(C)
    BY <1>7, <1>8, <1>9
<1> QED
    BY <1>6, <1>7, <1>10, <1>11 DEF A, B, C, Near

(* Sliding of a record whose fields are known.                              *)
LEMMA SlidingIs ==
    ASSUME NEW p, NEW I, NEW v, NEW r \in Nat, r # 0,
           v = [left |-> v.left, best_n |-> v.best_n, best_span |-> v.best_span,
               ip_counts |-> [ip \in I |-> Cardinality({i \in v.left..r : Adr(p, i) = ip})]],
           v.left = Oldest(p, r),
           \E k \in 1..r : v.best_n = Crowd(p, k) /\ v.best_span = p[k].time - p[Oldest(p, k)].time,
           \A k \in 1..r : Crowd(p, k) <= v.best_n
    PROVE  Sliding(p, I, v, r)
BY DEF Sliding

(* A turn of the loop keeps the invariant (stats.py:248-259).               *)
LEMMA SlideKeeps ==
    ASSUME NEW p, NEW n \in Nat, Timed(p, n), NEW I, \A i \in 1..n : Adr(p, i) \in I,
           NEW r \in 1..n, NEW w, Sliding(p, I, w, r - 1)
    PROVE  Sliding(p, I, Sta!Slide(p, w, r), r)
<1> DEFINE o == Oldest(p, r)
           l == w.left
           arrived == Adr(p, r)
           counts == [ip \in I |-> Cardinality({i \in o..r : Adr(p, i) = ip})]
           v == Sta!Slide(p, w, r)
<1>1. o \in 1..r /\ r \in Recent(p, r) /\ Recent(p, r) = o..r
    BY OldestIs
<1>2. l \in Nat /\ l >= 1 /\ l <= o
    <2>1. CASE r = 1
        BY <1>1, <2>1 DEF Sliding
    <2>2. CASE r > 1
        <3>1. r - 1 \in 1..n /\ r - 1 # 0
            BY <2>2
        <3>2. l = Oldest(p, r - 1)
            BY <3>1 DEF Sliding
        <3>3. l \in 1..(r - 1) /\ Recent(p, r - 1) = l..(r - 1)
            BY <3>1, <3>2, OldestIs
        <3>4. CASE o = r
            BY <3>3, <3>4
        <3>5. CASE o # r
            <4>1. o \in Recent(p, r) /\ o \in 1..(r - 1)
                BY <1>1, <3>5
            <4>2. p[r].time - p[o].time <= SprayWindow
                BY <4>1 DEF Recent
            <4>3. /\ p[r - 1].time <= p[r].time /\ p[r - 1].time \in Nat
                  /\ p[r].time \in Nat /\ p[o].time \in Nat
                BY <3>1, <4>1 DEF Timed
            <4>4. p[r - 1].time - p[o].time <= SprayWindow
                BY <4>2, <4>3, SprayAssumption
            <4>5. o \in Recent(p, r - 1)
                BY <4>1, <4>4 DEF Recent
            <4> QED
                BY <3>3, <4>5
        <3> QED
            BY <3>4, <3>5
    <2> QED
        BY <2>1, <2>2
<1>3. Sta!Min({i \in l..r : p[r].time - p[i].time <= SprayWindow}) = o
    <2> HIDE DEF l
    <2>1. {i \in l..r : p[r].time - p[i].time <= SprayWindow} = Recent(p, r)
        <3>1. \A i \in Recent(p, r) : i \in l..r
            BY <1>1, <1>2
        <3>2. l..r \subseteq 1..r
            BY <1>2
        <3> QED
            BY <3>1, <3>2 DEF Recent
    <2> QED
        BY <2>1 DEF Sta!Min, Min, Oldest
<1>4. w.ip_counts = [ip \in I |-> Cardinality({i \in l..(r - 1) : Adr(p, i) = ip})]
    BY DEF Sliding
<1>5. [ip \in DOMAIN w.ip_counts |-> w.ip_counts[ip] + (IF ip = arrived THEN 1 ELSE 0)
                                        - Near(p, ip, l, o - 1)] = counts
    <2>1. \A ip \in I : Near(p, ip, l, r - 1) + (IF ip = arrived THEN 1 ELSE 0) - Near(p, ip, l, o - 1)
                           = Near(p, ip, o, r)
        <3>1. o \in Nat /\ o <= r /\ r \in Nat
            BY <1>1
        <3> HIDE DEF l, o
        <3> TAKE ip \in I
        <3> QED
            BY <1>2, <3>1, CountSplit
    <2> HIDE DEF l, o, arrived
    <2> QED
        BY <1>4, <2>1 DEF Near
<1>6. {ip \in I : counts[ip] > 0} = {Adr(p, i) : i \in o..r}
    <2>1. \A ip \in I : Near(p, ip, o, r) > 0 <=> ip \in {Adr(p, i) : i \in o..r}
        <3>1. o \in Nat /\ o <= r /\ r \in Nat
            BY <1>1
        <3> HIDE DEF l, o
        <3> TAKE ip \in I
        <3> QED
            BY <1>2, <3>1, CountSplit
    <2>2. \A i \in o..r : Adr(p, i) \in I
        BY <1>1
    <2> HIDE DEF o
    <2> QED
        BY <2>1, <2>2 DEF Near
<1> DEFINE c == Crowd(p, r)
           kept == [w EXCEPT !.left = o, !.ip_counts = counts]
<1>7. Cardinality({ip \in DOMAIN counts : counts[ip] > 0}) = c
    BY <1>6 DEF Crowd
<1>8. v = IF c > w.best_n
          THEN [kept EXCEPT !.best_n = c, !.best_span = p[r].time - p[o].time]
          ELSE kept
    <2> DEFINE left == Sta!Min({i \in w.left..r : p[r].time - p[i].time <= SprayWindow})
               new == [ip \in DOMAIN w.ip_counts |->
                         w.ip_counts[ip] + (IF ip = Sta!strip_port(p[r].remote) THEN 1 ELSE 0)
                         - Cardinality({i \in w.left..(left - 1) : Sta!strip_port(p[i].remote) = ip})]
               m == Cardinality({ip \in DOMAIN new : new[ip] > 0})
    <2>1. left = o
        BY <1>3
    <2>2. new = counts
        BY <1>5, <2>1 DEF Adr, Near
    <2>3. m = c
        BY <1>7, <2>2
    <2>4. v = IF m > w.best_n
              THEN [[w EXCEPT !.left = left, !.ip_counts = new]
                       EXCEPT !.best_n = m, !.best_span = p[r].time - p[left].time]
              ELSE [w EXCEPT !.left = left, !.ip_counts = new]
        BY SameCardinality DEF Sta!Slide
    <2> HIDE DEF counts, c, o, l, arrived, left, new, m, v
    <2> QED
        BY <2>1, <2>2, <2>3, <2>4
<1> HIDE DEF c, v
<1>9. /\ kept = [left |-> o, best_n |-> w.best_n, best_span |-> w.best_span, ip_counts |-> counts]
      /\ [kept EXCEPT !.best_n = c, !.best_span = p[r].time - p[o].time]
         = [left |-> o, best_n |-> c, best_span |-> p[r].time - p[o].time, ip_counts |-> counts]
    <2> DEFINE b == w.best_n
               s == w.best_span
               old == [ip \in I |-> Cardinality({i \in l..(r - 1) : Adr(p, i) = ip})]
               t == p[r].time - p[o].time
    <2>1. w = [left |-> l, best_n |-> b, best_span |-> s, ip_counts |-> old]
        BY DEF Sliding
    <2> HIDE DEF l, b, s, old, t, counts, o
    <2>2. /\ [w EXCEPT !.left = o, !.ip_counts = counts]
             = [left |-> o, best_n |-> b, best_span |-> s, ip_counts |-> counts]
          /\ [[w EXCEPT !.left = o, !.ip_counts = counts] EXCEPT !.best_n = c, !.best_span = t]
             = [left |-> o, best_n |-> c, best_span |-> t, ip_counts |-> counts]
        <3> DEFINE q == [w EXCEPT !.left = o]
                   x == [q EXCEPT !.ip_counts = counts]
                   y == [x EXCEPT !.best_n = c]
        <3>1. q = [left |-> o, best_n |-> b, best_span |-> s, ip_counts |-> old]
            BY <2>1
        <3>2. x = [left |-> o, best_n |-> b, best_span |-> s, ip_counts |-> counts]
            <4> HIDE DEF q
            <4> QED
                BY <3>1
        <3>3. y = [left |-> o, best_n |-> c, best_span |-> s, ip_counts |-> counts]
            <4> HIDE DEF x
            <4> QED
                BY <3>2
        <3>4. [y EXCEPT !.best_span = t]
              = [left |-> o, best_n |-> c, best_span |-> t, ip_counts |-> counts]
            <4> HIDE DEF y
            <4> QED
                BY <3>3
        <3> QED
            BY <3>2, <3>4
    <2> QED
        BY <2>2 DEF b, s, t
<1>10. c \in Nat /\ c > 0 /\ c = Crowd(p, r)
    BY CrowdIs DEF c
<1>11. r # 0 /\ r > 0 /\ \A k \in 1..r : k = r \/ k \in 1..(r - 1)
    OBVIOUS
<1>12. w.best_n \in Nat /\ (r - 1 > 0 => \E k \in 1..(r - 1) : w.best_n = Crowd(p, k))
    <2>1. \A k \in 1..(r - 1) : Crowd(p, k) \in Nat
        <3> TAKE k \in 1..(r - 1)
        <3>1. k \in 1..n
            OBVIOUS
        <3> QED
            BY <3>1, CrowdIs
    <2>2. r - 1 = 0 \/ r - 1 > 0
        OBVIOUS
    <2> QED
        BY <2>1, <2>2 DEF Sliding
<1>13. \A k \in 1..r : Crowd(p, k) \in Nat
    <2> TAKE k \in 1..r
    <2>1. k \in 1..n
        OBVIOUS
    <2> QED
        BY <2>1, CrowdIs
<1>14. CASE c > w.best_n
    <2>1. v = [left |-> o, best_n |-> c, best_span |-> p[r].time - p[o].time, ip_counts |-> counts]
        BY <1>8, <1>9, <1>14
    <2>2. v.left = o /\ v.best_n = c /\ v.best_span = p[r].time - p[o].time
        BY <2>1
    <2>3. \A k \in 1..r : Crowd(p, k) <= c
        BY <1>10, <1>11, <1>12, <1>13, <1>14 DEF Sliding
    <2>4. v = [left |-> v.left, best_n |-> v.best_n, best_span |-> v.best_span,
               ip_counts |-> [ip \in I |-> Cardinality({i \in v.left..r : Adr(p, i) = ip})]]
        <3> HIDE DEF o
        <3> QED
            BY <2>1, <2>2
    <2>5. \E k \in 1..r : v.best_n = Crowd(p, k) /\ v.best_span = p[k].time - p[Oldest(p, k)].time
        BY <2>2, <1>10
    <2> HIDE DEF counts
    <2> QED
        BY <2>2, <2>3, <2>4, <2>5, <1>11, SlidingIs DEF v
<1>15. CASE ~(c > w.best_n)
    <2>1. v = [left |-> o, best_n |-> w.best_n, best_span |-> w.best_span, ip_counts |-> counts]
        BY <1>8, <1>9, <1>15
    <2>2. v.left = o /\ v.best_n = w.best_n /\ v.best_span = w.best_span
        BY <2>1
    <2>3. \A k \in 1..r : Crowd(p, k) <= w.best_n
        BY <1>10, <1>11, <1>12, <1>13, <1>15 DEF Sliding
    <2>4. r - 1 # 0
        BY <1>10, <1>12, <1>15 DEF Sliding
    <2>5. \E k \in 1..r : /\ w.best_n = Crowd(p, k)
                           /\ w.best_span = p[k].time - p[Oldest(p, k)].time
        <3>1. r - 1 > 0 /\ 1..(r - 1) \subseteq 1..r
            BY <2>4
        <3> QED
            BY <3>1 DEF Sliding
    <2>6. v = [left |-> v.left, best_n |-> v.best_n, best_span |-> v.best_span,
               ip_counts |-> [ip \in I |-> Cardinality({i \in v.left..r : Adr(p, i) = ip})]]
        <3> HIDE DEF o
        <3> QED
            BY <2>1, <2>2
    <2> HIDE DEF counts
    <2> QED
        BY <2>2, <2>3, <2>5, <2>6, <1>11, SlidingIs DEF v
<1> QED
    BY <1>14, <1>15 DEF v

(* The invariant holds at the end of the loop.                              *)
LEMMA WindowSlides ==
    ASSUME NEW p, NEW n \in Nat, Timed(p, n), NEW I, \A i \in 1..n : Adr(p, i) \in I,
           NEW e, e = [left |-> 1, best_n |-> 0, best_span |-> 0, ip_counts |-> [ip \in I |-> 0]],
           NEW g, g = [r \in 0..n |-> IF r = 0 THEN e ELSE Sta!Slide(p, g[r - 1], r)]
    PROVE  Sliding(p, I, g[n], n)
<1> DEFINE X == {r \in 0..n : ~Sliding(p, I, g[r], r)}
<1>1. Sliding(p, I, g[0], 0)
    <2>1. g[0] = e
        <3>1. 0 \in 0..n
            OBVIOUS
        <3> QED
            BY <3>1
    <2>2. \A ip \in I : Cardinality({i \in 1..0 : Adr(p, i) = ip}) = 0
        <3> TAKE ip \in I
        <3>1. {i \in 1..0 : Adr(p, i) = ip} = {}
            OBVIOUS
        <3> QED
            BY <3>1, FS_EmptySet
    <2>3. e = [left |-> e.left, best_n |-> e.best_n, best_span |-> e.best_span,
               ip_counts |-> [ip \in I |-> Cardinality({i \in e.left..0 : Adr(p, i) = ip})]]
        BY <2>2
    <2>4. e.left = 1 /\ e.best_n = 0
        OBVIOUS
    <2> QED
        BY <2>1, <2>3, <2>4 DEF Sliding
<1>2. ASSUME NEW r \in 1..n, Sliding(p, I, g[r - 1], r - 1) PROVE Sliding(p, I, g[r], r)
    <2>1. r \in 0..n /\ r # 0
        OBVIOUS
    <2>2. g[r] = Sta!Slide(p, g[r - 1], r)
        BY <2>1
    <2> QED
        BY <1>2, <2>2, SlideKeeps
<1>3. X = {}
    <2> SUFFICES ASSUME X # {} PROVE FALSE
        OBVIOUS
    <2>1. X \in SUBSET Nat
        OBVIOUS
    <2>2. PICK r \in X : \A k \in X : r <= k
        <3> HIDE DEF X
        <3> QED
            BY <2>1, SomeLeast
    <2>3. r # 0 /\ r \in 0..n
        BY <1>1
    <2>4. r \in 1..n /\ r - 1 \in 0..n /\ ~(r <= r - 1)
        BY <2>3
    <2>5. r - 1 \notin X
        BY <2>2, <2>4
    <2>6. Sliding(p, I, g[r - 1], r - 1)
        BY <2>4, <2>5
    <2> QED
        BY <1>2, <2>4, <2>6
<1>4. n \in 0..n
    OBVIOUS
<1> QED
    BY <1>3, <1>4

(* Attempts come from no more addresses than there are attempts.            *)
LEMMA ImageSize ==
    ASSUME NEW p, NEW S, IsFiniteSet(S)
    PROVE  /\ IsFiniteSet({Adr(p, i) : i \in S})
           /\ Cardinality({Adr(p, i) : i \in S}) \in Nat
           /\ Cardinality({Adr(p, i) : i \in S}) <= Cardinality(S)
<1> DEFINE g == [i \in S |-> Adr(p, i)]
           T == {Adr(p, i) : i \in S}
<1>1. g \in Surjection(S, T)
    BY DEF Surjection
<1> HIDE DEF T, g
<1>2. IsFiniteSet(T) /\ Cardinality(T) <= Cardinality(S)
    BY <1>1, FS_Surjection
<1>3. Cardinality(T) \in Nat
    BY <1>2, FS_CardinalityType
<1> QED
    BY <1>2, <1>3 DEF T

(* How many addresses made attempts between two times.                      *)
Between(p, n, from, to) ==
    Cardinality({Adr(p, i) : i \in {j \in 1..n : from <= p[j].time /\ p[j].time <= to}})

(* More attempts come from no fewer addresses.                              *)
LEMMA FewerBetween ==
    ASSUME NEW p, NEW A, NEW B, IsFiniteSet(B), A \subseteq B
    PROVE  Cardinality({Adr(p, i) : i \in A}) <= Cardinality({Adr(p, i) : i \in B})
<1> DEFINE X == {Adr(p, i) : i \in A}
           Y == {Adr(p, i) : i \in B}
<1>1. IsFiniteSet(Y) /\ X \subseteq Y
    BY ImageSize
<1> QED
    BY <1>1, FS_Subset

(* What the loop has found is the most addresses within a window after any  *)
(* attempt: the windows that end at an attempt are as good as those that    *)
(* begin at one.                                                            *)
LEMMA WindowExact ==
    ASSUME NEW p, NEW n \in Nat, n > 0, Timed(p, n), NEW I, NEW w, Sliding(p, I, w, n)
    PROVE  /\ w.best_n \in Nat /\ w.best_n <= n
           /\ w.best_span \in Nat /\ w.best_span <= SprayWindow
           /\ \A i \in 1..n : /\ Between(p, n, p[i].time, p[i].time + SprayWindow) \in Nat
                               /\ Between(p, n, p[i].time, p[i].time + SprayWindow) <= w.best_n
           /\ \E i \in 1..n :
                  /\ Between(p, n, p[i].time, p[i].time + w.best_span) = w.best_n
                  /\ Between(p, n, p[i].time, p[i].time + SprayWindow) = w.best_n
<1> DEFINE In(from, to) == {j \in 1..n : from <= p[j].time /\ p[j].time <= to}
<1>1. \A from, to : IsFiniteSet(In(from, to)) /\ Between(p, n, from, to) \in Nat
    <2> SUFFICES ASSUME NEW from, NEW to
                 PROVE  IsFiniteSet(In(from, to)) /\ Between(p, n, from, to) \in Nat
        OBVIOUS
    <2>1. IsFiniteSet(1..n) /\ In(from, to) \subseteq 1..n
        BY FS_Interval
    <2>2. IsFiniteSet(In(from, to))
        BY <2>1, FS_Subset
    <2> QED
        BY <2>2, ImageSize DEF Between
<1>2. ASSUME NEW i \in 1..n
      PROVE  Between(p, n, p[i].time, p[i].time + SprayWindow) <= w.best_n
    <2> DEFINE K == {k \in 1..n : p[k].time <= p[i].time + SprayWindow}
               k == Max(K)
    <2>0. SprayWindow \in Nat /\ \A j \in 1..n : p[j].time \in Nat
        BY SprayAssumption DEF Timed
    <2>1. K \in SUBSET Nat /\ K # {} /\ \A j \in K : j <= n
        <3>1. i \in K
            BY <2>0
        <3> QED
            BY <3>1
    <2>2. k \in K /\ \A j \in K : j <= k
        <3> HIDE DEF K
        <3> QED
            BY <2>1, GreatestNat
    <2>3. k \in 1..n /\ p[k].time <= p[i].time + SprayWindow
        BY <2>2
    <2>4. Recent(p, k) = Oldest(p, k)..k /\ Oldest(p, k) \in 1..k
        <3> HIDE DEF k
        <3> QED
            BY <2>3, OldestIs
    <2>5. \A j \in In(p[i].time, p[i].time + SprayWindow) : j \in Oldest(p, k)..k
        <3> TAKE j \in In(p[i].time, p[i].time + SprayWindow)
        <3>1. j \in 1..n /\ p[i].time <= p[j].time /\ j \in K
            OBVIOUS
        <3>2. j <= k
            BY <2>2, <3>1
        <3> HIDE DEF k, K
        <3>3. p[k].time - p[j].time <= SprayWindow
            BY <2>0, <2>3, <3>1
        <3>4. j \in Recent(p, k)
            BY <2>3, <3>1, <3>2, <3>3 DEF Recent
        <3> QED
            BY <2>4, <3>4
    <2> HIDE DEF k, K
    <2>6. IsFiniteSet(Oldest(p, k)..k)
        BY <2>3, <2>4, FS_Interval
    <2>7. Between(p, n, p[i].time, p[i].time + SprayWindow) <= Crowd(p, k)
        <3> DEFINE A == In(p[i].time, p[i].time + SprayWindow)
        <3>1. A \subseteq Oldest(p, k)..k
            BY <2>5
        <3> HIDE DEF A
        <3>2. Cardinality({Adr(p, j) : j \in A}) <= Crowd(p, k)
            BY <2>6, <3>1, FewerBetween DEF Crowd
        <3> QED
            BY <3>2 DEF A, Between
    <2>8. Crowd(p, k) <= w.best_n
        BY <2>3 DEF Sliding
    <2>9. Crowd(p, k) \in Nat /\ w.best_n \in Nat
        <3>1. \E j \in 1..n : w.best_n = Crowd(p, j)
            BY DEF Sliding
        <3> QED
            BY <2>3, <3>1, CrowdIs
    <2> DEFINE a == Between(p, n, p[i].time, p[i].time + SprayWindow)
    <2>10. a \in Nat
        BY <1>1
    <2> HIDE DEF a
    <2>11. a <= Crowd(p, k)
        BY <2>7 DEF a
    <2>12. a <= w.best_n
        BY <2>8, <2>9, <2>10, <2>11
    <2> QED
        BY <2>12 DEF a
<1>3. PICK k \in 1..n : w.best_n = Crowd(p, k) /\ w.best_span = p[k].time - p[Oldest(p, k)].time
    BY DEF Sliding
<1> DEFINE o == Oldest(p, k)
<1>4. o \in 1..k /\ o \in 1..n /\ k \in Recent(p, k) /\ o \in Recent(p, k)
    <2>1. o \in 1..k /\ Recent(p, k) = o..k
        BY OldestIs
    <2> QED
        BY <2>1
<1>5. p[o].time \in Nat /\ p[k].time \in Nat /\ p[o].time <= p[k].time
    <2> HIDE DEF o
    <2>1. o <= k
        BY <1>4
    <2> QED
        BY <1>4, <2>1 DEF Timed
<1>6. w.best_span \in Nat /\ w.best_span <= SprayWindow /\ SprayWindow \in Nat
    <2>1. p[k].time - p[o].time <= SprayWindow
        BY <1>4 DEF Recent
    <2> HIDE DEF o
    <2>2. w.best_span = p[k].time - p[o].time
        BY <1>3 DEF o
    <2> QED
        BY <1>5, <2>1, <2>2, SprayAssumption
<1>7. w.best_n \in Nat /\ w.best_n <= n
    <2>1. IsFiniteSet(o..k) /\ IsFiniteSet(1..n) /\ o..k \subseteq 1..n /\ Cardinality(1..n) = n
        <3>1. o \in 1..k
            BY <1>4
        <3> HIDE DEF o
        <3>2. o \in Int /\ k \in Int /\ o..k \subseteq 1..n
            BY <3>1
        <3>3. IsFiniteSet(o..k)
            BY <3>2, FS_Interval
        <3>4. IsFiniteSet(1..n) /\ Cardinality(1..n) = n
            BY FS_Interval
        <3> QED
            BY <3>2, <3>3, <3>4
    <2>2. Cardinality(o..k) <= n /\ Cardinality(o..k) \in Nat
        BY <2>1, FS_Subset, FS_CardinalityType
    <2>3. Crowd(p, k) \in Nat /\ Crowd(p, k) <= Cardinality(o..k)
        BY <2>1, ImageSize DEF Crowd
    <2> HIDE DEF o
    <2> QED
        BY <1>3, <2>2, <2>3
<1>8. w.best_n <= Between(p, n, p[o].time, p[o].time + w.best_span)
    <2> DEFINE A == In(p[o].time, p[o].time + w.best_span)
    <2>1. p[o].time + w.best_span = p[k].time
        BY <1>3, <1>5
    <2>2. o..k \subseteq A
        <3> SUFFICES ASSUME NEW j \in o..k PROVE j \in A
            OBVIOUS
        <3> HIDE DEF o
        <3>1. j \in 1..n /\ o <= j /\ j <= k
            BY <1>4
        <3>2. p[o].time <= p[j].time /\ p[j].time <= p[k].time
            BY <1>4, <3>1 DEF Timed
        <3> QED
            BY <2>1, <3>1, <3>2
    <2>3. IsFiniteSet(A)
        BY <1>1
    <2> HIDE DEF A
    <2>4. Crowd(p, k) <= Cardinality({Adr(p, i) : i \in A})
        BY <2>2, <2>3, FewerBetween DEF Crowd
    <2> QED
        BY <1>3, <2>4 DEF A, Between
<1>9. Between(p, n, p[o].time, p[o].time + w.best_span)
        <= Between(p, n, p[o].time, p[o].time + SprayWindow)
    <2> DEFINE A == In(p[o].time, p[o].time + w.best_span)
               B == In(p[o].time, p[o].time + SprayWindow)
    <2>1. A \subseteq B
        <3> SUFFICES ASSUME NEW j \in A PROVE j \in B
            OBVIOUS
        <3> HIDE DEF o
        <3>1. p[j].time \in Nat
            BY DEF Timed
        <3> QED
            BY <1>5, <1>6, <3>1
    <2>2. IsFiniteSet(B)
        BY <1>1
    <2> HIDE DEF A, B
    <2>3. Cardinality({Adr(p, i) : i \in A}) <= Cardinality({Adr(p, i) : i \in B})
        BY <2>1, <2>2, FewerBetween
    <2> QED
        BY <2>3 DEF A, B, Between
<1>10. /\ Between(p, n, p[o].time, p[o].time + w.best_span) = w.best_n
       /\ Between(p, n, p[o].time, p[o].time + SprayWindow) = w.best_n
    <2> DEFINE a == Between(p, n, p[o].time, p[o].time + w.best_span)
               b == Between(p, n, p[o].time, p[o].time + SprayWindow)
    <2>1. a \in Nat /\ b \in Nat
        BY <1>1
    <2>2. b <= w.best_n
        BY <1>2, <1>4
    <2> HIDE DEF a, b
    <2>3. w.best_n <= a /\ a <= b
        BY <1>8, <1>9 DEF a, b
    <2>4. a = w.best_n /\ b = w.best_n
        BY <1>7, <2>1, <2>2, <2>3
    <2> QED
        BY <2>4 DEF a, b
<1> QED
    BY <1>1, <1>2, <1>4, <1>6, <1>7, <1>10

(* The modules that are instances read positions as this one does.          *)
LEMMA SamePick ==
    /\ \A s, A : Sta!Pick(s, A) = Pick(s, A) /\ L!Pick(s, A) = Pick(s, A)
    /\ \A s : Sta!ByTime(s) = ByTime(s)
<1>1. \A S : L!Cardinality(S) = Cardinality(S)
    BY DEF L!Cardinality, Cardinality
<1>2. \A S, i : Sta!Rank(S, i) = Rank(S, i) /\ L!Rank(S, i) = Rank(S, i)
    BY <1>1, SameCardinality DEF Sta!Rank, L!Rank, Rank
<1>3. \A S, n : Sta!At(S, n) = At(S, n) /\ L!At(S, n) = At(S, n)
    BY <1>2 DEF Sta!At, L!At, At
<1>4. \A s, A : Sta!Pick(s, A) = Pick(s, A) /\ L!Pick(s, A) = Pick(s, A)
    BY <1>1, <1>3, SameCardinality DEF Sta!Pick, L!Pick, Pick
<1>5. \A k, i : Sta!UpTo(k, i) = UpTo(k, i)
    BY DEF Sta!UpTo, UpTo
<1>6. \A s, k : Sta!InOrder(s, k) = InOrder(s, k)
    <2>1. \A k, i : Sta!Cardinality(Sta!UpTo(k, i)) = Cardinality(UpTo(k, i))
        BY <1>5, SameCardinality
    <2> TAKE s, k
    <2> DEFINE F == [n \in DOMAIN s |-> s[CHOOSE i \in DOMAIN s : Sta!Cardinality(Sta!UpTo(k, i)) = n]]
               G == [n \in DOMAIN s |-> s[CHOOSE i \in DOMAIN s : Cardinality(UpTo(k, i)) = n]]
    <2>2. \A n \in DOMAIN s : F[n] = G[n]
        <3> TAKE n \in DOMAIN s
        <3> DEFINE x == CHOOSE i \in DOMAIN s : Sta!Cardinality(Sta!UpTo(k, i)) = n
                   y == CHOOSE i \in DOMAIN s : Cardinality(UpTo(k, i)) = n
        <3>1. x = y
            BY <2>1
        <3>2. F[n] = s[x] /\ G[n] = s[y]
            OBVIOUS
        <3> HIDE DEF x, y, F, G
        <3> QED
            BY <3>1, <3>2
    <2>3. F = [n \in DOMAIN s |-> F[n]] /\ G = [n \in DOMAIN s |-> G[n]]
        OBVIOUS
    <2>4. Sta!InOrder(s, k) = F /\ InOrder(s, k) = G
        BY DEF Sta!InOrder, InOrder
    <2> HIDE DEF F, G
    <2> QED
        BY <2>2, <2>3, <2>4
<1>7. \A s : Sta!ByTime(s) = ByTime(s)
    BY <1>6 DEF Sta!ByTime, ByTime
<1> QED
    BY <1>4, <1>7

(* The attempts are records of auth.log.                                    *)
LEMMA Attempted ==
    ASSUME TypeOK
    PROVE  LET attempt == Sta!Attempts(auth_lines)
           IN  /\ L!Attempts(auth_lines) = attempt
               /\ \E n \in Nat : DOMAIN attempt = 1..n
               /\ \A i \in DOMAIN attempt : attempt[i] \in AuthRecords
<1> DEFINE A == {i \in DOMAIN auth_lines : auth_lines[i].msg = "auth attempt"}
           q == Pick(auth_lines, A)
<1>1. Sta!Attempts(auth_lines) = q /\ L!Attempts(auth_lines) = q
    BY SamePick DEF Sta!Attempts, L!Attempts
<1>2. /\ DOMAIN auth_lines = 1..Len(auth_lines) /\ Len(auth_lines) \in Nat
      /\ \A i \in DOMAIN auth_lines : auth_lines[i] \in AuthRecords
    BY DEF TypeOK
<1>3. IsFiniteSet(A) /\ A \subseteq Nat /\ A \subseteq DOMAIN auth_lines
    <2>1. A \subseteq 1..Len(auth_lines) /\ A \subseteq DOMAIN auth_lines
        BY <1>2
    <2>2. IsFiniteSet(1..Len(auth_lines)) /\ 1..Len(auth_lines) \subseteq Nat
        BY <1>2, FS_Interval
    <2> HIDE DEF A
    <2> QED
        BY <2>1, <2>2, FS_Subset
<1> HIDE DEF A
<1>4. DOMAIN q = 1..Cardinality(A) /\ Cardinality(A) \in Nat
    BY <1>3, PickReads, FS_CardinalityType
<1>5. {q[n] : n \in DOMAIN q} = {auth_lines[i] : i \in A}
    BY <1>3, PickReads
<1> HIDE DEF q
<1>6. \A i \in DOMAIN q : q[i] \in AuthRecords
    BY <1>2, <1>3, <1>5
<1> QED
    BY <1>1, <1>4, <1>6

(* What is below a microsecond is cut; the rest of an attempt stays.         *)
LEMMA MicrosTyped ==
    ASSUME NEW t \in Nat PROVE Micros(t) \in Nat /\ Micros(t) <= t
<1>1. Micro \in Nat \ {0}
    BY TicksAssumption
<1> DEFINE q == t \div Micro
           r == t % Micro
<1>2. t = Micro * q + r /\ q \in Nat /\ r \in Nat
    BY <1>1
<1> HIDE DEF q, r
<1>3. Micro * q \in Nat
    BY <1>1, <1>2
<1>4. t - r \in Nat /\ t - r <= t
    BY <1>2, <1>3
<1> QED
    BY <1>4 DEF Micros, r

LEMMA ParsedAttempt ==
    ASSUME NEW e \in AuthRecords, e.time \in Nat
    PROVE  /\ Sta!ParseTs(e).time = Micros(e.time) /\ Sta!ParseTs(e).time \in Nat
           /\ Sta!ParseTs(e).remote = e.remote
<1>1. "time" \in DOMAIN e /\ "remote" \in DOMAIN e
    BY RecordsAssumption
<1>2. Sta!ParseTs(e) = [e EXCEPT !.time = Micros(e.time)]
    BY DEF Sta!ParseTs, Sta!Micros, Micros
<1>3. Micros(e.time) \in Nat
    BY MicrosTyped
<1> QED
    BY <1>1, <1>2, <1>3

(* The bucket of a credential holds the attempts on it, in order of time.   *)
LEMMA BucketIs ==
    ASSUME TypeOK, NEW cred \in Sta!Credentials(auth_lines)
    PROVE  LET p == Sta!Bucket(auth_lines, cred)
           IN  \E n \in Nat :
                 /\ n > 0 /\ DOMAIN p = 1..n /\ Len(p) = n /\ Timed(p, n)
                 /\ {p[i] : i \in 1..n} =
                      {Sta!ParseTs(e) : e \in
                         {q \in ToSet(L!Attempts(auth_lines)) :
                             Sta!Complete(q) /\ <<q.password, q.user>> = cred}}
                 /\ \A i \in 1..n : \E e \in ToSet(Sta!Attempts(auth_lines)) :
                        e.remote # NoText /\ p[i].remote = e.remote
<1> DEFINE attempt == Sta!Attempts(auth_lines)
           own == {i \in DOMAIN attempt : /\ Sta!Complete(attempt[i])
                                          /\ <<attempt[i].password, attempt[i].user>> = cred}
           q == Pick(attempt, own)
           r == [i \in DOMAIN q |-> Sta!ParseTs(q[i])]
           p == ByTime(r)
           n == Cardinality(own)
           tried == {e \in ToSet(attempt) : Sta!Complete(e) /\ <<e.password, e.user>> = cred}
<1>1. Sta!Bucket(auth_lines, cred) = p
    BY SamePick DEF Sta!Bucket
<1>2. /\ L!Attempts(auth_lines) = attempt
      /\ \E m \in Nat : DOMAIN attempt = 1..m
      /\ \A i \in DOMAIN attempt : attempt[i] \in AuthRecords
    BY Attempted
<1> HIDE DEF attempt
<1>3. IsFiniteSet(own) /\ own \subseteq Nat /\ own \subseteq DOMAIN attempt
    <2>1. PICK m \in Nat : DOMAIN attempt = 1..m
        BY <1>2
    <2>2. IsFiniteSet(1..m) /\ own \subseteq 1..m
        BY <2>1, FS_Interval
    <2> QED
        BY <2>2, FS_Subset
<1>4. own # {}
    <2>1. PICK e \in ToSet(attempt) : Sta!Complete(e) /\ cred = <<e.password, e.user>>
        BY DEF Sta!Credentials, attempt, Sta!ToSet, ToSet
    <2>2. PICK i \in DOMAIN attempt : e = attempt[i]
        BY <2>1 DEF ToSet
    <2> QED
        BY <2>1, <2>2
<1>5. \A i \in own : /\ attempt[i].time \in Nat /\ attempt[i] \in AuthRecords
                      /\ attempt[i].remote # NoText
    BY <1>2, <1>3, TimesAssumption DEF Sta!Complete
<1>6. {attempt[i] : i \in own} = tried
    BY DEF ToSet
<1>7. \A i \in own : attempt[i] \in ToSet(attempt)
    BY <1>3 DEF ToSet
<1> HIDE DEF own, tried
<1>8. n \in Nat /\ n > 0
    <2>1. n \in Nat /\ n # 0
        BY <1>3, <1>4, FS_CardinalityType, FS_EmptySet
    <2> HIDE DEF n
    <2> QED
        BY <2>1
<1>9. DOMAIN q = 1..n
    BY <1>3, PickReads
<1>10. {q[i] : i \in 1..n} = {attempt[i] : i \in own}
    BY <1>3, PickReads
<1> HIDE DEF q, n
<1>11. DOMAIN r = 1..n /\ \A i \in 1..n : r[i] = Sta!ParseTs(q[i])
    BY <1>9
<1>12. \A i \in 1..n : \E j \in own : q[i] = attempt[j]
    BY <1>10
<1> HIDE DEF r
<1>13. \A i \in 1..n :
          /\ r[i].time \in Nat
          /\ \E e \in ToSet(attempt) : e.remote # NoText /\ r[i].remote = e.remote
    <2> TAKE i \in 1..n
    <2>1. PICK j \in own : q[i] = attempt[j]
        BY <1>12
    <2>2. /\ attempt[j] \in AuthRecords /\ attempt[j].time \in Nat
          /\ attempt[j].remote # NoText /\ attempt[j] \in ToSet(attempt)
        BY <1>5, <1>7
    <2>3. r[i].time \in Nat /\ r[i].remote = attempt[j].remote
        BY <1>11, <2>1, <2>2, ParsedAttempt
    <2> QED
        BY <2>2, <2>3
<1>14. {r[i] : i \in 1..n} = {Sta!ParseTs(e) : e \in tried}
    <2>1. {r[i] : i \in 1..n} = {Sta!ParseTs(e) : e \in {q[i] : i \in 1..n}}
        BY <1>11
    <2> QED
        BY <1>6, <1>10, <2>1
<1>15. /\ DOMAIN p = 1..n /\ Len(p) = n
       /\ \A i, j \in 1..n : i <= j => p[i].time <= p[j].time
    BY <1>8, <1>11, <1>13, TimeReads
<1>16. {p[i] : i \in 1..n} = {r[i] : i \in 1..n}
    BY <1>8, <1>11, <1>13, TimeReads
<1> HIDE DEF p
<1>17. \A i \in 1..n :
          /\ p[i].time \in Nat
          /\ \E e \in ToSet(attempt) : e.remote # NoText /\ p[i].remote = e.remote
    BY <1>13, <1>16
<1>18. Timed(p, n)
    BY <1>15, <1>17 DEF Timed
<1>19. {p[i] : i \in 1..n} = {Sta!ParseTs(e) : e \in tried}
    BY <1>14, <1>16
<1>20. \E m \in Nat : /\ m > 0 /\ DOMAIN p = 1..m /\ Len(p) = m /\ Timed(p, m)
                       /\ {p[i] : i \in 1..m} = {Sta!ParseTs(e) : e \in tried}
                       /\ \A i \in 1..m : \E e \in ToSet(attempt) :
                              e.remote # NoText /\ p[i].remote = e.remote
    BY <1>8, <1>15, <1>17, <1>18, <1>19, Zenon
<1> QED
    BY <1>1, <1>2, <1>20 DEF tried, attempt

(* SprayExact of one credential.                                            *)
LEMMA SpraysFound ==
    ASSUME TypeOK, NEW cred \in Sta!Credentials(auth_lines)
    PROVE  LET tried == {Sta!ParseTs(e) : e \in
                           {q \in ToSet(L!Attempts(auth_lines)) :
                               Sta!Complete(q) /\ <<q.password, q.user>> = cred}}
               Within(from, to) ==
                   Cardinality({Sta!strip_port(e.remote) : e \in
                       {q \in tried : from <= q.time /\ q.time <= to}})
               found == Sta!Window(auth_lines, cred)
               most == Max({Within(e.time, e.time + SprayWindow) : e \in tried})
           IN  /\ found.best_n = most
               /\ cred \in Sta!Sprays(auth_lines) <=> most >= SPRAY_MIN_IPS
               /\ \E e \in tried : Within(e.time, e.time + found.best_span) = found.best_n
               /\ found.best_span <= SprayWindow
<1> DEFINE p == Sta!Bucket(auth_lines, cred)
           tried == {Sta!ParseTs(e) : e \in
                       {q \in ToSet(L!Attempts(auth_lines)) :
                           Sta!Complete(q) /\ <<q.password, q.user>> = cred}}
           I == Sta!SourceIPs(auth_lines)
           w == Sta!Window(auth_lines, cred)
<1>1. PICK n \in Nat : /\ n > 0 /\ DOMAIN p = 1..n /\ Len(p) = n /\ Timed(p, n)
                       /\ {p[i] : i \in 1..n} = tried
                       /\ \A i \in 1..n : \E e \in ToSet(Sta!Attempts(auth_lines)) :
                              e.remote # NoText /\ p[i].remote = e.remote
    BY BucketIs
<1>2. \A i \in 1..n : Adr(p, i) \in I
    <2> SUFFICES ASSUME NEW i \in 1..n PROVE Adr(p, i) \in I
        OBVIOUS
    <2>1. PICK e \in ToSet(Sta!Attempts(auth_lines)) : e.remote # NoText /\ p[i].remote = e.remote
        BY <1>1
    <2>2. e.remote \in Sta!Values(Sta!Attempts(auth_lines), LAMBDA x : x.remote)
        BY <2>1 DEF Sta!Values, ToSet, Sta!ToSet
    <2>3. Sta!strip_port(e.remote) \in I
        BY <2>2 DEF Sta!SourceIPs
    <2> QED
        BY <2>1, <2>3 DEF Adr
<1>3. Sliding(p, I, w, n)
    <2> DEFINE e == [left |-> 1, best_n |-> 0, best_span |-> 0, ip_counts |-> [ip \in I |-> 0]]
               h == CHOOSE g : g = [r \in 0..n |-> IF r = 0 THEN e ELSE Sta!Slide(p, g[r - 1], r)]
    <2>1. h = [r \in 0..n |-> IF r = 0 THEN e ELSE Sta!Slide(p, h[r - 1], r)]
        <3> HIDE DEF e, p
        <3> QED
            BY WindowRuns
    <2>2. w = h[n]
        <3> HIDE DEF p, I
        <3>1. Sta!Len(p) = n
            BY <1>1
        <3>2. p # <<>>
            BY <1>1
        <3> QED
            BY <1>1, <3>1, <3>2 DEF Sta!Window, p, I
    <2>3. e = [left |-> 1, best_n |-> 0, best_span |-> 0, ip_counts |-> [ip \in I |-> 0]]
        OBVIOUS
    <2> HIDE DEF e, h, p, I, w
    <2>4. Sliding(p, I, h[n], n)
        BY <1>1, <1>2, <2>1, <2>3, WindowSlides
    <2> QED
        BY <2>2, <2>4
<1> DEFINE Within(from, to) ==
               Cardinality({Sta!strip_port(e.remote) : e \in
                   {q \in tried : from <= q.time /\ q.time <= to}})
           most == Max({Within(e.time, e.time + SprayWindow) : e \in tried})
<1>4. ASSUME NEW from, NEW to PROVE Within(from, to) = Between(p, n, from, to)
    <2> HIDE DEF p, tried
    <2>1. {Sta!strip_port(e.remote) : e \in {q \in tried : from <= q.time /\ q.time <= to}}
          = {Adr(p, i) : i \in {j \in 1..n : from <= p[j].time /\ p[j].time <= to}}
        <3>1. \A i \in 1..n : Adr(p, i) = Sta!strip_port(p[i].remote)
            BY DEF Adr
        <3> QED
            BY <1>1, <3>1
    <2> QED
        BY <2>1 DEF Between
<1> HIDE DEF Within, tried, p, w, I
<1>5. /\ w.best_n \in Nat /\ w.best_n <= n /\ w.best_span <= SprayWindow
      /\ \A i \in 1..n : /\ Within(p[i].time, p[i].time + SprayWindow) \in Nat
                          /\ Within(p[i].time, p[i].time + SprayWindow) <= w.best_n
      /\ \E i \in 1..n : /\ Within(p[i].time, p[i].time + w.best_span) = w.best_n
                          /\ Within(p[i].time, p[i].time + SprayWindow) = w.best_n
    BY <1>1, <1>3, <1>4, WindowExact
<1>6. most = w.best_n
    <2> DEFINE M == {Within(e.time, e.time + SprayWindow) : e \in tried}
    <2>1. M \in SUBSET Nat /\ w.best_n \in M /\ \A m \in M : m <= w.best_n
        BY <1>1, <1>5
    <2> HIDE DEF M
    <2>2. Max(M) \in M /\ \A m \in M : m <= Max(M)
        BY <1>5, <2>1, GreatestNat
    <2>3. Max(M) \in Nat /\ Max(M) <= w.best_n /\ w.best_n <= Max(M)
        BY <2>1, <2>2
    <2>4. Max(M) = w.best_n
        BY <1>5, <2>3
    <2> QED
        BY <2>4 DEF M
<1>7. cred \in Sta!Sprays(auth_lines) <=> w.best_n >= SPRAY_MIN_IPS
    <2>1. cred \in Sta!Sprays(auth_lines) <=> n >= SPRAY_MIN_IPS /\ w.best_n >= SPRAY_MIN_IPS
        BY <1>1 DEF Sta!Sprays, p, w
    <2> QED
        BY <1>5, <2>1, SprayAssumption
<1>8. \E e \in tried : Within(e.time, e.time + w.best_span) = w.best_n
    BY <1>1, <1>5
<1> HIDE DEF most
<1> QED
    BY <1>5, <1>6, <1>7, <1>8 DEF tried, w, Within, most

(* SprayExact holds of all logs.                                            *)
LEMMA SpraysAll == TypeOK => SprayExact
BY SpraysFound DEF SprayExact

----------------------------------------------------------------------------
(* Sums: a finite function can be summed up, in any order of its arguments. *)
(* A non-empty set of subsets of a finite set has a minimal element.  This  *)
(* is induction without an operator parameter: the elements are those for   *)
(* which a claim fails, and a minimal one is the first to fail.             *)
LEMMA MinimalSubset ==
    ASSUME NEW S, IsFiniteSet(S), NEW B, B \subseteq SUBSET S, B # {}
    PROVE  \E X \in B : \A Y \in B : Y \subseteq X => Y = X
<1>1. IsWellFoundedOn(StrictSubsetOrdering(S), FiniteSubsetsOf(S))
    BY FS_StrictSubsetOrderingWellFounded
<1>2. B \subseteq FiniteSubsetsOf(S)
    BY FS_FiniteSubsetsOfFinite
<1>3. \E X \in B : \A Y \in B : <<Y, X>> \notin StrictSubsetOrdering(S)
    BY <1>1, <1>2, WFMin
<1> QED
    BY <1>3 DEF StrictSubsetOrdering

(* it adds f up over every subset of S, in the order of CHOOSE; and: in any *)
(* order.                                                                   *)
Adds(it, f, S) ==
    it = [s \in SUBSET S |->
             IF s = {} THEN 0
             ELSE f[CHOOSE x \in s : TRUE] + it[s \ {CHOOSE x \in s : TRUE}]]

Steps(it, f, S) ==
    \A X \in SUBSET S : it[X] \in Int /\ \A x \in X : it[X] = f[x] + it[X \ {x}]

(* What the equation says of one subset.                                    *)
LEMMA AddsIs ==
    ASSUME NEW it, NEW f, NEW S, Adds(it, f, S)
    PROVE  /\ it[{}] = 0
           /\ \A X \in SUBSET S : X # {} =>
                  it[X] = f[CHOOSE x \in X : TRUE] + it[X \ {CHOOSE x \in X : TRUE}]
BY DEF Adds

(* There is such a function.                                                *)
LEMMA AddsExists ==
    ASSUME NEW f, NEW S, IsFiniteSet(S)
    PROVE  \E it : Adds(it, f, S)
<1> DEFINE c == Cardinality(S)
           Small(n) == {s \in SUBSET S : Cardinality(s) <= n}
           Rest(s) == s \ {CHOOSE x \in s : TRUE}
           Upto(n) == \E h : \A s \in Small(n) :
                          h[s] = IF s = {} THEN 0 ELSE f[CHOOSE x \in s : TRUE] + h[Rest(s)]
<1>0. \A s \in SUBSET S : IsFiniteSet(s) /\ Cardinality(s) \in Nat /\ Cardinality(s) <= c
    BY FS_Subset, FS_CardinalityType
<1>1. c \in Nat
    BY FS_CardinalityType
<1>2. Upto(0)
    <2> DEFINE h == [s \in SUBSET S |-> 0]
    <2>1. \A s \in Small(0) : s = {} /\ h[s] = 0
        <3> SUFFICES ASSUME NEW s \in Small(0) PROVE s = {} /\ h[s] = 0
            OBVIOUS
        <3>1. Cardinality(s) = 0 /\ IsFiniteSet(s)
            BY <1>0
        <3> QED
            BY <3>1, FS_EmptySet
    <2> HIDE DEF h, Small
    <2> QED
        BY <2>1
<1>3. ASSUME NEW n \in Nat, n # 0, Upto(n - 1) PROVE Upto(n)
    <2>1. PICK h : \A s \in Small(n - 1) :
              h[s] = IF s = {} THEN 0 ELSE f[CHOOSE x \in s : TRUE] + h[Rest(s)]
        BY <1>3
    <2> DEFINE g == [s \in SUBSET S |-> IF s \in Small(n - 1) THEN h[s]
                                        ELSE f[CHOOSE x \in s : TRUE] + h[Rest(s)]]
    <2>2. ASSUME NEW s \in Small(n), s # {} PROVE Rest(s) \in Small(n - 1)
        <3>1. (CHOOSE x \in s : TRUE) \in s
            BY <2>2
        <3>2. IsFiniteSet(s) /\ Cardinality(s) \in Nat /\ Cardinality(s) <= n
            BY <1>0
        <3>3. Cardinality(Rest(s)) = Cardinality(s) - 1
            BY <3>1, <3>2, FS_RemoveElement
        <3> QED
            BY <3>2, <3>3
    <2>3. \A s \in Small(n) : g[s] = IF s = {} THEN 0 ELSE f[CHOOSE x \in s : TRUE] + g[Rest(s)]
        <3> SUFFICES ASSUME NEW s \in Small(n)
                     PROVE  g[s] = IF s = {} THEN 0 ELSE f[CHOOSE x \in s : TRUE] + g[Rest(s)]
            OBVIOUS
        <3>1. CASE s = {}
            <4>1. {} \in Small(n - 1)
                BY <1>3, FS_EmptySet
            <4>2. g[{}] = h[{}] /\ h[{}] = 0
                <5> HIDE DEF Small
                <5> QED
                    BY <2>1, <4>1
            <4> QED
                BY <3>1, <4>2
        <3>2. CASE s # {}
            <4>1. Rest(s) \in Small(n - 1) /\ Rest(s) \in SUBSET S
                BY <2>2, <3>2
            <4>2. g[Rest(s)] = h[Rest(s)]
                <5> HIDE DEF Small, Rest
                <5> QED
                    BY <4>1
            <4>3. g[s] = f[CHOOSE x \in s : TRUE] + h[Rest(s)]
                <5>1. s \in SUBSET S
                    OBVIOUS
                <5> HIDE DEF Small, Rest
                <5> QED
                    BY <2>1, <3>2, <5>1
            <4> HIDE DEF g
            <4> QED
                BY <3>2, <4>2, <4>3
        <3> QED
            BY <3>1, <3>2
    <2> HIDE DEF g, Small, Rest
    <2> QED
        BY <2>3
<1> HIDE DEF Upto
<1>4. Upto(c)
    <2> DEFINE X == {n \in Nat : ~Upto(n)}
    <2> SUFFICES ASSUME X # {} PROVE FALSE
        BY <1>1
    <2>1. PICK n \in X : \A m \in X : n <= m
        <3>1. X \in SUBSET Nat
            OBVIOUS
        <3> HIDE DEF X
        <3> QED
            BY <3>1, SomeLeast
    <2>2. n \in Nat /\ n # 0 /\ ~Upto(n)
        BY <1>2
    <2>3. n - 1 \in Nat /\ ~(n <= n - 1)
        BY <2>2
    <2>4. Upto(n - 1)
        BY <2>1, <2>3
    <2> QED
        BY <1>3, <2>2, <2>4
<1>5. PICK h : \A s \in Small(c) :
          h[s] = IF s = {} THEN 0 ELSE f[CHOOSE x \in s : TRUE] + h[Rest(s)]
    BY <1>4 DEF Upto
<1> DEFINE it == [s \in SUBSET S |-> h[s]]
<1>6. \A s \in SUBSET S :
          it[s] = IF s = {} THEN 0 ELSE f[CHOOSE x \in s : TRUE] + it[Rest(s)]
    <2> TAKE s \in SUBSET S
    <2>1. s \in Small(c) /\ Rest(s) \in SUBSET S
        BY <1>0
    <2>2. it[s] = h[s] /\ it[Rest(s)] = h[Rest(s)]
        BY <2>1
    <2> HIDE DEF it, Small, Rest
    <2> QED
        BY <1>5, <2>1, <2>2
<1>7. it = [s \in SUBSET S |-> it[s]]
    OBVIOUS
<1> HIDE DEF it
<1>8. Adds(it, f, S)
    BY <1>6, <1>7 DEF Adds
<1> QED
    BY <1>8

(* SumFunction is its value for the domain.                                 *)
LEMMA SumIs ==
    ASSUME NEW f, IsFiniteSet(DOMAIN f)
    PROVE  \E it : Adds(it, f, DOMAIN f) /\ SumFunction(f) = it[DOMAIN f]
<1> DEFINE S == DOMAIN f
           it == CHOOSE iter : Adds(iter, f, S)
<1>1. SumFunction(f) = it[S]
    BY DEF SumFunction, SumFunctionOnSet, FoldFunctionOnSet, MapThenFoldSet, Adds
<1>2. Adds(it, f, S)
    BY AddsExists
<1> QED
    BY <1>1, <1>2

(* The order does not matter.                                               *)
LEMMA AddsAny ==
    ASSUME NEW S, IsFiniteSet(S), NEW f, \A x \in S : f[x] \in Int,
           NEW it, Adds(it, f, S)
    PROVE  Steps(it, f, S)
<1> DEFINE Right(Y) == it[Y] \in Int /\ \A x \in Y : it[Y] = f[x] + it[Y \ {x}]
           B == {Y \in SUBSET S : ~Right(Y)}
<1> SUFFICES ASSUME B # {} PROVE FALSE
    BY DEF Steps
<1>1. PICK Y \in B : \A Z \in B : Z \subseteq Y => Z = Y
    <2>1. B \subseteq SUBSET S
        OBVIOUS
    <2> HIDE DEF B
    <2> QED
        BY <2>1, MinimalSubset
<1>2. \A Z : Z \subseteq Y /\ Z # Y => Right(Z)
    <2>1. \A Z : Z \subseteq Y => Z \in SUBSET S
        OBVIOUS
    <2> HIDE DEF Right
    <2> QED
        BY <1>1, <2>1
<1>3. Y \in SUBSET S /\ ~Right(Y)
    OBVIOUS
<1>4. Y # {}
    <2>1. Right({})
        BY AddsIs
    <2> QED
        BY <1>3, <2>1
<1> DEFINE c == CHOOSE x \in Y : TRUE
<1>5. c \in Y /\ it[Y] = f[c] + it[Y \ {c}]
    BY <1>3, <1>4, AddsIs
<1> HIDE DEF c
<1>6. Right(Y \ {c})
    <2>1. Y \ {c} \subseteq Y /\ Y \ {c} # Y
        BY <1>5
    <2> HIDE DEF Right
    <2> QED
        BY <1>2, <2>1
<1>7. it[Y] \in Int
    <2>1. f[c] \in Int /\ it[Y \ {c}] \in Int
        BY <1>3, <1>5, <1>6
    <2> QED
        BY <1>5, <2>1
<1>8. ASSUME NEW x \in Y PROVE it[Y] = f[x] + it[Y \ {x}]
    <2>1. CASE x = c
        BY <1>5, <2>1
    <2>2. CASE x # c
        <3> DEFINE Z == Y \ {c, x}
        <3>1. /\ (Y \ {c}) \ {x} = Z /\ (Y \ {x}) \ {c} = Z
              /\ x \in Y \ {c} /\ c \in Y \ {x}
            BY <1>5, <2>2
        <3>2. Right(Y \ {x}) /\ Right(Z)
            <4>1. Y \ {x} \subseteq Y /\ Y \ {x} # Y /\ Z \subseteq Y /\ Z # Y
                BY <1>5
            <4> HIDE DEF Right, Z
            <4> QED
                BY <1>2, <4>1
        <3> HIDE DEF Z
        <3>3. it[Y \ {c}] = f[x] + it[Z]
            BY <1>6, <3>1
        <3>4. it[Y \ {x}] = f[c] + it[Z]
            BY <3>1, <3>2
        <3>5. f[c] \in Int /\ f[x] \in Int /\ it[Z] \in Int
            BY <1>3, <1>5, <3>2
        <3> QED
            BY <1>5, <3>3, <3>4, <3>5
    <2> QED
        BY <2>1, <2>2
<1> HIDE DEF c
<1> QED
    BY <1>3, <1>7, <1>8

(* A sum of the sizes of disjoint sets is the size of their union.          *)
LEMMA SumCount ==
    ASSUME NEW f, IsFiniteSet(DOMAIN f), NEW P,
           \A x \in DOMAIN f : IsFiniteSet(P[x]) /\ f[x] = Cardinality(P[x]),
           \A x, y \in DOMAIN f : x # y => P[x] \cap P[y] = {}
    PROVE  SumFunction(f) = Cardinality(UNION {P[x] : x \in DOMAIN f})
<1> DEFINE S == DOMAIN f
           U(X) == UNION {P[x] : x \in X}
<1>1. PICK it : Adds(it, f, S) /\ SumFunction(f) = it[S]
    BY SumIs
<1>2. \A x \in S : f[x] \in Int
    BY FS_CardinalityType
<1> DEFINE B == {X \in SUBSET S : ~(IsFiniteSet(U(X)) /\ it[X] = Cardinality(U(X)))}
<1>3. B = {}
    <2> SUFFICES ASSUME B # {} PROVE FALSE
        OBVIOUS
    <2>1. PICK X \in B : \A Y \in B : Y \subseteq X => Y = X
        <3>1. B \subseteq SUBSET S
            OBVIOUS
        <3> HIDE DEF B
        <3> QED
            BY <3>1, MinimalSubset
    <2>2. X # {}
        <3>1. U({}) = {} /\ it[{}] = 0
            BY <1>1, AddsIs
        <3>2. IsFiniteSet(U({})) /\ it[{}] = Cardinality(U({}))
            BY <3>1, FS_EmptySet
        <3> QED
            BY <3>2
    <2>3. PICK x \in X : TRUE
        BY <2>2
    <2> DEFINE Y == X \ {x}
    <2>4. X \in SUBSET S /\ Y \in SUBSET S /\ x \in S /\ Y \subseteq X /\ Y # X
        OBVIOUS
    <2>5. IsFiniteSet(U(Y)) /\ it[Y] = Cardinality(U(Y))
        <3> HIDE DEF Y, U
        <3>1. Y \notin B
            BY <2>1, <2>4
        <3> QED
            BY <2>4, <3>1
    <2>6. it[X] = f[x] + it[Y]
        <3> HIDE DEF U, B
        <3> QED
            BY <1>1, <1>2, <2>4, AddsAny DEF Steps
    <2>7. U(X) = U(Y) \cup P[x] /\ U(Y) \cap P[x] = {}
        OBVIOUS
    <2>8. IsFiniteSet(P[x]) /\ f[x] = Cardinality(P[x])
        BY <2>4
    <2> DEFINE V == U(Y)
               W == U(X)
    <2>9. IsFiniteSet(V) /\ it[Y] = Cardinality(V) /\ W = V \cup P[x] /\ V \cap P[x] = {}
        BY <2>5, <2>7
    <2>10. IsFiniteSet(W) /\ Cardinality(W) = Cardinality(V) + Cardinality(P[x])
        <3> HIDE DEF V, W
        <3>1. IsFiniteSet(W) /\ Cardinality(W) = Cardinality(V) + Cardinality(P[x]) - Cardinality(V \cap P[x])
            BY <2>8, <2>9, FS_Union
        <3>2. Cardinality(V \cap P[x]) = 0 /\ Cardinality(V) \in Nat /\ Cardinality(P[x]) \in Nat
            BY <2>8, <2>9, FS_EmptySet, FS_CardinalityType
        <3> QED
            BY <3>1, <3>2
    <2>11. it[X] = Cardinality(W)
        <3> HIDE DEF V, W, Y
        <3>1. Cardinality(V) \in Nat /\ Cardinality(P[x]) \in Nat
            BY <2>8, <2>9, FS_CardinalityType
        <3> QED
            BY <2>6, <2>8, <2>9, <2>10, <3>1
    <2> QED
        BY <2>10, <2>11
<1>4. S \in SUBSET S
    OBVIOUS
<1>5. it[S] = Cardinality(U(S))
    <2> HIDE DEF U
    <2> QED
        BY <1>3, <1>4
<1> QED
    BY <1>1, <1>5

(* A sum is built one argument at a time, in any order.                     *)
LEMMA SumSteps ==
    ASSUME NEW f, IsFiniteSet(DOMAIN f), \A x \in DOMAIN f : f[x] \in Int
    PROVE  \E it : /\ SumFunction(f) = it[DOMAIN f] /\ it[{}] = 0
                   /\ Steps(it, f, DOMAIN f)
<1> DEFINE S == DOMAIN f
<1>1. PICK it : Adds(it, f, S) /\ SumFunction(f) = it[S]
    BY SumIs
<1>2. IsFiniteSet(S) /\ (\A x \in S : f[x] \in Int) /\ it[{}] = 0
    BY <1>1, AddsIs
<1>3. Steps(it, f, S)
    <2> HIDE DEF S
    <2> QED
        BY <1>1, <1>2, AddsAny
<1> QED
    BY <1>1, <1>2, <1>3

(* The changes between neighbours add up to the change from first to last.  *)
LEMMA ChangesSum ==
    ASSUME NEW m \in Nat, NEW a, \A i \in 1..(m + 1) : a[i] \in Int,
           NEW f, f = [i \in 1..m |-> a[i + 1] - a[i]]
    PROVE  a[1] + SumFunction(f) = a[m + 1]
<1> DEFINE S == 1..m
<1>1. IsFiniteSet(S) /\ DOMAIN f = S
    BY FS_Interval
<1>3. \A i \in S : i \in 1..(m + 1) /\ i + 1 \in 1..(m + 1) /\ f[i] = a[i + 1] - a[i] /\ f[i] \in Int
    <2> TAKE i \in S
    <2>1. i \in 1..(m + 1) /\ i + 1 \in 1..(m + 1)
        OBVIOUS
    <2>2. a[i] \in Int /\ a[i + 1] \in Int
        BY <2>1
    <2> QED
        BY <2>1, <2>2
<1>2. PICK it : /\ SumFunction(f) = it[S] /\ it[{}] = 0
                /\ Steps(it, f, S)
    <2>1. IsFiniteSet(DOMAIN f) /\ \A x \in DOMAIN f : f[x] \in Int
        BY <1>1, <1>3
    <2>2. \E it : /\ SumFunction(f) = it[DOMAIN f] /\ it[{}] = 0
                  /\ Steps(it, f, DOMAIN f)
        BY <2>1, SumSteps
    <2> QED
        BY <1>1, <2>2
<1> DEFINE X == {k \in 0..m : ~(a[1] + it[1..k] = a[k + 1])}
<1>4. X = {}
    <2> SUFFICES ASSUME X # {} PROVE FALSE
        OBVIOUS
    <2>1. PICK k \in X : \A j \in X : k <= j
        <3>1. X \in SUBSET Nat
            OBVIOUS
        <3> HIDE DEF X
        <3> QED
            BY <3>1, SomeLeast
    <2>2. k \in 0..m /\ ~(a[1] + it[1..k] = a[k + 1])
        OBVIOUS
    <2>3. k # 0
        <3>1. 1..0 = {} /\ it[{}] = 0
            BY <1>2
        <3>2. a[1] \in Int
            OBVIOUS
        <3>3. a[1] + it[1..0] = a[0 + 1]
            BY <3>1, <3>2
        <3> QED
            BY <2>2, <3>3
    <2>4. k \in S /\ k - 1 \in 0..m /\ ~(k <= k - 1) /\ (k - 1) + 1 = k
        BY <2>2, <2>3
    <2>5. a[1] + it[1..(k - 1)] = a[k]
        <3>1. k - 1 \notin X
            BY <2>1, <2>4
        <3>2. a[1] + it[1..(k - 1)] = a[(k - 1) + 1]
            BY <2>4, <3>1
        <3> QED
            BY <2>4, <3>2
    <2>6. (1..k) \in SUBSET S /\ k \in 1..k /\ (1..k) \ {k} = 1..(k - 1) /\ 1..(k - 1) \in SUBSET S
        BY <2>4
    <2>7. it[1..k] = f[k] + it[1..(k - 1)] /\ it[1..(k - 1)] \in Int
        <3> HIDE DEF X
        <3>2. it[1..k] = f[k] + it[(1..k) \ {k}]
            BY <1>2, <2>6 DEF Steps
        <3> QED
            BY <1>2, <2>6, <3>2 DEF Steps
    <2>8. f[k] = a[k + 1] - a[k] /\ a[1] \in Int /\ a[k] \in Int /\ a[k + 1] \in Int
        BY <1>3, <2>4
    <2>9. a[1] + it[1..k] = a[k + 1]
        <3> DEFINE u == it[1..k]
                   v == it[1..(k - 1)]
        <3>1. u = f[k] + v /\ v \in Int /\ a[1] + v = a[k]
            BY <2>5, <2>7
        <3> HIDE DEF u, v
        <3>2. a[1] + u = a[k + 1]
            BY <2>8, <3>1
        <3> QED
            BY <3>2 DEF u
    <2> QED
        BY <2>2, <2>9
<1>5. m \in 0..m
    OBVIOUS
<1>6. a[1] + it[1..m] = a[m + 1]
    BY <1>4, <1>5
<1> QED
    BY <1>2, <1>6

----------------------------------------------------------------------------
(* The instance of Periods reads positions as this module does.             *)
LEMMA SamePer ==
    /\ \A S : Per!Cardinality(S) = Cardinality(S) /\ L!Cardinality(S) = Cardinality(S)
    /\ \A s, A : Per!Pick(s, A) = Pick(s, A)
    /\ \A s : Per!ByTime(s) = ByTime(s)
<1>1. \A S : Per!Cardinality(S) = Cardinality(S) /\ L!Cardinality(S) = Cardinality(S)
    BY DEF Per!Cardinality, L!Cardinality, Cardinality
<1>2. \A S, i : Per!Rank(S, i) = Rank(S, i)
    BY <1>1 DEF Per!Rank, Rank
<1>3. \A S, n : Per!At(S, n) = At(S, n)
    BY <1>2 DEF Per!At, At
<1>4. \A s, A : Per!Pick(s, A) = Pick(s, A)
    BY <1>1, <1>3 DEF Per!Pick, Pick
<1>5. \A k, i : Per!UpTo(k, i) = UpTo(k, i)
    BY DEF Per!UpTo, UpTo
<1>6. \A s, k : Per!InOrder(s, k) = InOrder(s, k)
    <2>1. \A k, i : Per!Cardinality(Per!UpTo(k, i)) = Cardinality(UpTo(k, i))
        BY <1>5, <1>1
    <2> TAKE s, k
    <2> DEFINE F == [n \in DOMAIN s |-> s[CHOOSE i \in DOMAIN s : Per!Cardinality(Per!UpTo(k, i)) = n]]
               G == [n \in DOMAIN s |-> s[CHOOSE i \in DOMAIN s : Cardinality(UpTo(k, i)) = n]]
    <2>2. \A n \in DOMAIN s : F[n] = G[n]
        <3> TAKE n \in DOMAIN s
        <3> DEFINE x == CHOOSE i \in DOMAIN s : Per!Cardinality(Per!UpTo(k, i)) = n
                   y == CHOOSE i \in DOMAIN s : Cardinality(UpTo(k, i)) = n
        <3>1. x = y
            BY <2>1
        <3>2. F[n] = s[x] /\ G[n] = s[y]
            OBVIOUS
        <3> HIDE DEF x, y, F, G
        <3> QED
            BY <3>1, <3>2
    <2>3. F = [n \in DOMAIN s |-> F[n]] /\ G = [n \in DOMAIN s |-> G[n]]
        OBVIOUS
    <2>4. Per!InOrder(s, k) = F /\ InOrder(s, k) = G
        BY DEF Per!InOrder, InOrder
    <2> HIDE DEF F, G
    <2> QED
        BY <2>2, <2>3, <2>4
<1>7. \A s : Per!ByTime(s) = ByTime(s)
    BY <1>6 DEF Per!ByTime, ByTime
<1> QED
    BY <1>1, <1>4, <1>7

(* What parse_ts makes of a time.                                           *)
LEMMA ParseTyped ==
    ASSUME NEW t \in Nat \cup {NoText}
    PROVE  Per!ParseTs(t) \in Nat \cup {NoText}
<1>1. t # NoText => Per!Micros(t) \in Nat
    BY MicrosTyped DEF Per!Micros, Micros
<1> QED
    BY <1>1 DEF Per!ParseTs

(* The starts of the server in order: each period ends where the next one   *)
(* starts, and the last one does not.                                       *)
LEMMA PeriodsAre ==
    ASSUME TypeOK
    PROVE  LET periods == Per!DetectPeriods(server_lines)
           IN  \E n \in Nat :
                 /\ DOMAIN periods = 1..n
                 /\ n = 0 => periods = <<>>
                 /\ \A i \in 1..n : /\ periods[i].start \in Nat
                                     /\ periods[i].end =
                                            IF i < n THEN periods[i + 1].start ELSE NoText
                 /\ \A i, j \in 1..n : i <= j => periods[i].start <= periods[j].start
<1> DEFINE A == {i \in DOMAIN server_lines : /\ server_lines[i].msg = "listening"
                                             /\ Per!ParseTs(server_lines[i].time) # NoText}
           q == Pick(server_lines, A)
           r == [i \in DOMAIN q |-> [time |-> Per!ParseTs(q[i].time),
                                     auth_threshold |-> q[i].auth_threshold]]
           s == ByTime(r)
           n == Cardinality(A)
           periods == Per!DetectPeriods(server_lines)
<1>1. /\ DOMAIN server_lines = 1..Len(server_lines) /\ Len(server_lines) \in Nat
      /\ \A i \in DOMAIN server_lines : server_lines[i] \in ServerRecords
    BY DEF TypeOK
<1>2. /\ IsFiniteSet(A) /\ A \subseteq Nat
      /\ \A i \in A : Per!ParseTs(server_lines[i].time) \in Nat
    <2>1. A \subseteq 1..Len(server_lines)
        BY <1>1
    <2>2. IsFiniteSet(1..Len(server_lines)) /\ 1..Len(server_lines) \subseteq Nat
        BY <1>1, FS_Interval
    <2>3. \A i \in A : Per!ParseTs(server_lines[i].time) \in Nat
        <3> TAKE i \in A
        <3>1. server_lines[i].time \in Nat \cup {NoText}
            BY <1>1, TimesAssumption
        <3> QED
            BY <3>1, ParseTyped
    <2> HIDE DEF A
    <2> QED
        BY <2>1, <2>2, <2>3, FS_Subset
<1>3. Per!Starts(server_lines) = s
    BY SamePer DEF Per!Starts
<1> HIDE DEF A
<1>4. n \in Nat
    BY <1>2, FS_CardinalityType
<1>5. DOMAIN q = 1..n /\ {q[i] : i \in 1..n} = {server_lines[i] : i \in A}
    BY <1>2, PickReads
<1> HIDE DEF q, n
<1>a. DOMAIN r = 1..n /\ \A i \in 1..n : r[i].time = Per!ParseTs(q[i].time)
    BY <1>5
<1> HIDE DEF r
<1>6. \A i \in 1..n : r[i].time \in Nat
    <2> TAKE i \in 1..n
    <2>1. PICK j \in A : q[i] = server_lines[j]
        BY <1>5
    <2> QED
        BY <1>2, <1>a, <2>1
<1>7. /\ DOMAIN s = 1..n /\ Len(s) = n /\ {s[i] : i \in 1..n} = {r[i] : i \in 1..n}
      /\ \A i, j \in 1..n : i <= j => s[i].time <= s[j].time
    BY <1>4, <1>6, <1>a, TimeReads
<1> HIDE DEF s
<1>8. \A i \in 1..n : s[i].time \in Nat
    BY <1>6, <1>7
<1>9. periods = [i \in 1..n |-> [start |-> s[i].time,
                                 end |-> IF i < n THEN s[i + 1].time ELSE NoText,
                                 threshold |-> s[i].auth_threshold]]
    BY <1>3, <1>7 DEF Per!DetectPeriods
<1> HIDE DEF periods
<1>10. \A i \in 1..n : /\ periods[i].start = s[i].time
                       /\ periods[i].end = IF i < n THEN s[i + 1].time ELSE NoText
    BY <1>9
<1>11. \A i \in 1..n : periods[i].end = IF i < n THEN periods[i + 1].start ELSE NoText
    <2> TAKE i \in 1..n
    <2>1. i < n => i + 1 \in 1..n
        BY <1>4
    <2> QED
        BY <1>10, <2>1
<1>12. DOMAIN periods = 1..n
    BY <1>9
<1>13. n = 0 => periods = <<>>
    <2> SUFFICES ASSUME n = 0 PROVE periods = <<>>
        OBVIOUS
    <2>1. 1..n = {}
        OBVIOUS
    <2>2. periods = [i \in {} |-> periods[i]]
        BY <1>9, <2>1
    <2> QED
        BY <2>2
<1>14. /\ \A i \in 1..n : periods[i].start \in Nat
       /\ \A i, j \in 1..n : i <= j => periods[i].start <= periods[j].start
    BY <1>7, <1>8, <1>10
<1>15. \E m \in Nat :
          /\ DOMAIN periods = 1..m /\ m = 0 => periods = <<>>
          /\ \A i \in 1..m : /\ periods[i].start \in Nat
                              /\ periods[i].end = IF i < m THEN periods[i + 1].start ELSE NoText
          /\ \A i, j \in 1..m : i <= j => periods[i].start <= periods[j].start
    BY <1>4, <1>11, <1>12, <1>13, <1>14
<1> QED
    BY <1>4, <1>11, <1>12, <1>13, <1>14 DEF periods

(* What has happened since the first start lies in one period.              *)
LEMMA OnePeriod ==
    ASSUME NEW periods, NEW n \in Nat, n > 0, DOMAIN periods = 1..n,
           \A i \in 1..n : /\ periods[i].start \in Nat
                           /\ periods[i].end = IF i < n THEN periods[i + 1].start ELSE NoText,
           \A i, j \in 1..n : i <= j => periods[i].start <= periods[j].start,
           NEW e, Per!ParseTs(e.time) \in Nat \cup {NoText}
    PROVE  LET ts == Per!ParseTs(e.time)
               Started == ts # NoText /\ periods[1].start <= ts
               Covering == {i \in DOMAIN periods : Per!InPeriod(e, periods[i])}
           IN  /\ Started => \E i \in 1..n : Covering = {i}
               /\ ~Started => Covering = {}
<1> DEFINE ts == Per!ParseTs(e.time)
           Started == ts # NoText /\ periods[1].start <= ts
           Covering == {i \in DOMAIN periods : Per!InPeriod(e, periods[i])}
<1>0. 1 \in 1..n /\ NoText \notin Nat
    BY TimesAssumption
<1>p. /\ ts \in Nat \cup {NoText}
      /\ \A i \in 1..n : Per!InPeriod(e, periods[i]) <=>
            /\ ts # NoText /\ periods[i].start <= ts
            /\ periods[i].end = NoText \/ ts < periods[i].end
    BY DEF Per!InPeriod
<1> HIDE DEF ts
<1>1. ASSUME Started PROVE \E i \in 1..n : Covering = {i}
    <2> DEFINE K == {i \in 1..n : periods[i].start <= ts}
               k == Max(K)
    <2>1. k \in K /\ \A i \in K : i <= k
        <3>1. K \in SUBSET Nat /\ 1 \in K /\ \A i \in K : i <= n
            BY <1>0, <1>1
        <3> HIDE DEF K
        <3> QED
            BY <3>1, GreatestNat
    <2>2. k \in 1..n /\ periods[k].start <= ts /\ ts \in Nat
        BY <1>1, <1>p, <2>1
    <2>3. \A i \in 1..n : i > k => ~(periods[i].start <= ts)
        <3> TAKE i \in 1..n
        <3> HAVE i > k
        <3>1. ~(i <= k)
            <4> HIDE DEF k
            <4> QED
                BY <2>2
        <3>2. i \notin K
            BY <2>1, <3>1
        <3> QED
            BY <3>2
    <2> HIDE DEF k
    <2>4. Per!InPeriod(e, periods[k])
        <3>1. CASE k < n
            <4>1. k + 1 \in 1..n /\ k + 1 > k
                BY <2>2, <3>1
            <4>2. periods[k].end = periods[k + 1].start /\ ~(periods[k + 1].start <= ts)
                BY <2>2, <2>3, <3>1, <4>1
            <4>3. periods[k + 1].start \in Nat
                BY <4>1
            <4>4. ts < periods[k].end
                BY <2>2, <4>2, <4>3
            <4> QED
                BY <1>1, <2>2, <4>4, <1>p
        <3>2. CASE ~(k < n)
            BY <1>1, <2>2, <3>2, <1>p
        <3> QED
            BY <3>1, <3>2
    <2>5. ASSUME NEW i \in 1..n, Per!InPeriod(e, periods[i]) PROVE i = k
        <3>1. ~(i > k)
            BY <2>3, <2>5, <1>p
        <3>2. ASSUME i < k PROVE FALSE
            <4>1. i < n /\ i + 1 \in 1..n /\ i + 1 <= k
                BY <2>2, <3>2
            <4>2. periods[i].end = periods[i + 1].start /\ periods[i + 1].start \in Nat
                BY <4>1
            <4>3. ts < periods[i + 1].start
                BY <1>0, <2>5, <4>2, <1>p
            <4>4. periods[i + 1].start <= periods[k].start /\ periods[k].start \in Nat
                BY <2>2, <4>1
            <4> QED
                BY <2>2, <4>2, <4>3, <4>4
        <3> QED
            BY <2>2, <3>1, <3>2
    <2>6. Covering = {k}
        BY <2>2, <2>4, <2>5
    <2> QED
        BY <2>2, <2>6
<1>2. ASSUME ~Started PROVE Covering = {}
    <2> SUFFICES ASSUME NEW i \in 1..n, Per!InPeriod(e, periods[i]) PROVE FALSE
        OBVIOUS
    <2>1. ts \in Nat /\ periods[i].start <= ts /\ ts # NoText
        BY <1>p
    <2>2. periods[1].start <= periods[i].start /\ periods[1].start \in Nat /\ periods[i].start \in Nat
        BY <1>0
    <2>3. periods[1].start <= ts
        BY <2>1, <2>2
    <2> QED
        BY <1>2, <2>1, <2>3
<1> QED
    BY <1>1, <1>2 DEF ts

(* How many of the positions A have a value in V; and that q holds nothing  *)
(* but what is at them.                                                     *)
InCount(s, A, V) == Cardinality({i \in A : s[i] \in V})
Part(q, s, A) == \A n \in DOMAIN q : \E i \in A : q[n] = s[i]

(* Pick holds the values of a set as often as the positions do.             *)
LEMMA PickCount ==
    ASSUME NEW s, NEW A, IsFiniteSet(A), A \subseteq Nat, NEW V
    PROVE  LET q == Pick(s, A)
           IN  InCount(q, DOMAIN q, V) = InCount(s, A, V)
<1> DEFINE q == Pick(s, A)
           S == A
<1>1. Reads(q, s, S) /\ IsFiniteSet(S)
    BY PickReads
<1> HIDE DEF q, S
<1>2. Cardinality({n \in DOMAIN q : q[n] \in V}) = Cardinality({i \in S : s[i] \in V})
    BY <1>1, ReadsCount
<1> QED
    BY <1>2 DEF q, S, InCount

(* What is at some positions of a finite sequence is one.                   *)
LEMMA PickPart ==
    ASSUME NEW s, NEW m \in Nat, DOMAIN s = 1..m, NEW A, A \subseteq 1..m
    PROVE  LET q == Pick(s, A)
           IN  /\ IsFiniteSet(A) /\ A \subseteq Nat /\ Cardinality(A) \in Nat
               /\ DOMAIN q = 1..Cardinality(A) /\ Len(q) = Cardinality(A)
               /\ Part(q, s, A)
<1> DEFINE I == 1..m
<1>1. IsFiniteSet(I) /\ A \subseteq I /\ A \subseteq Nat
    BY FS_Interval
<1>2. IsFiniteSet(A) /\ A \subseteq Nat
    <2> HIDE DEF I
    <2> QED
        BY <1>1, FS_Subset
<1>3. Cardinality(A) \in Nat
    BY <1>2, FS_CardinalityType
<1>4. DOMAIN Pick(s, A) = 1..Cardinality(A) /\ Len(Pick(s, A)) = Cardinality(A)
    BY <1>2, PickReads
<1> DEFINE q == Pick(s, A)
           S == A
<1>5. Reads(q, s, S)
    BY <1>2, PickReads
<1>6. \A n \in DOMAIN q : \E i \in S : q[n] = s[i]
    <2> HIDE DEF q, S
    <2> QED
        BY <1>5, ReadsValues
<1> QED
    BY <1>2, <1>3, <1>4, <1>6 DEF Part

(* The commands of each phase.                                              *)
PhaseCounts(cmds) ==
    [k \in DOMAIN Per!PeriodsWords \cup {"OTHER"} |->
        Cardinality({i \in DOMAIN cmds : Per!Classify(Per!PeriodsWords, cmds[i].command) = k})]

(* Three fields of compute_stats.                                           *)
LEMMA StatsFields ==
    ASSUME NEW auth, NEW sess
    PROVE  LET c == Per!ComputeStats(auth, sess)
           IN  /\ c.attempts = Len(Per!Attempts(auth))
               /\ c.commands = Len(Per!Commands(sess))
               /\ c.phases = PhaseCounts(Per!Commands(sess))
BY SamePer DEF Per!ComputeStats, Per!Tally, PhaseCounts

(* Every command has one phase.                                             *)
LEMMA PhasesSum ==
    ASSUME NEW auth, NEW sess, NEW n \in Nat, DOMAIN Per!Commands(sess) = 1..n,
           Len(Per!Commands(sess)) = n
    PROVE  LET c == Per!ComputeStats(auth, sess)
           IN  SumFunction(c.phases) = c.commands
<1> DEFINE cmds == Per!Commands(sess)
           K == DOMAIN Per!PeriodsWords \cup {"OTHER"}
           Phase(i) == Per!Classify(Per!PeriodsWords, cmds[i].command)
           P == [k \in K |-> {i \in 1..n : Phase(i) = k}]
           f == [k \in K |-> Cardinality(P[k])]
<1>1. Per!ComputeStats(auth, sess).phases = f /\ Per!ComputeStats(auth, sess).commands = n
    <2> DEFINE g == PhaseCounts(cmds)
    <2>1. Per!ComputeStats(auth, sess).phases = g /\ Per!ComputeStats(auth, sess).commands = n
        BY StatsFields
    <2>2. \A k \in K : {i \in DOMAIN cmds : Phase(i) = k} = P[k]
        OBVIOUS
    <2>3. g = [k \in K |-> Cardinality({i \in DOMAIN cmds : Phase(i) = k})]
        BY DEF PhaseCounts
    <2> HIDE DEF K, P, Phase, g
    <2>4. f = g
        BY <2>2, <2>3
    <2> QED
        BY <2>1, <2>4
<1>2. IsFiniteSet(K)
    <2>1. DOMAIN Per!PeriodsWords = {"RECON", "STAGE", "UPLOAD", "EXEC", "PERSIST", "CLEANUP"}
        BY DEF Per!PeriodsWords, Per!ReportWords
    <2>2. IsFiniteSet({"RECON", "STAGE", "UPLOAD", "EXEC", "PERSIST", "CLEANUP", "OTHER"})
        <3>1. IsFiniteSet({"RECON"})
            BY FS_Singleton
        <3>2. IsFiniteSet({"RECON"} \cup {"STAGE"})
            BY <3>1, FS_AddElement
        <3>3. IsFiniteSet({"RECON"} \cup {"STAGE"} \cup {"UPLOAD"})
            BY <3>2, FS_AddElement
        <3>4. IsFiniteSet({"RECON"} \cup {"STAGE"} \cup {"UPLOAD"} \cup {"EXEC"})
            BY <3>3, FS_AddElement
        <3>5. IsFiniteSet({"RECON"} \cup {"STAGE"} \cup {"UPLOAD"} \cup {"EXEC"} \cup {"PERSIST"})
            BY <3>4, FS_AddElement
        <3>6. IsFiniteSet({"RECON"} \cup {"STAGE"} \cup {"UPLOAD"} \cup {"EXEC"} \cup {"PERSIST"}
                          \cup {"CLEANUP"})
            BY <3>5, FS_AddElement
        <3>7. IsFiniteSet({"RECON"} \cup {"STAGE"} \cup {"UPLOAD"} \cup {"EXEC"} \cup {"PERSIST"}
                          \cup {"CLEANUP"} \cup {"OTHER"})
            BY <3>6, FS_AddElement
        <3>8. {"RECON"} \cup {"STAGE"} \cup {"UPLOAD"} \cup {"EXEC"} \cup {"PERSIST"}
                          \cup {"CLEANUP"} \cup {"OTHER"} =
              {"RECON", "STAGE", "UPLOAD", "EXEC", "PERSIST", "CLEANUP", "OTHER"}
            OBVIOUS
        <3> QED
            BY <3>7, <3>8
    <2>3. K = {"RECON", "STAGE", "UPLOAD", "EXEC", "PERSIST", "CLEANUP", "OTHER"}
        BY <2>1
    <2> QED
        BY <2>2, <2>3
<1>3. \A i \in 1..n : Phase(i) \in K
    <2> TAKE i \in 1..n
    <2>1. "EXEC" \in DOMAIN Per!PeriodsWords
        BY DEF Per!PeriodsWords, Per!ReportWords
    <2> DEFINE W == Per!PeriodsWords
               cmd == cmds[i].command
    <2> HIDE DEF W, cmd
    <2>2. Per!Classify(W, cmd) \in DOMAIN W \cup {"EXEC", "OTHER"}
        BY DEF Per!Classify
    <2> QED
        BY <2>1, <2>2 DEF W, cmd
<1> HIDE DEF K, Phase
<1>4. \A k \in K : IsFiniteSet(P[k]) /\ f[k] = Cardinality(P[k])
    <2> TAKE k \in K
    <2>1. IsFiniteSet(1..n) /\ P[k] \subseteq 1..n /\ f[k] = Cardinality(P[k])
        BY FS_Interval
    <2> QED
        BY <2>1, FS_Subset
<1>5. \A j, k \in K : j # k => P[j] \cap P[k] = {}
    OBVIOUS
<1>6. UNION {P[k] : k \in K} = 1..n
    BY <1>3
<1>7. DOMAIN f = K
    OBVIOUS
<1> HIDE DEF f, P
<1>8. SumFunction(f) = Cardinality(1..n)
    <2>1. SumFunction(f) = Cardinality(UNION {P[k] : k \in DOMAIN f})
        BY <1>2, <1>4, <1>5, <1>7, SumCount
    <2> QED
        BY <1>6, <1>7, <2>1
<1>9. Cardinality(1..n) = n
    BY FS_Interval
<1> QED
    BY <1>1, <1>8, <1>9

(* PeriodsPartition holds of all logs.                                      *)
LEMMA PeriodsHold == TypeOK => PeriodsPartition
<1> SUFFICES ASSUME TypeOK, Per!DetectPeriods(server_lines) # <<>> PROVE PeriodsPartition
    BY DEF PeriodsPartition
<1> DEFINE periods == Per!DetectPeriods(server_lines)
           stats == Per!AllStats(auth_lines, parsed, server_lines)
           deltas == Per!Deltas(stats)
           Started(e) == LET ts == Per!ParseTs(e.time)
                         IN  ts # NoText /\ periods[1].start <= ts
           Covering(e) == {i \in DOMAIN periods : Per!InPeriod(e, periods[i])}
<1>1. PICK n \in Nat :
          /\ DOMAIN periods = 1..n
          /\ n = 0 => periods = <<>>
          /\ \A i \in 1..n : /\ periods[i].start \in Nat
                              /\ periods[i].end = IF i < n THEN periods[i + 1].start ELSE NoText
          /\ \A i, j \in 1..n : i <= j => periods[i].start <= periods[j].start
    BY PeriodsAre
<1>2. n > 0
    BY <1>1
<1>3. /\ DOMAIN auth_lines = 1..Len(auth_lines) /\ Len(auth_lines) \in Nat
      /\ \A i \in DOMAIN auth_lines : /\ auth_lines[i] \in AuthRecords
                                      /\ auth_lines[i].time \in Nat \cup {NoText}
    BY TimesAssumption DEF TypeOK
<1>4. \E m \in Nat : DOMAIN parsed = 1..m /\ \A i \in 1..m : parsed[i].time \in Nat \cup {NoText}
    <2> DEFINE A == {i \in DOMAIN session_lines : ~session_lines[i].torn}
    <2>1. parsed = Pick(session_lines, A)
        BY SamePick DEF parsed, L!Parsed
    <2>2. /\ DOMAIN session_lines = 1..Len(session_lines) /\ Len(session_lines) \in Nat
          /\ \A i \in DOMAIN session_lines : session_lines[i].time \in Nat \cup {NoText}
        BY TimesAssumption DEF TypeOK
    <2>3. A \subseteq 1..Len(session_lines)
        BY <2>2
    <2> HIDE DEF A
    <2>4. /\ DOMAIN parsed = 1..Cardinality(A) /\ Cardinality(A) \in Nat
          /\ Part(parsed, session_lines, A)
        BY <2>1, <2>2, <2>3, PickPart
    <2>5. \A k \in 1..Cardinality(A) : parsed[k].time \in Nat \cup {NoText}
        BY <2>2, <2>3, <2>4 DEF Part
    <2> QED
        BY <2>4, <2>5
<1>5. ASSUME NEW e, e.time \in Nat \cup {NoText}
      PROVE  /\ Started(e) => \E i \in 1..n : Covering(e) = {i}
             /\ ~Started(e) => Covering(e) = {}
    <2>1. Per!ParseTs(e.time) \in Nat \cup {NoText}
        BY <1>5, ParseTyped
    <2> HIDE DEF periods
    <2> QED
        BY <1>1, <1>2, <2>1, OnePeriod
<1> HIDE DEF periods, Started, Covering
<1>6. \A e \in ToSet(auth_lines) \cup ToSet(parsed) :
          Cardinality(Covering(e)) = IF Started(e) THEN 1 ELSE 0
    <2> TAKE e \in ToSet(auth_lines) \cup ToSet(parsed)
    <2>1. e.time \in Nat \cup {NoText}
        BY <1>3, <1>4 DEF ToSet
    <2>2. /\ Started(e) => \E i \in 1..n : Covering(e) = {i}
          /\ ~Started(e) => Covering(e) = {}
        BY <1>5, <2>1
    <2> QED
        BY <2>2, FS_Singleton, FS_EmptySet
<1>7. /\ DOMAIN stats = 1..n
      /\ \A i \in 1..n : stats[i] = Per!ComputeStats(Per!SliceEvents(auth_lines, periods[i]),
                                                    Per!SliceEvents(parsed, periods[i]))
      /\ stats = [i \in 1..n |-> stats[i]]
    BY <1>1 DEF Per!AllStats, periods
<1>8. Len(stats) = n
    <2> DEFINE V == {stats[i] : i \in 1..n}
    <2> HIDE DEF stats
    <2> QED
        BY <1>7, LenOf
<1> HIDE DEF stats
<1> DEFINE Tries(i) == {j \in 1..Len(auth_lines) : /\ Per!InPeriod(auth_lines[j], periods[i])
                                                  /\ auth_lines[j].msg = "auth attempt"}
<1>9. ASSUME NEW i \in 1..n PROVE stats[i].attempts = Cardinality(Tries(i)) /\ IsFiniteSet(Tries(i))
    <2> DEFINE A == {j \in DOMAIN auth_lines : Per!InPeriod(auth_lines[j], periods[i])}
               q == Pick(auth_lines, A)
               V == {e \in AuthRecords : e.msg = "auth attempt"}
               B == {k \in DOMAIN q : q[k].msg = "auth attempt"}
    <2>1. Per!SliceEvents(auth_lines, periods[i]) = q
        BY SamePer DEF Per!SliceEvents
    <2>2. Per!Attempts(q) = Pick(q, B)
        BY SamePer DEF Per!Attempts
    <2>3. A \subseteq 1..Len(auth_lines)
        BY <1>3
    <2>4. {j \in A : auth_lines[j] \in V} = Tries(i)
        BY <1>3
    <2>5. stats[i].attempts = Len(Per!Attempts(q))
        <3> DEFINE x == Per!SliceEvents(auth_lines, periods[i])
                   y == Per!SliceEvents(parsed, periods[i])
        <3>1. stats[i] = Per!ComputeStats(x, y) /\ x = q
            BY <1>7, <2>1
        <3> HIDE DEF x, y, q
        <3> QED
            BY <3>1, StatsFields
    <2> HIDE DEF A, Tries
    <2>6. /\ DOMAIN q = 1..Cardinality(A) /\ Cardinality(A) \in Nat /\ IsFiniteSet(A) /\ A \subseteq Nat
          /\ Part(q, auth_lines, A)
        BY <1>3, <2>3, PickPart
    <2>7. InCount(q, DOMAIN q, V) = InCount(auth_lines, A, V)
        <3> HIDE DEF V
        <3> QED
            BY <2>6, PickCount
    <2> HIDE DEF q
    <2>8. {k \in DOMAIN q : q[k] \in V} = B
        BY <1>3, <2>3, <2>6 DEF Part
    <2>9. B \subseteq 1..Cardinality(A)
        BY <2>6
    <2> HIDE DEF B, V
    <2>10. Len(Pick(q, B)) = Cardinality(B)
        BY <2>6, <2>9, PickPart
    <2>11. IsFiniteSet(Tries(i))
        <3>1. Tries(i) \subseteq A
            BY <2>4
        <3> QED
            BY <2>6, <3>1, FS_Subset
    <2> QED
        BY <2>2, <2>4, <2>5, <2>7, <2>8, <2>10, <2>11 DEF InCount
<1>10. SumFunction([i \in DOMAIN stats |-> stats[i].attempts]) = L!CountIf(L!Attempts(auth_lines), Started)
    <2> DEFINE f == [i \in DOMAIN stats |-> stats[i].attempts]
               P == [i \in 1..n |-> Tries(i)]
               T == {j \in 1..Len(auth_lines) : /\ Started(auth_lines[j])
                                                /\ auth_lines[j].msg = "auth attempt"}
    <2>1. DOMAIN f = 1..n /\ IsFiniteSet(1..n)
        BY <1>7, FS_Interval
    <2>2. \A i \in 1..n : IsFiniteSet(P[i]) /\ f[i] = Cardinality(P[i])
        <3> HIDE DEF Tries
        <3> QED
            BY <1>7, <1>9
    <2>3. \A j \in 1..Len(auth_lines) :
              /\ Started(auth_lines[j]) => \E i \in 1..n : Covering(auth_lines[j]) = {i}
              /\ ~Started(auth_lines[j]) => Covering(auth_lines[j]) = {}
        BY <1>3, <1>5
    <2>4. \A i \in 1..n, j \in 1..Len(auth_lines) :
              j \in P[i] <=> i \in Covering(auth_lines[j]) /\ auth_lines[j].msg = "auth attempt"
        BY <1>1 DEF Covering, periods
    <2>5. \A i \in 1..n : P[i] \subseteq 1..Len(auth_lines)
        OBVIOUS
    <2> HIDE DEF Tries, f
    <2>6. \A i, k \in 1..n : i # k => P[i] \cap P[k] = {}
        <3> SUFFICES ASSUME NEW i \in 1..n, NEW k \in 1..n, NEW j \in P[i], j \in P[k] PROVE i = k
            OBVIOUS
        <3>1. j \in 1..Len(auth_lines) /\ i \in Covering(auth_lines[j]) /\ k \in Covering(auth_lines[j])
            BY <2>4, <2>5
        <3>2. PICK c : Covering(auth_lines[j]) = {c}
            BY <2>3, <3>1
        <3> QED
            BY <3>1, <3>2
    <2>7. UNION {P[i] : i \in 1..n} = T
        <3>1. ASSUME NEW j \in T PROVE \E i \in 1..n : j \in P[i]
            BY <2>3, <2>4
        <3>2. ASSUME NEW i \in 1..n, NEW j \in P[i] PROVE j \in T
            BY <2>3, <2>4, <2>5
        <3> QED
            BY <3>1, <3>2
    <2> HIDE DEF P, T
    <2>8. SumFunction(f) = Cardinality(T)
        <3>1. SumFunction(f) = Cardinality(UNION {P[i] : i \in DOMAIN f})
            BY <2>1, <2>2, <2>6, SumCount
        <3> QED
            BY <2>1, <2>7, <3>1
    <2> DEFINE A == {j \in DOMAIN auth_lines : auth_lines[j].msg = "auth attempt"}
               q == Pick(auth_lines, A)
               V == {e \in AuthRecords : Started(e)}
    <2>9. L!CountIf(L!Attempts(auth_lines), Started) = Cardinality({k \in DOMAIN q : Started(q[k])})
        BY SamePer, SamePick DEF L!CountIf, L!Attempts
    <2>10. A \subseteq 1..Len(auth_lines)
        BY <1>3
    <2>11. {j \in A : auth_lines[j] \in V} = T
        BY <1>3 DEF T
    <2> HIDE DEF A
    <2>12. /\ IsFiniteSet(A) /\ A \subseteq Nat
           /\ Part(q, auth_lines, A)
        BY <1>3, <2>10, PickPart
    <2>13. InCount(q, DOMAIN q, V) = InCount(auth_lines, A, V)
        <3> HIDE DEF V
        <3> QED
            BY <2>12, PickCount
    <2> HIDE DEF q
    <2>14. {k \in DOMAIN q : q[k] \in V} = {k \in DOMAIN q : Started(q[k])}
        BY <1>3, <2>10, <2>12 DEF Part
    <2> QED
        BY <2>8, <2>9, <2>11, <2>13, <2>14 DEF f, InCount
<1>11. \A i \in 1..n : SumFunction(stats[i].phases) = stats[i].commands
    <2> TAKE i \in 1..n
    <2> DEFINE A == {j \in DOMAIN parsed : Per!InPeriod(parsed[j], periods[i])}
               q == Pick(parsed, A)
               B == {k \in DOMAIN q : Per!HasCommand(q[k])}
    <2>1. Per!SliceEvents(parsed, periods[i]) = q
        BY SamePer DEF Per!SliceEvents
    <2>2. Per!Commands(q) = Pick(q, B)
        BY SamePer DEF Per!Commands
    <2>3. PICK m \in Nat : DOMAIN parsed = 1..m
        BY <1>4
    <2>4. A \subseteq 1..m
        BY <2>3
    <2> HIDE DEF A
    <2>5. DOMAIN q = 1..Cardinality(A) /\ Cardinality(A) \in Nat
        BY <2>3, <2>4, PickPart
    <2>6. B \subseteq 1..Cardinality(A)
        BY <2>5
    <2> HIDE DEF q, B
    <2>7. DOMAIN Pick(q, B) = 1..Cardinality(B) /\ Len(Pick(q, B)) = Cardinality(B) /\ Cardinality(B) \in Nat
        BY <2>5, <2>6, PickPart
    <2> QED
        BY <1>7, <2>1, <2>2, <2>7, PhasesSum
<1>12. stats[1].attempts + SumFunction([i \in DOMAIN deltas |-> deltas[i].attempts.change])
           = stats[Len(stats)].attempts
    <2> DEFINE a == [i \in 1..n |-> stats[i].attempts]
               f == [i \in DOMAIN deltas |-> deltas[i].attempts.change]
    <2>1. \A i \in 1..n : a[i] = stats[i].attempts /\ a[i] \in Int
        <3> TAKE i \in 1..n
        <3>1. a[i] = Cardinality(Tries(i)) /\ IsFiniteSet(Tries(i))
            BY <1>9
        <3> HIDE DEF Tries
        <3> QED
            BY <3>1, FS_CardinalityType
    <2>2. f = [i \in 1..(n - 1) |-> a[i + 1] - a[i]]
        <3>1. DOMAIN deltas = 1..(n - 1)
            BY <1>8 DEF Per!Deltas
        <3>2. \A i \in 1..(n - 1) : deltas[i].attempts.change = stats[i + 1].attempts - stats[i].attempts
            BY <1>8 DEF Per!Deltas, Per!Delta
        <3>3. \A i \in 1..(n - 1) : i \in 1..n /\ i + 1 \in 1..n
            OBVIOUS
        <3> HIDE DEF deltas
        <3> QED
            BY <3>1, <3>2, <3>3
    <2>3. n - 1 \in Nat /\ (n - 1) + 1 = n /\ 1 \in 1..n /\ n \in 1..n
        BY <1>2
    <2> HIDE DEF a, f
    <2>4. a[1] + SumFunction(f) = a[n]
        <3> DEFINE m == n - 1
        <3>1. m \in Nat /\ m + 1 = n /\ \A i \in 1..(m + 1) : a[i] \in Int
            BY <2>1, <2>3
        <3>2. f = [i \in 1..m |-> a[i + 1] - a[i]]
            BY <2>2
        <3> HIDE DEF m
        <3>3. a[1] + SumFunction(f) = a[m + 1]
            BY <3>1, <3>2, ChangesSum
        <3> QED
            BY <3>1, <3>3
    <2> QED
        BY <1>8, <2>1, <2>3, <2>4 DEF f
<1> HIDE DEF deltas
<1> QED
    BY <1>6, <1>7, <1>10, <1>11, <1>12 DEF PeriodsPartition, Sum, periods, stats, deltas, Started, Covering

(* The sprays listed are the bursts there are (stats.py:236-262).           *)
THEOREM SpraysExact == Spec => []SprayExact
BY TypeCorrect, SpraysAll, PTL

(* The periods share out what happened since the first start                *)
(* (periods.py:61-103, 130-155, 206-214).                                   *)
THEOREM PeriodsExact == Spec => []PeriodsPartition
BY TypeCorrect, PeriodsHold, PTL
================================================================================

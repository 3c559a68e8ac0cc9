---------------------------- MODULE SeqGroupProofs -----------------------------
(****************************************************************************)
(* The splice of the merge is invisible to seqgroup.py, to the scripts that *)
(* extract binaries, to fingerprint.py and, but for the records that the    *)
(* file holds twice, to replay.py, for all logs and all blocks.             *)
(*                                                                          *)
(* The proof about seqgroup.py follows the file by positions of the true    *)
(* log: a session has taken some of its positions, and its lines, its open  *)
(* run, its address and its times are what the reference makes of these.    *)
(* The lemmas say, in this order, what a further position does to the lines *)
(* of the reference, what push, push_echo and flush_echo do to those of a   *)
(* session, which positions of the log the file has told of, and that a     *)
(* record is repeated exactly when its position was taken before.  The      *)
(* proof about the extraction uses the same positions: what is not dropped  *)
(* is in order.  The last two are about sorting: the records of a session   *)
(* in the order of the texts of their times are its positions of the log in *)
(* that order, each as often as the file holds it, and a loop that folds    *)
(* runs goes over them class by class.                                      *)
(****************************************************************************)
EXTENDS SessionLogs, FiniteSetTheorems, SequenceTheorems, WellFoundedInduction, TLAPS

-------------------------------------------------------------------------------
(* Ranks: the n-th element of a finite set of numbers.                      *)

Ranked(S) == \A n \in 1..Cardinality(S) : \E i \in S : Rank(S, i) = n

LEMMA RankOrder ==
    ASSUME NEW S, IsFiniteSet(S), S \subseteq Nat, NEW i \in S, NEW k \in S, i < k
    PROVE  Rank(S, i) < Rank(S, k)
<1> DEFINE A == {j \in S : j <= i}
           B == {j \in S : j <= k}
<1>1. IsFiniteSet(A) /\ IsFiniteSet(B)
    BY FS_Subset
<1>2. A \cup {k} \subseteq B /\ k \notin A
    <2>1. i \in Nat /\ k \in Nat /\ \A j \in S : j \in Nat
        OBVIOUS
    <2>2. \A j \in S : j <= i => j <= k
        BY <2>1
    <2>3. k <= k /\ ~(k <= i)
        BY <2>1
    <2> QED
        BY <2>2, <2>3
<1> HIDE DEF A, B
<1>3. Cardinality(A \cup {k}) = Cardinality(A) + 1
    BY <1>1, <1>2, FS_AddElement
<1>4. Cardinality(A \cup {k}) <= Cardinality(B)
    BY <1>1, <1>2, FS_Subset
<1>5. Cardinality(A) \in Nat /\ Cardinality(B) \in Nat
    BY <1>1, FS_CardinalityType
<1>6. Cardinality(A) < Cardinality(B)
    BY <1>3, <1>4, <1>5
<1> QED
    BY <1>6 DEF Rank, A, B

LEMMA RankUnique ==
    ASSUME NEW S, IsFiniteSet(S), S \subseteq Nat, NEW i \in S, NEW k \in S,
           Rank(S, i) = Rank(S, k)
    PROVE  i = k
<1>1. Rank(S, i) \in Nat /\ Rank(S, k) \in Nat
    <2>1. \A m : IsFiniteSet({j \in S : j <= m})
        BY FS_Subset
    <2> QED
        BY <2>1, FS_CardinalityType DEF Rank
<1>2. i < k => Rank(S, i) < Rank(S, k)
    BY RankOrder
<1>3. k < i => Rank(S, k) < Rank(S, i)
    BY RankOrder
<1>4. ~(i < k) /\ ~(k < i)
    BY <1>1, <1>2, <1>3
<1> QED
    BY <1>4

LEMMA RankLast ==
    ASSUME NEW S, IsFiniteSet(S), S \subseteq Nat, NEW m \in S, \A i \in S : i <= m
    PROVE  Rank(S, m) = Cardinality(S)
<1>1. {j \in S : j <= m} = S
    OBVIOUS
<1> QED
    BY <1>1 DEF Rank

LEMMA AtRank ==
    ASSUME NEW S, Ranked(S), NEW n \in 1..Cardinality(S)
    PROVE  At(S, n) \in S /\ Rank(S, At(S, n)) = n
BY DEF Ranked, At

(* A new greatest element has the next rank and leaves the others theirs. *)
LEMMA RankAdd ==
    ASSUME NEW S, IsFiniteSet(S), S \subseteq Nat, Ranked(S),
           NEW j \in Nat, \A i \in S : i < j
    PROVE  /\ Cardinality(S \cup {j}) = Cardinality(S) + 1
           /\ Ranked(S \cup {j})
           /\ \A n \in 1..Cardinality(S) : At(S \cup {j}, n) = At(S, n)
           /\ At(S \cup {j}, Cardinality(S) + 1) = j
<1> DEFINE T == S \cup {j}
           c == Cardinality(S)
<1>1. IsFiniteSet(T) /\ Cardinality(T) = c + 1 /\ c \in Nat
    <2>1. j \notin S
        OBVIOUS
    <2>2. IsFiniteSet(T) /\ Cardinality(T) = IF j \in S THEN c ELSE c + 1
        BY FS_AddElement
    <2>3. c \in Nat
        BY FS_CardinalityType
    <2> HIDE DEF T, c
    <2> QED
        BY <2>1, <2>2, <2>3
<1>2. \A i \in S : Rank(T, i) = Rank(S, i)
    <2>1. \A i \in S : {k \in T : k <= i} = {k \in S : k <= i}
        OBVIOUS
    <2> QED
        BY <2>1 DEF Rank
<1>3. Rank(T, j) = c + 1
    <2>1. \A i \in T : i <= j
        OBVIOUS
    <2> HIDE DEF T, c
    <2>2. T \subseteq Nat /\ j \in T
        BY DEF T
    <2> QED
        BY <1>1, <2>1, <2>2, RankLast
<1>4. T \subseteq Nat
    OBVIOUS
<1>5. ASSUME NEW n \in 1..c
      PROVE  At(T, n) = At(S, n) /\ Rank(T, At(S, n)) = n
    <2>1. At(S, n) \in S /\ Rank(S, At(S, n)) = n
        BY AtRank
    <2>2. At(S, n) \in T /\ Rank(T, At(S, n)) = n
        BY <1>2, <2>1
    <2>3. At(T, n) \in T /\ Rank(T, At(T, n)) = n
        <3> HIDE DEF T
        <3> QED
            BY <2>2 DEF At
    <2> HIDE DEF T
    <2> QED
        BY <1>1, <1>4, <2>2, <2>3, RankUnique
<1>6. At(T, c + 1) = j
    <2>1. j \in T
        OBVIOUS
    <2>2. At(T, c + 1) \in T /\ Rank(T, At(T, c + 1)) = c + 1
        <3> HIDE DEF T, c
        <3> QED
            BY <1>3, <2>1 DEF At
    <2> HIDE DEF T, c
    <2> QED
        BY <1>1, <1>3, <1>4, <2>1, <2>2, RankUnique
<1>7. Ranked(T)
    <2> SUFFICES ASSUME NEW n \in 1..(c + 1) PROVE \E i \in T : Rank(T, i) = n
        BY <1>1 DEF Ranked
    <2>1. CASE n = c + 1
        BY <1>3, <2>1
    <2>2. CASE n # c + 1
        <3>1. n \in 1..c
            BY <1>1, <2>2
        <3>2. At(S, n) \in T
            BY <3>1, AtRank
        <3> QED
            BY <1>5, <3>1, <3>2
    <2> QED
        BY <2>1, <2>2
<1> HIDE DEF T, c
<1> QED
    BY <1>1, <1>5, <1>6, <1>7 DEF T, c

-------------------------------------------------------------------------------
(* A position more: either it starts a line of its own, or it continues the *)
(* run that the last line is.                                               *)

LEMMA RunsBefore ==
    ASSUME NEW log, NEW T, T \subseteq Nat, NEW j \in Nat, \A i \in T : i < j,
           NEW i \in T
    PROVE  /\ \A k \in T : SameRun(log, T \cup {j}, i, k) <=> SameRun(log, T, i, k)
           /\ SameRun(log, T \cup {j}, i, j) <=>
                  /\ \A k \in T : i <= k =>
                         IsChunk(log[k]) /\ log[k].command.target = log[i].command.target
                  /\ IsChunk(log[j]) /\ log[j].command.target = log[i].command.target
<1>1. \A k \in T : k <= j /\ ~(j <= k) /\ k \in Nat
    OBVIOUS
<1>2. j <= j /\ i <= j
    OBVIOUS
<1> QED
    BY <1>1, <1>2 DEF SameRun

With(f, m, x) == [n \in 1..(m + 1) |-> IF n = m + 1 THEN x ELSE f[n]]

Settled(log, T) == IsFiniteSet(T) /\ T \subseteq Nat /\ Ranked(Starts(log, T))
Plus(T, j) == T \cup {j}
After(T, j) == j \in Nat /\ \A i \in T : i < j
NoRun(log, T, j) == \A i \in T : ~SameRun(log, T \cup {j}, i, j)

LEMMA StartAdds ==
    ASSUME NEW log, NEW T, Settled(log, T), NEW j, After(T, j), NoRun(log, T, j)
    PROVE  LET U == Plus(T, j)
               c == Cardinality(Starts(log, T))
           IN  /\ Starts(log, U) = Plus(Starts(log, T), j)
               /\ Settled(log, U)
               /\ c \in Nat
               /\ TrueSeq(log, U) = With(TrueSeq(log, T), c, LineAt(log, U, j))
<1> DEFINE U == T \cup {j}
           S == Starts(log, T)
           c == Cardinality(S)
<1>a. IsFiniteSet(T) /\ T \subseteq Nat /\ Ranked(S)
    BY DEF Settled
<1>b. j \in Nat /\ \A i \in T : i < j
    BY DEF After
<1>1. S \subseteq T /\ S \subseteq Nat /\ IsFiniteSet(S) /\ \A i \in S : i < j
    <2>1. S \subseteq T
        BY DEF Starts
    <2> QED
        BY <1>a, <1>b, <2>1, FS_Subset
<1>2. c \in Nat
    BY <1>1, FS_CardinalityType
<1>3. \A i, k \in T : SameRun(log, U, i, k) <=> SameRun(log, T, i, k)
    BY <1>a, <1>b, RunsBefore
<1>4. \A k \in T : ~(j < k) /\ ~(j <= k)
    BY <1>a, <1>b
<1>5. Starts(log, U) = S \cup {j}
    <2>1. \A i \in T : ~SameRun(log, U, i, j)
        BY DEF NoRun
    <2>2. \A x : x \in U <=> x \in T \/ x = j
        OBVIOUS
    <2>3. ~(j < j)
        BY <1>b
    <2> HIDE DEF U
    <2>4. \A k \in T : k \in Starts(log, U) <=> k \in Starts(log, T)
        BY <1>3, <1>4, <2>2 DEF Starts
    <2>5. j \in Starts(log, U)
        BY <2>1, <2>2, <2>3 DEF Starts
    <2>6. \A k \in Starts(log, U) : k \in T \/ k = j
        BY <2>2 DEF Starts
    <2>7. \A k \in Starts(log, T) : k \in T
        BY DEF Starts
    <2> QED
        BY <2>4, <2>5, <2>6, <2>7
<1>6. ASSUME NEW i \in T PROVE LineAt(log, U, i) = LineAt(log, T, i)
    <2>1. RunFrom(log, U, i) = RunFrom(log, T, i)
        BY <1>3, <1>4 DEF RunFrom, NoRun
    <2> QED
        BY <2>1 DEF LineAt
<1> HIDE DEF U
<1>7. /\ Cardinality(S \cup {j}) = c + 1
      /\ Ranked(S \cup {j})
      /\ \A n \in 1..c : At(S \cup {j}, n) = At(S, n)
      /\ At(S \cup {j}, c + 1) = j
    <2> HIDE DEF S
    <2> QED
        BY <1>a, <1>b, <1>1, RankAdd DEF S
<1>8. TrueSeq(log, U) = [n \in 1..(c + 1) |-> LineAt(log, U, At(S \cup {j}, n))]
    BY <1>5, <1>7 DEF TrueSeq
<1>9. ASSUME NEW n \in 1..(c + 1)
      PROVE  LineAt(log, U, At(S \cup {j}, n)) = IF n = c + 1 THEN LineAt(log, U, j)
                                                 ELSE TrueSeq(log, T)[n]
    <2>1. CASE n = c + 1
        BY <1>7, <2>1
    <2>2. CASE n # c + 1
        <3>1. n \in 1..c
            BY <1>2, <2>2
        <3>2. At(S, n) \in T
            BY <1>a, <1>1, <3>1, AtRank
        <3>3. TrueSeq(log, T)[n] = LineAt(log, T, At(S, n))
            BY <3>1 DEF TrueSeq
        <3>4. At(S \cup {j}, n) = At(S, n)
            BY <1>7, <3>1
        <3> QED
            BY <1>6, <2>2, <3>2, <3>3, <3>4
    <2> QED
        BY <2>1, <2>2
<1>10. TrueSeq(log, U) = With(TrueSeq(log, T), c, LineAt(log, U, j))
    BY <1>8, <1>9 DEF With
<1>11. Settled(log, U)
    <2>1. IsFiniteSet(U) /\ U \subseteq Nat
        BY <1>a, <1>b, FS_AddElement DEF U
    <2> QED
        BY <1>5, <1>7, <2>1 DEF Settled
<1> QED
    BY <1>2, <1>5, <1>10, <1>11 DEF U, Plus

(* The run that is the last line: it starts at st and goes to t. *)
OpenRun(log, T, st, t) ==
    /\ st \in Starts(log, T)
    /\ \A i \in Starts(log, T) : i <= st
    /\ \A k \in T : st <= k => IsChunk(log[k]) /\ log[k].command.target = t

Since(T, st) == {k \in T : st <= k}

LEMMA OpenLine ==
    ASSUME NEW log, NEW T, NEW st, NEW t, OpenRun(log, T, st, t), T \subseteq Nat
    PROVE  /\ RunFrom(log, T, st) = Since(T, st)
           /\ LineAt(log, T, st) = Run(t, Cardinality(Since(T, st)),
                                       Cardinality(Bytes(log, Since(T, st))))
<1>1. st \in T /\ st <= st
    BY DEF OpenRun, Starts
<1>2. IsChunk(log[st]) /\ log[st].command.target = t
    BY <1>1 DEF OpenRun
<1>3. \A k \in T : SameRun(log, T, st, k)
    BY <1>2 DEF SameRun, OpenRun
<1>4. RunFrom(log, T, st) = Since(T, st)
    BY <1>3 DEF RunFrom, Since
<1> QED
    BY <1>2, <1>4 DEF LineAt

(* It continues the run. *)
LEMMA RunGrows ==
    ASSUME NEW log, NEW T, Settled(log, T),
           NEW st, NEW t, OpenRun(log, T, st, t),
           NEW j, After(T, j), IsChunk(log[j]), log[j].command.target = t
    PROVE  LET U == Plus(T, j)
           IN  /\ Starts(log, U) = Starts(log, T)
               /\ Settled(log, U)
               /\ OpenRun(log, U, st, t)
               /\ Since(U, st) = Plus(Since(T, st), j)
               /\ \A i \in Starts(log, T) : i # st => LineAt(log, U, i) = LineAt(log, T, i)
<1> DEFINE U == T \cup {j}
           S == Starts(log, T)
<1>a. IsFiniteSet(T) /\ T \subseteq Nat /\ Ranked(S)
    BY DEF Settled
<1>b. j \in Nat /\ \A i \in T : i < j
    BY DEF After
<1>1. st \in T /\ st \in Nat /\ st <= st /\ st <= j /\ st < j
    BY <1>a, <1>b DEF OpenRun, Starts
<1>2. IsChunk(log[st]) /\ log[st].command.target = t
    BY <1>1 DEF OpenRun
<1>3. \A i, k \in T : SameRun(log, U, i, k) <=> SameRun(log, T, i, k)
    BY <1>a, <1>b, RunsBefore
<1>4. \A k \in T : ~(j < k) /\ ~(j <= k)
    BY <1>a, <1>b
<1>5. SameRun(log, U, st, j)
    BY <1>a, <1>b, <1>2, <1>1, RunsBefore DEF OpenRun
<1>6. Starts(log, U) = S
    BY <1>1, <1>3, <1>4, <1>5 DEF Starts
<1>7. Since(U, st) = Since(T, st) \cup {j}
    BY <1>a, <1>b, <1>1 DEF Since
<1>8. OpenRun(log, U, st, t)
    BY <1>6 DEF OpenRun
<1>9. ASSUME NEW i \in S, i # st PROVE LineAt(log, U, i) = LineAt(log, T, i)
    <2>1. i \in T /\ i \in Nat /\ i < st
        <3>1. i \in T
            BY DEF Starts
        <3>2. i <= st
            BY DEF OpenRun
        <3> QED
            BY <1>a, <1>1, <1>9, <3>1, <3>2
    <2>2. ~SameRun(log, T, i, st)
        BY <1>1, <2>1 DEF OpenRun, Starts
    <2>3. ~SameRun(log, U, i, j)
        <3>1. PICK k \in T : /\ i <= k /\ k <= st
                             /\ ~(IsChunk(log[k])
                                      /\ log[k].command.target = log[i].command.target)
            BY <2>2 DEF SameRun
        <3>2. ~(\A m \in T : i <= m =>
                     IsChunk(log[m]) /\ log[m].command.target = log[i].command.target)
            BY <3>1
        <3> HIDE DEF U
        <3>3. SameRun(log, U, i, j) =>
                  \A m \in T : i <= m =>
                      IsChunk(log[m]) /\ log[m].command.target = log[i].command.target
            <4>1. \A m \in T : m \in U /\ m <= j
                BY <1>a, <1>b DEF U
            <4> QED
                BY <4>1 DEF SameRun
        <3> QED
            BY <3>2, <3>3
    <2>4. RunFrom(log, U, i) = RunFrom(log, T, i)
        BY <1>3, <2>1, <2>3 DEF RunFrom
    <2> QED
        BY <2>4 DEF LineAt
<1>10. Settled(log, U)
    BY <1>a, <1>b, <1>6, FS_AddElement DEF Settled
<1> QED
    BY <1>6, <1>7, <1>8, <1>9, <1>10 DEF Plus

-------------------------------------------------------------------------------
(* The lines of a session, with the run that is still open.                 *)

IsSession(s) ==
    s = [seq |-> s.seq, ip |-> s.ip, first |-> s.first, last |-> s.last,
         echo_target |-> s.echo_target, echo_count |-> s.echo_count,
         echo_bytes |-> s.echo_bytes, seen_ts |-> s.seen_ts]

First(f, m) == [n \in 1..m |-> f[n]]

Idle(log, s, T) ==
    /\ s.echo_target = Unknown /\ s.echo_count = 0 /\ s.echo_bytes = 0
    /\ s.seq = TrueSeq(log, T)
    /\ T = {} \/ \E l \in T : (\A i \in T : i <= l) /\ ~IsChunk(log[l])
Folding(log, s, T, st) ==
    /\ s.echo_target # Unknown
    /\ OpenRun(log, T, st, s.echo_target)
    /\ s.echo_count = Cardinality(Since(T, st))
    /\ IsFiniteSet(Bytes(log, Since(T, st)))
    /\ s.echo_bytes = Cardinality(Bytes(log, Since(T, st)))
    /\ s.seq = First(TrueSeq(log, T), Cardinality(Starts(log, T)) - 1)
LinesFollow(log, s, T) == Idle(log, s, T) \/ \E st : Folding(log, s, T, st)

LEMMA AppendFirst ==
    ASSUME NEW f, NEW m \in Nat, NEW x
    PROVE  Append(First(f, m), x) = With(f, m, x)
<1> DEFINE g == First(f, m)
           V == {f[n] : n \in 1..m} \cup {x}
<1>1. g \in [1..m -> V]
    BY DEF First
<1>2. g \in Seq(V) /\ Len(g) = m
    <2> HIDE DEF g, V
    <2> QED
        BY <1>1
<1>3. x \in V
    OBVIOUS
<1>4. /\ DOMAIN Append(g, x) = 1..(m + 1)
      /\ Append(g, x)[m + 1] = x
      /\ \A n \in 1..m : Append(g, x)[n] = g[n]
      /\ Append(g, x) \in Seq(V)
    <2> HIDE DEF g, V
    <2> QED
        BY <1>2, <1>3
<1>5. \A n \in 1..(m + 1) : n # m + 1 => n \in 1..m
    OBVIOUS
<1>6. \A n \in 1..m : g[n] = f[n]
    BY DEF First
<1>7. \A n \in 1..(m + 1) : Append(g, x)[n] = IF n = m + 1 THEN x ELSE f[n]
    <2> HIDE DEF g, V
    <2> QED
        BY <1>4, <1>5, <1>6
<1> HIDE DEF g, V
<1>8. Append(g, x) = [n \in 1..(m + 1) |-> IF n = m + 1 THEN x ELSE f[n]]
    <2>1. Append(g, x) \in [1..Len(Append(g, x)) -> V] /\ DOMAIN Append(g, x) = 1..Len(Append(g, x))
        BY <1>4, LenProperties
    <2>2. Append(g, x) \in [1..(m + 1) -> V]
        BY <1>4, <2>1
    <2>3. Append(g, x) = [n \in 1..(m + 1) |-> Append(g, x)[n]]
        BY <2>2
    <2> QED
        BY <1>7, <2>3
<1> QED
    BY <1>8 DEF g, With

LEMMA StartsFinite ==
    ASSUME NEW log, NEW T, Settled(log, T)
    PROVE  /\ Starts(log, T) \subseteq T /\ IsFiniteSet(Starts(log, T))
           /\ Starts(log, T) \subseteq Nat /\ Cardinality(Starts(log, T)) \in Nat
<1>1. Starts(log, T) \subseteq T
    BY DEF Starts
<1>2. IsFiniteSet(Starts(log, T))
    BY <1>1, FS_Subset DEF Settled
<1> QED
    BY <1>1, <1>2, FS_CardinalityType DEF Settled

(* The open run is the last line. *)
LEMMA OpenIsLast ==
    ASSUME NEW log, NEW T, Settled(log, T), NEW st, NEW t, OpenRun(log, T, st, t)
    PROVE  LET c == Cardinality(Starts(log, T))
           IN  /\ c \in Nat \ {0}
               /\ At(Starts(log, T), c) = st
               /\ TrueSeq(log, T)[c] = LineAt(log, T, st)
               /\ \A n \in 1..(c - 1) : /\ n \in 1..c
                                        /\ At(Starts(log, T), n) \in Starts(log, T)
                                        /\ At(Starts(log, T), n) # st
<1> DEFINE S == Starts(log, T)
           c == Cardinality(S)
<1>1. S \subseteq Nat /\ IsFiniteSet(S) /\ c \in Nat
    BY StartsFinite
<1>2. st \in S /\ \A i \in S : i <= st
    BY DEF OpenRun
<1>3. Ranked(S)
    BY DEF Settled
<1> HIDE DEF S
<1>4. Rank(S, st) = c
    BY <1>1, <1>2, RankLast
<1>5. c # 0
    BY <1>1, <1>2, FS_EmptySet
<1>6. c \in 1..c /\ \A n \in 1..(c - 1) : n \in 1..c /\ n # c
    <2> HIDE DEF c
    <2> QED
        BY <1>1, <1>5
<1>7. At(S, c) \in S /\ Rank(S, At(S, c)) = c
    BY <1>3, <1>6, AtRank
<1>8. At(S, c) = st
    BY <1>1, <1>2, <1>4, <1>7, RankUnique
<1>9. \A n \in 1..(c - 1) : At(S, n) \in S /\ At(S, n) # st
    <2> SUFFICES ASSUME NEW n \in 1..(c - 1) PROVE At(S, n) \in S /\ At(S, n) # st
        OBVIOUS
    <2>1. At(S, n) \in S /\ Rank(S, At(S, n)) = n
        BY <1>3, <1>6, AtRank
    <2> QED
        BY <1>4, <1>6, <2>1
<1>10. TrueSeq(log, T)[c] = LineAt(log, T, st)
    BY <1>6, <1>8 DEF TrueSeq, S
<1> QED
    BY <1>1, <1>5, <1>6, <1>8, <1>9, <1>10 DEF S

(* flush_echo completes the sequence. *)
LEMMA FlushCompletes ==
    ASSUME NEW log, NEW T, Settled(log, T), NEW s, IsSession(s), LinesFollow(log, s, T)
    PROVE  FlushEcho(s) = [s EXCEPT !.seq = TrueSeq(log, T), !.echo_target = Unknown,
                                    !.echo_count = 0, !.echo_bytes = 0]
<1>1. CASE Idle(log, s, T)
    <2>1. FlushEcho(s) = s
        BY <1>1 DEF Idle, FlushEcho
    <2>2. /\ s.seq = TrueSeq(log, T) /\ s.echo_target = Unknown
          /\ s.echo_count = 0 /\ s.echo_bytes = 0
        BY <1>1 DEF Idle
    <2> QED
        BY <2>1, <2>2 DEF IsSession
<1>2. ASSUME NEW st, Folding(log, s, T, st)
      PROVE  FlushEcho(s) = [s EXCEPT !.seq = TrueSeq(log, T), !.echo_target = Unknown,
                                      !.echo_count = 0, !.echo_bytes = 0]
    <2> DEFINE c == Cardinality(Starts(log, T))
               run == Run(s.echo_target, s.echo_count, s.echo_bytes)
    <2>1. c \in Nat \ {0} /\ TrueSeq(log, T)[c] = LineAt(log, T, st)
        BY <1>2, OpenIsLast DEF Folding
    <2>2. LineAt(log, T, st) = run
        BY <1>2, OpenLine DEF Folding, Settled
    <2>3. TrueSeq(log, T) = [n \in 1..c |-> TrueSeq(log, T)[n]]
        BY DEF TrueSeq
    <2>4. Append(s.seq, run) = TrueSeq(log, T)
        <3> DEFINE m == c - 1
                   f == TrueSeq(log, T)
        <3> HIDE DEF c, run
        <3>1. m \in Nat /\ m + 1 = c
            BY <2>1
        <3>2. s.seq = First(f, m)
            BY <1>2 DEF Folding, c
        <3>3. f = [n \in 1..c |-> f[n]] /\ f[c] = run
            BY <2>1, <2>2, <2>3
        <3> HIDE DEF m, f
        <3>4. Append(First(f, m), run) = With(f, m, run)
            BY <3>1, AppendFirst
        <3>5. Append(First(f, m), run) = [n \in 1..c |-> IF n = c THEN run ELSE f[n]]
            BY <3>1, <3>4 DEF With
        <3>6. \A n \in 1..c : (IF n = c THEN run ELSE f[n]) = f[n]
            BY <3>3
        <3>7. [n \in 1..c |-> IF n = c THEN run ELSE f[n]] = [n \in 1..c |-> f[n]]
            BY <3>6
        <3> QED
            BY <3>2, <3>3, <3>5, <3>7 DEF f
    <2>5. s.echo_target # Unknown
        BY <1>2 DEF Folding
    <2> QED
        BY <2>4, <2>5 DEF FlushEcho
<1> QED
    BY <1>1, <1>2 DEF LinesFollow

(* What a line does not change. *)
Rest(s) == <<s.ip, s.first, s.last, s.seen_ts>>

Sized(log, j) == log[j].command.bytes \in Nat

LEMMA FlushFields ==
    ASSUME NEW log, NEW T, Settled(log, T), NEW s, IsSession(s), LinesFollow(log, s, T)
    PROVE  LET r == FlushEcho(s)
           IN  /\ IsSession(r) /\ Rest(r) = Rest(s)
               /\ r.seq = TrueSeq(log, T)
               /\ r.echo_target = Unknown /\ r.echo_count = 0 /\ r.echo_bytes = 0
<1> DEFINE f == TrueSeq(log, T)
           r == FlushEcho(s)
<1>1. r = [s EXCEPT !.seq = f, !.echo_target = Unknown, !.echo_count = 0, !.echo_bytes = 0]
    BY FlushCompletes
<1>2. s = [seq |-> s.seq, ip |-> s.ip, first |-> s.first, last |-> s.last,
           echo_target |-> s.echo_target, echo_count |-> s.echo_count,
           echo_bytes |-> s.echo_bytes, seen_ts |-> s.seen_ts]
    BY DEF IsSession
<1> HIDE DEF f, r
<1>3. r = [seq |-> f, ip |-> s.ip, first |-> s.first, last |-> s.last,
           echo_target |-> Unknown, echo_count |-> 0, echo_bytes |-> 0, seen_ts |-> s.seen_ts]
    BY <1>1, <1>2
<1>4. IsSession(r) /\ Rest(r) = Rest(s)
    BY <1>3 DEF IsSession, Rest
<1> QED
    BY <1>3, <1>4 DEF f, r

(* push: the line of a new position that is no echo chunk. *)
LEMMA LineFollows ==
    ASSUME NEW log, NEW T, Settled(log, T), NEW s, IsSession(s), LinesFollow(log, s, T),
           NEW j, After(T, j), ~IsChunk(log[j])
    PROVE  LET U == Plus(T, j)
               r == Push(s, LineAt(log, U, j))
           IN  /\ Settled(log, U) /\ LinesFollow(log, r, U)
               /\ IsSession(r) /\ Rest(r) = Rest(s)
<1> DEFINE U == Plus(T, j)
           line == LineAt(log, U, j)
           r == Push(s, line)
           q == FlushEcho(s)
           f == TrueSeq(log, T)
           c == Cardinality(Starts(log, T))
<1>1. IsFiniteSet(T) /\ T \subseteq Nat /\ Ranked(Starts(log, T))
    BY DEF Settled
<1>2. NoRun(log, T, j)
    <2>1. j <= j /\ \A i \in T : i <= j
        BY <1>1 DEF After, Plus
    <2> QED
        BY <2>1 DEF NoRun, SameRun
<1>3. /\ Settled(log, U) /\ c \in Nat
      /\ TrueSeq(log, U) = With(f, c, line)
    BY <1>2, StartAdds
<1>5. /\ IsSession(q) /\ Rest(q) = Rest(s) /\ q.seq = f
      /\ q.echo_target = Unknown /\ q.echo_count = 0 /\ q.echo_bytes = 0
    BY FlushFields
<1>6. f = First(f, c)
    BY DEF First, TrueSeq
<1>7. j \in U /\ \A i \in U : i <= j
    BY <1>1 DEF After, Plus
<1>8. r = [q EXCEPT !.seq = Append(q.seq, line)]
    <2> HIDE DEF line
    <2> QED
        BY DEF Push
<1> HIDE DEF U, line, r, q, f, c
<1>9. Append(f, line) = TrueSeq(log, U)
    <2>1. Append(First(f, c), line) = With(f, c, line)
        BY <1>3, AppendFirst
    <2> QED
        BY <1>3, <1>6, <2>1
<1>10. r = [seq |-> TrueSeq(log, U), ip |-> q.ip, first |-> q.first, last |-> q.last,
            echo_target |-> Unknown, echo_count |-> 0, echo_bytes |-> 0, seen_ts |-> q.seen_ts]
    BY <1>5, <1>8, <1>9 DEF IsSession
<1>11. IsSession(r) /\ Rest(r) = Rest(q)
    BY <1>10 DEF IsSession, Rest
<1>12. Idle(log, r, U)
    BY <1>7, <1>10 DEF Idle
<1> QED
    BY <1>3, <1>5, <1>11, <1>12 DEF LinesFollow, r, line, U

(* The bytes of chunks add up. *)
LEMMA BytesAdd ==
    ASSUME NEW log, NEW C, IsFiniteSet(Bytes(log, C)), NEW j, j \notin C,
           Sized(log, j)
    PROVE  /\ IsFiniteSet(Bytes(log, Plus(C, j)))
           /\ Cardinality(Bytes(log, Plus(C, j)))
                  = Cardinality(Bytes(log, C)) + log[j].command.bytes
<1> DEFINE A == Bytes(log, C)
           b == log[j].command.bytes
           B == {j} \X (1..b)
<1>1. Bytes(log, Plus(C, j)) = A \cup B
    BY DEF Bytes, Plus
<1>2. A \cap B = {}
    BY DEF Bytes
<1>3. IsFiniteSet(1..b) /\ Cardinality(1..b) = b
    <2> HIDE DEF b
    <2>1. b \in Nat
        BY DEF b, Sized
    <2>2. 1 \in Int /\ b \in Int /\ (1 > b => b = 0) /\ b - 1 + 1 = b
        BY <2>1
    <2> QED
        BY <2>1, <2>2, FS_Interval
<1>4. IsFiniteSet({j}) /\ Cardinality({j}) = 1
    BY FS_Singleton
<1>5. IsFiniteSet(B) /\ Cardinality(B) = b
    <2> HIDE DEF b
    <2>1. IsFiniteSet(B) /\ Cardinality(B) = Cardinality({j}) * Cardinality(1..b)
        BY <1>3, <1>4, FS_Product
    <2>2. b \in Nat
        BY DEF Sized, b
    <2>3. Cardinality(B) = 1 * b
        BY <1>3, <1>4, <2>1
    <2>4. 1 * b = b
        BY <2>2
    <2> QED
        BY <2>1, <2>3, <2>4
<1> HIDE DEF A, B
<1>6. IsFiniteSet(A) /\ Cardinality(A) \in Nat
    BY FS_CardinalityType DEF A
<1>7. IsFiniteSet(A \cup B)
    BY <1>5, <1>6, FS_Union
<1>8. Cardinality(A \cup B) = Cardinality(A) + Cardinality(B) - Cardinality(A \cap B)
    BY <1>5, <1>6, FS_Union
<1>9. Cardinality(A \cap B) = 0
    BY <1>2, FS_EmptySet
<1>10. Cardinality(A \cup B) = Cardinality(A) + b
    <2> HIDE DEF b
    <2>1. b \in Nat
        BY DEF b, Sized
    <2> QED
        BY <1>5, <1>6, <1>8, <1>9, <2>1
<1> QED
    BY <1>1, <1>7, <1>10 DEF A

(* push_echo, a chunk of the open run. *)
LEMMA ChunkContinues ==
    ASSUME NEW log, NEW T, Settled(log, T), NEW s, IsSession(s), NEW j, After(T, j),
           IsChunk(log[j]), Sized(log, j),
           NEW st, Folding(log, s, T, st), s.echo_target = log[j].command.target
    PROVE  LET U == Plus(T, j)
               r == PushEcho(s, log[j].command.target, log[j].command.bytes)
           IN  /\ Settled(log, U) /\ LinesFollow(log, r, U)
               /\ IsSession(r) /\ Rest(r) = Rest(s)
<1> DEFINE U == Plus(T, j)
           t == log[j].command.target
           b == log[j].command.bytes
           r == PushEcho(s, t, b)
           S == Starts(log, T)
           c == Cardinality(S)
           f == TrueSeq(log, T)
           g == TrueSeq(log, U)
<1>1. /\ OpenRun(log, T, st, t) /\ t # Unknown
      /\ s.echo_count = Cardinality(Since(T, st))
      /\ IsFiniteSet(Bytes(log, Since(T, st)))
      /\ s.echo_bytes = Cardinality(Bytes(log, Since(T, st)))
      /\ s.seq = First(f, c - 1)
    BY DEF Folding
<1>2. /\ Starts(log, U) = S /\ Settled(log, U) /\ OpenRun(log, U, st, t)
      /\ Since(U, st) = Plus(Since(T, st), j)
    BY <1>1, RunGrows
<1>3. \A i \in S : i # st => LineAt(log, U, i) = LineAt(log, T, i)
    BY <1>1, RunGrows
<1>4. j \notin T /\ IsFiniteSet(T)
    BY DEF After, Settled
<1>5. j \notin Since(T, st) /\ IsFiniteSet(Since(T, st))
    BY <1>4, FS_Subset DEF Since
<1>6. Cardinality(Since(U, st)) = s.echo_count + 1
    BY <1>1, <1>2, <1>5, FS_AddElement DEF Plus
<1>7. /\ IsFiniteSet(Bytes(log, Since(U, st)))
      /\ Cardinality(Bytes(log, Since(U, st))) = s.echo_bytes + b
    BY <1>1, <1>2, <1>5, BytesAdd
<1>8. c \in Nat \ {0} /\ \A n \in 1..(c - 1) : n \in 1..c /\ At(S, n) \in S /\ At(S, n) # st
    BY <1>1, OpenIsLast
<1>9. First(g, c - 1) = First(f, c - 1)
    <2>1. \A n \in 1..(c - 1) : g[n] = f[n]
        <3> SUFFICES ASSUME NEW n \in 1..(c - 1) PROVE g[n] = f[n]
            OBVIOUS
        <3>1. n \in 1..c /\ LineAt(log, U, At(S, n)) = LineAt(log, T, At(S, n))
            BY <1>3, <1>8
        <3>2. f[n] = LineAt(log, T, At(S, n))
            BY <3>1 DEF TrueSeq
        <3>3. g[n] = LineAt(log, U, At(S, n))
            BY <1>2, <3>1 DEF TrueSeq
        <3> QED
            BY <3>1, <3>2, <3>3
    <2> HIDE DEF f, g, c
    <2> QED
        BY <2>1 DEF First
<1>10. r = [s EXCEPT !.echo_target = t, !.echo_count = s.echo_count + 1,
                     !.echo_bytes = s.echo_bytes + b]
    <2> HIDE DEF b
    <2> QED
        BY DEF PushEcho
<1> HIDE DEF r, U, t, b, S, c, f, g
<1>11. s.echo_target = t
    BY DEF t
<1>12. r = [seq |-> s.seq, ip |-> s.ip, first |-> s.first, last |-> s.last,
            echo_target |-> t, echo_count |-> s.echo_count + 1,
            echo_bytes |-> s.echo_bytes + b, seen_ts |-> s.seen_ts]
    BY <1>10 DEF IsSession
<1>13. IsSession(r) /\ Rest(r) = Rest(s)
    BY <1>12 DEF IsSession, Rest
<1>14. /\ r.echo_target = t /\ r.echo_count = s.echo_count + 1
       /\ r.echo_bytes = s.echo_bytes + b /\ r.seq = s.seq
    BY <1>12
<1>15. r.seq = First(TrueSeq(log, U), Cardinality(Starts(log, U)) - 1)
    BY <1>1, <1>2, <1>9, <1>14 DEF g, c
<1>16. Folding(log, r, U, st)
    BY <1>1, <1>2, <1>6, <1>7, <1>14, <1>15 DEF Folding
<1> QED
    BY <1>2, <1>13, <1>16 DEF LinesFollow, r, U, t, b

(* push_echo, the first chunk of a run. *)
LEMMA ChunkStarts ==
    ASSUME NEW log, NEW T, Settled(log, T), NEW s, IsSession(s), LinesFollow(log, s, T),
           NEW j, After(T, j), IsChunk(log[j]), Sized(log, j),
           s.echo_target # log[j].command.target
    PROVE  LET U == Plus(T, j)
               r == PushEcho(s, log[j].command.target, log[j].command.bytes)
           IN  /\ Settled(log, U) /\ LinesFollow(log, r, U)
               /\ IsSession(r) /\ Rest(r) = Rest(s)
<1> DEFINE U == Plus(T, j)
           t == log[j].command.target
           b == log[j].command.bytes
           r == PushEcho(s, t, b)
           q == FlushEcho(s)
           c == Cardinality(Starts(log, T))
           f == TrueSeq(log, T)
<1>1. IsFiniteSet(T) /\ T \subseteq Nat /\ j \in Nat /\ \A i \in T : i < j
    BY DEF Settled, After
<1>2. t # Unknown
    BY DEF IsChunk
<1>3. NoRun(log, T, j)
    <2> SUFFICES ASSUME NEW i \in T, SameRun(log, U, i, j) PROVE FALSE
        BY DEF NoRun, Plus
    <2>1. \A k \in T : i <= k => IsChunk(log[k]) /\ log[k].command.target = log[i].command.target
        <3>1. \A k \in T : k \in U
            BY DEF Plus
        <3>2. ASSUME NEW k \in T PROVE k <= j
            <4>1. k \in Nat /\ j \in Nat /\ k < j
                BY <1>1
            <4> QED
                BY <4>1
        <3> HIDE DEF U
        <3> QED
            BY <3>1, <3>2 DEF SameRun
    <2>2. t = log[i].command.target
        <3>1. i <= j /\ j <= j
            BY <1>1
        <3> QED
            BY <3>1 DEF SameRun, Plus
    <2>3. CASE Idle(log, s, T)
        <3>1. PICK l \in T : (\A k \in T : k <= l) /\ ~IsChunk(log[l])
            BY <2>3 DEF Idle
        <3> QED
            BY <2>1, <3>1
    <2>4. ASSUME NEW st, Folding(log, s, T, st) PROVE FALSE
        <3>1. OpenRun(log, T, st, s.echo_target)
            BY <2>4 DEF Folding
        <3>2. st \in T
            BY <3>1 DEF OpenRun, Starts
        <3>3. PICK k \in T : i <= k /\ st <= k
            BY <1>1, <3>2
        <3>4. log[k].command.target = log[i].command.target
            BY <2>1, <3>3
        <3>5. log[k].command.target = s.echo_target
            BY <3>1, <3>3 DEF OpenRun
        <3> QED
            BY <2>2, <3>4, <3>5
    <2> QED
        BY <2>3, <2>4 DEF LinesFollow
<1>4. /\ Starts(log, U) = Plus(Starts(log, T), j) /\ Settled(log, U) /\ c \in Nat
      /\ TrueSeq(log, U) = With(f, c, LineAt(log, U, j))
    BY <1>3, StartAdds
<1>5. /\ IsSession(q) /\ Rest(q) = Rest(s) /\ q.seq = f
      /\ q.echo_target = Unknown /\ q.echo_count = 0 /\ q.echo_bytes = 0
    BY FlushFields
<1>6. r = [q EXCEPT !.echo_target = t, !.echo_count = q.echo_count + 1,
                    !.echo_bytes = q.echo_bytes + b]
    <2> HIDE DEF b
    <2> QED
        BY DEF PushEcho
<1>7. OpenRun(log, U, j, t)
    <2>1. Starts(log, T) \subseteq T
        BY DEF Starts
    <2>2. \A i \in Starts(log, U) : i <= j
        <3>1. j <= j /\ \A i \in T : i <= j
            BY <1>1
        <3>2. \A i \in Starts(log, U) : i \in T \/ i = j
            BY <1>4, <2>1 DEF Plus
        <3> QED
            BY <3>1, <3>2
    <2>3. \A k \in U : j <= k => k = j
        BY <1>1 DEF Plus
    <2>4. j \in Starts(log, U)
        BY <1>4 DEF Plus
    <2> HIDE DEF U
    <2> QED
        BY <2>2, <2>3, <2>4 DEF OpenRun
<1>8. Since(U, j) = {j}
    <2>1. j <= j /\ \A i \in T : ~(j <= i)
        BY <1>1
    <2> QED
        BY <2>1 DEF Since, Plus
<1>9. Cardinality(Since(U, j)) = 1
    BY <1>8, FS_Singleton
<1>10. b \in Nat
    BY DEF Sized
<1>11. IsFiniteSet(Bytes(log, Since(U, j))) /\ Cardinality(Bytes(log, Since(U, j))) = b
    <2>1. Bytes(log, {}) = {}
        BY DEF Bytes
    <2>2. IsFiniteSet(Bytes(log, {})) /\ Cardinality(Bytes(log, {})) = 0
        BY <2>1, FS_EmptySet
    <2>3. j \notin {}
        OBVIOUS
    <2>4. /\ IsFiniteSet(Bytes(log, Plus({}, j)))
          /\ Cardinality(Bytes(log, Plus({}, j))) = Cardinality(Bytes(log, {})) + b
        BY <2>2, <2>3, BytesAdd
    <2>5. Plus({}, j) = {j}
        BY DEF Plus
    <2> HIDE DEF b
    <2> QED
        BY <1>8, <1>10, <2>2, <2>4, <2>5
<1> HIDE DEF r, U, t, b, c, f, q
<1>12. r = [seq |-> f, ip |-> q.ip, first |-> q.first, last |-> q.last,
            echo_target |-> t, echo_count |-> 1, echo_bytes |-> b, seen_ts |-> q.seen_ts]
    <2>1. 0 + 1 = 1 /\ 0 + b = b
        BY <1>10
    <2> QED
        BY <1>5, <1>6, <2>1 DEF IsSession
<1>13. IsSession(r) /\ Rest(r) = Rest(q)
    BY <1>12 DEF IsSession, Rest
<1>14. r.echo_target = t /\ r.echo_count = 1 /\ r.echo_bytes = b /\ r.seq = f
    BY <1>12
<1>15. f = First(TrueSeq(log, U), Cardinality(Starts(log, U)) - 1)
    <2>1. Cardinality(Starts(log, U)) = c + 1
        <3>1. j \notin Starts(log, T) /\ IsFiniteSet(Starts(log, T))
            BY <1>1, FS_Subset DEF Starts
        <3> QED
            BY <1>4, <3>1, FS_AddElement DEF c, Plus
    <2>2. c + 1 - 1 = c
        BY <1>4
    <2>3. f = First(f, c)
        BY DEF First, TrueSeq, f, c
    <2>4. First(With(f, c, LineAt(log, U, j)), c) = First(f, c)
        <3> DEFINE x == LineAt(log, U, j)
        <3> HIDE DEF x
        <3>1. \A n \in 1..c : n \in 1..(c + 1) /\ n # c + 1
            BY <1>4
        <3>2. \A n \in 1..c : With(f, c, x)[n] = f[n]
            BY <3>1 DEF With
        <3>3. First(With(f, c, x), c) = First(f, c)
            BY <3>2 DEF First
        <3> QED
            BY <3>3 DEF x
    <2> QED
        BY <1>4, <2>1, <2>2, <2>3, <2>4
<1>16. Folding(log, r, U, j)
    BY <1>2, <1>7, <1>9, <1>11, <1>14, <1>15 DEF Folding
<1> QED
    BY <1>4, <1>5, <1>13, <1>16 DEF LinesFollow, r, U, t, b

-------------------------------------------------------------------------------
(* A session that has taken the positions K of log, in their order; mem are *)
(* the positions whose records the script remembers.                        *)

Bounds(K, lo, hi) == lo \in K /\ hi \in K /\ \A k \in K : lo <= k /\ k <= hi
Ends(log, s, K) ==
    IF K = {} THEN s.first = 0
    ELSE \E lo, hi : Bounds(K, lo, hi) /\ s.first = log[lo].time /\ s.last = log[hi].time
Greets(log, s, K) ==
    IF Hellos(log, K) = {} THEN s.ip = Unknown
    ELSE \E h \in Hellos(log, K) : (\A k \in Hellos(log, K) : k <= h) /\ s.ip = log[h].ip
Seen(log, mem, K) == {RecordKey(log[k]) : k \in K \cap mem}
Follows(log, mem, s, K) ==
    /\ IsSession(s)
    /\ Settled(log, Told(log, K)) /\ LinesFollow(log, s, Told(log, K))
    /\ Ends(log, s, K) /\ Greets(log, s, K)
    /\ s.seen_ts = Seen(log, mem, K)

Clocked(log, K) == \A k \in K : log[k].time # 0

(* Kept *)
Noted(log, mem, s, p) ==
    [s EXCEPT !.seen_ts = IF p \in mem THEN @ \cup {RecordKey(log[p])} ELSE @,
              !.first = IF @ = 0 THEN log[p].time ELSE @, !.last = log[p].time]

LEMMA NotedFields ==
    ASSUME NEW log, NEW mem, NEW s, IsSession(s), NEW p
    PROVE  LET r == Noted(log, mem, s, p)
           IN  /\ IsSession(r) /\ r.ip = s.ip
               /\ s.first = 0 => r.first = log[p].time
               /\ s.first # 0 => r.first = s.first
               /\ r.last = log[p].time
               /\ p \in mem => r.seen_ts = Plus(s.seen_ts, RecordKey(log[p]))
               /\ p \notin mem => r.seen_ts = s.seen_ts
               /\ r.seq = s.seq /\ r.echo_target = s.echo_target
               /\ r.echo_count = s.echo_count /\ r.echo_bytes = s.echo_bytes
<1> DEFINE r == Noted(log, mem, s, p)
           S == IF p \in mem THEN s.seen_ts \cup {RecordKey(log[p])} ELSE s.seen_ts
           first == IF s.first = 0 THEN log[p].time ELSE s.first
           last == log[p].time
<1>1. r = [s EXCEPT !.seen_ts = S, !.first = first, !.last = last]
    BY DEF Noted
<1> HIDE DEF r, S, first, last
<1>2. r = [seq |-> s.seq, ip |-> s.ip, first |-> first, last |-> last,
           echo_target |-> s.echo_target, echo_count |-> s.echo_count,
           echo_bytes |-> s.echo_bytes, seen_ts |-> S]
    BY <1>1 DEF IsSession
<1>3. IsSession(r) /\ r.ip = s.ip /\ r.first = first /\ r.last = last /\ r.seen_ts = S
      /\ r.seq = s.seq /\ r.echo_target = s.echo_target
      /\ r.echo_count = s.echo_count /\ r.echo_bytes = s.echo_bytes
    BY <1>2 DEF IsSession
<1> QED
    BY <1>3 DEF r, S, first, last, Plus

LEMMA NotedLines ==
    ASSUME NEW log, NEW mem, NEW s, IsSession(s), NEW p, NEW T, LinesFollow(log, s, T)
    PROVE  LinesFollow(log, Noted(log, mem, s, p), T)
<1> DEFINE r == Noted(log, mem, s, p)
<1>1. /\ r.seq = s.seq /\ r.echo_target = s.echo_target
      /\ r.echo_count = s.echo_count /\ r.echo_bytes = s.echo_bytes
    BY NotedFields
<1> HIDE DEF r
<1>2. Idle(log, s, T) => Idle(log, r, T)
    BY <1>1 DEF Idle
<1>3. \A st : Folding(log, s, T, st) => Folding(log, r, T, st)
    BY <1>1 DEF Folding
<1> QED
    BY <1>2, <1>3 DEF LinesFollow, r

LEMMA NotedEnds ==
    ASSUME NEW log, NEW mem, NEW s, IsSession(s), NEW p, NEW K, K \subseteq Nat, After(K, p),
           Clocked(log, K), Ends(log, s, K)
    PROVE  Ends(log, Noted(log, mem, s, p), Plus(K, p))
<1> DEFINE r == Noted(log, mem, s, p)
           U == Plus(K, p)
<1>1. /\ s.first = 0 => r.first = log[p].time
      /\ s.first # 0 => r.first = s.first
      /\ r.last = log[p].time
    BY NotedFields
<1>2. p \in Nat /\ p <= p /\ \A k \in K : k <= p
    BY DEF After
<1>3. p \in U /\ U # {} /\ (\A k \in U : k \in K \/ k = p) /\ (\A k \in K : k \in U)
    BY DEF Plus
<1> HIDE DEF r, U
<1>4. CASE K = {}
    <2>1. s.first = 0
        BY <1>4 DEF Ends
    <2>2. r.first = log[p].time
        BY <1>1, <2>1
    <2>3. \A k \in U : p <= k /\ k <= p
        BY <1>2, <1>3, <1>4
    <2>4. Bounds(U, p, p)
        BY <1>3, <2>3 DEF Bounds
    <2>5. r.first = log[p].time /\ r.last = log[p].time /\ U # {}
        BY <1>1, <1>3, <2>2
    <2> QED
        BY <2>4, <2>5 DEF Ends, r, U
<1>5. CASE K # {}
    <2>1. PICK lo, hi : Bounds(K, lo, hi) /\ s.first = log[lo].time
        BY <1>5 DEF Ends
    <2>2. r.first = log[lo].time
        BY <1>1, <2>1 DEF Clocked, Bounds
    <2>3. \A k \in U : lo <= k /\ k <= p
        BY <1>2, <1>3, <2>1 DEF Bounds
    <2>4. lo \in U
        BY <1>3, <2>1 DEF Bounds
    <2>5. Bounds(U, lo, p)
        BY <1>3, <2>3, <2>4 DEF Bounds
    <2>6. r.first = log[lo].time /\ r.last = log[p].time /\ U # {}
        BY <1>1, <1>3, <2>2
    <2> QED
        BY <2>5, <2>6 DEF Ends, r, U
<1> QED
    BY <1>4, <1>5 DEF r, U

LEMMA NotedSeen ==
    ASSUME NEW log, NEW mem, NEW s, IsSession(s), NEW p, NEW K,
           s.seen_ts = Seen(log, mem, K)
    PROVE  Noted(log, mem, s, p).seen_ts = Seen(log, mem, Plus(K, p))
<1>1. /\ p \in mem => Noted(log, mem, s, p).seen_ts = Plus(s.seen_ts, RecordKey(log[p]))
      /\ p \notin mem => Noted(log, mem, s, p).seen_ts = s.seen_ts
    BY NotedFields
<1>2. \A k : k \in Plus(K, p) \cap mem <=> k \in K \cap mem \/ (k = p /\ p \in mem)
    BY DEF Plus
<1>3. /\ p \in mem => Seen(log, mem, Plus(K, p)) = Seen(log, mem, K) \cup {RecordKey(log[p])}
      /\ p \notin mem => Seen(log, mem, Plus(K, p)) = Seen(log, mem, K)
    BY <1>2 DEF Seen
<1> QED
    BY <1>1, <1>3 DEF Plus

(* The other fields are not read by the lines, nor the lines by them. *)
LEMMA RestFollows ==
    ASSUME NEW log, NEW mem, NEW K, NEW s, NEW r, IsSession(r), Rest(r) = Rest(s),
           Settled(log, Told(log, K)), LinesFollow(log, r, Told(log, K)),
           Ends(log, s, K), Greets(log, s, K), s.seen_ts = Seen(log, mem, K)
    PROVE  Follows(log, mem, r, K)
<1>1. r.ip = s.ip /\ r.first = s.first /\ r.last = s.last /\ r.seen_ts = s.seen_ts
    BY DEF Rest
<1>2. Ends(log, r, K) /\ Greets(log, r, K)
    BY <1>1 DEF Ends, Greets
<1> QED
    BY <1>1, <1>2 DEF Follows

LEMMA GreetsPlus ==
    ASSUME NEW log, NEW s, NEW r, NEW K, K \subseteq Nat, NEW p, Greets(log, s, K), After(K, p)
    PROVE  /\ log[p].msg # "handshake ok" /\ r.ip = s.ip => Greets(log, r, Plus(K, p))
           /\ log[p].msg = "handshake ok" /\ r.ip = log[p].ip => Greets(log, r, Plus(K, p))
<1>1. ASSUME log[p].msg # "handshake ok", r.ip = s.ip
      PROVE  Greets(log, r, Plus(K, p))
    <2>1. Hellos(log, Plus(K, p)) = Hellos(log, K)
        BY <1>1 DEF Hellos, Plus
    <2> QED
        BY <1>1, <2>1 DEF Greets
<1>2. ASSUME log[p].msg = "handshake ok", r.ip = log[p].ip
      PROVE  Greets(log, r, Plus(K, p))
    <2>1. p \in Hellos(log, Plus(K, p))
        BY <1>2 DEF Hellos, Plus
    <2>2. \A k \in Hellos(log, Plus(K, p)) : k \in K \/ k = p
        BY DEF Hellos, Plus
    <2>3. p <= p /\ \A k \in K : k <= p
        BY DEF After
    <2>4. \A k \in Hellos(log, Plus(K, p)) : k <= p
        BY <2>2, <2>3
    <2> QED
        BY <1>2, <2>1, <2>4 DEF Greets
<1> QED
    BY <1>1, <1>2

(* What the branches of the loop do with the noted record. *)
LEMMA ToldPlus ==
    ASSUME NEW log, NEW K, NEW p
    PROVE  /\ IsTold(log[p]) => Told(log, Plus(K, p)) = Plus(Told(log, K), p)
           /\ ~IsTold(log[p]) => Told(log, Plus(K, p)) = Told(log, K)
BY DEF Told, Plus

LEMMA ToldAfter ==
    ASSUME NEW log, NEW K, NEW p, After(K, p)
    PROVE  After(Told(log, K), p)
BY DEF After, Told

LEMMA NoHello ==
    ASSUME NEW rec, IsTold(rec)
    PROVE  rec.msg # "handshake ok"
BY DEF IsTold, IsCommand, Marks

(* Noted leaves everything but the end to do. *)
LEMMA NotedReady ==
    ASSUME NEW log, NEW mem, NEW s, NEW K, K \subseteq Nat, NEW p, After(K, p),
           Clocked(log, K), Follows(log, mem, s, K)
    PROVE  LET r == Noted(log, mem, s, p)
           IN  /\ IsSession(r) /\ LinesFollow(log, r, Told(log, K)) /\ Settled(log, Told(log, K))
               /\ Ends(log, r, Plus(K, p))
               /\ r.seen_ts = Seen(log, mem, Plus(K, p))
               /\ log[p].msg # "handshake ok" => Greets(log, r, Plus(K, p))
<1>1. /\ IsSession(s) /\ Settled(log, Told(log, K)) /\ LinesFollow(log, s, Told(log, K))
      /\ Ends(log, s, K) /\ Greets(log, s, K) /\ s.seen_ts = Seen(log, mem, K)
    BY DEF Follows
<1>2. IsSession(Noted(log, mem, s, p)) /\ Noted(log, mem, s, p).ip = s.ip
    BY <1>1, NotedFields
<1>3. LinesFollow(log, Noted(log, mem, s, p), Told(log, K))
    BY <1>1, NotedLines
<1>4. Ends(log, Noted(log, mem, s, p), Plus(K, p))
    BY <1>1, NotedEnds
<1>5. Noted(log, mem, s, p).seen_ts = Seen(log, mem, Plus(K, p))
    BY <1>1, NotedSeen
<1>6. log[p].msg # "handshake ok" => Greets(log, Noted(log, mem, s, p), Plus(K, p))
    BY <1>1, <1>2, GreetsPlus
<1> QED
    BY <1>1, <1>2, <1>3, <1>4, <1>5, <1>6

LEMMA LineKept ==
    ASSUME NEW log, NEW mem, NEW s, NEW K, K \subseteq Nat, NEW p, After(K, p),
           Clocked(log, K), Follows(log, mem, s, K),
           IsTold(log[p]), ~IsChunk(log[p])
    PROVE  Follows(log, mem, Push(Noted(log, mem, s, p),
                                  IF IsCommand(log[p]) THEN Command(log[p]) ELSE Marker(log[p])),
                   Plus(K, p))
<1> DEFINE n == Noted(log, mem, s, p)
           T == Told(log, K)
           line == IF IsCommand(log[p]) THEN Command(log[p]) ELSE Marker(log[p])
           r == Push(n, line)
<1>1. /\ IsSession(n) /\ LinesFollow(log, n, T) /\ Settled(log, T)
      /\ Ends(log, n, Plus(K, p)) /\ n.seen_ts = Seen(log, mem, Plus(K, p))
      /\ log[p].msg # "handshake ok" => Greets(log, n, Plus(K, p))
    BY NotedReady
<1>2. log[p].msg # "handshake ok"
    BY NoHello
<1>3. After(T, p)
    BY ToldAfter
<1>4. Told(log, Plus(K, p)) = Plus(T, p)
    BY ToldPlus
<1>5. LineAt(log, Plus(T, p), p) = line
    BY DEF LineAt
<1> HIDE DEF n, T, line
<1>6. /\ Settled(log, Plus(T, p)) /\ LinesFollow(log, r, Plus(T, p))
      /\ IsSession(r) /\ Rest(r) = Rest(n)
    <2>1. IsSession(n) /\ LinesFollow(log, n, T) /\ Settled(log, T)
        BY <1>1
    <2> DEFINE q == Push(n, LineAt(log, Plus(T, p), p))
    <2>2. /\ Settled(log, Plus(T, p)) /\ LinesFollow(log, q, Plus(T, p))
          /\ IsSession(q) /\ Rest(q) = Rest(n)
        BY <1>3, <2>1, LineFollows
    <2> QED
        BY <1>5, <2>2
<1>7. Settled(log, Told(log, Plus(K, p))) /\ LinesFollow(log, r, Told(log, Plus(K, p)))
    BY <1>4, <1>6
<1> HIDE DEF r
<1>8. Follows(log, mem, r, Plus(K, p))
    BY <1>1, <1>2, <1>6, <1>7, RestFollows
<1> QED
    BY <1>8 DEF r, n, line

LEMMA ChunkKept ==
    ASSUME NEW log, NEW mem, NEW s, NEW K, K \subseteq Nat, NEW p, After(K, p),
           Clocked(log, K), Follows(log, mem, s, K),
           IsChunk(log[p]), Sized(log, p)
    PROVE  Follows(log, mem, PushEcho(Noted(log, mem, s, p), log[p].command.target,
                                      log[p].command.bytes),
                   Plus(K, p))
<1> DEFINE n == Noted(log, mem, s, p)
           T == Told(log, K)
           r == PushEcho(n, log[p].command.target, log[p].command.bytes)
<1>0. IsTold(log[p])
    BY DEF IsTold, IsChunk
<1>1. /\ IsSession(n) /\ LinesFollow(log, n, T) /\ Settled(log, T)
      /\ Ends(log, n, Plus(K, p)) /\ n.seen_ts = Seen(log, mem, Plus(K, p))
      /\ log[p].msg # "handshake ok" => Greets(log, n, Plus(K, p))
    BY NotedReady
<1>2. log[p].msg # "handshake ok"
    BY <1>0, NoHello
<1>3. After(T, p)
    BY ToldAfter
<1>4. Told(log, Plus(K, p)) = Plus(T, p)
    BY <1>0, ToldPlus
<1>5. log[p].command.target # Unknown
    BY DEF IsChunk
<1> HIDE DEF n, T
<1>6. /\ Settled(log, Plus(T, p)) /\ LinesFollow(log, r, Plus(T, p))
      /\ IsSession(r) /\ Rest(r) = Rest(n)
    <2>0. IsSession(n) /\ LinesFollow(log, n, T) /\ Settled(log, T)
        BY <1>1
    <2>1. CASE n.echo_target # log[p].command.target
        BY <1>3, <2>0, <2>1, ChunkStarts
    <2>2. CASE n.echo_target = log[p].command.target
        <3>1. ~Idle(log, n, T)
            BY <1>5, <2>2 DEF Idle
        <3>2. PICK st : Folding(log, n, T, st)
            BY <1>1, <3>1 DEF LinesFollow
        <3> QED
            BY <1>3, <2>0, <2>2, <3>2, ChunkContinues
    <2> QED
        BY <2>1, <2>2
<1>7. Settled(log, Told(log, Plus(K, p))) /\ LinesFollow(log, r, Told(log, Plus(K, p)))
    BY <1>4, <1>6
<1> HIDE DEF r
<1>8. Follows(log, mem, r, Plus(K, p))
    BY <1>1, <1>2, <1>6, <1>7, RestFollows
<1> QED
    BY <1>8 DEF r, n

LEMMA OtherKept ==
    ASSUME NEW log, NEW mem, NEW s, NEW K, K \subseteq Nat, NEW p, After(K, p),
           Clocked(log, K), Follows(log, mem, s, K), ~IsTold(log[p])
    PROVE  Follows(log, mem, IF log[p].msg = "handshake ok"
                             THEN [Noted(log, mem, s, p) EXCEPT !.ip = log[p].ip]
                             ELSE Noted(log, mem, s, p),
                   Plus(K, p))
<1> DEFINE n == Noted(log, mem, s, p)
           T == Told(log, K)
           r == [n EXCEPT !.ip = log[p].ip]
<1>1. /\ IsSession(n) /\ LinesFollow(log, n, T) /\ Settled(log, T)
      /\ Ends(log, n, Plus(K, p)) /\ n.seen_ts = Seen(log, mem, Plus(K, p))
      /\ log[p].msg # "handshake ok" => Greets(log, n, Plus(K, p))
    BY NotedReady
<1>2. Told(log, Plus(K, p)) = T
    BY ToldPlus
<1>3. Greets(log, s, K)
    BY DEF Follows
<1>4. CASE log[p].msg # "handshake ok"
    <2> HIDE DEF n, T
    <2>1. Follows(log, mem, n, Plus(K, p))
        BY <1>1, <1>2, <1>4 DEF Follows
    <2> QED
        BY <1>4, <2>1 DEF n
<1>5. CASE log[p].msg = "handshake ok"
    <2> DEFINE ip == log[p].ip
    <2> HIDE DEF n, T, ip
    <2>1. r = [seq |-> n.seq, ip |-> ip, first |-> n.first, last |-> n.last,
               echo_target |-> n.echo_target, echo_count |-> n.echo_count,
               echo_bytes |-> n.echo_bytes, seen_ts |-> n.seen_ts]
        <3>1. n = [seq |-> n.seq, ip |-> n.ip, first |-> n.first, last |-> n.last,
                   echo_target |-> n.echo_target, echo_count |-> n.echo_count,
                   echo_bytes |-> n.echo_bytes, seen_ts |-> n.seen_ts]
            BY <1>1 DEF IsSession
        <3>2. r = [n EXCEPT !.ip = ip]
            BY DEF ip
        <3> HIDE DEF r
        <3> QED
            BY <3>1, <3>2
    <2> HIDE DEF r
    <2>2. IsSession(r) /\ r.ip = ip
        BY <2>1 DEF IsSession
    <2>3. /\ r.seq = n.seq /\ r.first = n.first /\ r.last = n.last
          /\ r.echo_target = n.echo_target /\ r.echo_count = n.echo_count
          /\ r.echo_bytes = n.echo_bytes /\ r.seen_ts = n.seen_ts
        BY <2>1
    <2>4. LinesFollow(log, r, T)
        <3>1. Idle(log, n, T) => Idle(log, r, T)
            BY <2>3 DEF Idle
        <3>2. \A st : Folding(log, n, T, st) => Folding(log, r, T, st)
            BY <2>3 DEF Folding
        <3> QED
            BY <1>1, <3>1, <3>2 DEF LinesFollow
    <2>5. Ends(log, r, Plus(K, p))
        BY <1>1, <2>3 DEF Ends
    <2>6. Greets(log, r, Plus(K, p))
        BY <1>3, <1>5, <2>2, GreetsPlus DEF ip
    <2>7. Follows(log, mem, r, Plus(K, p))
        BY <1>1, <1>2, <2>2, <2>3, <2>4, <2>5, <2>6 DEF Follows
    <2> QED
        BY <1>5, <2>7 DEF r, n
<1> QED
    BY <1>4, <1>5

-------------------------------------------------------------------------------
(* The end: the session is the reference's, and so are the clusters.        *)

LEMMA LeastIs ==
    ASSUME NEW S, S \subseteq Nat, NEW lo \in S, \A k \in S : lo <= k
    PROVE  Min(S) = lo
<1>1. Min(S) \in S /\ \A k \in S : Min(S) <= k
    BY DEF Min
<1>2. lo <= Min(S) /\ Min(S) <= lo
    BY <1>1
<1>3. lo \in Nat /\ Min(S) \in Nat
    BY <1>1
<1> QED
    BY <1>2, <1>3

LEMMA GreatestIs ==
    ASSUME NEW S, S \subseteq Nat, NEW hi \in S, \A k \in S : k <= hi
    PROVE  Max(S) = hi
<1>1. Max(S) \in S /\ \A k \in S : k <= Max(S)
    <2>1. \A k \in S : hi >= k
        OBVIOUS
    <2>2. Max(S) \in S /\ \A k \in S : Max(S) >= k
        BY <2>1 DEF Max
    <2> QED
        BY <2>2
<1>2. hi <= Max(S) /\ Max(S) <= hi
    BY <1>1
<1>3. hi \in Nat /\ Max(S) \in Nat
    BY <1>1
<1> QED
    BY <1>2, <1>3

LEMMA SessionEnds ==
    ASSUME NEW log, NEW mem, NEW s, NEW K, K \subseteq Nat, K # {}, Follows(log, mem, s, K)
    PROVE  [FlushEcho(s) EXCEPT !.seen_ts = {}] = TrueSession(log, K)
<1> DEFINE f == TrueSeq(log, Told(log, K))
           r == FlushEcho(s)
           first == log[Min(K)].time
           last == log[Max(K)].time
           H == Hellos(log, K)
           ip == IF H = {} THEN Unknown ELSE log[Max(H)].ip
<1>1. /\ IsSession(s) /\ Settled(log, Told(log, K)) /\ LinesFollow(log, s, Told(log, K))
      /\ Ends(log, s, K) /\ Greets(log, s, K)
    BY DEF Follows
<1>2. /\ IsSession(r) /\ Rest(r) = Rest(s) /\ r.seq = f
      /\ r.echo_target = Unknown /\ r.echo_count = 0 /\ r.echo_bytes = 0
    BY <1>1, FlushFields
<1>3. r.ip = s.ip /\ r.first = s.first /\ r.last = s.last
    <2> HIDE DEF r
    <2> QED
        BY <1>2 DEF Rest
<1>4. s.first = first /\ s.last = last
    <2>1. PICK lo, hi : Bounds(K, lo, hi) /\ s.first = log[lo].time /\ s.last = log[hi].time
        BY <1>1 DEF Ends
    <2>2. Min(K) = lo
        BY <2>1, LeastIs DEF Bounds
    <2>3. Max(K) = hi
        BY <2>1, GreatestIs DEF Bounds
    <2> QED
        BY <2>1, <2>2, <2>3
<1>5. s.ip = ip
    <2>1. CASE H = {}
        BY <1>1, <2>1 DEF Greets
    <2>2. CASE H # {}
        <3>1. PICK h \in H : (\A k \in H : k <= h) /\ s.ip = log[h].ip
            BY <1>1, <2>2 DEF Greets
        <3>2. H \subseteq Nat
            BY DEF Hellos
        <3>3. Max(H) = h
            <4> HIDE DEF H
            <4> QED
                BY <3>1, <3>2, GreatestIs
        <3> QED
            BY <2>2, <3>1, <3>3
    <2> QED
        BY <2>1, <2>2
<1>6. TrueSession(log, K) = [NewSession EXCEPT !.seq = f, !.first = first, !.last = last, !.ip = ip]
    BY DEF TrueSession
<1> HIDE DEF f, r, first, last, H, ip
<1>7. TrueSession(log, K)
          = [seq |-> f, ip |-> ip, first |-> first, last |-> last,
             echo_target |-> Unknown, echo_count |-> 0, echo_bytes |-> 0, seen_ts |-> {}]
    BY <1>6 DEF NewSession
<1>8. r = [seq |-> r.seq, ip |-> r.ip, first |-> r.first, last |-> r.last,
           echo_target |-> r.echo_target, echo_count |-> r.echo_count,
           echo_bytes |-> r.echo_bytes, seen_ts |-> r.seen_ts]
    BY <1>2 DEF IsSession
<1>9. [r EXCEPT !.seen_ts = {}]
          = [seq |-> f, ip |-> ip, first |-> first, last |-> last,
             echo_target |-> Unknown, echo_count |-> 0, echo_bytes |-> 0, seen_ts |-> {}]
    BY <1>2, <1>3, <1>4, <1>5, <1>8
<1> QED
    BY <1>7, <1>9 DEF r

(* A cluster reads the sequences, addresses and times of its sessions. *)
LEMMA ClustersAgree ==
    ASSUME NEW a, NEW b, DOMAIN a = DOMAIN b,
           \A sid \in DOMAIN a : /\ a[sid].seq = b[sid].seq /\ a[sid].ip = b[sid].ip
                                 /\ a[sid].first = b[sid].first /\ a[sid].last = b[sid].last
    PROVE  Clusters(a) = Clusters(b)
<1> DEFINE Listed(ss) == {sid \in DOMAIN ss : NumCmds(ss[sid].seq) >= MinCmds}
           Same(ss, seq) == {sid \in Listed(ss) : ss[sid].seq = seq}
           Group(ss, seq) ==
               [seq |-> seq, sids |-> Same(ss, seq), ips |-> {ss[sid].ip : sid \in Same(ss, seq)},
                first |-> FirstText({ss[sid].first : sid \in Same(ss, seq)}),
                last |-> LastText({ss[sid].last : sid \in Same(ss, seq)})]
           Seqs(ss) == {ss[sid].seq : sid \in Listed(ss)}
<1>1. \A ss : Clusters(ss) = {Group(ss, seq) : seq \in Seqs(ss)}
    BY DEF Clusters
<1>2. Listed(a) = Listed(b) /\ Listed(a) \subseteq DOMAIN a
    OBVIOUS
<1>3. Seqs(a) = Seqs(b)
    <2> HIDE DEF Listed
    <2> QED
        BY <1>2
<1>4. ASSUME NEW seq PROVE Group(a, seq) = Group(b, seq)
    <2>1. Same(a, seq) = Same(b, seq) /\ Same(a, seq) \subseteq DOMAIN a
        <3> HIDE DEF Listed
        <3> QED
            BY <1>2
    <2> HIDE DEF Same
    <2>2. {a[sid].ip : sid \in Same(a, seq)} = {b[sid].ip : sid \in Same(b, seq)}
        BY <2>1
    <2>3. {a[sid].first : sid \in Same(a, seq)} = {b[sid].first : sid \in Same(b, seq)}
        BY <2>1
    <2>4. {a[sid].last : sid \in Same(a, seq)} = {b[sid].last : sid \in Same(b, seq)}
        BY <2>1
    <2> QED
        BY <2>1, <2>2, <2>3, <2>4
<1> HIDE DEF Group, Seqs
<1> QED
    BY <1>1, <1>3, <1>4

-------------------------------------------------------------------------------
(* Where the p-th record of the file comes from, and the positions of the   *)
(* log that the records before it have told of.                             *)

Width(b) == b.to + 1 - b.from
InBlock(b, k) == b.from <= k /\ k <= b.to
Source(log, b, p) ==
    IF b.prepended THEN IF p <= Width(b) THEN b.from + p - 1 ELSE p - Width(b)
    ELSE IF p <= Len(log) THEN p ELSE b.from + (p - Len(log)) - 1
Taken(log, b, p) ==
    {k \in DOMAIN log : IF b.prepended
                        THEN (InBlock(b, k) /\ k < b.from + p - 1) \/ k < p - Width(b)
                        ELSE k < p}
IsLog(log) == log \in Seq(Range(log))

LEMMA LogShape ==
    ASSUME NEW log, IsLog(log)
    PROVE  Len(log) \in Nat /\ DOMAIN log = 1..Len(log) /\ DOMAIN log \subseteq Nat
<1>1. Len(log) \in Nat /\ DOMAIN log = 1..Len(log)
    BY LenProperties DEF IsLog
<1> QED
    BY <1>1

LEMMA BlockShape ==
    ASSUME NEW log, IsLog(log), NEW b \in Blocks(log)
    PROVE  /\ b.from \in Nat \ {0} /\ b.to \in Nat /\ b.prepended \in BOOLEAN
           /\ b.from <= b.to + 1 /\ b.to <= Len(log)
           /\ Width(b) \in Nat
<1>1. Len(log) \in Nat /\ DOMAIN log = 1..Len(log)
    BY LogShape
<1>2. CASE b = NoBlock
    <2>1. b.from = 1 /\ b.to = 0 /\ b.prepended \in BOOLEAN
        BY <1>2 DEF NoBlock
    <2>2. Width(b) = 0
        BY <2>1 DEF Width
    <2>3. b.from <= b.to + 1 /\ b.to <= Len(log)
        BY <1>1, <2>1
    <2> QED
        BY <2>1, <2>2, <2>3
<1>3. CASE b # NoBlock
    <2>1. b.from \in DOMAIN log /\ b.to \in DOMAIN log /\ b.prepended \in BOOLEAN /\ b.from <= b.to
        BY <1>3 DEF Blocks
    <2> QED
        BY <1>1, <2>1 DEF Width
<1> QED
    BY <1>2, <1>3

LEMMA SpliceShape ==
    ASSUME NEW log, IsLog(log), NEW b \in Blocks(log)
    PROVE  /\ DOMAIN Splice(log, b) = 1..(Len(log) + Width(b))
           /\ Len(Splice(log, b)) = Len(log) + Width(b)
           /\ \A p \in DOMAIN Splice(log, b) : /\ Source(log, b, p) \in DOMAIN log
                                              /\ Splice(log, b)[p] = log[Source(log, b, p)]
<1> DEFINE V == Range(log)
           n == Len(log)
           w == Width(b)
           part == SubSeq(log, b.from, b.to)
<1>1. log \in Seq(V) /\ n \in Nat /\ DOMAIN log = 1..n
    BY LogShape DEF IsLog
<1>2. /\ b.from \in Nat \ {0} /\ b.to \in Nat /\ b.prepended \in BOOLEAN
      /\ b.from <= b.to + 1 /\ b.to <= n /\ w \in Nat
    BY BlockShape
<1> HIDE DEF V
<1>3. /\ part \in Seq(V) /\ Len(part) = w
      /\ \A i \in 1..w : part[i] = log[b.from + i - 1]
    <2>1. \A i \in b.from..b.to : log[i] \in V
        BY <1>1, <1>2, ElementOfSeq
    <2>2. /\ part \in Seq(V)
          /\ Len(part) = IF b.from <= b.to THEN b.to - b.from + 1 ELSE 0
          /\ \A i \in 1..(b.to - b.from + 1) : part[i] = log[b.from + i - 1]
        <3> DEFINE from == b.from
                   to == b.to
        <3>1. from \in 1..(Len(log) + 1) /\ to \in (from - 1)..Len(log)
            BY <1>1, <1>2
        <3>2. \A i \in from..to : log[i] \in V
            BY <2>1
        <3> HIDE DEF from, to
        <3>3. /\ SubSeq(log, from, to) \in Seq(V)
              /\ Len(SubSeq(log, from, to)) = IF from <= to THEN to - from + 1 ELSE 0
              /\ \A i \in 1..(to - from + 1) : SubSeq(log, from, to)[i] = log[from + i - 1]
            BY <1>1, <3>1, <3>2, SubSeqProperties
        <3> QED
            BY <3>3 DEF from, to
    <2> QED
        BY <1>2, <2>2 DEF Width
<1> HIDE DEF n, w, part
<1>4. CASE b.prepended
    <2>1. Splice(log, b) = part \o log
        BY <1>4 DEF Splice, part
    <2>2. /\ part \o log \in Seq(V) /\ Len(part \o log) = w + n
          /\ \A p \in 1..(w + n) : (part \o log)[p] = IF p <= w THEN part[p] ELSE log[p - w]
        BY <1>1, <1>3, ConcatProperties DEF n
    <2>3. DOMAIN Splice(log, b) = 1..(n + w) /\ Len(Splice(log, b)) = n + w
        BY <1>1, <1>2, <2>1, <2>2, LenProperties
    <2>4. ASSUME NEW p \in 1..(n + w)
          PROVE  Source(log, b, p) \in DOMAIN log /\ Splice(log, b)[p] = log[Source(log, b, p)]
        <3>1. Source(log, b, p) = IF p <= w THEN b.from + p - 1 ELSE p - w
            BY <1>4 DEF Source, w
        <3>2. p <= w => p \in 1..w /\ b.from + p - 1 \in 1..n
            BY <1>1, <1>2 DEF w, Width
        <3>3. ~(p <= w) => p - w \in 1..n
            BY <1>1, <1>2
        <3>4. p \in 1..(w + n)
            BY <1>1, <1>2
        <3>5. Splice(log, b)[p] = IF p <= w THEN part[p] ELSE log[p - w]
            BY <2>1, <2>2, <3>4
        <3> QED
            BY <1>1, <1>3, <3>1, <3>2, <3>3, <3>5
    <2> QED
        BY <2>3, <2>4 DEF n, w
<1>5. CASE ~b.prepended
    <2>1. Splice(log, b) = log \o part
        BY <1>5 DEF Splice, part
    <2>2. /\ log \o part \in Seq(V) /\ Len(log \o part) = n + w
          /\ \A p \in 1..(n + w) : (log \o part)[p] = IF p <= n THEN log[p] ELSE part[p - n]
        BY <1>1, <1>3, ConcatProperties DEF n
    <2>3. DOMAIN Splice(log, b) = 1..(n + w) /\ Len(Splice(log, b)) = n + w
        BY <1>1, <1>2, <2>1, <2>2, LenProperties
    <2>4. ASSUME NEW p \in 1..(n + w)
          PROVE  Source(log, b, p) \in DOMAIN log /\ Splice(log, b)[p] = log[Source(log, b, p)]
        <3>1. Source(log, b, p) = IF p <= n THEN p ELSE b.from + (p - n) - 1
            BY <1>5 DEF Source, n
        <3>2. p <= n => p \in 1..n
            BY <1>1, <1>2
        <3>3. ~(p <= n) => p - n \in 1..w /\ b.from + (p - n) - 1 \in 1..n
            BY <1>1, <1>2 DEF w, Width
        <3>5. Splice(log, b)[p] = IF p <= n THEN log[p] ELSE part[p - n]
            BY <2>1, <2>2
        <3> QED
            BY <1>1, <1>3, <3>1, <3>2, <3>3, <3>5
    <2> QED
        BY <2>3, <2>4 DEF n, w
<1> QED
    BY <1>4, <1>5

LEMMA TakenEnds ==
    ASSUME NEW log, IsLog(log), NEW b \in Blocks(log)
    PROVE  /\ Taken(log, b, 1) = {}
           /\ Taken(log, b, Len(log) + Width(b) + 1) = DOMAIN log
<1>1. /\ b.from \in Nat \ {0} /\ b.to \in Nat /\ b.prepended \in BOOLEAN
      /\ b.from <= b.to + 1 /\ b.to <= Len(log) /\ Width(b) \in Nat
    BY BlockShape
<1>2. Len(log) \in Nat /\ DOMAIN log = 1..Len(log)
    BY LogShape
<1>3. Taken(log, b, 1) = {}
    BY <1>1, <1>2 DEF Taken, InBlock
<1>4. Taken(log, b, Len(log) + Width(b) + 1) = DOMAIN log
    <2> DEFINE n == Len(log)
               w == Width(b)
               p == n + w + 1
    <2>1. n \in Nat /\ w \in Nat /\ DOMAIN log = 1..n
        BY <1>1, <1>2
    <2> HIDE DEF n, w
    <2>2. p \in Nat /\ \A k \in 1..n : k < p - w /\ k < p
        BY <2>1
    <2> HIDE DEF p
    <2>3. Taken(log, b, p) = DOMAIN log
        BY <2>1, <2>2 DEF Taken, w
    <2> QED
        BY <2>3 DEF p, n, w
<1> QED
    BY <1>3, <1>4

LEMMA TakenStep ==
    ASSUME NEW log, IsLog(log), NEW b \in Blocks(log), NEW p \in DOMAIN Splice(log, b)
    PROVE  LET k == Source(log, b, p)
           IN  /\ Taken(log, b, p + 1) = Plus(Taken(log, b, p), k)
               /\ k \in Taken(log, b, p) => InBlock(b, k)
               /\ k \notin Taken(log, b, p) =>
                      \A i \in Taken(log, b, p) :
                          i < k \/ (b.prepended /\ InBlock(b, i) /\ ~InBlock(b, k))
<1> DEFINE k == Source(log, b, p)
           n == Len(log)
           w == Width(b)
<1>1. /\ b.from \in Nat \ {0} /\ b.to \in Nat /\ b.prepended \in BOOLEAN
      /\ b.from <= b.to + 1 /\ b.to <= n /\ w \in Nat /\ w = b.to + 1 - b.from
    BY BlockShape DEF Width
<1>2. n \in Nat /\ DOMAIN log = 1..n
    BY LogShape
<1>3. p \in 1..(n + w) /\ k \in 1..n
    BY <1>2, SpliceShape
<1>4. \A i : i \in Taken(log, b, p + 1) <=> i \in Taken(log, b, p) \/ i = k
    <2>1. CASE b.prepended
        <3>1. k = IF p <= w THEN b.from + p - 1 ELSE p - w
            BY <2>1 DEF Source
        <3> HIDE DEF k, n, w
        <3>2. ASSUME NEW i \in 1..n
              PROVE  (InBlock(b, i) /\ i < b.from + (p + 1) - 1) \/ i < (p + 1) - w
                         <=> (InBlock(b, i) /\ i < b.from + p - 1) \/ i < p - w \/ i = k
            <4> DEFINE from == b.from
                       to == b.to
            <4>1. /\ from \in Nat \ {0} /\ to \in Nat /\ w \in Nat /\ w = to + 1 - from
                  /\ p \in Nat \ {0} /\ i \in Nat \ {0}
                BY <1>1, <1>2, <1>3
            <4>2. k = IF p <= w THEN from + p - 1 ELSE p - w
                BY <3>1
            <4>3. InBlock(b, i) <=> from <= i /\ i <= to
                BY DEF InBlock
            <4> HIDE DEF from, to
            <4>4. (from <= i /\ i <= to /\ i < from + (p + 1) - 1) \/ i < (p + 1) - w
                      <=> (from <= i /\ i <= to /\ i < from + p - 1) \/ i < p - w \/ i = k
                BY <4>1, <4>2
            <4> QED
                BY <4>3, <4>4 DEF from
        <3> QED
            BY <1>2, <1>3, <2>1, <3>2 DEF Taken, w
    <2>2. CASE ~b.prepended
        <3>1. k = IF p <= n THEN p ELSE b.from + (p - n) - 1
            BY <2>2 DEF Source
        <3> HIDE DEF k, n, w
        <3> QED
            BY <1>1, <1>2, <1>3, <2>2, <3>1 DEF Taken
    <2> QED
        BY <2>1, <2>2
<1>5. k \in Taken(log, b, p) => InBlock(b, k)
    <2>1. CASE b.prepended
        <3>1. k = IF p <= w THEN b.from + p - 1 ELSE p - w
            BY <2>1 DEF Source
        <3> HIDE DEF k, n, w
        <3> QED
            BY <1>1, <1>2, <1>3, <2>1, <3>1 DEF Taken, InBlock, w
    <2>2. CASE ~b.prepended
        <3>1. k = IF p <= n THEN p ELSE b.from + (p - n) - 1
            BY <2>2 DEF Source
        <3> HIDE DEF k, n, w
        <3> QED
            BY <1>1, <1>2, <1>3, <2>2, <3>1 DEF Taken, InBlock
    <2> QED
        BY <2>1, <2>2
<1>6. ASSUME k \notin Taken(log, b, p), NEW i \in Taken(log, b, p)
      PROVE  i < k \/ (b.prepended /\ InBlock(b, i) /\ ~InBlock(b, k))
    <2>1. CASE b.prepended
        <3>1. k = IF p <= w THEN b.from + p - 1 ELSE p - w
            BY <2>1 DEF Source
        <3> HIDE DEF k, n, w
        <3> QED
            BY <1>1, <1>2, <1>3, <1>6, <2>1, <3>1 DEF Taken, InBlock, w
    <2>2. CASE ~b.prepended
        <3>1. k = IF p <= n THEN p ELSE b.from + (p - n) - 1
            BY <2>2 DEF Source
        <3> HIDE DEF k, n, w
        <3> QED
            BY <1>1, <1>2, <1>3, <1>6, <2>2, <3>1 DEF Taken, InBlock
    <2> QED
        BY <2>1, <2>2
<1> HIDE DEF k
<1>7. Taken(log, b, p + 1) = Plus(Taken(log, b, p), k)
    BY <1>4 DEF Plus
<1> QED
    BY <1>5, <1>6, <1>7 DEF k

-------------------------------------------------------------------------------
(* All sessions: each follows the positions of its own that are taken.      *)

SessionIn(ss, sid) == IF sid \in DOMAIN ss THEN ss[sid] ELSE NewSession
Mine(log, b, p, sid) == {k \in Taken(log, b, p) : log[k].sid = sid}
AllFollow(log, b, mem, p, ss) ==
    /\ DOMAIN ss = {log[k].sid : k \in Taken(log, b, p)}
    /\ \A sid : Follows(log, mem, SessionIn(ss, sid), Mine(log, b, p, sid))

LEMMA TakenNat ==
    ASSUME NEW log, IsLog(log), NEW b, NEW p
    PROVE  /\ Taken(log, b, p) \subseteq Nat /\ IsFiniteSet(Taken(log, b, p))
           /\ Taken(log, b, p) \subseteq DOMAIN log
           /\ \A sid : Mine(log, b, p, sid) \subseteq Nat
<1>1. DOMAIN log = 1..Len(log) /\ Len(log) \in Nat
    BY LogShape
<1>2. IsFiniteSet(1..Len(log))
    BY <1>1, FS_Interval
<1>3. Taken(log, b, p) \subseteq 1..Len(log)
    BY <1>1 DEF Taken
<1>4. 1..Len(log) \subseteq Nat
    BY <1>1
<1> QED
    BY <1>1, <1>2, <1>3, <1>4, FS_Subset DEF Mine

LEMMA NothingYet ==
    ASSUME NEW log, NEW mem
    PROVE  Follows(log, mem, NewSession, {})
<1>1. Told(log, {}) = {} /\ Hellos(log, {}) = {} /\ Seen(log, mem, {}) = {}
    BY DEF Told, Hellos, Seen
<1>2. Starts(log, {}) = {} /\ Cardinality({}) = 0 /\ IsFiniteSet({})
    BY FS_EmptySet DEF Starts
<1>3. Settled(log, {})
    BY <1>2 DEF Settled, Ranked
<1>4. TrueSeq(log, {}) = <<>>
    <2> DEFINE f == TrueSeq(log, {})
    <2>1. f \in [1..0 -> {}]
        BY <1>2 DEF TrueSeq
    <2> HIDE DEF f
    <2>2. f \in Seq({}) /\ Len(f) = 0
        BY <2>1
    <2>3. f = <<>>
        BY <2>2, EmptySeq
    <2> QED
        BY <2>3 DEF f
<1>5. /\ NewSession.seq = <<>> /\ NewSession.ip = Unknown /\ NewSession.first = 0
      /\ NewSession.echo_target = Unknown /\ NewSession.echo_count = 0
      /\ NewSession.echo_bytes = 0 /\ NewSession.seen_ts = {}
    BY DEF NewSession
<1>6. IsSession(NewSession)
    BY DEF IsSession, NewSession
<1>7. LinesFollow(log, NewSession, {})
    BY <1>4, <1>5 DEF LinesFollow, Idle
<1>8. Ends(log, NewSession, {}) /\ Greets(log, NewSession, {})
    BY <1>1, <1>5 DEF Ends, Greets
<1> QED
    BY <1>1, <1>3, <1>5, <1>6, <1>7, <1>8 DEF Follows

LEMMA AllFollowAtFirst ==
    ASSUME NEW log, IsLog(log), NEW b \in Blocks(log), NEW mem,
           NEW ss, ss = [sid \in {} |-> NewSession]
    PROVE  AllFollow(log, b, mem, 1, ss)
<1>1. Taken(log, b, 1) = {}
    BY TakenEnds
<1>2. DOMAIN ss = {}
    OBVIOUS
<1>3. \A sid : SessionIn(ss, sid) = NewSession /\ Mine(log, b, 1, sid) = {}
    BY <1>1, <1>2 DEF SessionIn, Mine
<1> QED
    BY <1>1, <1>2, <1>3, NothingYet DEF AllFollow

Updated(ss, own, s) ==
    [sid \in DOMAIN ss \cup {own} |-> IF sid = own THEN s ELSE ss[sid]]

LEMMA KeepAll ==
    ASSUME NEW log, IsLog(log), NEW b \in Blocks(log), NEW mem,
           NEW p \in DOMAIN Splice(log, b), NEW ss, AllFollow(log, b, mem, p, ss),
           NEW k, k = Source(log, b, p), NEW s,
           Follows(log, mem, s, Plus(Mine(log, b, p, log[k].sid), k))
    PROVE  AllFollow(log, b, mem, p + 1, Updated(ss, log[k].sid, s))
<1> DEFINE own == log[k].sid
           ts == Updated(ss, own, s)
           Old == Taken(log, b, p)
           New == Taken(log, b, p + 1)
<1>1. New = Plus(Old, k)
    BY TakenStep
<1>2. DOMAIN ss = {log[i].sid : i \in Old}
    BY DEF AllFollow
<1> HIDE DEF Old, New
<1>3. DOMAIN ts = {log[i].sid : i \in New}
    BY <1>1, <1>2 DEF Plus, Updated
<1>4. Mine(log, b, p + 1, own) = Plus(Mine(log, b, p, own), k)
    BY <1>1 DEF Mine, Plus, Old, New
<1>5. \A sid : sid # own => Mine(log, b, p + 1, sid) = Mine(log, b, p, sid)
    BY <1>1 DEF Mine, Plus, Old, New
<1>6. SessionIn(ts, own) = s
    BY DEF SessionIn, Updated
<1>7. \A sid : sid # own => SessionIn(ts, sid) = SessionIn(ss, sid)
    BY DEF SessionIn, Updated
<1> HIDE DEF own, ts
<1>8. Follows(log, mem, SessionIn(ts, own), Mine(log, b, p + 1, own))
    BY <1>4, <1>6 DEF own
<1>9. ASSUME NEW sid, sid # own
      PROVE  Follows(log, mem, SessionIn(ts, sid), Mine(log, b, p + 1, sid))
    <2>1. Follows(log, mem, SessionIn(ss, sid), Mine(log, b, p, sid))
        BY DEF AllFollow
    <2> QED
        BY <1>5, <1>7, <1>9, <2>1
<1>10. \A sid : Follows(log, mem, SessionIn(ts, sid), Mine(log, b, p + 1, sid))
    BY <1>8, <1>9
<1> QED
    BY <1>3, <1>10 DEF AllFollow, New, ts, own

LEMMA DropAll ==
    ASSUME NEW log, IsLog(log), NEW b \in Blocks(log), NEW mem,
           NEW p \in DOMAIN Splice(log, b), NEW ss, AllFollow(log, b, mem, p, ss),
           Source(log, b, p) \in Taken(log, b, p)
    PROVE  AllFollow(log, b, mem, p + 1, ss)
<1>1. Taken(log, b, p + 1) = Plus(Taken(log, b, p), Source(log, b, p))
    BY TakenStep
<1>2. Taken(log, b, p + 1) = Taken(log, b, p)
    BY <1>1 DEF Plus
<1>3. \A sid : Mine(log, b, p + 1, sid) = Mine(log, b, p, sid)
    BY <1>2 DEF Mine
<1> QED
    BY <1>2, <1>3 DEF AllFollow

LEMMA TakenCount ==
    ASSUME NEW log, IsLog(log), NEW b \in Blocks(log), NEW p \in DOMAIN Splice(log, b)
    PROVE  LET k == Source(log, b, p)
               c == Cardinality(Taken(log, b, p))
               d == Cardinality(Taken(log, b, p + 1))
           IN  /\ c \in Nat
               /\ k \in Taken(log, b, p) => d = c
               /\ k \notin Taken(log, b, p) => d = c + 1
<1>1. Taken(log, b, p + 1) = Plus(Taken(log, b, p), Source(log, b, p))
    BY TakenStep
<1>2. IsFiniteSet(Taken(log, b, p))
    BY TakenNat
<1>3. Cardinality(Taken(log, b, p)) \in Nat
    BY <1>2, FS_CardinalityType
<1>4. Source(log, b, p) \in Taken(log, b, p) => Taken(log, b, p + 1) = Taken(log, b, p)
    BY <1>1 DEF Plus
<1>5. Source(log, b, p) \notin Taken(log, b, p)
          => Cardinality(Taken(log, b, p + 1)) = Cardinality(Taken(log, b, p)) + 1
    BY <1>1, <1>2, FS_AddElement DEF Plus
<1> QED
    BY <1>3, <1>4, <1>5

-------------------------------------------------------------------------------
(* A log that the honeypot may have written.                                *)

LEMMA LogFacts ==
    ASSUME NEW log \in Logs
    PROVE  /\ IsLog(log)
           /\ \A i \in DOMAIN log : IsCommand(log[i]) => Sized(log, i)
           /\ \A K : K \subseteq DOMAIN log => Clocked(log, K)
           /\ \A i, j \in DOMAIN log :
                  log[i].sid = log[j].sid /\ log[i].time = log[j].time => i = j
<1>1. /\ log \in Seq(Range(log))
      /\ \A i \in DOMAIN log : log[i].time \in Nat \ {0, NoText}
      /\ \A i, j \in DOMAIN log :
             i < j /\ log[i].sid = log[j].sid => log[i].time < log[j].time
      /\ \A i \in DOMAIN log : log[i].msg \in {"shell", "exec"} => log[i].command.bytes \in Nat
    BY LogsAssumption
<1>2. IsLog(log)
    BY <1>1 DEF IsLog
<1>3. \A i \in DOMAIN log : IsCommand(log[i]) => Sized(log, i)
    BY <1>1 DEF IsCommand, Sized
<1>4. ASSUME NEW K, K \subseteq DOMAIN log PROVE Clocked(log, K)
    <2> SUFFICES ASSUME NEW k \in K PROVE log[k].time # 0
        BY DEF Clocked
    <2>1. log[k].time \in Nat \ {0, NoText}
        BY <1>1, <1>4
    <2> QED
        BY <2>1
<1>5. ASSUME NEW i \in DOMAIN log, NEW j \in DOMAIN log,
             log[i].sid = log[j].sid, log[i].time = log[j].time
      PROVE  i = j
    <2>1. i \in Nat /\ j \in Nat
        BY <1>2, LogShape
    <2>2. ASSUME i < j PROVE FALSE
        <3>1. log[i].time < log[j].time /\ log[i].time \in Nat
            BY <1>1, <1>5, <2>2
        <3> QED
            BY <1>5, <3>1
    <2>3. ASSUME j < i PROVE FALSE
        <3>1. log[j].time < log[i].time /\ log[i].time \in Nat
            BY <1>1, <1>5, <2>3
        <3> QED
            BY <1>5, <3>1
    <2> QED
        BY <2>1, <2>2, <2>3
<1> QED
    BY <1>2, <1>3, <1>4, <1>5

(* CutsNoSession by positions. *)
WholeSessions(log, b) ==
    b.prepended =>
        \A i, j \in DOMAIN log :
            InBlock(b, i) /\ j < i /\ log[j].sid = log[i].sid => InBlock(b, j)

(* A new position comes after those of its session. *)
LEMMA NewIsAfter ==
    ASSUME NEW log \in Logs, NEW b \in Blocks(log), WholeSessions(log, b),
           NEW p \in DOMAIN Splice(log, b), NEW k, k = Source(log, b, p),
           k \notin Taken(log, b, p)
    PROVE  After(Mine(log, b, p, log[k].sid), k)
<1>1. IsLog(log)
    BY LogFacts
<1>2. k \in DOMAIN log
    BY <1>1, SpliceShape
<1>3. k \in Nat
    BY <1>1, <1>2, LogShape
<1>4. ASSUME NEW i \in Mine(log, b, p, log[k].sid) PROVE i < k
    <2>1. i \in Taken(log, b, p) /\ log[i].sid = log[k].sid
        BY DEF Mine
    <2>2. i \in DOMAIN log
        BY <2>1 DEF Taken
    <2>3. i \in Nat
        BY <1>1, <2>2, LogShape
    <2>4. i < k \/ (b.prepended /\ InBlock(b, i) /\ ~InBlock(b, k))
        BY <1>1, <2>1, TakenStep
    <2>5. CASE b.prepended /\ InBlock(b, i) /\ ~InBlock(b, k)
        <3>1. ~(k < i)
            BY <1>2, <2>1, <2>2, <2>5 DEF WholeSessions
        <3>2. k # i
            BY <2>1
        <3> QED
            BY <1>3, <2>3, <3>1, <3>2
    <2> QED
        BY <2>4, <2>5
<1> QED
    BY <1>3, <1>4 DEF After

(* The record of a position is a repeated one if the position was taken. *)
LEMMA RepeatIsTaken ==
    ASSUME NEW log \in Logs, NEW b \in Blocks(log), NEW mem,
           \A i \in DOMAIN log : InBlock(b, i) => i \in mem,
           NEW p \in DOMAIN Splice(log, b), NEW ss, AllFollow(log, b, mem, p, ss),
           NEW k, k = Source(log, b, p)
    PROVE  k \in Taken(log, b, p) <=>
               k \in mem /\ RecordKey(log[k]) \in SessionIn(ss, log[k].sid).seen_ts
<1> DEFINE K == Mine(log, b, p, log[k].sid)
<1>1. IsLog(log)
    BY LogFacts
<1>2. k \in DOMAIN log
    BY <1>1, SpliceShape
<1>3. SessionIn(ss, log[k].sid).seen_ts = Seen(log, mem, K)
    BY DEF AllFollow, Follows
<1>4. ASSUME k \in Taken(log, b, p)
      PROVE  k \in mem /\ RecordKey(log[k]) \in Seen(log, mem, K)
    <2>1. InBlock(b, k)
        BY <1>1, <1>4, TakenStep
    <2>2. k \in mem
        BY <1>2, <2>1
    <2>3. k \in K
        BY <1>4 DEF Mine
    <2> QED
        BY <2>2, <2>3 DEF Seen
<1>5. ASSUME RecordKey(log[k]) \in Seen(log, mem, K)
      PROVE  k \in Taken(log, b, p)
    <2>1. PICK i \in K : RecordKey(log[k]) = RecordKey(log[i])
        BY <1>5 DEF Seen
    <2>2. log[k].time = log[i].time
        BY <2>1 DEF RecordKey
    <2>3. i \in Taken(log, b, p) /\ log[i].sid = log[k].sid
        BY DEF Mine
    <2>4. i \in DOMAIN log
        BY <2>3 DEF Taken
    <2>5. i = k
        BY <1>2, <2>2, <2>3, <2>4, LogFacts
    <2> QED
        BY <2>3, <2>5
<1> QED
    BY <1>3, <1>4, <1>5

-------------------------------------------------------------------------------
(* The inductive invariant: before the grouping, the sessions follow the    *)
(* positions that were taken, and dups counts the others.                   *)

Memory == {k \in DOMAIN true_log : Remembers(true_log[k])}
Reading ==
    /\ AllFollow(true_log, block, Memory, pos, sessions)
    /\ dups \in Nat
    /\ dups + Cardinality(Taken(true_log, block, pos)) = pos - 1
Grouped ==
    /\ sessions = TrueSessions(true_log)
    /\ groups = <<Clusters(TrueSessions(true_log))>>
    /\ dups = Len(file) - Len(true_log)
Given == true_log \in Logs /\ block \in Blocks(true_log) /\ file = Splice(true_log, block)
Harmless == CutsNoSession /\ KnownDates
IInv ==
    /\ Given
    /\ pos \in Nat \ {0} /\ pos <= Len(file) + 1
    /\ groups # <<>> => pos = Len(file) + 1
    /\ Harmless => IF groups = <<>> THEN Reading ELSE Grouped

(* Positions instead of records: the block holds whole sessions.            *)
LEMMA BlockWhole ==
    ASSUME Given, CutsNoSession
    PROVE  WholeSessions(true_log, block)
<1>1. true_log \in Logs /\ block \in Blocks(true_log)
    BY DEF Given
<1>2. IsLog(true_log)
    BY <1>1, LogFacts
<1>3. DOMAIN true_log \subseteq Nat /\ block.from \in Nat /\ block.to \in Nat
    BY <1>1, <1>2, LogShape, BlockShape
<1>4. \A i \in DOMAIN true_log : InBlock(block, i) => i \in block.from..block.to
    BY <1>3 DEF InBlock
<1>5. \A i \in block.from..block.to : InBlock(block, i) /\ i \in DOMAIN true_log
    <2>1. block.from \in Nat \ {0} /\ block.to <= Len(true_log)
        BY <1>1, <1>2, BlockShape
    <2>2. Len(true_log) \in Nat /\ DOMAIN true_log = 1..Len(true_log)
        BY <1>2, LogShape
    <2> QED
        BY <1>3, <2>1, <2>2 DEF InBlock
<1>6. ASSUME block.prepended, NEW i \in DOMAIN true_log, NEW j \in DOMAIN true_log,
             InBlock(block, i), j < i, true_log[j].sid = true_log[i].sid
      PROVE  InBlock(block, j)
    <2>1. true_log[i] \in BlockRecords
        BY <1>4, <1>6 DEF BlockRecords
    <2>2. true_log[j] \in ToSet(true_log)
        BY DEF ToSet
    <2>3. true_log[j].time < true_log[i].time
        BY <1>1, <1>6, LogsAssumption
    <2>4. true_log[j] \in BlockRecords
        BY <1>6, <2>1, <2>2, <2>3 DEF CutsNoSession
    <2>5. PICK m \in block.from..block.to : true_log[j] = true_log[m]
        BY <2>4 DEF BlockRecords
    <2>6. m \in DOMAIN true_log /\ InBlock(block, m)
        BY <1>5
    <2>7. true_log[j].time = true_log[m].time /\ true_log[j].sid = true_log[m].sid
        BY <2>5
    <2>8. j = m
        BY <1>1, <2>6, <2>7, LogFacts
    <2> QED
        BY <2>6, <2>8
<1> QED
    BY <1>6 DEF WholeSessions

LEMMA HarmlessBlock ==
    ASSUME Given, Harmless
    PROVE  /\ WholeSessions(true_log, block)
           /\ \A i \in DOMAIN true_log : InBlock(block, i) => i \in Memory
<1>1. WholeSessions(true_log, block)
    BY BlockWhole DEF Harmless
<1>2. ASSUME NEW i \in DOMAIN true_log, InBlock(block, i) PROVE i \in Memory
    <2>1. true_log \in Logs /\ block \in Blocks(true_log)
        BY DEF Given
    <2>2. IsLog(true_log)
        BY <2>1, LogFacts
    <2>3. DOMAIN true_log \subseteq Nat /\ block.from \in Nat /\ block.to \in Nat
        BY <2>1, <2>2, LogShape, BlockShape
    <2>4. i \in block.from..block.to
        BY <1>2, <2>3 DEF InBlock
    <2>5. true_log[i] \in BlockRecords
        BY <2>4 DEF BlockRecords
    <2>6. Remembers(true_log[i])
        BY <2>5 DEF Harmless, KnownDates, Remembers
    <2> QED
        BY <2>6 DEF Memory
<1> QED
    BY <1>1, <1>2

(* What a step of the loop reads. *)
LEMMA TakenRecord ==
    ASSUME IInv, NEW rec, TakeRecord(rec)
    PROVE  LET k == Source(true_log, block, pos)
           IN  /\ true_log \in Logs /\ block \in Blocks(true_log) /\ IsLog(true_log)
               /\ pos \in DOMAIN Splice(true_log, block)
               /\ k \in DOMAIN true_log /\ rec = true_log[k]
               /\ groups = <<>>
<1>1. true_log \in Logs /\ block \in Blocks(true_log) /\ file = Splice(true_log, block)
    BY DEF IInv, Given
<1>2. IsLog(true_log)
    BY <1>1, LogFacts
<1>3. pos \in DOMAIN Splice(true_log, block) /\ rec = Splice(true_log, block)[pos]
    BY <1>1 DEF TakeRecord
<1>4. /\ Source(true_log, block, pos) \in DOMAIN true_log
      /\ rec = true_log[Source(true_log, block, pos)]
    BY <1>1, <1>2, <1>3, SpliceShape
<1>5. groups = <<>>
    <2>1. DOMAIN file = 1..Len(file) /\ Len(file) \in Nat
        <3>1. DOMAIN file = 1..(Len(true_log) + Width(block))
              /\ Len(file) = Len(true_log) + Width(block)
            BY <1>1, <1>2, SpliceShape
        <3>2. Len(true_log) \in Nat /\ Width(block) \in Nat
            BY <1>1, <1>2, LogShape, BlockShape
        <3> QED
            BY <3>1, <3>2
    <2>2. pos \in 1..Len(file)
        BY <1>1, <1>3, <2>1
    <2>3. pos # Len(file) + 1
        BY <2>1, <2>2
    <2> QED
        BY <2>3 DEF IInv
<1> QED
    BY <1>1, <1>2, <1>3, <1>4, <1>5

LEMMA RepeatOrNew ==
    ASSUME IInv, Harmless, NEW rec, TakeRecord(rec)
    PROVE  IsRepeat(rec) <=> Source(true_log, block, pos) \in Taken(true_log, block, pos)
<1> DEFINE k == Source(true_log, block, pos)
<1>1. /\ true_log \in Logs /\ block \in Blocks(true_log)
      /\ pos \in DOMAIN Splice(true_log, block)
      /\ k \in DOMAIN true_log /\ rec = true_log[k] /\ groups = <<>>
    BY TakenRecord
<1>2. AllFollow(true_log, block, Memory, pos, sessions)
    BY <1>1 DEF IInv, Reading
<1>3. \A i \in DOMAIN true_log : InBlock(block, i) => i \in Memory
    BY HarmlessBlock DEF IInv
<1> HIDE DEF k
<1>4. k \in Taken(true_log, block, pos) <=>
          k \in Memory /\ RecordKey(true_log[k]) \in SessionIn(sessions, true_log[k].sid).seen_ts
    BY <1>1, <1>2, <1>3, RepeatIsTaken DEF k
<1>5. k \in Memory <=> Remembers(rec)
    BY <1>1 DEF Memory
<1>6. SessionOf(rec.sid) = SessionIn(sessions, true_log[k].sid)
    BY <1>1 DEF SessionOf, SessionIn
<1> QED
    BY <1>1, <1>4, <1>5, <1>6 DEF IsRepeat, k

LEMMA StaysHarmless ==
    ASSUME UNCHANGED given
    PROVE  /\ Harmless' = Harmless /\ Memory' = Memory
BY DEF given, Harmless, CutsNoSession, KnownDates, BlockRecords, Memory, Remembers

(* The counts, whatever the step does with the sessions. *)
LEMMA CountsStep ==
    ASSUME IInv, Harmless, NEW rec, TakeRecord(rec),
           dups' = IF Source(true_log, block, pos) \in Taken(true_log, block, pos)
                   THEN dups + 1 ELSE dups
    PROVE  /\ dups' \in Nat
           /\ dups' + Cardinality(Taken(true_log, block, pos + 1)) = pos
<1> DEFINE k == Source(true_log, block, pos)
           c == Cardinality(Taken(true_log, block, pos))
           d == Cardinality(Taken(true_log, block, pos + 1))
<1>1. /\ block \in Blocks(true_log) /\ IsLog(true_log)
      /\ pos \in DOMAIN Splice(true_log, block) /\ groups = <<>>
    BY TakenRecord
<1>2. /\ c \in Nat
      /\ k \in Taken(true_log, block, pos) => d = c
      /\ k \notin Taken(true_log, block, pos) => d = c + 1
    BY <1>1, TakenCount
<1>3. dups \in Nat /\ dups + c = pos - 1 /\ pos \in Nat
    BY <1>1 DEF IInv, Reading
<1> HIDE DEF k, c, d
<1>4. dups' = IF k \in Taken(true_log, block, pos) THEN dups + 1 ELSE dups
    BY DEF k
<1>5. dups' \in Nat /\ dups' + d = pos
    <2>1. CASE k \in Taken(true_log, block, pos)
        BY <1>2, <1>3, <1>4, <2>1
    <2>2. CASE k \notin Taken(true_log, block, pos)
        BY <1>2, <1>3, <1>4, <2>2
    <2> QED
        BY <2>1, <2>2
<1> QED
    BY <1>5 DEF d

(* A record that is kept: its session is ready for it. *)
LEMMA KeptReady ==
    ASSUME IInv, Harmless, NEW rec, TakeRecord(rec), ~IsRepeat(rec)
    PROVE  LET k == Source(true_log, block, pos)
               K == Mine(true_log, block, pos, rec.sid)
           IN  /\ rec = true_log[k]
               /\ K \subseteq Nat /\ After(K, k) /\ Clocked(true_log, K)
               /\ Follows(true_log, Memory, SessionOf(rec.sid), K)
               /\ Kept(rec) = Noted(true_log, Memory, SessionOf(rec.sid), k)
               /\ IsCommand(rec) => Sized(true_log, k)
<1> DEFINE k == Source(true_log, block, pos)
           K == Mine(true_log, block, pos, rec.sid)
           s == SessionOf(rec.sid)
<1>1. /\ true_log \in Logs /\ block \in Blocks(true_log) /\ IsLog(true_log)
      /\ pos \in DOMAIN Splice(true_log, block)
      /\ k \in DOMAIN true_log /\ rec = true_log[k] /\ groups = <<>>
    BY TakenRecord
<1>2. k \notin Taken(true_log, block, pos)
    BY RepeatOrNew
<1>3. WholeSessions(true_log, block)
    BY HarmlessBlock DEF IInv
<1>4. After(K, k)
    BY <1>1, <1>2, <1>3, NewIsAfter
<1>5. K \subseteq Nat /\ K \subseteq DOMAIN true_log
    BY <1>1, TakenNat DEF Mine
<1>6. Clocked(true_log, K)
    BY <1>1, <1>5, LogFacts
<1>7. AllFollow(true_log, block, Memory, pos, sessions)
    BY <1>1 DEF IInv, Reading
<1>8. s = SessionIn(sessions, rec.sid)
    BY DEF SessionOf, SessionIn
<1>9. Follows(true_log, Memory, s, K)
    BY <1>7, <1>8 DEF AllFollow
<1>10. IsCommand(rec) => Sized(true_log, k)
    BY <1>1, LogFacts
<1>11. k \in Memory <=> Remembers(rec)
    BY <1>1 DEF Memory
<1>12. Kept(rec) = Noted(true_log, Memory, s, k)
    <2> HIDE DEF k, s
    <2> QED
        BY <1>1, <1>11 DEF Kept, Noted, s
<1> QED
    BY <1>1, <1>4, <1>5, <1>6, <1>9, <1>10, <1>12

LEMMA KeepReads ==
    ASSUME IInv, Harmless, NEW rec, NEW s, Keep(rec, s),
           Follows(true_log, Memory, s,
                   Plus(Mine(true_log, block, pos, rec.sid), Source(true_log, block, pos)))
    PROVE  Reading'
<1> DEFINE k == Source(true_log, block, pos)
<1>1. TakeRecord(rec) /\ ~IsRepeat(rec) /\ dups' = dups
    BY DEF Keep
<1>2. /\ block \in Blocks(true_log) /\ IsLog(true_log)
      /\ pos \in DOMAIN Splice(true_log, block)
      /\ rec = true_log[k] /\ groups = <<>>
    BY <1>1, TakenRecord
<1>3. k \notin Taken(true_log, block, pos)
    BY <1>1, RepeatOrNew
<1>4. AllFollow(true_log, block, Memory, pos, sessions)
    BY <1>2 DEF IInv, Reading
<1>5. sessions' = Updated(sessions, true_log[k].sid, s)
    BY <1>2 DEF Keep, Updated
<1>6. Follows(true_log, Memory, s, Plus(Mine(true_log, block, pos, true_log[k].sid), k))
    BY <1>2
<1>7. AllFollow(true_log, block, Memory, pos + 1, sessions')
    <2>1. AllFollow(true_log, block, Memory, pos + 1, Updated(sessions, true_log[k].sid, s))
        BY <1>2, <1>4, <1>6, KeepAll
    <2> QED
        BY <1>5, <2>1
<1>8. /\ dups' \in Nat
      /\ dups' + Cardinality(Taken(true_log, block, pos + 1)) = pos
    BY <1>1, <1>3, CountsStep
<1>9. UNCHANGED given /\ pos' = pos + 1
    BY <1>1 DEF TakeRecord
<1>10. Memory' = Memory /\ true_log' = true_log /\ block' = block
    BY <1>9, StaysHarmless DEF given
<1>11. AllFollow(true_log, block, Memory, pos, sessions)'
    BY <1>7, <1>9, <1>10
<1>12. (dups \in Nat /\ dups + Cardinality(Taken(true_log, block, pos)) = pos - 1)'
    <2> DEFINE d == Cardinality(Taken(true_log, block, pos + 1))
    <2>1. Cardinality(Taken(true_log', block', pos')) = d
        BY <1>9, <1>10
    <2> HIDE DEF d
    <2>2. dups' \in Nat /\ dups' + d = pos
        BY <1>8 DEF d
    <2>3. pos' - 1 = pos
        BY <1>9 DEF IInv
    <2> QED
        BY <2>1, <2>2, <2>3
<1> QED
    BY <1>11, <1>12 DEF Reading

LEMMA DropReads ==
    ASSUME IInv, Harmless, NEW rec, DropRepeat(rec)
    PROVE  Reading'
<1> DEFINE k == Source(true_log, block, pos)
<1>1. TakeRecord(rec) /\ IsRepeat(rec) /\ dups' = dups + 1 /\ sessions' = sessions
    BY DEF DropRepeat
<1>2. /\ block \in Blocks(true_log) /\ IsLog(true_log)
      /\ pos \in DOMAIN Splice(true_log, block)
      /\ rec = true_log[k] /\ groups = <<>>
    BY <1>1, TakenRecord
<1>3. k \in Taken(true_log, block, pos)
    BY <1>1, RepeatOrNew
<1>4. AllFollow(true_log, block, Memory, pos, sessions)
    BY <1>2 DEF IInv, Reading
<1>7. AllFollow(true_log, block, Memory, pos + 1, sessions')
    BY <1>1, <1>2, <1>3, <1>4, DropAll
<1>8. /\ dups' \in Nat
      /\ dups' + Cardinality(Taken(true_log, block, pos + 1)) = pos
    BY <1>1, <1>3, CountsStep
<1>9. UNCHANGED given /\ pos' = pos + 1
    BY <1>1 DEF TakeRecord
<1>10. Memory' = Memory /\ true_log' = true_log /\ block' = block
    BY <1>9, StaysHarmless DEF given
<1>11. AllFollow(true_log, block, Memory, pos, sessions)'
    BY <1>7, <1>9, <1>10
<1>12. (dups \in Nat /\ dups + Cardinality(Taken(true_log, block, pos)) = pos - 1)'
    <2> DEFINE d == Cardinality(Taken(true_log, block, pos + 1))
    <2>1. Cardinality(Taken(true_log', block', pos')) = d
        BY <1>9, <1>10
    <2> HIDE DEF d
    <2>2. dups' \in Nat /\ dups' + d = pos
        BY <1>8 DEF d
    <2>3. pos' - 1 = pos
        BY <1>9 DEF IInv
    <2> QED
        BY <2>1, <2>2, <2>3
<1> QED
    BY <1>11, <1>12 DEF Reading

(* Every branch of the loop keeps what was read. *)
LEMMA RecordReads ==
    ASSUME IInv, Harmless, NEW rec,
           DropRepeat(rec) \/ IngestChunk(rec) \/ IngestCommand(rec)
               \/ IngestMark(rec) \/ IngestOther(rec)
    PROVE  Reading'
<1> DEFINE k == Source(true_log, block, pos)
           K == Mine(true_log, block, pos, rec.sid)
           n == Noted(true_log, Memory, SessionOf(rec.sid), k)
<1>1. ASSUME NEW s, Keep(rec, s)
      PROVE  /\ rec = true_log[k]
             /\ K \subseteq Nat /\ After(K, k) /\ Clocked(true_log, K)
             /\ Follows(true_log, Memory, SessionOf(rec.sid), K)
             /\ Kept(rec) = n
             /\ IsCommand(rec) => Sized(true_log, k)
    <2>1. TakeRecord(rec) /\ ~IsRepeat(rec)
        BY <1>1 DEF Keep
    <2> QED
        BY <2>1, KeptReady
<1>2. CASE DropRepeat(rec)
    BY <1>2, DropReads
<1>3. CASE IngestChunk(rec)
    <2> DEFINE s == PushEcho(Kept(rec), rec.command.target, rec.command.bytes)
    <2>1. IsChunk(rec) /\ Keep(rec, s)
        BY <1>3 DEF IngestChunk
    <2>2. IsCommand(rec)
        BY <2>1 DEF IsChunk
    <2> HIDE DEF k, K, s
    <2>3. Follows(true_log, Memory,
                  PushEcho(n, true_log[k].command.target, true_log[k].command.bytes), Plus(K, k))
        BY <1>1, <2>1, <2>2, ChunkKept
    <2>4. Follows(true_log, Memory, s, Plus(K, k))
        BY <1>1, <2>1, <2>3 DEF s
    <2> QED
        BY <2>1, <2>4, KeepReads DEF k, K
<1>4. CASE IngestCommand(rec)
    <2> DEFINE s == Push(Kept(rec), Command(rec))
    <2>1. IsCommand(rec) /\ ~IsChunk(rec) /\ Keep(rec, s)
        BY <1>4 DEF IngestCommand
    <2> HIDE DEF k, K, s, n
    <2>2. IsTold(true_log[k]) /\ ~IsChunk(true_log[k])
        BY <1>1, <2>1 DEF IsTold
    <2>3. Follows(true_log, Memory,
                  Push(n, IF IsCommand(true_log[k]) THEN Command(true_log[k])
                          ELSE Marker(true_log[k])), Plus(K, k))
        BY <1>1, <2>1, <2>2, LineKept DEF n
    <2>4. Follows(true_log, Memory, s, Plus(K, k))
        BY <1>1, <2>1, <2>3 DEF s
    <2> QED
        BY <2>1, <2>4, KeepReads DEF k, K
<1>5. CASE IngestMark(rec)
    <2> DEFINE s == Push(Kept(rec), Marker(rec))
    <2>1. rec.msg \in Marks /\ Keep(rec, s)
        BY <1>5 DEF IngestMark
    <2>0. ~IsCommand(rec)
        BY <2>1 DEF IsCommand, Marks
    <2> HIDE DEF k, K, s, n
    <2>2. IsTold(true_log[k]) /\ ~IsChunk(true_log[k]) /\ ~IsCommand(true_log[k])
        BY <1>1, <2>0, <2>1 DEF IsTold, IsChunk
    <2>3. Follows(true_log, Memory,
                  Push(n, IF IsCommand(true_log[k]) THEN Command(true_log[k])
                          ELSE Marker(true_log[k])), Plus(K, k))
        BY <1>1, <2>1, <2>2, LineKept DEF n
    <2>4. Follows(true_log, Memory, s, Plus(K, k))
        BY <1>1, <2>1, <2>2, <2>3 DEF s
    <2> QED
        BY <2>1, <2>4, KeepReads DEF k, K
<1>6. CASE IngestOther(rec)
    <2> DEFINE s == IF rec.msg = "handshake ok" THEN [Kept(rec) EXCEPT !.ip = rec.ip]
                    ELSE Kept(rec)
    <2>1. ~IsCommand(rec) /\ rec.msg \notin Marks /\ Keep(rec, s)
        BY <1>6 DEF IngestOther
    <2> HIDE DEF k, K, s, n
    <2>2. ~IsTold(true_log[k])
        BY <1>1, <2>1 DEF IsTold
    <2>3. Follows(true_log, Memory,
                  IF true_log[k].msg = "handshake ok" THEN [n EXCEPT !.ip = true_log[k].ip]
                  ELSE n, Plus(K, k))
        BY <1>1, <2>1, <2>2, OtherKept DEF n
    <2>4. Follows(true_log, Memory, s, Plus(K, k))
        BY <1>1, <2>1, <2>3 DEF s
    <2> QED
        BY <2>1, <2>4, KeepReads DEF k, K
<1> QED
    BY <1>2, <1>3, <1>4, <1>5, <1>6

(* The end. *)
LEMMA GroupedRight ==
    ASSUME IInv, Harmless, GroupSessions
    PROVE  Grouped'
<1> DEFINE log == true_log
           ts == TrueSessions(log)
<1>1. /\ log \in Logs /\ block \in Blocks(log) /\ file = Splice(log, block)
      /\ groups = <<>> /\ pos = Len(file) + 1
    BY DEF IInv, Given, GroupSessions
<1>2. IsLog(log)
    BY <1>1, LogFacts
<1>3. /\ AllFollow(log, block, Memory, pos, sessions)
      /\ dups \in Nat /\ dups + Cardinality(Taken(log, block, pos)) = pos - 1
    BY <1>1 DEF IInv, Reading
<1>4. Len(log) \in Nat /\ DOMAIN log = 1..Len(log) /\ DOMAIN log \subseteq Nat
    BY <1>2, LogShape
<1>5. Len(file) = Len(log) + Width(block) /\ Width(block) \in Nat
    BY <1>1, <1>2, SpliceShape, BlockShape
<1>6. Taken(log, block, pos) = DOMAIN log
    BY <1>1, <1>2, <1>5, TakenEnds
<1>7. dups = Len(file) - Len(log)
    <2>1. Cardinality(1..Len(log)) = Len(log)
        <3> DEFINE n == Len(log)
        <3>1. n \in Nat
            BY <1>4
        <3> HIDE DEF n
        <3>2. Cardinality(1..n) = n
            <4>1. Cardinality(1..n) = IF 1 > n THEN 0 ELSE n - 1 + 1
                BY <3>1, FS_Interval
            <4> QED
                BY <3>1, <4>1
        <3> QED
            BY <3>2 DEF n
    <2> QED
        BY <1>1, <1>3, <1>4, <1>5, <1>6, <2>1
<1>8. \A sid : Mine(log, block, pos, sid) = Own(log, sid)
    BY <1>6 DEF Mine, Own
<1>9. DOMAIN sessions = {log[k].sid : k \in DOMAIN log}
    BY <1>3, <1>6 DEF AllFollow
<1>10. DOMAIN ts = DOMAIN sessions
    <2>1. {rec.sid : rec \in ToSet(log)} = {log[k].sid : k \in DOMAIN log}
        BY DEF ToSet
    <2> QED
        BY <1>9, <2>1 DEF TrueSessions
<1>11. ASSUME NEW sid \in DOMAIN sessions
       PROVE  /\ IsSession(Flushed[sid])
              /\ [Flushed[sid] EXCEPT !.seen_ts = {}] = ts[sid]
    <2>1. Flushed[sid] = FlushEcho(sessions[sid])
        BY DEF Flushed
    <2>2. Follows(log, Memory, sessions[sid], Own(log, sid))
        <3>1. Follows(log, Memory, SessionIn(sessions, sid), Mine(log, block, pos, sid))
            BY <1>3 DEF AllFollow
        <3> QED
            BY <1>8, <3>1 DEF SessionIn
    <2>3. Own(log, sid) # {} /\ Own(log, sid) \subseteq Nat
        BY <1>4, <1>9 DEF Own
    <2>4. ts[sid] = TrueSession(log, Own(log, sid))
        BY <1>10 DEF TrueSessions
    <2>5. [FlushEcho(sessions[sid]) EXCEPT !.seen_ts = {}] = TrueSession(log, Own(log, sid))
        BY <2>2, <2>3, SessionEnds
    <2>6. IsSession(FlushEcho(sessions[sid]))
        BY <2>2, FlushFields DEF Follows
    <2> QED
        BY <2>1, <2>4, <2>5, <2>6
<1>12. /\ sessions' = [sid \in DOMAIN Flushed |-> [Flushed[sid] EXCEPT !.seen_ts = {}]]
       /\ groups' = <<Clusters(Flushed)>> /\ UNCHANGED <<given, dups>>
    BY DEF GroupSessions
<1>13. DOMAIN Flushed = DOMAIN sessions
    BY DEF Flushed
<1>14. ts = [sid \in DOMAIN sessions |-> ts[sid]]
    BY <1>10 DEF TrueSessions
<1> DEFINE fl == Flushed
<1> HIDE DEF ts, fl
<1>15. sessions' = ts
    BY <1>11, <1>12, <1>13, <1>14
<1>16. Clusters(fl) = Clusters(ts)
    <2>1. DOMAIN fl = DOMAIN ts
        BY <1>10, <1>13 DEF fl
    <2>2. ASSUME NEW sid \in DOMAIN fl
          PROVE  /\ fl[sid].seq = ts[sid].seq /\ fl[sid].ip = ts[sid].ip
                 /\ fl[sid].first = ts[sid].first /\ fl[sid].last = ts[sid].last
        <3> DEFINE s == fl[sid]
        <3>1. IsSession(s) /\ ts[sid] = [s EXCEPT !.seen_ts = {}]
            BY <1>11, <1>13 DEF fl
        <3> HIDE DEF s
        <3>2. ts[sid] = [seq |-> s.seq, ip |-> s.ip, first |-> s.first, last |-> s.last,
                         echo_target |-> s.echo_target, echo_count |-> s.echo_count,
                         echo_bytes |-> s.echo_bytes, seen_ts |-> {}]
            BY <3>1 DEF IsSession
        <3> QED
            BY <3>2 DEF s
    <2> QED
        BY <2>1, <2>2, ClustersAgree
<1>17. true_log' = true_log /\ file' = file /\ dups' = dups
    BY <1>12 DEF given
<1> QED
    BY <1>7, <1>12, <1>15, <1>16, <1>17 DEF Grouped, ts, fl

-------------------------------------------------------------------------------
LEMMA InvInit == Init => IInv
<1> SUFFICES ASSUME Init PROVE IInv
    OBVIOUS
<1>1. /\ true_log \in Logs /\ block \in Blocks(true_log) /\ file = Splice(true_log, block)
      /\ pos = 1 /\ sessions = [sid \in {} |-> NewSession] /\ dups = 0 /\ groups = <<>>
    BY DEF Init
<1>2. IsLog(true_log)
    BY <1>1, LogFacts
<1>3. Len(file) \in Nat
    <2>1. Len(file) = Len(true_log) + Width(block)
        BY <1>1, <1>2, SpliceShape
    <2> QED
        BY <1>1, <1>2, <2>1, LogShape, BlockShape
<1>4. AllFollow(true_log, block, Memory, pos, sessions)
    BY <1>1, <1>2, AllFollowAtFirst
<1>5. Taken(true_log, block, 1) = {}
    BY <1>1, <1>2, TakenEnds
<1>6. Reading
    BY <1>1, <1>4, <1>5, FS_EmptySet DEF Reading
<1> QED
    BY <1>1, <1>3, <1>6 DEF IInv, Given

LEMMA InvStep == IInv /\ [Next]_vars => IInv'
<1> SUFFICES ASSUME IInv, [Next]_vars PROVE IInv'
    OBVIOUS
<1>1. Given /\ pos \in Nat \ {0} /\ pos <= Len(file) + 1
    BY DEF IInv
<1>2. Len(file) \in Nat /\ DOMAIN file = 1..Len(file)
    <2>1. true_log \in Logs /\ block \in Blocks(true_log) /\ file = Splice(true_log, block)
        BY <1>1 DEF Given
    <2>2. IsLog(true_log)
        BY <2>1, LogFacts
    <2>3. /\ DOMAIN file = 1..(Len(true_log) + Width(block))
          /\ Len(file) = Len(true_log) + Width(block)
        BY <2>1, <2>2, SpliceShape
    <2>4. Len(true_log) \in Nat /\ Width(block) \in Nat
        BY <2>1, <2>2, LogShape, BlockShape
    <2> QED
        BY <2>3, <2>4
<1>3. ASSUME NEW rec \in ToSet(file),
             DropRepeat(rec) \/ IngestChunk(rec) \/ IngestCommand(rec)
                 \/ IngestMark(rec) \/ IngestOther(rec)
      PROVE  IInv'
    <2>1. TakeRecord(rec)
        BY <1>3 DEF DropRepeat, IngestChunk, IngestCommand, IngestMark, IngestOther, Keep
    <2>2. UNCHANGED given /\ groups' = groups /\ pos' = pos + 1 /\ pos \in 1..Len(file)
        BY <1>2, <2>1 DEF TakeRecord
    <2>3. groups = <<>>
        BY <2>1, TakenRecord
    <2>4. Given' /\ Harmless' = Harmless /\ file' = file
        BY <1>1, <2>2, StaysHarmless DEF Given, given
    <2>5. Harmless => Reading'
        BY <1>3, RecordReads
    <2>6. pos' \in Nat \ {0} /\ pos' <= Len(file) + 1
        BY <1>1, <1>2, <2>2
    <2> QED
        BY <2>2, <2>3, <2>4, <2>5, <2>6 DEF IInv
<1>4. CASE GroupSessions
    <2>1. UNCHANGED given /\ pos' = pos /\ pos = Len(file) + 1 /\ groups' = <<Clusters(Flushed)>>
        BY <1>4 DEF GroupSessions
    <2>2. groups' # <<>>
        BY <2>1
    <2>3. Given' /\ Harmless' = Harmless /\ file' = file
        BY <1>1, <2>1, StaysHarmless DEF Given, given
    <2>4. Harmless => Grouped'
        BY <1>4, GroupedRight
    <2> QED
        BY <1>1, <2>1, <2>2, <2>3, <2>4 DEF IInv
<1>5. CASE UNCHANGED vars
    <2>1. UNCHANGED <<given, pos, sessions, dups, groups>>
        BY <1>5 DEF vars
    <2>2. Given' /\ Harmless' = Harmless /\ Memory' = Memory /\ file' = file
          /\ true_log' = true_log /\ block' = block
        BY <1>1, <2>1, StaysHarmless DEF Given, given
    <2>3. Reading' = Reading /\ Grouped' = Grouped
        BY <2>1, <2>2 DEF Reading, Grouped
    <2> QED
        BY <2>1, <2>2, <2>3 DEF IInv
<1> QED
    BY <1>3, <1>4, <1>5 DEF Next

(* The sessions, their clusters and the count of dropped records are those  *)
(* of the log that the honeypot wrote, whatever block the merge repeated:   *)
(* seqgroup.py's "dropping the repeat copy is enough", for every log.       *)
THEOREM SpliceNeverShows == Spec => []SpliceInvisible
<1>1. IInv => SpliceInvisible
    BY DEF IInv, Harmless, Grouped, SpliceInvisible
<1> QED
    BY <1>1, InvInit, InvStep, PTL DEF Spec

-------------------------------------------------------------------------------
(* The extraction of binaries.  It reads the file without the loop above:   *)
(* the first copies of its chunks stand in the file in the order in which   *)
(* they stand in the log, session by session.                               *)

(* Ranks: up[i] is what comes no later than i in a linear order of S.       *)
LEMMA RanksExist ==
    ASSUME NEW S, IsFiniteSet(S), NEW up,
           \A i \in S : i \in up[i] /\ up[i] \subseteq S,
           \A i, k \in S : i = k \/ (up[i] \subseteq up[k] /\ k \notin up[i])
                                 \/ (up[k] \subseteq up[i] /\ i \notin up[k])
    PROVE  /\ \A i \in S : Cardinality(up[i]) \in 1..Cardinality(S)
           /\ \A i, k \in S : Cardinality(up[i]) = Cardinality(up[k]) => i = k
           /\ \A n \in 1..Cardinality(S) : \E i \in S : Cardinality(up[i]) = n
<1> DEFINE c == Cardinality(S)
           f == [i \in S |-> Cardinality(up[i])]
<1>1. ASSUME NEW i \in S PROVE IsFiniteSet(up[i]) /\ Cardinality(up[i]) \in 1..c
    <2>1. IsFiniteSet(up[i]) /\ Cardinality(up[i]) <= c
        BY FS_Subset
    <2>2. Cardinality(up[i]) \in Nat /\ c \in Nat /\ Cardinality(up[i]) # 0
        BY <2>1, FS_CardinalityType, FS_EmptySet
    <2> QED
        BY <2>1, <2>2
<1>2. ASSUME NEW i \in S, NEW k \in S, up[i] \subseteq up[k], k \notin up[i]
      PROVE  Cardinality(up[i]) # Cardinality(up[k])
    <2>1. up[i] # up[k]
        BY <1>2
    <2> QED
        BY <1>1, <1>2, <2>1, FS_Subset
<1>3. \A i, k \in S : Cardinality(up[i]) = Cardinality(up[k]) => i = k
    BY <1>2
<1>4. f \in [S -> 1..c] /\ \A i, k \in S : f[i] = f[k] => i = k
    BY <1>1, <1>3
<1>5. f \in Injection(S, 1..c)
    <2> HIDE DEF f
    <2> QED
        BY <1>4 DEF Injection, IsInjective
<1>6. c \in Nat /\ IsFiniteSet(1..c) /\ Cardinality(1..c) = c
    BY FS_CardinalityType, FS_Interval
<1>7. f \in Surjection(S, 1..c)
    <2> HIDE DEF f
    <2> QED
        BY <1>5, <1>6, FS_Injection, FS_Surjection DEF Bijection
<1>8. \A n \in 1..c : \E i \in S : f[i] = n
    <2> HIDE DEF f
    <2> QED
        BY <1>7 DEF Surjection
<1> QED
    BY <1>1, <1>3, <1>8

(* The least of some naturals, and the greatest of finitely many.           *)
LEMMA SomeLeast ==
    ASSUME NEW X \in SUBSET Nat, X # {}
    PROVE  \E x \in X : \A y \in X : x <= y
<1>1. PICK x \in X : \A y \in X : <<y, x>> \notin OpToRel(<, Nat)
    BY NatLessThanWellFounded, WFMin
<1>2. ASSUME NEW y \in X, ~(x <= y) PROVE FALSE
    <2>1. x \in Nat /\ y \in Nat /\ y < x
        BY <1>2
    <2>2. <<y, x>> \in OpToRel(<, Nat)
        BY <2>1 DEF OpToRel
    <2> QED
        BY <1>1, <2>2
<1> QED
    BY <1>2

(* Every finite set of numbers has its elements in ranks.                    *)
LEMMA FiniteRanked ==
    ASSUME NEW S, IsFiniteSet(S), S \subseteq Nat
    PROVE  Ranked(S)
<1> DEFINE up == [i \in S |-> {j \in S : j <= i}]
<1>1. /\ \A i \in S : i \in up[i] /\ up[i] \subseteq S
      /\ \A i, k \in S : i = k \/ (up[i] \subseteq up[k] /\ k \notin up[i])
                               \/ (up[k] \subseteq up[i] /\ i \notin up[k])
    <2>1. ASSUME NEW i \in S, NEW k \in S, i < k
          PROVE  up[i] \subseteq up[k] /\ k \notin up[i]
        <3>1. i \in Nat /\ k \in Nat /\ \A j \in S : j \in Nat
            OBVIOUS
        <3>2. ~(k <= i) /\ \A j \in S : j <= i => j <= k
            BY <2>1, <3>1
        <3> QED
            BY <3>2
    <2>2. \A i, k \in S : i = k \/ i < k \/ k < i
        OBVIOUS
    <2>3. \A i \in S : i \in up[i] /\ up[i] \subseteq S
        OBVIOUS
    <2> HIDE DEF up
    <2> QED
        BY <2>1, <2>2, <2>3
<1>2. \A n \in 1..Cardinality(S) : \E i \in S : Cardinality(up[i]) = n
    <2> HIDE DEF up
    <2> QED
        BY <1>1, RanksExist
<1>3. \A i \in S : Rank(S, i) = Cardinality(up[i])
    BY DEF Rank
<1> HIDE DEF up
<1> QED
    BY <1>2, <1>3 DEF Ranked

(* Positions that correspond in their order hold one sequence.              *)
Corresponds(s, A, t, B, h) ==
    /\ \A p \in A : h[p] \in B /\ s[p] = t[h[p]]
    /\ \A p, q \in A : p < q => h[p] < h[q]
    /\ \A k \in B : \E p \in A : h[p] = k

Spots(S) == IsFiniteSet(S) /\ S \subseteq Nat

LEMMA PickSame ==
    ASSUME NEW s, NEW t, NEW A, NEW B, NEW h, Corresponds(s, A, t, B, h),
           Spots(A), Spots(B)
    PROVE  Pick(s, A) = Pick(t, B)
<1>0. IsFiniteSet(A) /\ A \subseteq Nat /\ IsFiniteSet(B) /\ B \subseteq Nat
    BY DEF Spots
<1>1. \A p, q \in A : p <= q <=> h[p] <= h[q]
    <2> SUFFICES ASSUME NEW p \in A, NEW q \in A PROVE p <= q <=> h[p] <= h[q]
        OBVIOUS
    <2>1. p \in Nat /\ q \in Nat /\ h[p] \in Nat /\ h[q] \in Nat
        BY <1>0 DEF Corresponds
    <2>2. (p < q => h[p] < h[q]) /\ (q < p => h[q] < h[p])
        BY DEF Corresponds
    <2> QED
        BY <2>1, <2>2
<1>2. \A p, q \in A : h[p] = h[q] => p = q
    <2> SUFFICES ASSUME NEW p \in A, NEW q \in A, h[p] = h[q] PROVE p = q
        OBVIOUS
    <2>1. p \in Nat /\ q \in Nat /\ h[p] \in Nat
        BY <1>0 DEF Corresponds
    <2>2. p <= q /\ q <= p
        BY <1>1, <2>1
    <2> QED
        BY <2>1, <2>2
<1>3. ASSUME NEW p \in A PROVE Rank(A, p) = Rank(B, h[p])
    <2> DEFINE X == {j \in A : j <= p}
               Y == {k \in B : k <= h[p]}
               g == [j \in X |-> h[j]]
    <2>1. \A j \in X : h[j] \in Y
        BY <1>1 DEF Corresponds
    <2>2. \A k \in Y : \E j \in X : h[j] = k
        <3> TAKE k \in Y
        <3>1. PICK j \in A : h[j] = k
            BY DEF Corresponds
        <3>2. j <= p
            BY <1>1, <3>1
        <3> QED
            BY <3>1, <3>2
    <2>3. g \in [X -> Y] /\ (\A j, k \in X : g[j] = g[k] => j = k) /\ \A k \in Y : \E j \in X : g[j] = k
        BY <1>2, <2>1, <2>2
    <2>4. IsFiniteSet(X)
        BY <1>0, FS_Subset
    <2> HIDE DEF X, Y, g
    <2>5. g \in Bijection(X, Y)
        BY <2>3 DEF Bijection, Injection, Surjection, IsInjective
    <2>6. Cardinality(X) = Cardinality(Y)
        BY <2>4, <2>5, FS_Bijection DEF ExistsBijection
    <2> QED
        BY <2>6 DEF Rank, X, Y
<1>4. Cardinality(A) = Cardinality(B)
    <2> DEFINE g == [p \in A |-> h[p]]
    <2>1. g \in [A -> B] /\ (\A j, k \in A : g[j] = g[k] => j = k) /\ \A k \in B : \E j \in A : g[j] = k
        BY <1>2 DEF Corresponds
    <2> HIDE DEF g
    <2>2. g \in Bijection(A, B)
        BY <2>1 DEF Bijection, Injection, Surjection, IsInjective
    <2> QED
        BY <1>0, <2>2, FS_Bijection DEF ExistsBijection
<1>5. Ranked(A) /\ Ranked(B)
    BY <1>0, FiniteRanked
<1>6. ASSUME NEW n \in 1..Cardinality(A) PROVE s[At(A, n)] = t[At(B, n)]
    <2>1. At(A, n) \in A /\ Rank(A, At(A, n)) = n
        BY <1>5, AtRank
    <2>2. At(B, n) \in B /\ Rank(B, At(B, n)) = n
        BY <1>4, <1>5, AtRank
    <2>3. h[At(A, n)] \in B /\ Rank(B, h[At(A, n)]) = n
        BY <1>3, <2>1 DEF Corresponds
    <2>4. h[At(A, n)] = At(B, n)
        BY <1>0, <2>2, <2>3, RankUnique
    <2> QED
        BY <2>1, <2>4 DEF Corresponds
<1> QED
    BY <1>4, <1>6 DEF Pick

(* A position is taken if a record before has told of it.                   *)
LEMMA TakenIs ==
    ASSUME NEW log, IsLog(log), NEW b \in Blocks(log), NEW p \in DOMAIN Splice(log, b)
    PROVE  /\ \A q \in DOMAIN Splice(log, b) : q < p => Source(log, b, q) \in Taken(log, b, p)
           /\ \A k \in Taken(log, b, p) :
                  \E q \in DOMAIN Splice(log, b) : q < p /\ Source(log, b, q) = k
<1>1. DOMAIN log = 1..Len(log) /\ Len(log) \in Nat
    BY LogShape
<1>2. /\ b.from \in Nat \ {0} /\ b.to \in Nat /\ b.prepended \in BOOLEAN
      /\ b.from <= b.to + 1 /\ b.to <= Len(log) /\ Width(b) \in Nat
    BY BlockShape
<1> DEFINE n == Len(log)
           w == Width(b)
<1>3. DOMAIN Splice(log, b) = 1..(n + w)
    BY SpliceShape
<1>4. w = b.to + 1 - b.from
    BY DEF Width
<1> HIDE DEF n, w
<1>5. ASSUME NEW q \in 1..(n + w), q < p PROVE Source(log, b, q) \in Taken(log, b, p)
    <2>1. Source(log, b, q) \in 1..n
        BY <1>1, <1>3, SpliceShape DEF n
    <2>2. n \in Nat /\ w \in Nat /\ p \in Nat /\ q \in Nat
        BY <1>1, <1>2, <1>3 DEF n, w
    <2>3. CASE b.prepended /\ q <= w
        <3> DEFINE k == Source(log, b, q)
                   from == b.from
                   to == b.to
        <3>1. k = from + q - 1 /\ w = to + 1 - from /\ q <= w /\ q < p
              /\ from \in Nat /\ to \in Nat /\ q \in 1..(n + w) /\ k \in 1..n
            BY <1>2, <1>4, <1>5, <2>1, <2>3 DEF Source, w
        <3> HIDE DEF k, from, to
        <3>2. from <= k /\ k <= to /\ k < from + p - 1
            BY <2>2, <3>1
        <3>3. InBlock(b, k) /\ k < b.from + p - 1
            BY <3>2 DEF InBlock, from, to
        <3> QED
            BY <1>1, <2>1, <2>3, <3>3 DEF Taken, n, k
    <2>4. CASE b.prepended /\ ~(q <= w)
        <3>1. Source(log, b, q) = q - w
            BY <2>4 DEF Source, w
        <3> QED
            BY <1>1, <1>2, <1>5, <2>1, <2>2, <2>4, <3>1 DEF Taken, n, w
    <2>5. CASE ~b.prepended
        <3>1. Source(log, b, q) < p
            <4>1. CASE q <= n
                BY <1>5, <2>5, <4>1 DEF Source, n
            <4>2. CASE ~(q <= n)
                <5>1. Source(log, b, q) <= n
                    BY <2>1, <2>2
                <5> QED
                    BY <1>5, <2>1, <2>2, <4>2, <5>1
            <4> QED
                BY <4>1, <4>2
        <3> QED
            BY <1>1, <2>1, <2>5, <3>1 DEF Taken, n
    <2> QED
        BY <1>2, <2>3, <2>4, <2>5
<1>6. ASSUME NEW k \in Taken(log, b, p)
      PROVE  \E q \in 1..(n + w) : q < p /\ Source(log, b, q) = k
    <2>1. k \in 1..n /\ n \in Nat /\ w \in Nat /\ p \in 1..(n + w)
        BY <1>1, <1>2, <1>3 DEF Taken, n, w
    <2>2. CASE b.prepended /\ InBlock(b, k) /\ k < b.from + p - 1
        <3> DEFINE q == k - b.from + 1
        <3>1. q \in 1..(n + w) /\ q < p /\ q <= w /\ b.from + q - 1 = k
            <4> DEFINE from == b.from
                       to == b.to
            <4>1. /\ from \in Nat /\ to \in Nat /\ w = to + 1 - from
                  /\ from <= k /\ k <= to /\ k < from + p - 1
                BY <1>2, <1>4, <2>2 DEF InBlock
            <4> HIDE DEF from, to
            <4>2. k - from + 1 \in 1..(n + w) /\ k - from + 1 < p /\ k - from + 1 <= w
                BY <2>1, <4>1
            <4>3. from + (k - from + 1) - 1 = k
                BY <2>1, <4>1
            <4> QED
                BY <4>2, <4>3 DEF from
        <3>2. Source(log, b, q) = b.from + q - 1
            BY <2>2, <3>1 DEF Source, w
        <3> QED
            BY <3>1, <3>2
    <2>3. CASE b.prepended /\ k < p - w
        <3> DEFINE q == k + w
        <3>1. q \in 1..(n + w) /\ q < p /\ ~(q <= w) /\ q - w = k
            BY <2>1, <2>3
        <3>2. Source(log, b, q) = q - w
            BY <2>3, <3>1 DEF Source, w
        <3> QED
            BY <3>1, <3>2
    <2>4. CASE ~b.prepended
        <3>1. k \in 1..(n + w) /\ k < p /\ k <= n
            BY <2>1, <2>4 DEF Taken
        <3>2. Source(log, b, k) = k
            BY <2>4, <3>1 DEF Source, n
        <3> QED
            BY <3>1, <3>2
    <2> QED
        BY <1>2, <2>2, <2>3, <2>4 DEF Taken, w
<1> QED
    BY <1>3, <1>5, <1>6

(* Every position of the log comes into the file.                           *)
LEMMA SourceOnto ==
    ASSUME NEW log, IsLog(log), NEW b \in Blocks(log), NEW k \in DOMAIN log
    PROVE  \E p \in DOMAIN Splice(log, b) : Source(log, b, p) = k
<1> DEFINE m == Len(log) + Width(b)
<1>1. /\ DOMAIN log = 1..Len(log) /\ Len(log) \in Nat /\ Width(b) \in Nat
      /\ DOMAIN Splice(log, b) = 1..m
    BY LogShape, BlockShape, SpliceShape
<1>2. Taken(log, b, m + 1) = DOMAIN log
    BY TakenEnds
<1>3. m \in DOMAIN Splice(log, b)
    <2>1. k \in 1..Len(log)
        BY <1>1
    <2>2. m \in 1..m
        BY <1>1, <2>1
    <2> QED
        BY <1>1, <2>2
<1> HIDE DEF m
<1>4. Taken(log, b, m + 1) = Plus(Taken(log, b, m), Source(log, b, m))
    BY <1>3, TakenStep
<1>5. k \in Taken(log, b, m) \/ k = Source(log, b, m)
    BY <1>2, <1>4 DEF Plus
<1>6. k \in Taken(log, b, m) => \E q \in DOMAIN Splice(log, b) : Source(log, b, q) = k
    BY <1>3, TakenIs
<1> QED
    BY <1>3, <1>5, <1>6

(* The records of a session with its beginning in every block: the first    *)
(* copies stand in the file in the order of the log.                        *)
News(log, b, B) ==
    {p \in DOMAIN Splice(log, b) :
        Source(log, b, p) \in B /\ Source(log, b, p) \notin Taken(log, b, p)}

LEMMA NewsInOrder ==
    ASSUME NEW log \in Logs, NEW b \in Blocks(log), WholeSessions(log, b), NEW sid,
           NEW B, B \subseteq Own(log, sid)
    PROVE  Pick(Splice(log, b), News(log, b, B)) = Pick(log, B)
<1> DEFINE file_ == Splice(log, b)
           A == News(log, b, B)
           h == [p \in DOMAIN file_ |-> Source(log, b, p)]
<1>1. IsLog(log)
    BY LogFacts
<1>2. /\ DOMAIN log = 1..Len(log) /\ Len(log) \in Nat /\ Width(b) \in Nat
      /\ DOMAIN file_ = 1..(Len(log) + Width(b))
      /\ \A p \in DOMAIN file_ : h[p] \in DOMAIN log /\ file_[p] = log[h[p]]
    BY <1>1, LogShape, BlockShape, SpliceShape
<1>3. /\ A \subseteq DOMAIN file_ /\ IsFiniteSet(A) /\ A \subseteq Nat
      /\ B \subseteq DOMAIN log /\ IsFiniteSet(B) /\ B \subseteq Nat
    <2>1. A \subseteq DOMAIN file_ /\ B \subseteq DOMAIN log
        BY DEF News, Own
    <2>2. IsFiniteSet(1..Len(log)) /\ IsFiniteSet(1..(Len(log) + Width(b)))
        BY <1>2, FS_Interval
    <2>3. 1..Len(log) \subseteq Nat /\ 1..(Len(log) + Width(b)) \subseteq Nat
        OBVIOUS
    <2> HIDE DEF A, file_
    <2> QED
        BY <1>2, <2>1, <2>2, <2>3, FS_Subset
<1>4. \A p \in A : h[p] \in B /\ file_[p] = log[h[p]] /\ h[p] \notin Taken(log, b, p)
    BY <1>2 DEF News
<1>5. ASSUME NEW p \in A, NEW q \in A, p < q PROVE h[p] < h[q]
    <2>1. h[p] \in Taken(log, b, q)
        BY <1>1, <1>3, <1>5, TakenIs
    <2>2. log[h[p]].sid = sid /\ log[h[q]].sid = sid
        BY <1>4 DEF Own
    <2>3. h[p] \in Mine(log, b, q, log[h[q]].sid)
        BY <2>1, <2>2 DEF Mine
    <2>4. After(Mine(log, b, q, log[h[q]].sid), h[q])
        BY <1>3, <1>4, NewIsAfter
    <2> QED
        BY <2>3, <2>4 DEF After
<1>6. ASSUME NEW k \in B PROVE \E p \in A : h[p] = k
    <2> DEFINE X == {p \in DOMAIN file_ : h[p] = k}
    <2>1. X \in SUBSET Nat
        BY <1>2
    <2>2. X # {}
        BY <1>1, <1>3, SourceOnto
    <2> HIDE DEF X
    <2>3. PICK p \in X : \A q \in X : p <= q
        BY <2>1, <2>2, SomeLeast
    <2>4. p \in DOMAIN file_ /\ h[p] = k
        BY DEF X
    <2>5. h[p] \notin Taken(log, b, p)
        <3> SUFFICES ASSUME h[p] \in Taken(log, b, p) PROVE FALSE
            OBVIOUS
        <3>1. PICK q \in DOMAIN file_ : q < p /\ Source(log, b, q) = h[p]
            BY <1>1, <2>4, TakenIs
        <3>2. q \in X
            BY <2>4, <3>1 DEF X
        <3>3. p <= q /\ p \in Nat /\ q \in Nat
            BY <1>2, <2>3, <2>4, <3>2
        <3> QED
            BY <3>1, <3>3
    <2> QED
        BY <2>4, <2>5 DEF News
<1> HIDE DEF A, h, file_
<1>7. Corresponds(file_, A, log, B, h)
    BY <1>4, <1>5, <1>6 DEF Corresponds
<1>8. Spots(A) /\ Spots(B)
    BY <1>3 DEF Spots
<1>9. Pick(file_, A) = Pick(log, B)
    BY <1>7, <1>8, PickSame
<1> QED
    BY <1>9 DEF A, file_

-------------------------------------------------------------------------------
(* The extraction.  The instance works as this module does.                 *)
LEMMA SameEx ==
    /\ \A t, A : Ex!Pick(t, A) = Pick(t, A)
    /\ \A t : Ex!FlattenSeq(t) = FlattenSeq(t)
    /\ \A t, u : Ex!IsPrefix(t, u) = IsPrefix(t, u)
<1>1. \A S : Ex!Cardinality(S) = Cardinality(S)
    BY DEF Ex!Cardinality, Cardinality
<1>2. \A S, i : Ex!Rank(S, i) = Rank(S, i)
    BY <1>1 DEF Ex!Rank, Rank
<1>3. \A S, n : Ex!At(S, n) = At(S, n)
    BY <1>2 DEF Ex!At, At
<1>4. \A t, A : Ex!Pick(t, A) = Pick(t, A)
    BY <1>1, <1>3 DEF Ex!Pick, Pick
<1>5. \A t : Ex!FlattenSeq(t) = FlattenSeq(t)
    BY DEF Ex!FlattenSeq, FlattenSeq
<1>6. \A t, u : Ex!IsPrefix(t, u) = IsPrefix(t, u)
    BY DEF Ex!IsPrefix, IsPrefix
<1> QED
    BY <1>4, <1>5, <1>6

(* The first copies are the records that are new.                           *)
LEMMA FirstsAre ==
    ASSUME NEW log \in Logs, NEW b \in Blocks(log), NEW S, S \subseteq DOMAIN Splice(log, b),
           \A p \in S, q \in DOMAIN Splice(log, b) : Source(log, b, q) = Source(log, b, p) => q \in S
    PROVE  Ex!FirstCopies(Splice(log, b), S) =
               {p \in S : /\ Ex!IsChunk(log[Source(log, b, p)])
                          /\ Source(log, b, p) \notin Taken(log, b, p)}
<1> DEFINE lines == Splice(log, b)
<1>1. IsLog(log)
    BY LogFacts
<1>2. \A p \in DOMAIN lines : Source(log, b, p) \in DOMAIN log /\ lines[p] = log[Source(log, b, p)]
    BY <1>1, SpliceShape
<1>3. \A i, j \in DOMAIN log :
          Ex!IsChunk(log[i]) /\ Ex!IsChunk(log[j]) /\ Ex!Key(log[i]) = Ex!Key(log[j]) => i = j
    BY ChunksAssumption
<1> HIDE DEF lines
<1>4. ASSUME NEW p \in S, Ex!IsChunk(lines[p]), Source(log, b, p) \notin Taken(log, b, p),
             NEW q \in S, q < p, Ex!IsChunk(lines[q])
      PROVE  Ex!Key(lines[q]) # Ex!Key(lines[p])
    <2>1. Source(log, b, q) \in Taken(log, b, p)
        BY <1>1, <1>4, TakenIs
    <2>2. Source(log, b, q) # Source(log, b, p)
        BY <1>4, <2>1
    <2> QED
        BY <1>2, <1>3, <1>4, <2>2 DEF lines
<1>5. ASSUME NEW p \in S, Source(log, b, p) \in Taken(log, b, p)
      PROVE  \E q \in S : q < p /\ lines[q] = lines[p]
    <2>1. PICK q \in DOMAIN lines : q < p /\ Source(log, b, q) = Source(log, b, p)
        BY <1>1, <1>5, TakenIs DEF lines
    <2>2. q \in S
        BY <2>1 DEF lines
    <2> QED
        BY <1>2, <2>1, <2>2 DEF lines
<1>6. \A p \in S : p \in DOMAIN lines
    BY DEF lines
<1>7. ASSUME NEW p \in S
      PROVE  p \in Ex!FirstCopies(lines, S) <=>
                 /\ Ex!IsChunk(log[Source(log, b, p)])
                 /\ Source(log, b, p) \notin Taken(log, b, p)
    <2>1. Ex!IsChunk(lines[p]) = Ex!IsChunk(log[Source(log, b, p)])
        BY <1>2, <1>6
    <2>2. CASE Source(log, b, p) \in Taken(log, b, p)
        <3>1. PICK q \in S : q < p /\ lines[q] = lines[p]
            BY <1>5, <2>2
        <3>2. ~(Ex!IsChunk(lines[p]) /\ \A j \in S : j < p /\ Ex!IsChunk(lines[j]) => Ex!Key(lines[j]) # Ex!Key(lines[p]))
            BY <3>1
        <3> QED
            BY <2>2, <3>2 DEF Ex!FirstCopies
    <2>3. CASE Source(log, b, p) \notin Taken(log, b, p)
        BY <1>4, <2>1, <2>3 DEF Ex!FirstCopies
    <2> QED
        BY <2>2, <2>3
<1>8. Ex!FirstCopies(lines, S) \subseteq S
    BY DEF Ex!FirstCopies
<1> QED
    BY <1>7, <1>8 DEF lines

(* What the extraction finds in the file is in the log.                     *)
Injected(target, sid) ==
    {i \in DOMAIN true_log : /\ Ex!IsChunk(true_log[i])
                             /\ true_log[i].sid = sid /\ true_log[i].command.target = target}
Whole == Given /\ WholeSessions(true_log, block)

LEMMA DataAre ==
    ASSUME Whole
    PROVE  /\ \A p \in Ex!Data(file) : \E i \in DOMAIN true_log :
                  Ex!IsChunk(true_log[i]) /\ file[p] = true_log[i]
           /\ \A i \in DOMAIN true_log :
                  Ex!IsChunk(true_log[i]) => \E p \in Ex!Data(file) : file[p] = true_log[i]
           /\ \A target, sid :
                  {p \in Ex!Data(file) : file[p].command.target = target /\ file[p].sid = sid}
                      = News(true_log, block, Injected(target, sid))
<1> DEFINE log == true_log
           b == block
           src(p) == Source(log, b, p)
<1>1. log \in Logs /\ b \in Blocks(log) /\ file = Splice(log, b) /\ WholeSessions(log, b)
    BY DEF Whole, Given
<1>2. IsLog(log)
    BY <1>1, LogFacts
<1>3. \A p \in DOMAIN file : src(p) \in DOMAIN log /\ file[p] = log[src(p)]
    BY <1>1, <1>2, SpliceShape
<1>4. Ex!Data(file) = {p \in DOMAIN file : Ex!IsChunk(log[src(p)]) /\ src(p) \notin Taken(log, b, p)}
    BY <1>1, FirstsAre DEF Ex!Data
<1>5. ASSUME NEW target, NEW sid
      PROVE  {p \in Ex!Data(file) : file[p].command.target = target /\ file[p].sid = sid}
                 = News(log, b, Injected(target, sid))
    BY <1>1, <1>3, <1>4 DEF News, Injected
<1>6. ASSUME NEW i \in DOMAIN log, Ex!IsChunk(log[i]) PROVE \E p \in Ex!Data(file) : file[p] = log[i]
    <2>1. PICK p \in News(log, b, {i}) : TRUE
        <3> DEFINE A == News(log, b, {i})
        <3>1. Pick(file, A) = Pick(log, {i})
            BY <1>1, NewsInOrder DEF Own
        <3>2. Cardinality({i}) = 1
            BY FS_Singleton
        <3>3. DOMAIN Pick(log, {i}) = 1..1
            BY <3>2 DEF Pick
        <3>4. A # {}
            <4> SUFFICES ASSUME A = {} PROVE FALSE
                OBVIOUS
            <4>1. Cardinality(A) = 0
                BY FS_EmptySet
            <4>2. DOMAIN Pick(file, A) = 1..0
                BY <4>1 DEF Pick
            <4>3. 1 \in 1..1 /\ 1 \notin 1..0
                OBVIOUS
            <4> QED
                BY <3>1, <3>3, <4>2, <4>3
        <3> QED
            BY <3>4
    <2>2. p \in DOMAIN file /\ src(p) = i /\ src(p) \notin Taken(log, b, p)
        BY <1>1 DEF News
    <2> QED
        BY <1>3, <1>4, <1>6, <2>2
<1> QED
    BY <1>3, <1>4, <1>5, <1>6

LEMMA ChunksAre ==
    ASSUME Whole, NEW target, NEW sid
    PROVE  Ex!Chunks(file, target, sid) = Parts(target, sid)
<1> DEFINE B == Injected(target, sid)
           A == News(true_log, block, B)
<1>1. B \subseteq Own(true_log, sid)
    BY DEF Injected, Own
<1>2. Pick(file, A) = Pick(true_log, B)
    BY <1>1, NewsInOrder DEF Whole, Given
<1>3. Ex!Chunks(file, target, sid) = Ex!Payloads(Pick(file, A))
    BY DataAre, SameEx DEF Ex!Chunks
<1> QED
    BY <1>2, <1>3 DEF Parts, Injected

(* The loop of FlattenSeq can be run, and keeps the beginning.              *)
Joined(t, u) == t \o u
Flat(g, ps, n) == g = [i \in 1..n |-> IF i = 1 THEN ps[i] ELSE Joined(g[i - 1], ps[i])]

LEMMA FlattenRuns ==
    ASSUME NEW ps, NEW n \in Nat \ {0}
    PROVE  \E g : Flat(g, ps, n)
<1> DEFINE Runs(m) == \E g : Flat(g, ps, m)
           X == {m \in Nat \ {0} : ~Runs(m)}
<1>1. Runs(1)
    <2> DEFINE g == [i \in 1..1 |-> ps[i]]
    <2>1. g = [i \in 1..1 |-> IF i = 1 THEN ps[i] ELSE Joined(g[i - 1], ps[i])]
        OBVIOUS
    <2> HIDE DEF g
    <2> QED
        BY <2>1 DEF Flat
<1>2. ASSUME NEW m \in Nat, m > 1, Runs(m - 1) PROVE Runs(m)
    <2>1. PICK h : Flat(h, ps, m - 1)
        BY <1>2
    <2> DEFINE g == [i \in 1..m |-> IF i < m THEN h[i] ELSE Joined(h[m - 1], ps[m])]
    <2>2. \A i \in 1..m : g[i] = IF i = 1 THEN ps[i] ELSE Joined(g[i - 1], ps[i])
        <3> SUFFICES ASSUME NEW i \in 1..m
                     PROVE  g[i] = IF i = 1 THEN ps[i] ELSE Joined(g[i - 1], ps[i])
            OBVIOUS
        <3>1. CASE i = m
            <4>1. m - 1 \in 1..m /\ m - 1 < m /\ m # 1
                BY <1>2
            <4>2. g[m - 1] = h[m - 1]
                BY <4>1
            <4>3. g[m] = Joined(h[m - 1], ps[m])
                OBVIOUS
            <4> HIDE DEF g
            <4> QED
                BY <3>1, <4>1, <4>2, <4>3
        <3>2. CASE i < m /\ i > 1
            <4>1. i \in 1..(m - 1) /\ i - 1 \in 1..m /\ i - 1 < m
                BY <3>2
            <4>2. g[i - 1] = h[i - 1] /\ g[i] = h[i]
                BY <3>2, <4>1
            <4>3. h[i] = Joined(h[i - 1], ps[i])
                BY <2>1, <3>2, <4>1 DEF Flat
            <4> HIDE DEF g
            <4> QED
                BY <3>2, <4>2, <4>3
        <3>3. CASE i = 1
            <4>1. 1 \in 1..(m - 1) /\ 1 < m
                BY <1>2
            <4>2. g[1] = h[1] /\ h[1] = ps[1]
                BY <1>2, <2>1, <4>1 DEF Flat
            <4> QED
                BY <3>3, <4>2
        <3> QED
            BY <3>1, <3>2, <3>3
    <2>3. g = [i \in 1..m |-> g[i]]
        OBVIOUS
    <2> HIDE DEF g
    <2> QED
        BY <2>2, <2>3 DEF Flat
<1>3. X = {}
    <2> SUFFICES ASSUME X # {} PROVE FALSE
        OBVIOUS
    <2> HIDE DEF Runs
    <2>1. PICK m \in X : \A k \in X : m <= k
        BY SomeLeast
    <2>2. m \in Nat /\ m # 0 /\ m # 1 /\ ~Runs(m)
        BY <1>1
    <2>3. m - 1 \in Nat \ {0} /\ ~(m <= m - 1) /\ m > 1
        BY <2>2
    <2>4. Runs(m - 1)
        BY <2>1, <2>3
    <2> QED
        BY <1>2, <2>2, <2>3, <2>4
<1> QED
    BY <1>3

Continues(t, u) == Len(u) <= Len(t) /\ \A j \in 1..Len(u) : t[j] = u[j]

LEMMA FlattenKeeps ==
    ASSUME NEW V, NEW ps \in Seq(Seq(V))
    PROVE  /\ FlattenSeq(ps) \in Seq(V)
           /\ ps # <<>> => Continues(FlattenSeq(ps), ps[1])
<1> DEFINE n == Len(ps)
<1>1. n \in Nat /\ \A i \in 1..n : ps[i] \in Seq(V)
    BY ElementOfSeq
<1>2. CASE n = 0
    <2>1. ps = <<>>
        BY <1>2, EmptySeq
    <2>2. FlattenSeq(ps) = <<>>
        BY <1>2, <2>1 DEF FlattenSeq
    <2>3. <<>> \in Seq(V)
        BY EmptySeq
    <2> QED
        BY <2>1, <2>2, <2>3
<1>3. CASE n # 0
    <2> DEFINE g == CHOOSE g : Flat(g, ps, n)
    <2>1. Flat(g, ps, n)
        BY <1>1, <1>3, FlattenRuns
    <2>2. FlattenSeq(ps) = g[n]
        BY <1>3 DEF FlattenSeq, Flat, Joined
    <2> HIDE DEF g, n
    <2>3. 1 \in 1..n /\ n \in 1..n /\ g[1] = ps[1]
        <3>1. 1 \in 1..n /\ n \in 1..n
            BY <1>1, <1>3
        <3> QED
            BY <2>1, <3>1 DEF Flat
    <2>4. \A i \in 1..n : i # 1 => g[i] = g[i - 1] \o ps[i]
        <3>1. \A i \in 1..n : i # 1 => g[i] = Joined(g[i - 1], ps[i])
            BY <2>1 DEF Flat
        <3> QED
            BY <3>1 DEF Joined
    <2> DEFINE Right(i) == g[i] \in Seq(V) /\ Continues(g[i], ps[1])
               X == {i \in 1..n : ~Right(i)}
    <2>5. Right(1)
        <3>1. ps[1] \in Seq(V) /\ Len(ps[1]) \in Nat
            BY <1>1, <2>3
        <3> QED
            BY <2>3, <3>1 DEF Continues
    <2>6. ASSUME NEW i \in 1..n, i # 1, Right(i - 1) PROVE Right(i)
        <3> DEFINE u == g[i - 1]
                   t == ps[i]
                   o == ps[1]
        <3>1. u \in Seq(V) /\ t \in Seq(V) /\ o \in Seq(V) /\ Continues(u, o)
            BY <1>1, <2>3, <2>6
        <3>2. g[i] = u \o t
            BY <2>4, <2>6
        <3> HIDE DEF u, t, o
        <3>3. /\ u \o t \in Seq(V) /\ Len(u \o t) = Len(u) + Len(t)
              /\ \A j \in 1..Len(u) : (u \o t)[j] = u[j]
              /\ Len(u) \in Nat /\ Len(t) \in Nat /\ Len(o) \in Nat
            BY <3>1, ConcatProperties
        <3>4. Continues(u \o t, o)
            BY <3>1, <3>3 DEF Continues
        <3> QED
            BY <3>2, <3>3, <3>4 DEF o
    <2>7. X = {}
        <3> SUFFICES ASSUME X # {} PROVE FALSE
            OBVIOUS
        <3> HIDE DEF Right
        <3>1. PICK i \in X : \A k \in X : i <= k
            <4>1. X \in SUBSET Nat
                OBVIOUS
            <4> QED
                BY <4>1, SomeLeast
        <3>2. i \in 1..n /\ i # 1 /\ ~Right(i)
            BY <2>5
        <3>3. i - 1 \in 1..n /\ ~(i <= i - 1)
            BY <1>1, <3>2
        <3>4. Right(i - 1)
            BY <3>1, <3>3
        <3> QED
            BY <2>6, <3>2, <3>4
    <2>8. Right(n)
        <3> HIDE DEF Right
        <3> QED
            BY <2>3, <2>7
    <2> QED
        BY <2>2, <2>8
<1> QED
    BY <1>2, <1>3

LEMMA PrefixKept ==
    ASSUME NEW m, m \in Seq(Range(m)), NEW V, NEW t \in Seq(V), NEW u \in Seq(V),
           Continues(t, u), IsPrefix(m, u)
    PROVE  IsPrefix(m, t)
<1> DEFINE k == Len(m)
<1>1. k \in Nat /\ k <= Len(u) /\ Len(u) \in Nat /\ Len(t) \in Nat /\ Len(u) <= Len(t)
    BY DEF IsPrefix, Continues
<1>2. k <= Len(t)
    BY <1>1
<1>3. SubSeq(u, 1, k) = SubSeq(t, 1, k)
    <2>1. \A j \in 1..k : u[j] = t[j] /\ u[j] \in V /\ t[j] \in V
        <3> TAKE j \in 1..k
        <3>1. j \in 1..Len(u) /\ j \in 1..Len(t)
            BY <1>1, <1>2
        <3> QED
            BY <3>1, ElementOfSeq DEF Continues
    <2> HIDE DEF k
    <2>2. /\ SubSeq(u, 1, k) \in Seq(V) /\ Len(SubSeq(u, 1, k)) = IF 1 <= k THEN k - 1 + 1 ELSE 0
          /\ \A i \in 1..(k - 1 + 1) : SubSeq(u, 1, k)[i] = u[1 + i - 1]
        BY <1>1, <2>1, SubSeqProperties
    <2>3. /\ SubSeq(t, 1, k) \in Seq(V) /\ Len(SubSeq(t, 1, k)) = IF 1 <= k THEN k - 1 + 1 ELSE 0
          /\ \A i \in 1..(k - 1 + 1) : SubSeq(t, 1, k)[i] = t[1 + i - 1]
        BY <1>1, <2>1, SubSeqProperties
    <2> DEFINE a == SubSeq(u, 1, k)
               c == SubSeq(t, 1, k)
    <2>4. a \in Seq(V) /\ c \in Seq(V) /\ Len(a) = k /\ Len(c) = k
        BY <1>1, <2>2, <2>3
    <2>5. \A i \in 1..k : a[i] = c[i]
        <3> TAKE i \in 1..k
        <3>1. i \in 1..(k - 1 + 1) /\ 1 + i - 1 = i
            BY <1>1
        <3> HIDE DEF a, c
        <3> QED
            BY <2>1, <2>2, <2>3, <3>1 DEF a, c
    <2> HIDE DEF a, c
    <2>6. a = c
        BY <2>4, <2>5, SeqEqual
    <2> QED
        BY <2>6 DEF a, c
<1> QED
    BY <1>2, <1>3 DEF IsPrefix

(* What a session wrote to a target begins as its first chunk does.         *)
LEMMA PartsShape ==
    ASSUME Given, NEW target, NEW sid
    PROVE  /\ Parts(target, sid) # <<>> <=> Injected(target, sid) # {}
           /\ Len(Written(target, sid)) \in Nat
           /\ Injected(target, sid) = {} => Len(Written(target, sid)) = 0
           /\ BeginsElf(target, sid) => IsPrefix(Magic, Written(target, sid))
<1> DEFINE B == Injected(target, sid)
           q == Pick(true_log, B)
           n == Cardinality(B)
           ps == Parts(target, sid)
           V == UNION {Range(true_log[i].command.payload) : i \in DOMAIN true_log}
<1>1. true_log \in Logs /\ IsLog(true_log)
    BY LogFacts DEF Given
<1>2. IsFiniteSet(B) /\ B \subseteq Nat /\ n \in Nat
    <2>1. DOMAIN true_log = 1..Len(true_log) /\ Len(true_log) \in Nat
        BY <1>1, LogShape
    <2>2. B \subseteq 1..Len(true_log) /\ 1..Len(true_log) \subseteq Nat
        BY <2>1 DEF Injected
    <2>3. IsFiniteSet(1..Len(true_log))
        BY <2>1, FS_Interval
    <2> HIDE DEF B
    <2>4. IsFiniteSet(B)
        BY <2>2, <2>3, FS_Subset
    <2> QED
        BY <2>2, <2>4, FS_CardinalityType
<1>3. ps = [k \in 1..n |-> true_log[At(B, k)].command.payload]
    BY SameEx DEF Parts, Injected, Ex!Payloads, Pick
<1>4. \A k \in 1..n : At(B, k) \in B
    BY <1>2, FiniteRanked, AtRank
<1>5. \A i \in B : true_log[i].command.payload \in Seq(V)
    <2> TAKE i \in B
    <2> DEFINE u == true_log[i].command.payload
    <2>1. i \in DOMAIN true_log /\ Ex!IsChunk(true_log[i])
        BY DEF Injected
    <2>2. u \in Seq(Range(u))
        BY <1>1, <2>1, ChunksAssumption
    <2>3. Range(u) \subseteq V
        BY <2>1
    <2> HIDE DEF u, V
    <2>4. Len(u) \in Nat /\ \A j \in 1..Len(u) : u[j] \in V
        BY <2>2, <2>3, ElementOfSeq, LenProperties
    <2>5. u = [j \in 1..Len(u) |-> u[j]]
        BY <2>2
    <2>6. u \in Seq(V)
        BY <2>4, <2>5
    <2> QED
        BY <2>6 DEF u
<1> HIDE DEF B, V
<1>6. ps \in Seq(Seq(V)) /\ Len(ps) = n
    <2> HIDE DEF n, ps
    <2>1. ps \in [1..n -> Seq(V)]
        BY <1>3, <1>4, <1>5
    <2> QED
        BY <1>2, <2>1
<1>7. ps # <<>> <=> B # {}
    <2>1. n = 0 <=> B = {}
        BY <1>2, FS_EmptySet
    <2>2. ps = <<>> <=> Len(ps) = 0
        BY <1>6, EmptySeq
    <2> QED
        BY <1>6, <2>1, <2>2
<1> HIDE DEF ps, n, q
<1>8. /\ FlattenSeq(ps) \in Seq(V)
      /\ ps # <<>> => Continues(FlattenSeq(ps), ps[1])
    BY <1>6, FlattenKeeps
<1>9. Len(FlattenSeq(ps)) \in Nat
    BY <1>8, LenProperties
<1>10. ps = <<>> => Len(FlattenSeq(ps)) = 0
    BY EmptySeq DEF FlattenSeq
<1>11. ps # <<>> /\ IsPrefix(Magic, Head(ps)) => IsPrefix(Magic, FlattenSeq(ps))
    <2> HAVE ps # <<>> /\ IsPrefix(Magic, Head(ps))
    <2>1. Head(ps) = ps[1] /\ ps[1] \in Seq(V)
        <3>1. Len(ps) \in Nat \ {0}
            BY <1>6, EmptySeq
        <3>2. 1 \in 1..Len(ps)
            BY <3>1
        <3>3. ps[1] \in Seq(V)
            BY <1>6, <3>2, ElementOfSeq
        <3>4. Head(ps) = ps[1]
            BY <1>6
        <3> QED
            BY <3>3, <3>4
    <2> QED
        BY <1>8, <2>1, PrefixKept, MagicAssumption
<1> QED
    BY <1>7, <1>9, <1>10, <1>11 DEF Written, BeginsElf, ps, B

Begun(target) == {t \in TrueSids : BeginsElf(target, t)}

(* The sessions among which the script chooses, and how.                    *)
LEMMA BestAre ==
    ASSUME Whole, NEW target, NEW sid \in Ex!BestSids(file, target)
    PROVE  /\ sid \in TrueSids
           /\ FlattenSeq(Ex!Chunks(file, target, sid)) = Written(target, sid)
           /\ Begun(target) # {} => IsPrefix(Magic, Written(target, sid))
           /\ \A t \in IF Begun(target) # {} THEN Begun(target) ELSE TrueSids :
                  Len(Written(target, t)) <= Len(Written(target, sid))
<1> DEFINE W == Ex!Writers(file, target)
           elf == {t \in W : Ex!StartsElf(Ex!Chunks(file, target, t))}
           pool == IF elf # {} THEN elf ELSE W
<1>0. Given
    BY DEF Whole
<1>1. \A t : Ex!Chunks(file, target, t) = Parts(target, t)
    BY ChunksAre
<1>2. \A t : t \in W <=> Injected(target, t) # {}
    <2> SUFFICES ASSUME NEW t PROVE t \in W <=> Injected(target, t) # {}
        OBVIOUS
    <2>1. t \in W <=> \E p \in Ex!Data(file) : file[p].command.target = target /\ file[p].sid = t
        BY DEF Ex!Writers
    <2>2. ASSUME NEW p \in Ex!Data(file), file[p].command.target = target, file[p].sid = t
          PROVE  Injected(target, t) # {}
        BY <2>2, DataAre DEF Injected
    <2>3. ASSUME NEW i \in Injected(target, t)
          PROVE  \E p \in Ex!Data(file) : file[p].command.target = target /\ file[p].sid = t
        BY DataAre DEF Injected
    <2> QED
        BY <2>1, <2>2, <2>3
<1>3. W \subseteq TrueSids
    <2> SUFFICES ASSUME NEW t \in W PROVE t \in TrueSids
        OBVIOUS
    <2>1. PICK i \in DOMAIN true_log : true_log[i].sid = t
        BY <1>2 DEF Injected
    <2> QED
        BY <2>1 DEF TrueSids, ToSet
<1>4. \A t : t \in elf <=> t \in Begun(target)
    <2> SUFFICES ASSUME NEW t PROVE t \in elf <=> t \in Begun(target)
        OBVIOUS
    <2>1. Ex!StartsElf(Ex!Chunks(file, target, t)) <=> BeginsElf(target, t)
        BY <1>1, SameEx DEF Ex!StartsElf, BeginsElf
    <2>2. BeginsElf(target, t) => t \in W
        BY <1>0, <1>2, PartsShape DEF BeginsElf
    <2> QED
        BY <1>3, <2>1, <2>2 DEF Begun
<1>5. elf = Begun(target)
    <2> HIDE DEF elf
    <2>1. \A t \in Begun(target) : t \in elf
        BY <1>4
    <2> QED
        BY <1>4, <2>1
<1>6. /\ sid \in pool
      /\ \A t \in pool : Len(Written(target, t)) <= Len(Written(target, sid))
    <2> DEFINE binary == [t \in W |-> Ex!FlattenSeq(Ex!Chunks(file, target, t))]
    <2>1. sid \in pool /\ \A t \in pool : Len(binary[t]) <= Len(binary[sid])
        BY DEF Ex!BestSids
    <2>2. \A t \in W : binary[t] = Written(target, t)
        BY <1>1, SameEx DEF Written
    <2>3. pool \subseteq W
        OBVIOUS
    <2> HIDE DEF W, pool, binary
    <2> QED
        BY <2>1, <2>2, <2>3
<1>7. sid \in W
    <2> HIDE DEF W
    <2> QED
        BY <1>6
<1>8. FlattenSeq(Ex!Chunks(file, target, sid)) = Written(target, sid)
    BY <1>1 DEF Written
<1>9. Begun(target) # {} => IsPrefix(Magic, Written(target, sid))
    <2> HIDE DEF W, elf
    <2>1. Begun(target) # {} => sid \in Begun(target)
        BY <1>5, <1>6
    <2> QED
        BY <1>0, <2>1, PartsShape DEF Begun
<1>10. ASSUME NEW t \in IF Begun(target) # {} THEN Begun(target) ELSE TrueSids
       PROVE  Len(Written(target, t)) <= Len(Written(target, sid))
    <2>1. CASE t \in pool
        BY <1>6, <2>1
    <2>2. CASE t \notin pool
        <3>1. t \notin W
            <4> HIDE DEF W, elf
            <4> QED
                BY <1>5, <1>10, <2>2
        <3>2. Len(Written(target, t)) = 0 /\ Len(Written(target, sid)) \in Nat
            BY <1>0, <1>2, <3>1, PartsShape
        <3> QED
            BY <3>2
    <2> QED
        BY <2>1, <2>2
<1> QED
    BY <1>3, <1>7, <1>8, <1>9, <1>10

(* Of the targets with one name one is the last.                            *)
LEMMA LastTarget ==
    ASSUME NEW T, T # {}, IsFiniteSet(T), T \subseteq AllTargets
    PROVE  \E t \in T : \A u \in T : u = t \/ TextLess(u, t)
<1> DEFINE up == [t \in T |-> {u \in T : u = t \/ TextLess(u, t)}]
<1>1. /\ \A t \in T : t \in up[t] /\ up[t] \subseteq T
      /\ \A t, u \in T : t = u \/ (up[t] \subseteq up[u] /\ u \notin up[t])
                               \/ (up[u] \subseteq up[t] /\ t \notin up[u])
    <2>1. \A t, u \in T :
              /\ ~TextLess(t, t)
              /\ t = u \/ TextLess(t, u) \/ TextLess(u, t)
              /\ \A v \in T : TextLess(t, u) /\ TextLess(u, v) => TextLess(t, v)
        BY TextAssumption
    <2>2. ASSUME NEW t \in T, NEW u \in T, TextLess(t, u)
          PROVE  up[t] \subseteq up[u] /\ u \notin up[t]
        <3>1. ~TextLess(u, t) /\ u # t
            BY <2>1, <2>2
        <3>2. \A v \in T : v = t \/ TextLess(v, t) => TextLess(v, u)
            BY <2>1, <2>2
        <3> QED
            BY <3>1, <3>2
    <2>3. \A t \in T : t \in up[t] /\ up[t] \subseteq T
        OBVIOUS
    <2> HIDE DEF up
    <2> QED
        BY <2>1, <2>2, <2>3
<1> DEFINE c == Cardinality(T)
<1>2. c \in 1..c
    <2>1. c \in Nat /\ c # 0
        BY FS_CardinalityType, FS_EmptySet
    <2> HIDE DEF c
    <2> QED
        BY <2>1
<1>3. \E t \in T : Cardinality(up[t]) = c
    <2> HIDE DEF up
    <2> QED
        BY <1>1, <1>2, RanksExist
<1>4. PICK t \in T : Cardinality(up[t]) = c
    BY <1>3
<1>5. up[t] = T
    <2> HIDE DEF up
    <2> QED
        BY <1>1, <1>4, FS_Subset
<1> QED
    BY <1>5

(* The targets of the file are some of the log.                             *)
LEMMA TargetsAre ==
    ASSUME Whole
    PROVE  IsFiniteSet(Ex!Targets(file)) /\ Ex!Targets(file) \subseteq AllTargets
<1> DEFINE D == DOMAIN true_log
           aim == [i \in D |-> true_log[i].command.target]
           T == {aim[i] : i \in D}
<1>1. true_log \in Logs /\ IsLog(true_log)
    BY LogFacts DEF Whole, Given
<1>2. IsFiniteSet(D) /\ D \subseteq Nat
    <2>1. D = 1..Len(true_log) /\ Len(true_log) \in Nat
        BY <1>1, LogShape
    <2> HIDE DEF D
    <2> QED
        BY <2>1, FS_Interval
<1>3. IsFiniteSet(T)
    <2> HIDE DEF D
    <2>1. aim \in [D -> T] /\ \A t \in T : \E i \in D : aim[i] = t
        OBVIOUS
    <2> HIDE DEF aim, T
    <2>2. aim \in Surjection(D, T)
        BY <2>1 DEF Surjection
    <2> QED
        BY <1>2, <2>2, FS_Surjection
<1>4. ASSUME NEW t \in Ex!Targets(file)
      PROVE  t # Unknown /\ \E i \in D : Ex!IsChunk(true_log[i]) /\ aim[i] = t
    <2>1. PICK p \in Ex!Data(file) : t = file[p].command.target /\ t # Unknown
        BY DEF Ex!Targets
    <2> QED
        BY <2>1, DataAre
<1>5. ASSUME NEW i \in D, Ex!IsChunk(true_log[i]) PROVE i \in Ex!Data(true_log)
    BY <1>1, <1>2, <1>5, ChunksAssumption DEF Ex!Data, Ex!FirstCopies
<1>6. Ex!Targets(file) \subseteq T
    <2> HIDE DEF D, aim
    <2> QED
        BY <1>4
<1>7. IsFiniteSet(Ex!Targets(file))
    BY <1>3, <1>6, FS_Subset
<1>8. ASSUME NEW t \in Ex!Targets(file) PROVE t \in AllTargets
    <2>1. PICK i \in D : Ex!IsChunk(true_log[i]) /\ true_log[i].command.target = t
        BY <1>4
    <2>2. t \in Ex!Targets(true_log)
        BY <1>4, <1>5, <2>1 DEF Ex!Targets
    <2> QED
        BY <1>1, <2>2 DEF AllTargets
<1> QED
    BY <1>7, <1>8

(* What is saved under a name is of the last target with that name.         *)
LEMMA SavedAre ==
    ASSUME Whole, NEW name \in {t[2] : t \in Ex!Targets(file)}, NEW bytes \in Ex!Saved(file, name)
    PROVE  \E target \in Ex!Targets(file), sid \in TrueSids :
               target[2] = name /\ bytes = Written(target, sid)
<1> DEFINE named == {t \in Ex!Targets(file) : t[2] = name}
           last == CHOOSE t \in named : \A u \in named : u = t \/ TextLess(u, t)
<1>1. named # {} /\ IsFiniteSet(named) /\ named \subseteq AllTargets
    <2>1. named # {} /\ named \subseteq Ex!Targets(file)
        OBVIOUS
    <2> HIDE DEF named
    <2> QED
        BY <2>1, TargetsAre, FS_Subset
<1>2. last \in named
    <2>1. \E t \in named : \A u \in named : u = t \/ TextLess(u, t)
        <3> HIDE DEF named
        <3> QED
            BY <1>1, LastTarget
    <2> HIDE DEF named
    <2> QED
        BY <2>1
<1>3. PICK sid \in Ex!BestSids(file, last) : bytes = Ex!FlattenSeq(Ex!Chunks(file, last, sid))
    BY DEF Ex!Saved
<1>4. sid \in TrueSids /\ bytes = Written(last, sid)
    <2> HIDE DEF last
    <2> QED
        BY <1>3, BestAre, SameEx
<1> QED
    BY <1>2, <1>4

(* The chunks of one session, of all its targets with one name.             *)
LEMMA OneSessionIs ==
    ASSUME Whole, NEW target \in Ex!Targets(file), NEW sid,
           \A t \in Ex!Targets(file) : t[2] = target[2] => t = target
    PROVE  Ex!OneSession(file, sid, target[2]) = Written(target, sid)
<1> DEFINE log == true_log
           S == {i \in DOMAIN file : file[i].sid = sid}
           B == Injected(target, sid)
           seen == Ex!FirstCopies(file, S)
           own == {i \in seen : /\ file[i].command.target # Unknown
                                /\ file[i].command.target[2] = target[2]}
           fresh(p) == /\ Ex!IsChunk(log[Source(log, block, p)])
                       /\ Source(log, block, p) \notin Taken(log, block, p)
<1>1. /\ log \in Logs /\ block \in Blocks(log) /\ file = Splice(log, block)
      /\ WholeSessions(log, block)
    BY DEF Whole, Given
<1>2. IsLog(log)
    BY <1>1, LogFacts
<1>3. \A p \in DOMAIN file :
          Source(log, block, p) \in DOMAIN log /\ file[p] = log[Source(log, block, p)]
    BY <1>1, <1>2, SpliceShape
<1>4. seen = {p \in S : fresh(p)}
    <2>1. S \subseteq DOMAIN Splice(log, block)
        BY <1>1
    <2>2. \A p \in S, q \in DOMAIN Splice(log, block) :
              Source(log, block, q) = Source(log, block, p) => q \in S
        BY <1>1, <1>3
    <2> HIDE DEF S
    <2> QED
        BY <1>1, <2>1, <2>2, FirstsAre
<1>5. Ex!Data(file) = {p \in DOMAIN file : fresh(p)}
    BY <1>1, FirstsAre DEF Ex!Data
<1> HIDE DEF seen, fresh
<1>6. \A p \in own : file[p].command.target = target
    <2> SUFFICES ASSUME NEW p \in own PROVE file[p].command.target = target
        OBVIOUS
    <2>1. p \in Ex!Data(file)
        BY <1>4, <1>5
    <2>2. file[p].command.target \in Ex!Targets(file)
        BY <2>1 DEF Ex!Targets
    <2> QED
        BY <2>2
<1>7. target # Unknown
    BY DEF Ex!Targets
<1>8. own = {p \in DOMAIN file : fresh(p) /\ file[p].sid = sid /\ file[p].command.target = target}
    BY <1>4, <1>6, <1>7
<1>9. own = News(log, block, B)
    BY <1>1, <1>3, <1>8 DEF fresh, News, Injected
<1>10. B \subseteq Own(log, sid)
    BY DEF Injected, Own
<1> HIDE DEF own, B
<1>11. Pick(file, own) = Pick(log, B)
    BY <1>1, <1>9, <1>10, NewsInOrder
<1>12. Ex!OneSession(file, sid, target[2]) = FlattenSeq(Ex!Payloads(Pick(file, own)))
    BY SameEx DEF Ex!OneSession, own, seen
<1> QED
    BY <1>11, <1>12 DEF Written, Parts, B, Injected

(* The three parts together.                                                *)
LEMMA BinariesHold ==
    ASSUME Given
    PROVE  BinariesIntact
<1> SUFFICES ASSUME CutsNoSession PROVE BinariesIntact
    BY DEF BinariesIntact
<1>1. Whole
    BY BlockWhole DEF Whole
<1>2. ASSUME NEW target \in Ex!Targets(file), NEW sid \in Ex!BestSids(file, target)
      PROVE  LET begun == {t \in TrueSids : BeginsElf(target, t)}
             IN  /\ FlattenSeq(Ex!Chunks(file, target, sid)) = Written(target, sid)
                 /\ begun # {} => IsPrefix(Magic, Written(target, sid))
                 /\ \A t \in IF begun # {} THEN begun ELSE TrueSids :
                        Len(Written(target, t)) <= Len(Written(target, sid))
    BY <1>1, BestAre DEF Begun
<1>3. \A name \in {t[2] : t \in Ex!Targets(file)} : \A bytes \in Ex!Saved(file, name) :
          \E target \in Ex!Targets(file), sid \in TrueSids :
              target[2] = name /\ bytes = Written(target, sid)
    BY <1>1, SavedAre
<1>4. \A target \in Ex!Targets(file), sid \in TrueSids :
          (\A t \in Ex!Targets(file) : t[2] = target[2] => t = target) =>
              Ex!OneSession(file, sid, target[2]) = Written(target, sid)
    BY <1>1, OneSessionIs
<1> QED
    BY <1>2, <1>3, <1>4 DEF BinariesIntact

(* As long as the merge cut no session, what extract_all_binaries.py saves  *)
(* is byte for byte what one session wrote to one target, an ELF if some    *)
(* session began one there, and of these the longest; extract_binary.py     *)
(* saves the same if the name is that of one target only: for every log,    *)
(* although the two scripts recognise a repeated chunk without its session  *)
(* and never sort the file.                                                 *)
THEOREM BinariesStayIntact == Spec => []BinariesIntact
<1>1. IInv => BinariesIntact
    BY BinariesHold DEF IInv
<1> QED
    BY <1>1, InvInit, InvStep, PTL DEF Spec

-------------------------------------------------------------------------------
(* The loops of fingerprint.py and replay.py, which fold runs of chunks,    *)
(* over numbers: where a loop stops, what rises with it, and how often.     *)

(* A set that begins at a and has no gaps.                                  *)
LEMMA Gapless ==
    ASSUME NEW a \in Nat, NEW n \in Nat, NEW X, X \subseteq a..n,
           \A j \in X : \A k \in a..j : k \in X
    PROVE  IsFiniteSet(X) /\ Cardinality(X) \in Nat /\ X = a..(a + Cardinality(X) - 1)
<1>1. IsFiniteSet(X) /\ Cardinality(X) \in Nat
    <2>1. IsFiniteSet(a..n)
        BY FS_Interval
    <2> QED
        BY <2>1, FS_Subset, FS_CardinalityType
<1>2. CASE X = {}
    <2>1. Cardinality(X) = 0
        BY <1>2, FS_EmptySet
    <2>2. a..(a + 0 - 1) = {}
        OBVIOUS
    <2> QED
        BY <1>1, <1>2, <2>1, <2>2
<1>3. CASE X # {}
    <2> DEFINE Y == {n - j : j \in X}
    <2>1. Y \in SUBSET Nat /\ Y # {}
        <3>1. \A j \in X : n - j \in Nat
            OBVIOUS
        <3>2. PICK j \in X : TRUE
            BY <1>3
        <3>3. n - j \in Y
            OBVIOUS
        <3> QED
            BY <3>1, <3>3
    <2>2. PICK y \in Y : \A z \in Y : y <= z
        <3> HIDE DEF Y
        <3> QED
            BY <2>1, SomeLeast
    <2>3. PICK m \in X : y = n - m
        OBVIOUS
    <2>4. m \in Nat /\ a <= m /\ \A j \in X : j \in Nat /\ j <= m
        <3>1. \A j \in X : n - m <= n - j
            BY <2>2, <2>3
        <3>2. \A j \in X : j \in Nat /\ a <= j
            OBVIOUS
        <3> QED
            BY <3>1, <3>2
    <2>5. X = a..m
        <3>1. \A k \in a..m : k \in X
            OBVIOUS
        <3>2. \A j \in X : j \in a..m
            BY <2>4
        <3> QED
            BY <3>1, <3>2
    <2>6. Cardinality(a..m) = m - a + 1
        BY <2>4, FS_Interval
    <2> QED
        BY <1>1, <2>4, <2>5, <2>6
<1> QED
    BY <1>2, <1>3

(* The loops of fingerprint.py and replay.py can be run.                    *)
On(next, i) == IF i \in DOMAIN next THEN next[i] ELSE i
Stops(at, next, n) == at = [k \in 1..n |-> IF k = 1 THEN 1 ELSE On(next, at[k - 1])]

LEMMA StopsExist ==
    ASSUME NEW next, NEW n \in Nat \ {0}
    PROVE  \E at : Stops(at, next, n)
<1> DEFINE Runs(m) == \E at : Stops(at, next, m)
           X == {m \in Nat \ {0} : ~Runs(m)}
<1>1. Runs(1)
    <2> DEFINE g == [k \in 1..1 |-> 1]
    <2>1. g = [k \in 1..1 |-> IF k = 1 THEN 1 ELSE On(next, g[k - 1])]
        OBVIOUS
    <2> HIDE DEF g
    <2> QED
        BY <2>1 DEF Stops
<1>2. ASSUME NEW m \in Nat, m > 1, Runs(m - 1) PROVE Runs(m)
    <2>1. PICK h : Stops(h, next, m - 1)
        BY <1>2
    <2> DEFINE g == [k \in 1..m |-> IF k < m THEN h[k] ELSE On(next, h[m - 1])]
    <2>2. \A k \in 1..m : g[k] = IF k = 1 THEN 1 ELSE On(next, g[k - 1])
        <3> SUFFICES ASSUME NEW k \in 1..m
                     PROVE  g[k] = IF k = 1 THEN 1 ELSE On(next, g[k - 1])
            OBVIOUS
        <3>1. CASE k = m
            <4>1. m - 1 \in 1..m /\ m - 1 < m /\ m # 1
                BY <1>2
            <4>2. g[m - 1] = h[m - 1]
                BY <4>1
            <4>3. g[m] = On(next, h[m - 1])
                OBVIOUS
            <4> HIDE DEF g
            <4> QED
                BY <3>1, <4>1, <4>2, <4>3
        <3>2. CASE k < m /\ k > 1
            <4>1. k \in 1..(m - 1) /\ k - 1 \in 1..m /\ k - 1 < m
                BY <3>2
            <4>2. g[k - 1] = h[k - 1] /\ g[k] = h[k]
                BY <3>2, <4>1
            <4>3. h[k] = On(next, h[k - 1])
                BY <2>1, <3>2, <4>1 DEF Stops
            <4> HIDE DEF g
            <4> QED
                BY <3>2, <4>2, <4>3
        <3>3. CASE k = 1
            <4>1. 1 \in 1..(m - 1) /\ 1 < m
                BY <1>2
            <4>2. g[1] = h[1] /\ h[1] = 1
                BY <1>2, <2>1, <4>1 DEF Stops
            <4> QED
                BY <3>3, <4>2
        <3> QED
            BY <3>1, <3>2, <3>3
    <2>3. g = [k \in 1..m |-> g[k]]
        OBVIOUS
    <2> HIDE DEF g
    <2>4. g = [k \in 1..m |-> IF k = 1 THEN 1 ELSE On(next, g[k - 1])]
        BY <2>2, <2>3
    <2> QED
        BY <2>4 DEF Stops
<1>3. X = {}
    <2> SUFFICES ASSUME X # {} PROVE FALSE
        OBVIOUS
    <2> HIDE DEF Runs
    <2>1. PICK m \in X : \A k \in X : m <= k
        BY SomeLeast
    <2>2. m \in Nat /\ m # 0 /\ m # 1 /\ ~Runs(m)
        BY <1>1
    <2>3. m - 1 \in Nat \ {0} /\ ~(m <= m - 1) /\ m > 1
        BY <2>2
    <2>4. Runs(m - 1)
        BY <2>1, <2>3
    <2> QED
        BY <1>2, <2>2, <2>3, <2>4
<1> QED
    BY <1>3

(* A loop over n elements goes forward and not beyond their end.            *)
Forward(next, n) ==
    /\ n \in Nat /\ next \in [1..n -> 1..(n + 1)]
    /\ \A i \in 1..n : i < next[i]

LEMMA StopsGrow ==
    ASSUME NEW n, NEW next, Forward(next, n), NEW at, Stops(at, next, n + 1)
    PROVE  /\ \A k \in 1..(n + 1) : at[k] \in 1..(n + 1) /\ k <= at[k]
           /\ \A k \in 1..n : at[k] # n + 1 => at[k + 1] = next[at[k]]
           /\ \A k, l \in 1..(n + 1) : k <= l => at[k] <= at[l]
<1>1. n \in Nat /\ next \in [1..n -> 1..(n + 1)] /\ \A i \in 1..n : i < next[i]
    BY DEF Forward
<1>2. at[1] = 1
    <2>1. 1 \in 1..(n + 1)
        BY <1>1
    <2> QED
        BY <2>1 DEF Stops
<1>3. ASSUME NEW k \in 1..n PROVE at[k + 1] = IF at[k] \in 1..n THEN next[at[k]] ELSE at[k]
    <2>1. k + 1 \in 1..(n + 1) /\ k + 1 # 1 /\ k + 1 - 1 = k
        BY <1>1
    <2>2. \A l \in 1..(n + 1) : at[l] = IF l = 1 THEN 1 ELSE On(next, at[l - 1])
        <3> DEFINE m == n + 1
        <3>1. Stops(at, next, m)
            OBVIOUS
        <3> HIDE DEF m
        <3>2. \A l \in 1..m : at[l] = IF l = 1 THEN 1 ELSE On(next, at[l - 1])
            BY <3>1 DEF Stops
        <3> QED
            BY <3>2 DEF m
    <2> DEFINE l == k + 1
    <2>3. at[l] = On(next, at[l - 1]) /\ l - 1 = k
        BY <2>1, <2>2
    <2>4. at[l] = On(next, at[k])
        BY <2>3
    <2> QED
        BY <1>1, <2>4 DEF On
<1> DEFINE Right(k) == at[k] \in 1..(n + 1) /\ k <= at[k]
           X == {k \in 1..(n + 1) : ~Right(k)}
<1>4. X = {}
    <2> SUFFICES ASSUME X # {} PROVE FALSE
        OBVIOUS
    <2> HIDE DEF Right
    <2>1. PICK k \in X : \A l \in X : k <= l
        <3>1. X \in SUBSET Nat
            OBVIOUS
        <3> QED
            BY <3>1, SomeLeast
    <2>2. k # 1
        BY <1>1, <1>2 DEF Right
    <2>3. k - 1 \in 1..n /\ ~(k <= k - 1) /\ k - 1 \in 1..(n + 1) /\ k - 1 + 1 = k
        BY <1>1, <2>2
    <2>4. Right(k - 1)
        BY <2>1, <2>3
    <2> DEFINE j == k - 1
    <2>5. j \in 1..n /\ at[j] \in 1..(n + 1) /\ j <= at[j]
        BY <2>3, <2>4 DEF Right
    <2>6. at[k] = IF at[j] \in 1..n THEN next[at[j]] ELSE at[j]
        BY <1>3, <2>3
    <2> HIDE DEF j
    <2>7. at[k] \in 1..(n + 1) /\ j + 1 <= at[k]
        <3>1. CASE at[j] \in 1..n
            <4>1. next[at[j]] \in 1..(n + 1) /\ at[j] < next[at[j]]
                BY <1>1, <3>1
            <4> QED
                BY <1>1, <2>5, <2>6, <3>1, <4>1
        <3>2. CASE at[j] \notin 1..n
            <4>1. at[j] = n + 1
                BY <1>1, <2>5, <3>2
            <4> QED
                BY <1>1, <2>5, <2>6, <3>2, <4>1
        <3> QED
            BY <3>1, <3>2
    <2>8. Right(k)
        BY <2>3, <2>7 DEF Right, j
    <2> QED
        BY <2>8
<1>5. \A k \in 1..(n + 1) : at[k] \in 1..(n + 1) /\ k <= at[k]
    BY <1>4
<1>6. \A k \in 1..n : at[k] # n + 1 => at[k + 1] = next[at[k]]
    <2> TAKE k \in 1..n
    <2>1. at[k] \in 1..(n + 1)
        BY <1>1, <1>5
    <2>2. at[k + 1] = IF at[k] \in 1..n THEN next[at[k]] ELSE at[k]
        BY <1>3
    <2>3. at[k] # n + 1 => at[k] \in 1..n
        BY <1>1, <2>1
    <2> DEFINE x == at[k + 1]
    <2> HIDE DEF x
    <2>4. at[k] # n + 1 => x = next[at[k]]
        BY <2>2, <2>3 DEF x
    <2> QED
        BY <2>4 DEF x
<1>7. \A k \in 1..n : at[k] <= at[k + 1]
    <2> TAKE k \in 1..n
    <2>1. at[k] \in 1..(n + 1)
        BY <1>1, <1>5
    <2>2. at[k] \in 1..n => at[k] < next[at[k]] /\ next[at[k]] \in Nat
        BY <1>1
    <2> QED
        BY <1>1, <1>3, <2>1, <2>2
<1> HIDE DEF X
<1>8. ASSUME NEW k \in 1..(n + 1) PROVE \A l \in 1..(n + 1) : k <= l => at[k] <= at[l]
    <2> DEFINE Y == {l \in 1..(n + 1) : k <= l /\ ~(at[k] <= at[l])}
    <2> SUFFICES ASSUME Y # {} PROVE FALSE
        OBVIOUS
    <2>1. PICK l \in Y : \A m \in Y : l <= m
        <3>1. Y \in SUBSET Nat
            OBVIOUS
        <3> HIDE DEF Y
        <3> QED
            BY <3>1, SomeLeast
    <2>2. k # l
        BY <1>1, <1>5
    <2>3. l - 1 \in 1..n /\ k <= l - 1 /\ ~(l <= l - 1) /\ l - 1 + 1 = l /\ l - 1 \in 1..(n + 1)
        BY <1>1, <2>2
    <2>4. at[k] <= at[l - 1]
        BY <2>1, <2>3
    <2>5. at[l - 1] <= at[l]
        BY <1>7, <2>3
    <2>6. at[k] \in Nat /\ at[l - 1] \in Nat /\ at[l] \in Nat
        BY <1>1, <1>5, <2>3
    <2> QED
        BY <2>4, <2>5, <2>6
<1> QED
    BY <1>5, <1>6, <1>8

(* Every element is between a stop and the next.                            *)
Lead(V, v, i) == v \in V /\ v <= i /\ \A j \in V : j <= i => j <= v

LEMMA VisitsLead ==
    ASSUME NEW n, NEW next, Forward(next, n)
    PROVE  LET V == Fp!Visits(next)
           IN  /\ V \subseteq 1..n
               /\ \A i \in 1..n : \E v \in V : Lead(V, v, i) /\ i < next[v]
               /\ \A v \in V, i \in 1..n : v <= i /\ i < next[v] => Lead(V, v, i)
<1> DEFINE V == Fp!Visits(next)
           at == CHOOSE at : Stops(at, next, n + 1)
<1>1. n \in Nat /\ next \in [1..n -> 1..(n + 1)] /\ \A i \in 1..n : i < next[i]
    BY DEF Forward
<1>2. n + 1 \in Nat \ {0}
    BY <1>1
<1>3. Stops(at, next, n + 1)
    BY <1>2, StopsExist
<1>4. V = {at[k] : k \in 1..(n + 1)} \cap 1..n
    <2>1. Len(next) = n /\ DOMAIN next = 1..n
        BY <1>1
    <2>2. DOMAIN at = 1..(n + 1)
        <3> HIDE DEF at
        <3> QED
            BY <1>3 DEF Stops
    <2>3. V = {at[k] : k \in DOMAIN at} \cap DOMAIN next
        BY <2>1 DEF Fp!Visits, Stops, On
    <2> QED
        BY <2>1, <2>2, <2>3
<1> HIDE DEF at
<1>5. /\ \A k \in 1..(n + 1) : at[k] \in 1..(n + 1) /\ k <= at[k]
      /\ \A k \in 1..n : at[k] # n + 1 => at[k + 1] = next[at[k]]
      /\ \A k, l \in 1..(n + 1) : k <= l => at[k] <= at[l]
    BY <1>3, StopsGrow
<1> HIDE DEF V
<1>6. ASSUME NEW v \in V
      PROVE  /\ next[v] \in V \/ next[v] = n + 1
             /\ \A j \in V : v < j => next[v] <= j
    <2>1. PICK k \in 1..(n + 1) : v = at[k]
        BY <1>4
    <2>2. v \in 1..n /\ k \in 1..n
        BY <1>1, <1>4, <1>5, <2>1
    <2>3. at[k + 1] = next[v] /\ k + 1 \in 1..(n + 1) /\ next[v] \in 1..(n + 1)
        <3>1. at[k] # n + 1
            BY <1>1, <2>1, <2>2
        <3>2. at[k + 1] = next[at[k]]
            BY <1>5, <2>2, <3>1
        <3>3. k + 1 \in 1..(n + 1) /\ next[v] \in 1..(n + 1)
            BY <1>1, <2>2
        <3> QED
            BY <2>1, <3>2, <3>3
    <2>4. next[v] \in V \/ next[v] = n + 1
        <3> DEFINE x == next[v]
        <3>1. x \in {at[l] : l \in 1..(n + 1)} /\ x \in 1..(n + 1)
            BY <2>3
        <3> HIDE DEF x
        <3>2. x \in 1..n \/ x = n + 1
            BY <1>1, <3>1
        <3>3. x \in V \/ x = n + 1
            BY <1>4, <3>1, <3>2
        <3> QED
            BY <3>3 DEF x
    <2>5. ASSUME NEW j \in V, v < j PROVE next[v] <= j
        <3>1. PICK l \in 1..(n + 1) : j = at[l]
            BY <1>4
        <3>2. ~(l <= k)
            <4>1. l <= k => j <= v
                BY <1>1, <1>5, <2>1, <3>1
            <4>2. j \in Nat /\ v \in Nat
                BY <1>1, <1>4
            <4> QED
                BY <2>5, <4>1, <4>2
        <3>3. k + 1 <= l
            BY <1>1, <3>2
        <3> QED
            BY <1>1, <1>5, <2>3, <3>1, <3>3
    <2> QED
        BY <2>4, <2>5
<1>7. V \subseteq 1..n
    BY <1>4
<1>8. ASSUME NEW v \in V, NEW i \in 1..n, v <= i, i < next[v] PROVE Lead(V, v, i)
    <2> SUFFICES ASSUME NEW j \in V, j <= i PROVE j <= v
        BY <1>8 DEF Lead
    <2>1. v < j => next[v] <= j
        BY <1>6
    <2>2. next[v] \in Nat /\ v \in Nat /\ j \in Nat /\ i \in Nat
        BY <1>1, <1>7
    <2> QED
        BY <1>8, <2>1, <2>2
<1>9. ASSUME NEW i \in 1..n PROVE \E v \in V : Lead(V, v, i) /\ i < next[v]
    <2> DEFINE X == {i - v : v \in {u \in V : u <= i}}
    <2>1. 1 \in V
        <3>1. 1 \in 1..(n + 1) /\ 1 \in 1..n /\ at[1] = 1
            BY <1>1, <1>3 DEF Stops
        <3> QED
            BY <1>4, <3>1
    <2>2. X \in SUBSET Nat /\ X # {}
        <3>1. \A v \in V : v \in Nat
            BY <1>1, <1>7
        <3>2. i - 1 \in X
            BY <2>1
        <3> QED
            BY <3>1, <3>2
    <2>3. PICK x \in X : \A y \in X : x <= y
        <3> HIDE DEF X
        <3> QED
            BY <2>2, SomeLeast
    <2>4. PICK v \in V : v <= i /\ x = i - v
        OBVIOUS
    <2>5. \A j \in V : j <= i => j <= v
        <3> TAKE j \in V
        <3> HAVE j <= i
        <3>1. i - v <= i - j
            BY <2>3, <2>4
        <3>2. j \in Nat /\ v \in Nat
            BY <1>1, <1>7
        <3> QED
            BY <3>1, <3>2
    <2>6. i < next[v]
        <3> SUFFICES ASSUME next[v] <= i PROVE FALSE
            <4>1. next[v] \in Nat
                BY <1>1, <1>7
            <4> QED
                BY <4>1
        <3>1. v \in 1..n /\ v < next[v] /\ next[v] \in 1..(n + 1)
            BY <1>1, <1>7
        <3>2. next[v] \in V
            BY <1>1, <1>6, <3>1
        <3> QED
            BY <2>5, <3>1, <3>2
    <2> QED
        BY <2>4, <2>5, <2>6 DEF Lead
<1> QED
    BY <1>7, <1>8, <1>9 DEF V

(* Numbers that rise, and the positions at which they have one value.       *)
Rises(r, N, M) ==
    /\ N \in Nat /\ M \in Nat /\ \A n \in 1..N : r[n] \in 1..M
    /\ \A n, k \in 1..N : n <= k => r[n] <= r[k]
Class(r, N, i) == {n \in 1..N : r[n] = i}

(* What stands still is seen once.                                          *)
Changes(s, N) == {i \in 1..N : i = 1 \/ s[i - 1] # s[i]}
Stutters(s, t, r, N, M) ==
    /\ Rises(r, N, M)
    /\ \A i \in 1..M : Class(r, N, i) # {}
    /\ \A n \in 1..N : s[n] = t[r[n]]

LEMMA OnceEach ==
    ASSUME NEW s, NEW t, NEW r, NEW N, NEW M, Stutters(s, t, r, N, M)
    PROVE  Pick(s, Changes(s, N)) = Pick(t, Changes(t, M))
<1> DEFINE A == Changes(s, N)
           B == Changes(t, M)
<1>1. /\ N \in Nat /\ M \in Nat /\ \A n \in 1..N : r[n] \in 1..M
      /\ \A n, k \in 1..N : n <= k => r[n] <= r[k]
      /\ \A i \in 1..M : \E n \in 1..N : r[n] = i
      /\ \A n \in 1..N : s[n] = t[r[n]]
    BY DEF Stutters, Rises, Class
<1>2. /\ A \subseteq 1..N /\ IsFiniteSet(A) /\ A \subseteq Nat
      /\ B \subseteq 1..M /\ IsFiniteSet(B) /\ B \subseteq Nat
    <2>1. A \subseteq 1..N /\ B \subseteq 1..M
        BY DEF Changes
    <2>2. IsFiniteSet(1..N) /\ IsFiniteSet(1..M)
        BY <1>1, FS_Interval
    <2>3. 1..N \subseteq Nat /\ 1..M \subseteq Nat
        OBVIOUS
    <2> HIDE DEF A, B
    <2> QED
        BY <2>1, <2>2, <2>3, FS_Subset
<1>3. ASSUME NEW n \in 1..N, n # 1
      PROVE  n - 1 \in 1..N /\ (r[n] = r[n - 1] \/ r[n] = r[n - 1] + 1)
    <2>1. n - 1 \in 1..N /\ n - 1 <= n
        BY <1>1, <1>3
    <2>2. r[n - 1] \in 1..M /\ r[n] \in 1..M /\ r[n - 1] <= r[n]
        BY <1>1, <2>1
    <2>3. ASSUME r[n - 1] + 1 < r[n] PROVE FALSE
        <3> DEFINE j == r[n - 1] + 1
        <3>1. j \in 1..M
            BY <1>1, <2>2, <2>3
        <3>2. PICK k \in 1..N : r[k] = j
            BY <1>1, <3>1
        <3>3. k <= n - 1 \/ n <= k
            BY <1>1
        <3>4. k <= n - 1 => r[k] <= r[n - 1]
            BY <1>1, <2>1
        <3>5. n <= k => r[n] <= r[k]
            BY <1>1
        <3> QED
            BY <2>2, <2>3, <3>2, <3>3, <3>4, <3>5
    <2> DEFINE x == r[n - 1]
    <2>4. x \in Nat /\ r[n] \in Nat /\ x <= r[n] /\ ~(x + 1 < r[n])
        BY <2>2, <2>3
    <2> HIDE DEF x
    <2>5. r[n] = x \/ r[n] = x + 1
        BY <2>4
    <2> QED
        BY <2>1, <2>5 DEF x
<1>4. N # 0 => 1 \in 1..N /\ r[1] = 1
    <2> HAVE N # 0
    <2>1. 1 \in 1..N
        BY <1>1
    <2>2. r[1] \in 1..M
        BY <1>1, <2>1
    <2>3. 1 \in 1..M
        BY <1>1, <2>2
    <2>4. PICK k \in 1..N : r[k] = 1
        BY <1>1, <2>3
    <2>5. r[1] <= r[k]
        <3>1. 1 <= k
            OBVIOUS
        <3> QED
            BY <1>1, <2>1, <3>1
    <2> QED
        BY <1>1, <2>1, <2>2, <2>4, <2>5
<1>5. ASSUME NEW p \in A
      PROVE  r[p] \in B /\ s[p] = t[r[p]] /\ (p # 1 => r[p] = r[p - 1] + 1)
    <2>1. p \in 1..N /\ r[p] \in 1..M /\ s[p] = t[r[p]]
        BY <1>1, <1>2
    <2>2. CASE p = 1
        <3>1. r[p] = 1
            BY <1>1, <1>4, <2>1, <2>2
        <3> QED
            BY <2>1, <2>2, <3>1 DEF Changes
    <2>3. CASE p # 1
        <3> DEFINE q == p - 1
                   x == r[q]
        <3>1. q \in 1..N /\ (r[p] = x \/ r[p] = x + 1)
            BY <1>3, <2>1, <2>3
        <3>2. s[q] # s[p]
            BY <2>3 DEF Changes
        <3>3. s[q] = t[x] /\ x \in 1..M
            BY <1>1, <3>1
        <3> HIDE DEF q, x
        <3>4. r[p] = x + 1
            BY <2>1, <3>1, <3>2, <3>3
        <3>5. r[p] - 1 = x /\ t[x] # t[r[p]]
            BY <2>1, <3>2, <3>3, <3>4
        <3>6. r[p] \in B
            BY <2>1, <3>5 DEF Changes
        <3> QED
            BY <2>1, <3>4, <3>6 DEF q, x
    <2> QED
        BY <2>2, <2>3
<1>6. ASSUME NEW p \in A, NEW q \in A, p < q PROVE r[p] < r[q]
    <2>1. p \in 1..N /\ q \in 1..N /\ q # 1 /\ p <= q - 1
        BY <1>1, <1>2, <1>6
    <2> DEFINE k == q - 1
    <2>2. r[q] = r[k] + 1 /\ k \in 1..N /\ p <= k
        BY <1>3, <1>5, <2>1
    <2> HIDE DEF k
    <2>3. r[p] <= r[k] /\ r[p] \in Nat /\ r[k] \in Nat
        BY <1>1, <2>1, <2>2
    <2> QED
        BY <2>2, <2>3
<1>7. ASSUME NEW k \in B PROVE \E p \in A : r[p] = k
    <2> DEFINE X == {n \in 1..N : r[n] = k}
    <2>1. X \in SUBSET Nat /\ X # {}
        BY <1>1, <1>2
    <2>2. PICK p \in X : \A q \in X : p <= q
        <3> HIDE DEF X
        <3> QED
            BY <2>1, SomeLeast
    <2>3. p \in 1..N /\ r[p] = k /\ s[p] = t[k]
        BY <1>1
    <2>4. CASE p = 1
        BY <2>3, <2>4 DEF Changes
    <2>5. CASE p # 1
        <3> DEFINE q == p - 1
                   x == r[q]
        <3>1. q \in 1..N /\ (r[p] = x \/ r[p] = x + 1) /\ ~(p <= q)
            BY <1>1, <1>3, <2>3, <2>5
        <3>2. x # k
            <4> HIDE DEF q
            <4> QED
                BY <2>2, <3>1
        <3>3. s[q] = t[x] /\ x \in 1..M /\ k \in 1..M
            BY <1>1, <1>2, <3>1
        <3> HIDE DEF q, x
        <3>4. k = x + 1 /\ k - 1 = x /\ k # 1
            BY <2>3, <3>1, <3>2, <3>3
        <3>5. t[x] # t[k]
            BY <3>4 DEF Changes
        <3>6. s[q] # s[p]
            BY <2>3, <3>3, <3>5
        <3> QED
            BY <2>3, <3>6 DEF Changes, q
    <2> QED
        BY <2>4, <2>5
<1> HIDE DEF A, B
<1>8. Corresponds(s, A, t, B, r)
    BY <1>5, <1>6, <1>7 DEF Corresponds
<1>9. Spots(A) /\ Spots(B)
    BY <1>2 DEF Spots
<1>10. Pick(s, A) = Pick(t, B)
    BY <1>8, <1>9, PickSame
<1> QED
    BY <1>10 DEF A, B

(* The classes follow each other.                                           *)
Below(r, N, i) == {n \in 1..N : r[n] <= i}

LEMMA ClassesFollow ==
    ASSUME NEW r, NEW N, NEW M, Rises(r, N, M), NEW i \in Nat
    PROVE  /\ Cardinality(Below(r, N, i)) \in Nat
           /\ Below(r, N, i) = 1..Cardinality(Below(r, N, i))
           /\ Below(r, N, 0) = {} /\ Cardinality(Below(r, N, 0)) = 0
           /\ M <= i => Cardinality(Below(r, N, i)) = N
           /\ i # 0 => Cardinality(Below(r, N, i)) =
                           Cardinality(Below(r, N, i - 1)) + Cardinality(Class(r, N, i))
<1>1. /\ N \in Nat /\ M \in Nat /\ \A n \in 1..N : r[n] \in 1..M
      /\ \A n, k \in 1..N : n <= k => r[n] <= r[k]
    BY DEF Rises
<1>2. ASSUME NEW j \in Nat
      PROVE  /\ IsFiniteSet(Below(r, N, j)) /\ Cardinality(Below(r, N, j)) \in Nat
             /\ Below(r, N, j) = 1..Cardinality(Below(r, N, j))
    <2> DEFINE X == Below(r, N, j)
    <2>1. X \subseteq 1..N
        BY DEF Below
    <2>2. \A n \in X : \A k \in 1..n : k \in X
        <3> SUFFICES ASSUME NEW n \in X, NEW k \in 1..n PROVE k \in X
            OBVIOUS
        <3>1. n \in 1..N /\ r[n] <= j
            BY DEF Below
        <3>2. k \in 1..N /\ k <= n
            BY <1>1, <3>1
        <3>3. r[k] <= r[n] /\ r[k] \in Nat /\ r[n] \in Nat
            BY <1>1, <3>1, <3>2
        <3>4. r[k] <= j
            BY <3>1, <3>3
        <3> QED
            BY <3>2, <3>4 DEF Below
    <2> HIDE DEF X
    <2> DEFINE c == Cardinality(X)
    <2>3. IsFiniteSet(X) /\ c \in Nat /\ X = 1..(1 + c - 1)
        BY <1>1, <2>1, <2>2, Gapless
    <2> HIDE DEF c
    <2>4. X = 1..c
        BY <2>3
    <2> QED
        BY <2>3, <2>4 DEF X, c
<1>3. Below(r, N, 0) = {}
    BY <1>1 DEF Below
<1>4. M <= i => Cardinality(Below(r, N, i)) = N
    <2> HAVE M <= i
    <2>1. Below(r, N, i) = 1..N
        <3>1. \A n \in 1..N : r[n] <= i
            BY <1>1
        <3> QED
            BY <3>1 DEF Below
    <2>2. Cardinality(1..N) = N
        <3>1. Cardinality(1..N) = IF 1 > N THEN 0 ELSE N - 1 + 1
            BY <1>1, FS_Interval
        <3> QED
            BY <1>1, <3>1
    <2> QED
        BY <2>1, <2>2
<1>5. ASSUME i # 0
      PROVE  Cardinality(Below(r, N, i)) =
                 Cardinality(Below(r, N, i - 1)) + Cardinality(Class(r, N, i))
    <2> DEFINE j == i - 1
               X == Below(r, N, j)
               Y == Class(r, N, i)
    <2>1. j \in Nat /\ i = j + 1
        BY <1>5
    <2> HIDE DEF j
    <2>2. \A n \in 1..N : r[n] <= i <=> (r[n] <= j \/ r[n] = i)
        <3> TAKE n \in 1..N
        <3>1. r[n] \in Nat
            BY <1>1
        <3> QED
            BY <2>1, <3>1
    <2>3. Below(r, N, i) = X \cup Y
        BY <2>2 DEF Below, Class
    <2>4. X \cap Y = {}
        BY <1>1, <2>1 DEF Below, Class
    <2>5. IsFiniteSet(X) /\ IsFiniteSet(Y)
        <3>1. Y \subseteq 1..N /\ IsFiniteSet(1..N)
            BY <1>1, FS_Interval DEF Class
        <3> QED
            BY <1>2, <2>1, <3>1, FS_Subset
    <2> HIDE DEF X, Y
    <2>6. Cardinality(X \cap Y) = 0
        BY <2>4, FS_EmptySet
    <2>7. Cardinality(X \cup Y) = Cardinality(X) + Cardinality(Y) - Cardinality(X \cap Y)
        BY <2>5, FS_Union
    <2>8. Cardinality(X) \in Nat /\ Cardinality(Y) \in Nat
        BY <2>5, FS_CardinalityType
    <2>9. Cardinality(X \cup Y) = Cardinality(X) + Cardinality(Y)
        BY <2>6, <2>7, <2>8
    <2> QED
        BY <2>3, <2>9 DEF X, Y, j
<1> QED
    BY <1>2, <1>3, <1>4, <1>5, FS_EmptySet

(* Every class as long as it is, one after the other, is the whole.         *)
Spreads(s, qs, r, N, M, V) ==
    /\ Rises(r, N, M)
    /\ s \in Seq(V) /\ Len(s) = N
    /\ qs \in Seq(Seq(V)) /\ Len(qs) = M
    /\ \A i \in 1..M : Len(qs[i]) = Cardinality(Class(r, N, i))
    /\ \A i \in 1..M : \A n \in Class(r, N, i) : \A k \in 1..Len(qs[i]) : qs[i][k] = s[n]

LEMMA ClassBetween ==
    ASSUME NEW r, NEW N, NEW M, Rises(r, N, M), NEW i \in 1..M,
           NEW k \in 1..Cardinality(Below(r, N, i)), Cardinality(Below(r, N, i - 1)) < k
    PROVE  k \in Class(r, N, i)
<1> DEFINE j == i - 1
<1>1. M \in Nat /\ N \in Nat /\ i \in Nat /\ j \in Nat /\ i = j + 1
    BY DEF Rises
<1> HIDE DEF j
<1>2. /\ Below(r, N, i) = 1..Cardinality(Below(r, N, i))
      /\ Below(r, N, j) = 1..Cardinality(Below(r, N, j))
      /\ Cardinality(Below(r, N, j)) \in Nat /\ Cardinality(Below(r, N, i)) \in Nat
    BY <1>1, ClassesFollow
<1>3. k \in Below(r, N, i)
    BY <1>2
<1>4. k \notin Below(r, N, j)
    BY <1>2 DEF j
<1>5. k \in 1..N /\ r[k] <= i /\ ~(r[k] <= j) /\ r[k] \in Nat
    BY <1>3, <1>4 DEF Below, Rises
<1>6. r[k] = i
    BY <1>1, <1>5
<1> QED
    BY <1>5, <1>6 DEF Class

LEMMA Spread ==
    ASSUME NEW s, NEW qs, NEW r, NEW N, NEW M, NEW V, Spreads(s, qs, r, N, M, V)
    PROVE  FlattenSeq(qs) = s
<1> DEFINE c == [i \in 0..M |-> Cardinality(Below(r, N, i))]
<1>0. /\ Rises(r, N, M) /\ s \in Seq(V) /\ Len(s) = N /\ qs \in Seq(Seq(V)) /\ Len(qs) = M
      /\ \A i \in 1..M : Len(qs[i]) = Cardinality(Class(r, N, i))
      /\ \A i \in 1..M : \A n \in Class(r, N, i) : \A k \in 1..Len(qs[i]) : qs[i][k] = s[n]
    BY DEF Spreads
<1>1. N \in Nat /\ M \in Nat
    BY <1>0 DEF Rises
<1>2. /\ \A i \in 0..M : c[i] \in Nat
      /\ c[0] = 0 /\ c[M] = N
      /\ \A i \in 1..M : c[i] = c[i - 1] + Len(qs[i])
    <2>1. \A i \in 0..M : i \in Nat
        OBVIOUS
    <2>2. \A i \in 0..M : c[i] \in Nat
        BY <1>0, <2>1, ClassesFollow
    <2>3. 0 \in 0..M /\ M \in 0..M /\ 0 \in Nat /\ M <= M
        BY <1>1
    <2>4. c[0] = 0
        BY <1>0, <2>3, ClassesFollow
    <2>5. c[M] = N
        BY <1>0, <1>1, <2>3, ClassesFollow
    <2>6. ASSUME NEW i \in 1..M PROVE c[i] = c[i - 1] + Len(qs[i])
        <3>1. i \in Nat /\ i # 0 /\ i \in 0..M /\ i - 1 \in 0..M
            BY <1>1
        <3>2. Cardinality(Below(r, N, i)) =
                  Cardinality(Below(r, N, i - 1)) + Cardinality(Class(r, N, i))
            BY <1>0, <3>1, ClassesFollow
        <3> QED
            BY <1>0, <3>1, <3>2
    <2> QED
        BY <2>2, <2>4, <2>5, <2>6
<1>3. ASSUME NEW i \in 1..M, NEW k \in 1..c[i], c[i - 1] < k, NEW m \in 1..Len(qs[i])
      PROVE  qs[i][m] = s[k]
    <2>1. i - 1 \in 0..M /\ i \in 0..M
        BY <1>1
    <2>2. k \in 1..Cardinality(Below(r, N, i)) /\ Cardinality(Below(r, N, i - 1)) < k
        BY <1>3, <2>1
    <2>3. k \in Class(r, N, i)
        BY <1>0, <2>2, ClassBetween
    <2> QED
        BY <1>0, <2>3
<1> HIDE DEF c
<1>4. CASE M = 0
    <2>1. qs = <<>> /\ s = <<>>
        BY <1>0, <1>2, <1>4, EmptySeq
    <2>2. FlattenSeq(qs) = <<>>
        BY <2>1 DEF FlattenSeq
    <2> QED
        BY <2>1, <2>2
<1>5. CASE M # 0
    <2> DEFINE g == CHOOSE g : Flat(g, qs, M)
    <2>0. M \in Nat \ {0}
        BY <1>1, <1>5
    <2>1. Flat(g, qs, M)
        BY <2>0, FlattenRuns
    <2>2. FlattenSeq(qs) = g[M]
        BY <1>0, <1>5 DEF FlattenSeq, Flat, Joined
    <2> HIDE DEF g
    <2>3. 1 \in 1..M /\ M \in 1..M /\ g[1] = qs[1]
        <3>1. 1 \in 1..M /\ M \in 1..M
            BY <2>0
        <3> QED
            BY <2>1, <3>1 DEF Flat
    <2>4. \A i \in 1..M : i # 1 => g[i] = g[i - 1] \o qs[i]
        <3>1. \A i \in 1..M : i # 1 => g[i] = Joined(g[i - 1], qs[i])
            BY <2>1 DEF Flat
        <3> QED
            BY <3>1 DEF Joined
    <2> DEFINE Right(i) == /\ g[i] \in Seq(V) /\ Len(g[i]) = c[i]
                           /\ \A k \in 1..c[i] : g[i][k] = s[k]
               X == {i \in 1..M : ~Right(i)}
    <2>5. Right(1)
        <3>1. qs[1] \in Seq(V) /\ Len(qs[1]) \in Nat
            BY <1>0, <2>3, ElementOfSeq, LenProperties
        <3>2. c[1] = c[0] + Len(qs[1]) /\ c[0] = 0
            BY <1>2, <2>3
        <3>3. Len(qs[1]) = c[1]
            BY <3>1, <3>2
        <3>4. \A k \in 1..c[1] : qs[1][k] = s[k]
            <4> TAKE k \in 1..c[1]
            <4>1. c[1 - 1] < k
                BY <3>2
            <4> QED
                BY <1>3, <2>3, <3>3, <4>1
        <3> QED
            BY <2>3, <3>1, <3>3, <3>4
    <2>6. ASSUME NEW i \in 1..M, i # 1, Right(i - 1) PROVE Right(i)
        <3> DEFINE j == i - 1
                   u == g[j]
                   t == qs[i]
        <3>1. j \in 0..M /\ i = j + 1
            BY <1>1
        <3>2. u \in Seq(V) /\ Len(u) = c[j] /\ \A k \in 1..c[j] : u[k] = s[k]
            BY <2>6
        <3>3. t \in Seq(V)
            BY <1>0, ElementOfSeq
        <3>4. g[i] = u \o t
            BY <2>4, <2>6
        <3>5. c[i] = c[j] + Len(t) /\ c[j] \in Nat
            BY <1>2, <3>1
        <3>6. \A k \in 1..c[i], m \in 1..Len(t) : c[j] < k => t[m] = s[k]
            BY <1>3
        <3> HIDE DEF u, t, j
        <3>7. /\ u \o t \in Seq(V) /\ Len(u \o t) = Len(u) + Len(t)
              /\ \A k \in 1..(Len(u) + Len(t)) : (u \o t)[k] = IF k <= Len(u) THEN u[k] ELSE t[k - Len(u)]
              /\ Len(t) \in Nat
            BY <3>2, <3>3, ConcatProperties, LenProperties
        <3>8. ASSUME NEW k \in 1..c[i] PROVE (u \o t)[k] = s[k]
            <4>1. k \in 1..(Len(u) + Len(t))
                BY <3>2, <3>5
            <4>2. CASE k <= Len(u)
                <5>1. k \in 1..c[j]
                    BY <3>2, <3>5, <4>2
                <5> QED
                    BY <3>2, <3>7, <4>1, <4>2, <5>1
            <4>3. CASE ~(k <= Len(u))
                <5>1. k - Len(u) \in 1..Len(t) /\ c[j] < k
                    BY <3>2, <3>5, <3>7, <4>1, <4>3
                <5>2. t[k - Len(u)] = s[k]
                    BY <3>6, <5>1
                <5> QED
                    BY <3>7, <4>1, <4>3, <5>2
            <4> QED
                BY <4>2, <4>3
        <3>9. Len(u \o t) = c[i]
            BY <3>2, <3>5, <3>7
        <3> QED
            BY <3>4, <3>7, <3>8, <3>9
    <2>7. X = {}
        <3> SUFFICES ASSUME X # {} PROVE FALSE
            OBVIOUS
        <3> HIDE DEF Right
        <3>1. PICK i \in X : \A k \in X : i <= k
            <4>1. X \in SUBSET Nat
                OBVIOUS
            <4> QED
                BY <4>1, SomeLeast
        <3>2. i \in 1..M /\ i # 1 /\ ~Right(i)
            BY <2>5
        <3>3. i - 1 \in 1..M /\ ~(i <= i - 1)
            BY <1>1, <3>2
        <3>4. Right(i - 1)
            BY <3>1, <3>3
        <3> QED
            BY <2>6, <3>2, <3>4
    <2>8. Right(M)
        <3> HIDE DEF Right
        <3> QED
            BY <2>3, <2>7
    <2>9. g[M] = s
        <3>1. g[M] \in Seq(V) /\ Len(g[M]) = Len(s) /\ \A k \in 1..Len(s) : g[M][k] = s[k]
            BY <1>0, <1>2, <2>8
        <3> DEFINE x == g[M]
        <3> HIDE DEF x
        <3>2. x \in Seq(V) /\ Len(x) = Len(s) /\ \A k \in 1..Len(s) : x[k] = s[k]
            BY <3>1 DEF x
        <3>3. x = s
            BY <1>0, <3>2, SeqEqual
        <3> QED
            BY <3>3 DEF x
    <2> QED
        BY <2>2, <2>9
<1> QED
    BY <1>4, <1>5

-------------------------------------------------------------------------------
(* The order of the texts of times.                                         *)

LEMMA DivMod ==
    ASSUME NEW t \in Nat
    PROVE  /\ Second(t) \in Int
           /\ t % TicksPerSecond \in 0..(TicksPerSecond - 1)
           /\ t = TicksPerSecond * Second(t) + (t % TicksPerSecond)
BY TicksAssumption DEF Second

LEMMA TimesStep ==
    ASSUME NEW T \in Nat \ {0}, NEW x \in Int, NEW y \in Int, T * x < T * y + T
    PROVE  x <= y
<1> SUFFICES ASSUME x >= y + 1 PROVE FALSE
    OBVIOUS
<1>1. T * (x - (y + 1)) >= 0
    OBVIOUS
<1>2. T * (x - (y + 1)) = T * x - (T * y + T)
    OBVIOUS
<1>3. T * x \in Int /\ T * y \in Int
    OBVIOUS
<1> QED
    BY <1>1, <1>2, <1>3

LEMMA GreatestNat ==
    ASSUME NEW X \in SUBSET Nat, X # {}, NEW m \in Nat, \A x \in X : x <= m
    PROVE  Max(X) \in X /\ \A x \in X : x <= Max(X)
<1> DEFINE Y == {m - x : x \in X}
<1>1. \A x \in X : x \in Nat /\ m - x \in Nat
    OBVIOUS
<1>2. Y \in SUBSET Nat /\ Y # {}
    BY <1>1
<1>3. PICK y \in Y : \A z \in Y : y <= z
    <2> HIDE DEF Y
    <2> QED
        BY <1>2, SomeLeast
<1>4. PICK x \in X : y = m - x
    BY <1>3
<1>5. \A z \in X : z <= x
    <2> SUFFICES ASSUME NEW z \in X PROVE z <= x
        OBVIOUS
    <2>1. m - x <= m - z /\ x \in Nat /\ z \in Nat
        BY <1>1, <1>3, <1>4
    <2> QED
        BY <2>1
<1> QED
    BY <1>5 DEF Max

(* The last digit of a time stands at one of the places.                    *)
LEMMA LastPlaceIs ==
    ASSUME NEW t \in Nat
    PROVE  LastPlace(t) \in Places /\ t % LastPlace(t) = 0
<1> DEFINE X == {u \in Places : t % u = 0}
<1>1. X \in SUBSET Nat /\ \A u \in X : u <= TicksPerSecond
  <2>1. \A u \in X : u \in 1..TicksPerSecond
    BY TicksAssumption
  <2>2. \A u \in 1..TicksPerSecond : u \in Nat /\ u <= TicksPerSecond
    BY TicksAssumption
  <2> HIDE DEF X
  <2> QED
    BY <2>1, <2>2
<1>2. t % 1 = 0
    OBVIOUS
<1>3. 1 \in X
    BY <1>2, TicksAssumption
<1>4. Max(X) \in X /\ \A u \in X : u <= Max(X)
  <2> HIDE DEF X
  <2> QED
    BY <1>1, <1>3, GreatestNat, TicksAssumption
<1>5. /\ Max(X) \in Places /\ t % Max(X) = 0
      /\ \A v \in Places : t % v = 0 => v <= Max(X)
    BY <1>4
<1> QED
    BY <1>5 DEF LastPlace

(* What divides a time and a second fits in after the time.                 *)
LEMMA FitsIn ==
    ASSUME NEW u \in Nat \ {0}, NEW T \in Nat \ {0}, NEW t \in Nat,
           t % u = 0, T % u = 0
    PROVE  (t % T) + u <= T
<1> DEFINE a == t \div u
           b == T \div u
           q == t \div T
           c == a - b * q
<1>1. a \in Int /\ b \in Int /\ q \in Int /\ t = u * a /\ T = u * b /\ t = T * q + (t % T)
    OBVIOUS
<1>2. (t % T) \in Int /\ (t % T) < T
    OBVIOUS
<1> HIDE DEF a, b, q
<1>3. b * q \in Int /\ c \in Int
    BY <1>1
<1>4. (u * b) * q = u * (b * q)
    BY <1>1
<1>5. t % T = u * a - u * (b * q)
    BY <1>1, <1>2, <1>3, <1>4
<1>6. u * c = u * a - u * (b * q)
    BY <1>1, <1>3
<1> HIDE DEF c
<1>7. u * (c + 1) = u * c + u
    BY <1>3
<1>8. u * c \in Int /\ u * b \in Int
    BY <1>1, <1>3
<1>9. u * (c + 1) < u * b + u
    BY <1>1, <1>2, <1>5, <1>6, <1>7, <1>8
<1>10. c + 1 <= b
    BY <1>1, <1>3, <1>9, TimesStep
<1>11. u * (b - (c + 1)) >= 0
    BY <1>1, <1>3, <1>10
<1>12. u * (b - (c + 1)) = u * b - u * (c + 1)
    BY <1>1, <1>3
<1>13. u * c + u <= u * b
    BY <1>7, <1>8, <1>11, <1>12
<1> QED
    BY <1>1, <1>5, <1>6, <1>13

(* The text of a time stands before one that is not after the end of the    *)
(* second the time lies in.                                                 *)
LEMMA RankInSecond ==
    ASSUME NEW t \in Nat
    PROVE  /\ TextRank(t) \in Nat /\ TicksPerSecond * Second(t) \in Int
           /\ LastPlace(t) \in 1..TicksPerSecond
           /\ TicksPerSecond * Second(t) < t + LastPlace(t)
           /\ t + LastPlace(t) <= TicksPerSecond * Second(t) + TicksPerSecond
<1> DEFINE start == TicksPerSecond * Second(t)
           rest == t % TicksPerSecond
           u == LastPlace(t)
<1>1. start \in Int
    BY DivMod, TicksAssumption
<1>2. /\ rest \in Nat /\ rest < TicksPerSecond /\ t = start + rest
      /\ TicksPerSecond \in Nat \ {0}
    BY <1>1, DivMod, TicksAssumption
<1>3. u \in Places /\ u \in 1..TicksPerSecond /\ t % u = 0
    BY LastPlaceIs, TicksAssumption
<1>4. TicksPerSecond % u = 0
    BY <1>3, TicksAssumption
<1>5. rest + u <= TicksPerSecond
    BY <1>2, <1>3, <1>4, FitsIn
<1>6. TextRank(t) = (t + u) * (TicksPerSecond + 1) + u
    BY DEF TextRank
<1> HIDE DEF start, rest, u
<1>7. t + u \in Nat /\ TicksPerSecond + 1 \in Nat /\ u \in Nat
    BY <1>2, <1>3
<1>8. TextRank(t) \in Nat
    BY <1>6, <1>7
<1>9. start < t + u /\ t + u <= start + TicksPerSecond
    BY <1>1, <1>2, <1>3, <1>5
<1> QED
    BY <1>1, <1>3, <1>8, <1>9 DEF start, u

LEMMA SecondsApart ==
    ASSUME NEW a \in Nat, NEW b \in Nat
    PROVE  /\ Second(a) < Second(b) => TextRank(a) < TextRank(b)
           /\ TextRank(a) = TextRank(b) => a = b
<1> DEFINE T == TicksPerSecond + 1
           u == LastPlace(a)
           v == LastPlace(b)
           x == a + u
           y == b + v
           start == TicksPerSecond * Second(a)
           later == TicksPerSecond * Second(b)
<1>1. TextRank(a) = x * T + u /\ TextRank(b) = y * T + v
    BY DEF TextRank
<1>2. u \in 1..TicksPerSecond /\ v \in 1..TicksPerSecond /\ TicksPerSecond \in Nat \ {0}
    BY RankInSecond, TicksAssumption
<1>3. /\ T \in Nat \ {0} /\ x \in Int /\ y \in Int
      /\ u \in Int /\ v \in Int /\ u > 0 /\ v > 0 /\ u < T /\ v < T
      /\ a = x - u /\ b = y - v
    BY <1>2
<1>4. /\ start \in Int /\ later \in Int
      /\ x <= start + TicksPerSecond /\ later < y
      /\ Second(a) \in Int /\ Second(b) \in Int
    BY RankInSecond, DivMod
<1> HIDE DEF T, x, y, u, v
<1>5. x * T = T * x /\ y * T = T * y /\ T * x \in Int /\ T * y \in Int
    BY <1>3
<1>6. ASSUME Second(a) < Second(b) PROVE TextRank(a) < TextRank(b)
    <2>1. start + TicksPerSecond <= later
        <3>1. TicksPerSecond * (Second(b) - (Second(a) + 1)) >= 0
            BY <1>2, <1>4, <1>6
        <3>2. TicksPerSecond * (Second(b) - (Second(a) + 1)) = later - (start + TicksPerSecond)
            BY <1>2, <1>4
        <3> HIDE DEF start, later
        <3> QED
            BY <1>2, <1>4, <3>1, <3>2
    <2> HIDE DEF start, later
    <2>2. x + 1 <= y
        BY <1>2, <1>3, <1>4, <2>1
    <2>3. T * (y - (x + 1)) >= 0 /\ T * (y - (x + 1)) = T * y - (T * x + T)
        BY <1>3, <2>2
    <2> QED
        BY <1>1, <1>3, <1>5, <2>3
<1>7. ASSUME TextRank(a) = TextRank(b) PROVE a = b
    <2>1. T * x < T * y + T /\ T * y < T * x + T
        BY <1>1, <1>3, <1>5, <1>7
    <2>2. x <= y /\ y <= x
        BY <1>3, <2>1, TimesStep
    <2>3. x = y
        BY <1>3, <2>2
    <2> QED
        BY <1>1, <1>3, <1>5, <1>7, <2>3
<1> QED
    BY <1>6, <1>7

(* The key of the texts tells times apart, and follows the seconds.         *)
LEMMA TextKeys ==
    ASSUME NEW a \in Nat \ {0, NoText}, NEW b \in Nat \ {0, NoText}
    PROVE  /\ TextKey(a) \in Nat
           /\ TextKey(a) = TextKey(b) => a = b
           /\ Second(a) < Second(b) => TextKey(a) < TextKey(b)
BY RankInSecond, SecondsApart DEF TextKey

-------------------------------------------------------------------------------
(* What both scripts read: the records of a session, sorted.         *)

(* Sorting by a key puts in order what the key follows.                     *)
Keyed(s, key, c, w) ==
    /\ c \in Nat /\ DOMAIN s = 1..c /\ DOMAIN key = 1..c
    /\ \A i \in 1..c : key[i] \in Nat /\ w[i] \in Nat
    /\ \A i, j \in 1..c : w[i] < w[j] => key[i] < key[j]
Orders(f, c, w) ==
    /\ \A n \in 1..c : f[n] \in 1..c
    /\ \A n, k \in 1..c : n <= k => w[f[n]] <= w[f[k]]
    /\ \A n, k \in 1..c : f[n] = f[k] => n = k
    /\ \A i \in 1..c : \E n \in 1..c : f[n] = i

LEMMA KeyOrders ==
    ASSUME NEW s, NEW key, NEW c, NEW w, Keyed(s, key, c, w)
    PROVE  \E f : Orders(f, c, w) /\ InOrder(s, key) = [n \in 1..c |-> s[f[n]]]
<1> DEFINE S == 1..c
           up == [i \in S |-> UpTo(key, i)]
           f == [n \in S |-> CHOOSE i \in S : Cardinality(up[i]) = n]
<1>1. /\ c \in Nat /\ DOMAIN s = S /\ DOMAIN key = S
      /\ \A i \in S : key[i] \in Nat /\ w[i] \in Nat /\ i \in Nat
      /\ \A i, j \in S : w[i] < w[j] => key[i] < key[j]
    BY DEF Keyed
<1>2. \A i \in S : \A j : j \in up[i] <=>
          j \in S /\ (key[j] < key[i] \/ (key[j] = key[i] /\ j <= i))
    BY <1>1 DEF UpTo
<1> HIDE DEF up
<1>3. ASSUME NEW i \in S, NEW k \in S, key[i] < key[k] \/ (key[i] = key[k] /\ i < k)
      PROVE  up[i] \subseteq up[k] /\ k \notin up[i]
    <2>1. ASSUME NEW j \in up[i] PROVE j \in up[k]
        <3>1. j \in S /\ (key[j] < key[i] \/ (key[j] = key[i] /\ j <= i))
            BY <1>2
        <3>2. key[j] \in Nat /\ key[i] \in Nat /\ key[k] \in Nat
            BY <1>1, <3>1
        <3>3. key[j] < key[k] \/ (key[j] = key[k] /\ j <= k)
            BY <1>1, <1>3, <3>1, <3>2
        <3> QED
            BY <1>2, <3>1, <3>3
    <2>2. k \notin up[i]
        <3>1. key[i] \in Nat /\ key[k] \in Nat /\ i \in Nat /\ k \in Nat
            BY <1>1
        <3>2. ~(key[k] < key[i] \/ (key[k] = key[i] /\ k <= i))
            BY <1>3, <3>1
        <3> QED
            BY <1>2, <3>2
    <2> QED
        BY <2>1, <2>2
<1>4. \A i \in S : i \in up[i] /\ up[i] \subseteq S
    BY <1>1, <1>2
<1>5. \A i, k \in S : i = k \/ (up[i] \subseteq up[k] /\ k \notin up[i])
                            \/ (up[k] \subseteq up[i] /\ i \notin up[k])
    <2> TAKE i, k \in S
    <2>1. key[i] \in Nat /\ key[k] \in Nat /\ i \in Nat /\ k \in Nat
        BY <1>1
    <2>2. \/ i = k
          \/ key[i] < key[k] \/ (key[i] = key[k] /\ i < k)
          \/ key[k] < key[i] \/ (key[k] = key[i] /\ k < i)
        BY <2>1
    <2> QED
        BY <1>3, <2>2
<1>6. IsFiniteSet(S) /\ Cardinality(S) = c
    <2>1. IsFiniteSet(1..c) /\ Cardinality(1..c) = IF 1 > c THEN 0 ELSE c - 1 + 1
        BY <1>1, FS_Interval
    <2> QED
        BY <1>1, <2>1
<1> HIDE DEF S
<1>7. /\ \A i \in S : Cardinality(up[i]) \in 1..Cardinality(S)
      /\ \A i, k \in S : Cardinality(up[i]) = Cardinality(up[k]) => i = k
      /\ \A n \in 1..Cardinality(S) : \E i \in S : Cardinality(up[i]) = n
    BY <1>4, <1>5, <1>6, RanksExist
<1>8. /\ \A i \in S : Cardinality(up[i]) \in S
      /\ \A i, k \in S : Cardinality(up[i]) = Cardinality(up[k]) => i = k
      /\ \A n \in S : f[n] \in S /\ Cardinality(up[f[n]]) = n
    <2>1. 1..Cardinality(S) = S
        BY <1>6 DEF S
    <2>2. \A n \in S : \E i \in S : Cardinality(up[i]) = n
        BY <1>7, <2>1
    <2> QED
        BY <1>7, <2>1, <2>2
<1>9. InOrder(s, key) = [n \in S |-> s[f[n]]]
    <2>1. \A n \in S : f[n] = CHOOSE i \in S : Cardinality(UpTo(key, i)) = n
        <3>1. \A i \in S : up[i] = UpTo(key, i)
            BY DEF up
        <3> QED
            BY <3>1
    <2> DEFINE g(n) == CHOOSE i \in S : Cardinality(UpTo(key, i)) = n
    <2>2. InOrder(s, key) = [n \in S |-> s[g(n)]]
        BY <1>1 DEF InOrder
    <2> HIDE DEF f
    <2>3. \A n \in S : g(n) = f[n]
        BY <2>1
    <2> HIDE DEF g
    <2> QED
        BY <2>2, <2>3
<1> HIDE DEF f
<1>10. ASSUME NEW n \in S, NEW k \in S, n <= k PROVE w[f[n]] <= w[f[k]]
    <2> DEFINE a == f[n]
               b == f[k]
    <2>1. a \in S /\ b \in S /\ Cardinality(up[a]) = n /\ Cardinality(up[b]) = k
        BY <1>8
    <2> HIDE DEF a, b
    <2>2. w[a] \in Nat /\ w[b] \in Nat
        BY <1>1, <2>1
    <2>3. ASSUME w[b] < w[a] PROVE FALSE
        <3>1. key[b] < key[a]
            BY <1>1, <2>1, <2>3
        <3>2. up[b] \subseteq up[a] /\ a \notin up[b]
            BY <1>3, <2>1, <3>1
        <3>3. IsFiniteSet(up[a])
            BY <1>4, <1>6, <2>1, FS_Subset
        <3>4. k <= n
            BY <2>1, <3>2, <3>3, FS_Subset
        <3>5. n = k
            BY <1>1, <1>10, <3>4
        <3>6. a = b
            BY <1>8, <2>1, <3>5
        <3> QED
            BY <2>1, <3>2, <3>6, <1>4
    <2>4. w[a] <= w[b]
        BY <2>2, <2>3
    <2> QED
        BY <2>4 DEF a, b
<1>11. Orders(f, c, w)
    <2>1. \A n, k \in S : f[n] = f[k] => n = k
        BY <1>8
    <2>2. ASSUME NEW i \in S PROVE \E n \in S : f[n] = i
        <3>1. f[Cardinality(up[i])] = i /\ Cardinality(up[i]) \in S
            BY <1>8
        <3> QED
            BY <3>1
    <2> QED
        BY <1>8, <1>10, <2>1, <2>2 DEF Orders, S
<1> QED
    BY <1>9, <1>11 DEF S

(* The instance works as this module does.                                  *)
LEMMA SameFp ==
    /\ \A t, A : Fp!Pick(t, A) = Pick(t, A)
    /\ \A S, i : Fp!Rank(S, i) = Rank(S, i)
    /\ \A S : Fp!Cardinality(S) = Cardinality(S)
    /\ \A t : Fp!ByText(t) = ByText(t)
    /\ \A rec : Fp!IsCommand(rec) = IsCommand(rec) /\ Fp!IsEcho(rec) = IsChunk(rec)
<1>1. \A S : Fp!Cardinality(S) = Cardinality(S)
    BY DEF Fp!Cardinality, Cardinality
<1>2. \A S, i : Fp!Rank(S, i) = Rank(S, i)
    BY <1>1 DEF Fp!Rank, Rank
<1>3. \A S, n : Fp!At(S, n) = At(S, n)
    BY <1>2 DEF Fp!At, At
<1>4. \A t, A : Fp!Pick(t, A) = Pick(t, A)
    BY <1>1, <1>3 DEF Fp!Pick, Pick
<1>5. \A k, i : Fp!UpTo(k, i) = UpTo(k, i)
    BY DEF Fp!UpTo, UpTo
<1>6. ASSUME NEW t PROVE Fp!ByText(t) = ByText(t)
    <2>1. \A x : Fp!LastPlace(x) = LastPlace(x)
        BY DEF Fp!LastPlace, LastPlace
    <2>2. \A x : Fp!TextKey(x) = TextKey(x)
        BY <2>1 DEF Fp!TextKey, TextKey, Fp!TextRank, TextRank
    <2> DEFINE key == [i \in DOMAIN t |-> TextKey(t[i].time)]
    <2>3. Fp!ByText(t) = Fp!InOrder(t, key)
        BY <2>2 DEF Fp!ByText
    <2>4. ByText(t) = InOrder(t, key)
        BY DEF ByText
    <2> HIDE DEF key
    <2> DEFINE here(n) == CHOOSE i \in DOMAIN t : Cardinality(UpTo(key, i)) = n
               there(n) == CHOOSE i \in DOMAIN t : Fp!Cardinality(Fp!UpTo(key, i)) = n
    <2>5. \A n : there(n) = here(n)
        BY <1>1, <1>5
    <2>6. InOrder(t, key) = [n \in DOMAIN t |-> t[here(n)]]
        BY DEF InOrder
    <2>7. Fp!InOrder(t, key) = [n \in DOMAIN t |-> t[there(n)]]
        BY DEF Fp!InOrder
    <2> HIDE DEF here, there
    <2> QED
        BY <2>3, <2>4, <2>5, <2>6, <2>7
<1>7. \A rec : Fp!IsCommand(rec) = IsCommand(rec) /\ Fp!IsEcho(rec) = IsChunk(rec)
    BY DEF Fp!IsCommand, IsCommand, Fp!IsEcho, IsChunk
<1> QED
    BY <1>1, <1>2, <1>4, <1>6, <1>7

(* Positions and their ranks.                                               *)
LEMMA PlacesIn ==
    ASSUME NEW n \in Nat, NEW A, A \subseteq 1..n
    PROVE  Spots(A) /\ Cardinality(A) \in Nat
<1>1. IsFiniteSet(1..n) /\ 1..n \subseteq Nat
    BY FS_Interval
<1>2. IsFiniteSet(A) /\ A \subseteq Nat
    BY <1>1, FS_Subset
<1> QED
    BY <1>2, FS_CardinalityType DEF Spots

LEMMA RankPlace ==
    ASSUME NEW A, Spots(A), NEW i \in Nat
    PROVE  /\ Rank(A, i) \in Nat /\ Rank(A, i) <= Cardinality(A)
           /\ \A j \in Nat : i <= j => Rank(A, i) <= Rank(A, j)
           /\ i \in A => Rank(A, i) \in 1..Cardinality(A) /\ At(A, Rank(A, i)) = i
<1>0. IsFiniteSet(A) /\ A \subseteq Nat /\ Cardinality(A) \in Nat
    BY FS_CardinalityType DEF Spots
<1>1. \A j \in Nat : IsFiniteSet({k \in A : k <= j}) /\ Rank(A, j) \in Nat
    BY <1>0, FS_Subset, FS_CardinalityType DEF Rank
<1>2. Rank(A, i) <= Cardinality(A)
    BY <1>0, FS_Subset DEF Rank
<1>3. ASSUME NEW j \in Nat, i <= j PROVE Rank(A, i) <= Rank(A, j)
    <2>1. {k \in A : k <= i} \subseteq {k \in A : k <= j}
        <3>1. \A k \in A : k <= i => k <= j
            BY <1>0, <1>3
        <3> QED
            BY <3>1
    <2> QED
        BY <1>1, <2>1, FS_Subset DEF Rank
<1>4. ASSUME i \in A PROVE Rank(A, i) \in 1..Cardinality(A) /\ At(A, Rank(A, i)) = i
    <2>1. i \in {k \in A : k <= i}
        BY <1>4
    <2>2. Rank(A, i) # 0
        BY <1>1, <2>1, FS_EmptySet DEF Rank
    <2> DEFINE x == Rank(A, i)
               c == Cardinality(A)
    <2>a. x \in Nat /\ c \in Nat /\ x <= c /\ x # 0
        BY <1>0, <1>1, <1>2, <2>2
    <2> HIDE DEF x, c
    <2>b. x \in 1..c
        BY <2>a
    <2>3. Rank(A, i) \in 1..Cardinality(A)
        BY <2>b DEF x, c
    <2>4. At(A, Rank(A, i)) \in A /\ Rank(A, At(A, Rank(A, i))) = Rank(A, i)
        BY <1>0, <2>3, FiniteRanked, AtRank
    <2>5. At(A, Rank(A, i)) = i
        BY <1>0, <1>4, <2>4, RankUnique
    <2> QED
        BY <2>3, <2>5
<1> QED
    BY <1>1, <1>2, <1>3, <1>4

LEMMA PlaceAt ==
    ASSUME NEW A, Spots(A), NEW n \in 1..Cardinality(A)
    PROVE  /\ At(A, n) \in A /\ At(A, n) \in Nat /\ Rank(A, At(A, n)) = n
           /\ \A k \in 1..Cardinality(A) : n <= k => At(A, n) <= At(A, k)
<1>0. IsFiniteSet(A) /\ A \subseteq Nat /\ Cardinality(A) \in Nat
    BY FS_CardinalityType DEF Spots
<1>1. \A k \in 1..Cardinality(A) : At(A, k) \in A /\ At(A, k) \in Nat /\ Rank(A, At(A, k)) = k
    BY <1>0, FiniteRanked, AtRank
<1>2. ASSUME NEW k \in 1..Cardinality(A), n <= k PROVE At(A, n) <= At(A, k)
    <2>1. ASSUME At(A, k) < At(A, n) PROVE FALSE
        <3>1. Rank(A, At(A, k)) < Rank(A, At(A, n))
            BY <1>0, <1>1, <2>1, RankOrder
        <3>2. k < n
            BY <1>1, <3>1
        <3> QED
            BY <1>0, <1>2, <3>2
    <2> QED
        BY <1>1, <2>1
<1> QED
    BY <1>1, <1>2

(* The log of one session as text has it: its positions g[1], g[2], ... of  *)
(* the log, in the order of the keys of their times.                        *)
TextLog(sid, g, c) ==
    /\ c \in Nat
    /\ InText(sid) = [n \in 1..c |-> true_log[g[n]]]
    /\ \A n \in 1..c : g[n] \in Own(true_log, sid)
    /\ \A n, k \in 1..c : g[n] = g[k] => n = k
    /\ \A i \in Own(true_log, sid) : \E n \in 1..c : g[n] = i
    /\ \A n, k \in 1..c : n < k =>
           TextKey(true_log[g[n]].time) < TextKey(true_log[g[k]].time)

LEMMA OwnTimes ==
    ASSUME Given, NEW sid, NEW i \in Own(true_log, sid), NEW j \in Own(true_log, sid)
    PROVE  /\ i \in DOMAIN true_log /\ i \in Nat
           /\ true_log[i].time \in Nat \ {0, NoText}
           /\ TextKey(true_log[i].time) \in Nat
           /\ TextKey(true_log[i].time) = TextKey(true_log[j].time) => i = j
           /\ Second(true_log[i].time) < Second(true_log[j].time) =>
                  TextKey(true_log[i].time) < TextKey(true_log[j].time)
<1>1. true_log \in Logs /\ IsLog(true_log)
    BY LogFacts DEF Given
<1>2. /\ i \in DOMAIN true_log /\ j \in DOMAIN true_log
      /\ true_log[i].sid = sid /\ true_log[j].sid = sid
    BY DEF Own
<1>3. i \in Nat
    BY <1>1, <1>2, LogShape
<1>4. true_log[i].time \in Nat \ {0, NoText} /\ true_log[j].time \in Nat \ {0, NoText}
    BY <1>1, <1>2, LogsAssumption
<1>5. true_log[i].time = true_log[j].time => i = j
    BY <1>1, <1>2, LogFacts
<1> QED
    BY <1>2, <1>3, <1>4, <1>5, TextKeys

LEMMA TextLogIs ==
    ASSUME Given, NEW sid
    PROVE  \E g, c : TextLog(sid, g, c)
<1> DEFINE O == Own(true_log, sid)
           c == Cardinality(O)
           s == Pick(true_log, O)
           key == [n \in 1..c |-> TextKey(s[n].time)]
<1>1. Spots(O) /\ c \in Nat
    <2>1. DOMAIN true_log = 1..Len(true_log) /\ Len(true_log) \in Nat
        BY LogFacts, LogShape DEF Given
    <2>2. O \subseteq DOMAIN true_log
        BY DEF Own
    <2> HIDE DEF O
    <2> QED
        BY <2>1, <2>2, PlacesIn
<1> HIDE DEF O
<1>2. \A n \in 1..c : At(O, n) \in O /\ Rank(O, At(O, n)) = n
    BY <1>1, PlaceAt
<1>3. \A i \in O : Rank(O, i) \in 1..c /\ At(O, Rank(O, i)) = i
    <2> TAKE i \in O
    <2>1. i \in Nat
        BY <1>1 DEF Spots
    <2> QED
        BY <1>1, <2>1, RankPlace
<1>4. DOMAIN s = 1..c /\ \A n \in 1..c : s[n] = true_log[At(O, n)]
    BY DEF Pick
<1>5. InText(sid) = InOrder(s, key)
    BY <1>4 DEF InText, ByText, O
<1> HIDE DEF s
<1>6. \A n \in 1..c : key[n] \in Nat /\ key[n] = TextKey(true_log[At(O, n)].time)
    <2> TAKE n \in 1..c
    <2>1. At(O, n) \in Own(true_log, sid)
        BY <1>2 DEF O
    <2> QED
        BY <1>4, <2>1, OwnTimes
<1>7. Keyed(s, key, c, key)
    <2>1. DOMAIN key = 1..c
        OBVIOUS
    <2> HIDE DEF key, c
    <2> QED
        BY <1>1, <1>4, <1>6, <2>1 DEF Keyed, c
<1> HIDE DEF key, c
<1>8. PICK f : Orders(f, c, key) /\ InOrder(s, key) = [n \in 1..c |-> s[f[n]]]
    BY <1>7, KeyOrders
<1>9. /\ \A n \in 1..c : f[n] \in 1..c
      /\ \A n, k \in 1..c : n <= k => key[f[n]] <= key[f[k]]
      /\ \A n, k \in 1..c : f[n] = f[k] => n = k
      /\ \A i \in 1..c : \E n \in 1..c : f[n] = i
    BY <1>8 DEF Orders
<1> DEFINE g == [n \in 1..c |-> At(O, f[n])]
<1>10. \A n \in 1..c : g[n] \in O /\ Rank(O, g[n]) = f[n]
    BY <1>2, <1>9
<1>11. InText(sid) = [n \in 1..c |-> true_log[g[n]]]
    <2>1. \A n \in 1..c : s[f[n]] = true_log[g[n]]
        BY <1>4, <1>9
    <2> HIDE DEF g
    <2> QED
        BY <1>5, <1>8, <2>1
<1>12. \A n, k \in 1..c : g[n] = g[k] => n = k
    <2> HIDE DEF g
    <2> QED
        BY <1>9, <1>10
<1>13. ASSUME NEW i \in O PROVE \E n \in 1..c : g[n] = i
    <2>1. Rank(O, i) \in 1..c /\ At(O, Rank(O, i)) = i
        BY <1>3
    <2>2. PICK n \in 1..c : f[n] = Rank(O, i)
        BY <1>9, <2>1
    <2> QED
        BY <2>1, <2>2
<1>14. ASSUME NEW n \in 1..c, NEW k \in 1..c, n < k
       PROVE  TextKey(true_log[g[n]].time) < TextKey(true_log[g[k]].time)
    <2>1. key[f[n]] = TextKey(true_log[g[n]].time) /\ key[f[k]] = TextKey(true_log[g[k]].time)
        BY <1>6, <1>9
    <2>2. n \in Nat /\ k \in Nat
        BY <1>1
    <2> HIDE DEF g
    <2>3. key[f[n]] <= key[f[k]]
        BY <1>9, <1>14, <2>2
    <2>4. g[n] \in Own(true_log, sid) /\ g[k] \in Own(true_log, sid) /\ g[n] # g[k]
        BY <1>10, <1>12, <1>14, <2>2 DEF O
    <2>5. key[f[n]] \in Nat /\ key[f[k]] \in Nat /\ key[f[n]] # key[f[k]]
        BY <2>1, <2>4, OwnTimes
    <2> QED
        BY <2>1, <2>3, <2>5
<1> HIDE DEF g
<1>15. TextLog(sid, g, c)
    <2>1. \A n \in 1..c : g[n] \in Own(true_log, sid)
        BY <1>10 DEF O
    <2>2. \A i \in Own(true_log, sid) : \E n \in 1..c : g[n] = i
        BY <1>13 DEF O
    <2>3. c \in Nat
        BY <1>1 DEF c
    <2> QED
        BY <1>11, <1>12, <1>14, <2>1, <2>2, <2>3 DEF TextLog
<1> QED
    BY <1>15

(* The positions K of a log, in their order and each as often as the file   *)
(* has its record.                                                          *)
Holds(log, evs, m, N, K) ==
    /\ N \in Nat /\ evs = [n \in 1..N |-> log[m[n]]]
    /\ K \subseteq DOMAIN log
    /\ \A n \in 1..N : m[n] \in K
    /\ \A n, k \in 1..N : n <= k => m[n] <= m[k]
    /\ \A k \in K : \E n \in 1..N : m[n] = k
    /\ \A k \in K : Cardinality({n \in 1..N : m[n] = k}) = Copies(log[k])

LEMMA SortedAre ==
    ASSUME Given, NEW sid
    PROVE  \E m, N : Holds(InText(sid), Fp!Sorted(file, sid), m, N, Fp!KeptOf(InText(sid), sid))
<1> DEFINE L == InText(sid)
           K == Fp!KeptOf(L, sid)
           P == Fp!KeptOf(file, sid)
           c == Cardinality(P)
           src == [p \in DOMAIN file |-> Source(true_log, block, p)]
           s == Pick(file, P)
<1>1. true_log \in Logs /\ IsLog(true_log) /\ block \in Blocks(true_log) /\ file = Splice(true_log, block)
    BY LogFacts DEF Given
<1>2. /\ \A p \in DOMAIN file : src[p] \in DOMAIN true_log /\ file[p] = true_log[src[p]]
      /\ DOMAIN file = 1..Len(file) /\ Len(file) \in Nat
      /\ \A k \in DOMAIN true_log : \E p \in DOMAIN file : src[p] = k
    <2>1. \A p \in DOMAIN file : src[p] \in DOMAIN true_log /\ file[p] = true_log[src[p]]
        BY <1>1, SpliceShape
    <2>2. DOMAIN file = 1..Len(file) /\ Len(file) \in Nat
        <3>1. Width(block) \in Nat /\ Len(true_log) \in Nat
            BY <1>1, BlockShape, LogShape
        <3> QED
            BY <1>1, <3>1, SpliceShape
    <2>3. ASSUME NEW k \in DOMAIN true_log PROVE \E p \in DOMAIN file : src[p] = k
        BY <1>1, SourceOnto
    <2> QED
        BY <2>1, <2>2, <2>3
<1> HIDE DEF src
<1>3. PICK g, l : TextLog(sid, g, l)
    BY TextLogIs
<1>4. /\ l \in Nat /\ L = [n \in 1..l |-> true_log[g[n]]]
      /\ \A n \in 1..l : g[n] \in Own(true_log, sid)
      /\ \A n, k \in 1..l : g[n] = g[k] => n = k
      /\ \A i \in Own(true_log, sid) : \E n \in 1..l : g[n] = i
      /\ \A n, k \in 1..l : n < k =>
             TextKey(true_log[g[n]].time) < TextKey(true_log[g[k]].time)
    BY <1>3 DEF TextLog
<1> HIDE DEF L
<1>5. DOMAIN L = 1..l /\ \A n \in 1..l : L[n] = true_log[g[n]] /\ L[n].sid = sid
    BY <1>4 DEF Own
<1> DEFINE pl == [p \in P |-> CHOOSE n \in 1..l : g[n] = src[p]]
<1>6. P \subseteq DOMAIN file /\ K \subseteq 1..l
    BY <1>5 DEF Fp!KeptOf
<1>7. ASSUME NEW p \in P
      PROVE  pl[p] \in K /\ g[pl[p]] = src[p] /\ file[p] = L[pl[p]]
    <2>1. p \in DOMAIN file /\ file[p].sid = sid /\ file[p].msg \in Fp!KEEP_MSGS
        BY DEF Fp!KeptOf
    <2>2. src[p] \in Own(true_log, sid) /\ file[p] = true_log[src[p]]
        BY <1>2, <2>1 DEF Own
    <2>3. \E n \in 1..l : g[n] = src[p]
        BY <1>4, <2>2
    <2>4. pl[p] \in 1..l /\ g[pl[p]] = src[p]
        BY <2>3
    <2>5. file[p] = L[pl[p]]
        BY <1>5, <2>2, <2>4
    <2> HIDE DEF P, pl
    <2> QED
        BY <1>5, <2>1, <2>4, <2>5 DEF Fp!KeptOf
<1>8. ASSUME NEW k \in K, NEW p \in DOMAIN file
      PROVE  file[p] = L[k] <=> p \in P /\ pl[p] = k
    <2>1. k \in 1..l /\ L[k] = true_log[g[k]] /\ L[k].sid = sid /\ L[k].msg \in Fp!KEEP_MSGS
        BY <1>5 DEF Fp!KeptOf
    <2>2. g[k] \in DOMAIN true_log
        BY <1>4, <2>1 DEF Own
    <2>3. ASSUME file[p] = L[k] PROVE p \in P /\ pl[p] = k
        <3>1. p \in P
            BY <2>1, <2>3 DEF Fp!KeptOf
        <3>2. src[p] \in DOMAIN true_log /\ true_log[src[p]] = true_log[g[k]]
            BY <1>2, <2>1, <2>3
        <3>3. src[p] = g[k]
            BY <1>1, <2>2, <3>2, LogFacts
        <3>4. pl[p] \in 1..l /\ g[pl[p]] = g[k]
            BY <1>6, <1>7, <3>1, <3>3
        <3> QED
            BY <1>4, <2>1, <3>1, <3>4
    <2>4. ASSUME p \in P, pl[p] = k PROVE file[p] = L[k]
        BY <1>7, <2>4
    <2> QED
        BY <2>3, <2>4
<1>9. ASSUME NEW k \in K PROVE \E p \in P : pl[p] = k
    <2>1. k \in 1..l /\ L[k] = true_log[g[k]] /\ g[k] \in DOMAIN true_log
        BY <1>4, <1>5, <1>6 DEF Own
    <2>2. PICK p \in DOMAIN file : src[p] = g[k]
        BY <1>2, <2>1
    <2>3. file[p] = L[k]
        BY <1>2, <2>1, <2>2
    <2> QED
        BY <1>8, <2>3
<1>10. IsFiniteSet(P) /\ P \subseteq Nat /\ c \in Nat /\ Ranked(P)
    <2>1. IsFiniteSet(1..Len(file)) /\ 1..Len(file) \subseteq Nat
        BY <1>2, FS_Interval
    <2> HIDE DEF P
    <2>2. IsFiniteSet(P) /\ P \subseteq Nat
        BY <1>2, <1>6, <2>1, FS_Subset
    <2> QED
        BY <2>2, FiniteRanked, FS_CardinalityType
<1>11. \A p \in P : P \subseteq DOMAIN file /\ file[p] = L[pl[p]] /\ pl[p] \in K
    BY <1>6, <1>7
<1>12. Fp!Sorted(file, sid) = ByText(s)
    BY SameFp DEF Fp!Sorted
<1> HIDE DEF K, P, pl
<1> DEFINE w == [n \in 1..c |-> pl[At(P, n)]]
           key == [n \in 1..c |-> TextKey(s[n].time)]
<1>13. \A n \in 1..c : At(P, n) \in P /\ Rank(P, At(P, n)) = n
    BY <1>10, AtRank
<1>14. DOMAIN s = 1..c /\ \A n \in 1..c : w[n] \in K /\ s[n] = L[w[n]]
    BY <1>11, <1>13 DEF Pick
<1>15. ByText(s) = InOrder(s, key)
    BY <1>14 DEF ByText
<1> HIDE DEF s
<1>16. Keyed(s, key, c, w)
    <2>1. ASSUME NEW i \in 1..c
          PROVE  w[i] \in 1..l /\ w[i] \in Nat /\ key[i] = TextKey(true_log[g[w[i]]].time)
        <3>1. w[i] \in 1..l /\ s[i] = L[w[i]]
            BY <1>6, <1>14
        <3> HIDE DEF w
        <3> QED
            BY <1>5, <3>1
    <2>2. DOMAIN key = 1..c
        OBVIOUS
    <2> HIDE DEF key, w, c
    <2>3. ASSUME NEW i \in 1..c PROVE key[i] \in Nat
        <3>1. g[w[i]] \in Own(true_log, sid)
            BY <1>4, <2>1
        <3> QED
            BY <2>1, <3>1, OwnTimes
    <2>4. ASSUME NEW i \in 1..c, NEW j \in 1..c, w[i] < w[j] PROVE key[i] < key[j]
        BY <1>4, <2>1, <2>4
    <2> QED
        BY <1>10, <1>14, <2>1, <2>2, <2>3, <2>4 DEF Keyed, c
<1> HIDE DEF key
<1>17. PICK f : Orders(f, c, w) /\ InOrder(s, key) = [n \in 1..c |-> s[f[n]]]
    <2> HIDE DEF c, w
    <2> QED
        BY <1>16, KeyOrders
<1>18. /\ \A n \in 1..c : f[n] \in 1..c
       /\ \A n, k \in 1..c : n <= k => w[f[n]] <= w[f[k]]
       /\ \A n, k \in 1..c : f[n] = f[k] => n = k
       /\ \A i \in 1..c : \E n \in 1..c : f[n] = i
    <2> HIDE DEF w, c
    <2> QED
        BY <1>17 DEF Orders
<1> DEFINE m == [n \in 1..c |-> w[f[n]]]
           a == [n \in 1..c |-> At(P, f[n])]
<1>19. /\ \A n \in 1..c : a[n] \in P /\ m[n] = pl[a[n]]
       /\ \A n, k \in 1..c : a[n] = a[k] => n = k
       /\ \A p \in P : \E n \in 1..c : a[n] = p
    <2>1. \A n \in 1..c : a[n] \in P /\ m[n] = pl[a[n]]
        BY <1>13, <1>18
    <2>2. \A n, k \in 1..c : a[n] = a[k] => n = k
        <3> TAKE n, k \in 1..c
        <3> HAVE a[n] = a[k]
        <3>1. f[n] \in 1..c /\ f[k] \in 1..c
            BY <1>18
        <3>2. Rank(P, At(P, f[n])) = f[n] /\ Rank(P, At(P, f[k])) = f[k] /\ At(P, f[n]) = At(P, f[k])
            BY <1>13, <3>1
        <3> QED
            BY <1>18, <3>2
    <2>3. ASSUME NEW p \in P PROVE \E n \in 1..c : a[n] = p
        <3> DEFINE i == Rank(P, p)
        <3>1. i \in 1..c /\ At(P, i) = p
            <4>1. Spots(P) /\ p \in Nat
                BY <1>10 DEF Spots
            <4> QED
                BY <4>1, RankPlace
        <3>2. PICK n \in 1..c : f[n] = i
            <4> HIDE DEF i
            <4> QED
                BY <1>18, <3>1
        <3> QED
            BY <3>1, <3>2
    <2> QED
        BY <2>1, <2>2, <2>3
<1>20. Fp!Sorted(file, sid) = [n \in 1..c |-> L[m[n]]]
    <2>1. \A n \in 1..c : s[f[n]] = L[m[n]]
        BY <1>14, <1>18
    <2> HIDE DEF m, c
    <2> QED
        BY <1>12, <1>15, <1>17, <2>1
<1>21. \A n, k \in 1..c : n <= k => m[n] <= m[k]
    BY <1>18
<1> HIDE DEF m, a, w
<1>22. \A n \in 1..c : m[n] \in K
    BY <1>11, <1>19
<1>23. ASSUME NEW k \in K
       PROVE  /\ \E n \in 1..c : m[n] = k
              /\ Cardinality({n \in 1..c : m[n] = k}) = Copies(L[k])
    <2> DEFINE X == {n \in 1..c : m[n] = k}
               Y == {p \in DOMAIN file : file[p] = L[k]}
               h == [n \in X |-> a[n]]
    <2>1. \A p \in DOMAIN file : p \in Y <=> p \in P /\ pl[p] = k
        BY <1>8
    <2>2. \A n \in X : a[n] \in Y
        BY <1>6, <1>19, <2>1
    <2>3. \A p \in Y : \E n \in X : a[n] = p
        <3> TAKE p \in Y
        <3>1. p \in P /\ pl[p] = k
            BY <2>1
        <3>2. PICK n \in 1..c : a[n] = p
            BY <1>19, <3>1
        <3>3. m[n] = k
            BY <1>19, <3>1, <3>2
        <3> QED
            BY <3>2, <3>3
    <2>4. h \in [X -> Y] /\ (\A i, j \in X : h[i] = h[j] => i = j) /\ \A p \in Y : \E n \in X : h[n] = p
        BY <1>19, <2>2, <2>3
    <2>5. IsFiniteSet(X)
        <3>1. IsFiniteSet(1..c)
            BY <1>10, FS_Interval
        <3>2. X \subseteq 1..c
            OBVIOUS
        <3> HIDE DEF X
        <3> QED
            BY <3>1, <3>2, FS_Subset
    <2>6. \E n \in 1..c : m[n] = k
        <3>1. PICK p \in P : pl[p] = k
            BY <1>9
        <3>2. PICK n \in 1..c : a[n] = p
            BY <1>19
        <3> QED
            BY <1>19, <3>1, <3>2
    <2> HIDE DEF X, Y, h
    <2>7. h \in Bijection(X, Y)
        BY <2>4 DEF Bijection, Injection, Surjection, IsInjective
    <2>8. Cardinality(X) = Cardinality(Y)
        BY <2>5, <2>7, FS_Bijection DEF ExistsBijection
    <2> QED
        BY <2>6, <2>8 DEF X, Y, Copies
<1>24. K \subseteq DOMAIN L /\ c \in Nat
    BY <1>5, <1>6, <1>10
<1> HIDE DEF c
<1>25. Holds(L, Fp!Sorted(file, sid), m, c, K)
    BY <1>20, <1>21, <1>22, <1>23, <1>24 DEF Holds
<1> QED
    BY <1>25 DEF L, K

(* What leads an element is the one of its rank.                            *)
LEMMA LeadRank ==
    ASSUME NEW A, Spots(A), NEW i \in Nat, NEW v, Lead(A, v, i)
    PROVE  Rank(A, i) = Rank(A, v) /\ Rank(A, i) \in 1..Cardinality(A) /\ At(A, Rank(A, i)) = v
<1>0. A \subseteq Nat /\ v \in A /\ v <= i /\ \A j \in A : j <= i => j <= v
    BY DEF Spots, Lead
<1>1. \A j \in A : j <= i <=> j <= v
    <2> TAKE j \in A
    <2>1. j \in Nat /\ v \in Nat
        BY <1>0
    <2> QED
        BY <1>0, <2>1
<1>2. {j \in A : j <= i} = {j \in A : j <= v}
    BY <1>1
<1>3. Rank(A, i) = Rank(A, v)
    BY <1>2 DEF Rank
<1>4. v \in Nat
    BY <1>0
<1>5. Rank(A, v) \in 1..Cardinality(A) /\ At(A, Rank(A, v)) = v
    BY <1>0, <1>4, RankPlace
<1> QED
    BY <1>3, <1>5

(* Some of the positions are held by the part that holds them.              *)
LEMMA PartHolds ==
    ASSUME NEW log, NEW evs, NEW m, NEW N, NEW K, Holds(log, evs, m, N, K), NEW T, T \subseteq K,
           NEW A, A = {n \in 1..N : m[n] \in T}
    PROVE  Holds(log, Pick(evs, A), [n \in 1..Cardinality(A) |-> m[At(A, n)]], Cardinality(A), T)
<1> DEFINE c == Cardinality(A)
           m2 == [n \in 1..c |-> m[At(A, n)]]
<1>0. /\ N \in Nat /\ evs = [n \in 1..N |-> log[m[n]]]
      /\ K \subseteq DOMAIN log
      /\ \A n, k \in 1..N : n <= k => m[n] <= m[k]
      /\ \A k \in K : \E n \in 1..N : m[n] = k
      /\ \A k \in K : Cardinality({n \in 1..N : m[n] = k}) = Copies(log[k])
    BY DEF Holds
<1>1. A \subseteq 1..N
    OBVIOUS
<1>2. Spots(A) /\ c \in Nat
    BY <1>0, <1>1, PlacesIn
<1>3. \A n \in 1..c : At(A, n) \in A /\ Rank(A, At(A, n)) = n
    BY <1>2, PlaceAt
<1>4. \A n, k \in 1..c : n <= k => At(A, n) <= At(A, k)
    BY <1>2, PlaceAt
<1>5. \A i \in A : Rank(A, i) \in 1..c /\ At(A, Rank(A, i)) = i
    <2> TAKE i \in A
    <2>1. i \in Nat
        BY <1>2 DEF Spots
    <2> QED
        BY <1>2, <2>1, RankPlace
<1>6. Pick(evs, A) = [n \in 1..c |-> log[m2[n]]]
    <2>1. \A n \in 1..c : evs[At(A, n)] = log[m2[n]]
        BY <1>0, <1>1, <1>3
    <2> HIDE DEF m2
    <2> QED
        BY <2>1 DEF Pick
<1>7. \A n, k \in 1..c : n <= k => m2[n] <= m2[k]
    <2> TAKE n, k \in 1..c
    <2> HAVE n <= k
    <2>1. At(A, n) \in 1..N /\ At(A, k) \in 1..N /\ At(A, n) <= At(A, k)
        BY <1>1, <1>3, <1>4
    <2> QED
        BY <1>0, <2>1
<1>8. \A n \in 1..c : m2[n] \in T
    BY <1>3
<1>9. ASSUME NEW k \in T
      PROVE  /\ \E n \in 1..c : m2[n] = k
             /\ Cardinality({n \in 1..c : m2[n] = k}) = Copies(log[k])
    <2> DEFINE X == {n \in 1..c : m2[n] = k}
               Y == {n \in 1..N : m[n] = k}
               g == [n \in X |-> At(A, n)]
    <2>1. \A n \in X : At(A, n) \in Y
        BY <1>1, <1>3
    <2>2. \A i \in Y : Rank(A, i) \in X /\ At(A, Rank(A, i)) = i
        <3> TAKE i \in Y
        <3>1. i \in A
            OBVIOUS
        <3> QED
            BY <1>5, <3>1
    <2>3. \A n, l \in X : At(A, n) = At(A, l) => n = l
        BY <1>3
    <2>4. g \in [X -> Y] /\ (\A i, j \in X : g[i] = g[j] => i = j) /\ \A p \in Y : \E n \in X : g[n] = p
        BY <2>1, <2>2, <2>3
    <2>5. \E i \in Y : TRUE
        BY <1>0
    <2>6. \E n \in 1..c : m2[n] = k
        BY <2>2, <2>5
    <2>7. IsFiniteSet(X)
        <3>1. IsFiniteSet(1..c) /\ X \subseteq 1..c
            BY <1>2, FS_Interval
        <3> HIDE DEF X
        <3> QED
            BY <3>1, FS_Subset
    <2> HIDE DEF X, Y, g
    <2>8. g \in Bijection(X, Y)
        BY <2>4 DEF Bijection, Injection, Surjection, IsInjective
    <2>9. Cardinality(X) = Cardinality(Y)
        BY <2>7, <2>8, FS_Bijection DEF ExistsBijection
    <2>10. Cardinality(Y) = Copies(log[k])
        BY <1>0 DEF Y
    <2> QED
        BY <2>6, <2>9, <2>10 DEF X
<1> HIDE DEF c, m2
<1>10. T \subseteq DOMAIN log
    BY <1>0
<1>11. Holds(log, Pick(evs, A), m2, c, T)
    BY <1>2, <1>6, <1>7, <1>8, <1>9, <1>10 DEF Holds
<1> QED
    BY <1>11 DEF m2, c

-------------------------------------------------------------------------------
(* fingerprint.py.                                                          *)

LEMMA LenIs ==
    ASSUME NEW N \in Nat, NEW s, s = [n \in 1..N |-> s[n]]
    PROVE  Len(s) = N /\ DOMAIN s = 1..N
<1> DEFINE V == {s[n] : n \in 1..N}
<1>1. s \in [1..N -> V]
    OBVIOUS
<1> HIDE DEF V
<1> QED
    BY <1>1

(* A run of chunks has no gaps, and a loop that takes each chunk by itself  *)
(* or with its run goes forward.                                            *)
Folds(evs, N, chunks, size) ==
    /\ N \in Nat /\ evs = [n \in 1..N |-> evs[n]] /\ chunks \subseteq 1..N
    /\ \A i \in 1..N : \/ size[i] = 1
                       \/ i \in chunks /\ size[i] = Cardinality(Fp!Run(evs, chunks, i))
Alike(evs, chunks, i, j) ==
    i \in chunks /\ j \in chunks /\ evs[j].command.target = evs[i].command.target

LEMMA RunShape ==
    ASSUME NEW evs, NEW N \in Nat, evs = [n \in 1..N |-> evs[n]], NEW chunks, NEW i \in 1..N
    PROVE  LET c == Cardinality(Fp!Run(evs, chunks, i))
           IN  /\ c \in Nat /\ i + c <= N + 1
               /\ c # 0 <=> i \in chunks
               /\ \A j \in 1..N : i <= j /\ j < i + c => Alike(evs, chunks, i, j)
<1> DEFINE R == Fp!Run(evs, chunks, i)
           c == Cardinality(R)
<1>1. Len(evs) = N
    BY LenIs
<1>2. /\ R \subseteq i..N
      /\ \A j \in R : \A k \in i..j : k \in chunks /\ evs[k].command.target = evs[i].command.target
    BY <1>1 DEF Fp!Run
<1>3. \A j \in R : \A k \in i..j : k \in R
    <2> SUFFICES ASSUME NEW j \in R, NEW k \in i..j PROVE k \in R
        OBVIOUS
    <2>1. k \in i..N /\ \A l \in i..k : l \in i..j
        BY <1>2
    <2> QED
        BY <1>1, <1>2, <2>1 DEF Fp!Run
<1>4. i \in chunks => i \in R
    <2>1. i \in i..N /\ \A k \in i..i : k = i
        OBVIOUS
    <2> QED
        BY <1>1, <2>1 DEF Fp!Run
<1> HIDE DEF R
<1>5. c \in Nat /\ R = i..(i + c - 1)
    BY <1>2, <1>3, Gapless
<1> HIDE DEF c
<1>6. c # 0 => i \in R /\ i + c - 1 \in R
    BY <1>5
<1>7. c = 0 => R = {}
    BY <1>5
<1>8. c # 0 => i + c - 1 <= N
    BY <1>2, <1>6
<1>9. i + c <= N + 1
    BY <1>5, <1>8
<1>10. c # 0 <=> i \in chunks
    <2>1. i \in R => i \in chunks
        <3> HAVE i \in R
        <3>1. i \in i..i
            OBVIOUS
        <3> QED
            BY <1>2, <3>1
    <2> QED
        BY <1>4, <1>6, <1>7, <2>1
<1>11. ASSUME NEW j \in 1..N, i <= j, j < i + c PROVE Alike(evs, chunks, i, j)
    <2>1. j \in R /\ j \in i..j /\ i \in i..j
        BY <1>5, <1>11
    <2> QED
        BY <1>2, <2>1 DEF Alike
<1> QED
    BY <1>5, <1>9, <1>10, <1>11 DEF c, R

LEMMA FoldsForward ==
    ASSUME NEW evs, NEW N, NEW chunks, NEW size, Folds(evs, N, chunks, size)
    PROVE  /\ Forward([i \in 1..N |-> i + size[i]], N)
           /\ \A i \in 1..N : size[i] \in Nat \ {0}
           /\ \A i, j \in 1..N : i <= j /\ j < i + size[i] => i = j \/ Alike(evs, chunks, i, j)
<1>1. /\ N \in Nat /\ evs = [n \in 1..N |-> evs[n]] /\ chunks \subseteq 1..N
      /\ \A i \in 1..N : \/ size[i] = 1
                         \/ i \in chunks /\ size[i] = Cardinality(Fp!Run(evs, chunks, i))
    BY DEF Folds
<1>2. ASSUME NEW i \in 1..N
      PROVE  /\ size[i] \in Nat \ {0} /\ i + size[i] <= N + 1
             /\ \A j \in 1..N : i <= j /\ j < i + size[i] => i = j \/ Alike(evs, chunks, i, j)
    <2>1. CASE size[i] = 1
        BY <1>1, <2>1
    <2>2. CASE i \in chunks /\ size[i] = Cardinality(Fp!Run(evs, chunks, i))
        BY <1>1, <2>2, RunShape
    <2> QED
        BY <1>1, <2>1, <2>2
<1> DEFINE next == [i \in 1..N |-> i + size[i]]
<1>3. \A i \in 1..N : next[i] \in 1..(N + 1) /\ i < next[i]
    <2> TAKE i \in 1..N
    <2>1. size[i] \in Nat \ {0} /\ i + size[i] <= N + 1
        BY <1>2
    <2> DEFINE x == size[i]
    <2> HIDE DEF x
    <2>2. i + x \in 1..(N + 1) /\ i < i + x
        BY <1>1, <2>1 DEF x
    <2> QED
        BY <2>2 DEF x
<1>4. next \in [1..N -> 1..(N + 1)]
    BY <1>3
<1>5. Forward(next, N)
    BY <1>1, <1>3, <1>4 DEF Forward
<1> QED
    BY <1>2, <1>5

(* What is alike what leads it is repetition, whatever else is left out.    *)
LeadsAlike(next, N, e, A) ==
    /\ Forward(next, N) /\ A \subseteq 1..N
    /\ \A v \in 1..N, i \in A : v <= i /\ i < next[v] => v \in A /\ e[v] = e[i]

LEMMA LeadsStutter ==
    ASSUME NEW N, NEW next, NEW e, NEW A, LeadsAlike(next, N, e, A)
    PROVE  \E r : Stutters(Pick(e, A), Pick(e, Fp!Visits(next) \cap A), r,
                           Cardinality(A), Cardinality(Fp!Visits(next) \cap A))
<1> DEFINE V == Fp!Visits(next)
           S == V \cap A
           c == Cardinality(A)
           d == Cardinality(S)
           r == [n \in 1..c |-> Rank(S, At(A, n))]
<1>0. /\ Forward(next, N) /\ A \subseteq 1..N
      /\ \A v \in 1..N, i \in A : v <= i /\ i < next[v] => v \in A /\ e[v] = e[i]
    BY DEF LeadsAlike
<1>1. N \in Nat /\ next \in [1..N -> 1..(N + 1)]
    BY <1>0 DEF Forward
<1>2. /\ V \subseteq 1..N
      /\ \A i \in 1..N : \E v \in V : Lead(V, v, i) /\ i < next[v]
    BY <1>0, VisitsLead
<1> HIDE DEF V
<1>3. S = V \cap A /\ S \subseteq A /\ S \subseteq 1..N
    BY <1>2
<1> HIDE DEF S
<1>4. Spots(A) /\ Spots(S) /\ c \in Nat /\ d \in Nat
    BY <1>0, <1>1, <1>3, PlacesIn
<1>5. ASSUME NEW i \in A
      PROVE  Rank(S, i) \in 1..d /\ At(S, Rank(S, i)) \in S /\ e[At(S, Rank(S, i))] = e[i]
    <2>1. PICK v \in V : Lead(V, v, i) /\ i < next[v]
        BY <1>0, <1>2
    <2>2. v \in 1..N /\ v <= i
        BY <1>2, <2>1 DEF Lead
    <2>3. v \in A /\ e[v] = e[i]
        BY <1>0, <2>1, <2>2
    <2>4. Lead(S, v, i)
        BY <1>3, <2>1, <2>3 DEF Lead
    <2>5. i \in Nat
        BY <1>0, <1>1
    <2>6. Rank(S, i) \in 1..d /\ At(S, Rank(S, i)) = v
        BY <1>4, <2>4, <2>5, LeadRank
    <2>7. v \in S
        BY <1>3, <2>3
    <2> QED
        BY <2>3, <2>6, <2>7
<1>6. \A n \in 1..c : At(A, n) \in A /\ At(A, n) \in Nat /\ Rank(A, At(A, n)) = n
    BY <1>4, PlaceAt
<1>7. \A n \in 1..c : r[n] \in 1..d
    BY <1>5, <1>6
<1>8. ASSUME NEW n \in 1..c, NEW k \in 1..c, n <= k PROVE r[n] <= r[k]
    <2>1. At(A, n) <= At(A, k) /\ At(A, n) \in Nat /\ At(A, k) \in Nat
        BY <1>4, <1>8, PlaceAt
    <2>2. Rank(S, At(A, n)) <= Rank(S, At(A, k))
        BY <1>4, <2>1, RankPlace
    <2> QED
        BY <2>2
<1>9. ASSUME NEW i \in 1..d PROVE Class(r, c, i) # {}
    <2>1. At(S, i) \in S /\ At(S, i) \in Nat /\ Rank(S, At(S, i)) = i
        BY <1>4, PlaceAt
    <2>2. Rank(A, At(S, i)) \in 1..c /\ At(A, Rank(A, At(S, i))) = At(S, i)
        BY <1>3, <1>4, <2>1, RankPlace
    <2>3. r[Rank(A, At(S, i))] = i
        BY <2>1, <2>2
    <2> QED
        BY <2>2, <2>3 DEF Class
<1>10. \A n \in 1..c : Pick(e, A)[n] = Pick(e, S)[r[n]]
    <2> TAKE n \in 1..c
    <2>1. Pick(e, A)[n] = e[At(A, n)]
        BY DEF Pick
    <2>2. r[n] = Rank(S, At(A, n)) /\ r[n] \in 1..d
        BY <1>7
    <2>3. Pick(e, S)[r[n]] = e[At(S, r[n])]
        BY <2>2 DEF Pick
    <2>4. e[At(S, r[n])] = e[At(A, n)]
        BY <1>5, <1>6, <2>2
    <2> QED
        BY <2>1, <2>3, <2>4
<1> HIDE DEF r, c, d
<1>11. Rises(r, c, d)
    BY <1>4, <1>7, <1>8 DEF Rises
<1>12. Stutters(Pick(e, A), Pick(e, S), r, c, d)
    BY <1>9, <1>10, <1>11 DEF Stutters
<1> QED
    BY <1>12 DEF c, d, S, V

(* The records as often as the file has them, and as often as the log.      *)
Repeats(s, t, r, N, M) ==
    Stutters(s, t, r, N, M) /\ \A i \in 1..M : Cardinality(Class(r, N, i)) = Copies(t[i])

LEMMA HeldRepeats ==
    ASSUME NEW log, NEW l \in Nat, DOMAIN log = 1..l,
           NEW evs, NEW m, NEW N, NEW T, Holds(log, evs, m, N, T)
    PROVE  \E r : Repeats(evs, Pick(log, T), r, N, Cardinality(T))
<1> DEFINE d == Cardinality(T)
           r == [n \in 1..N |-> Rank(T, m[n])]
<1>1. /\ N \in Nat /\ evs = [n \in 1..N |-> log[m[n]]]
      /\ T \subseteq DOMAIN log
      /\ \A n \in 1..N : m[n] \in T
      /\ \A n, k \in 1..N : n <= k => m[n] <= m[k]
      /\ \A k \in T : \E n \in 1..N : m[n] = k
      /\ \A k \in T : Cardinality({n \in 1..N : m[n] = k}) = Copies(log[k])
    BY DEF Holds
<1>2. Spots(T) /\ d \in Nat
    BY <1>1, PlacesIn
<1>3. \A k \in T : k \in Nat /\ Rank(T, k) \in 1..d /\ At(T, Rank(T, k)) = k
    <2> TAKE k \in T
    <2>1. k \in Nat
        BY <1>2 DEF Spots
    <2> QED
        BY <1>2, <2>1, RankPlace
<1>4. ASSUME NEW n \in 1..N, NEW k \in 1..N, n <= k PROVE r[n] <= r[k]
    <2>1. m[n] <= m[k] /\ m[n] \in Nat /\ m[k] \in Nat
        BY <1>1, <1>3, <1>4
    <2>2. Rank(T, m[n]) <= Rank(T, m[k])
        BY <1>2, <2>1, RankPlace
    <2> QED
        BY <2>2
<1>5. \A n \in 1..N : r[n] \in 1..d /\ evs[n] = Pick(log, T)[r[n]]
    <2> TAKE n \in 1..N
    <2>1. r[n] \in 1..d /\ At(T, r[n]) = m[n]
        BY <1>1, <1>3
    <2>2. Pick(log, T)[r[n]] = log[At(T, r[n])]
        BY <2>1 DEF Pick
    <2> QED
        BY <1>1, <2>1, <2>2
<1>6. ASSUME NEW i \in 1..d
      PROVE  /\ Class(r, N, i) # {}
             /\ Cardinality(Class(r, N, i)) = Copies(Pick(log, T)[i])
    <2> DEFINE k == At(T, i)
    <2>1. k \in T /\ Rank(T, k) = i
        BY <1>2, PlaceAt
    <2>2. Pick(log, T)[i] = log[k]
        BY DEF Pick
    <2> HIDE DEF k
    <2>3. \A n \in 1..N : r[n] = i <=> m[n] = k
        <3> TAKE n \in 1..N
        <3>1. m[n] \in T /\ At(T, Rank(T, m[n])) = m[n] /\ At(T, Rank(T, k)) = k
            BY <1>1, <1>3, <2>1
        <3> QED
            BY <2>1, <3>1
    <2>4. Class(r, N, i) = {n \in 1..N : m[n] = k}
        BY <2>3 DEF Class
    <2>5. \E n \in 1..N : m[n] = k
        BY <1>1, <2>1
    <2>6. {n \in 1..N : m[n] = k} # {}
        BY <2>5
    <2> QED
        BY <1>1, <2>1, <2>2, <2>4, <2>6
<1> HIDE DEF r, d
<1>7. Rises(r, N, d)
    <2>1. \A n \in 1..N : r[n] \in 1..d
        BY <1>5
    <2> QED
        BY <1>1, <1>2, <1>4, <2>1 DEF Rises
<1>8. Repeats(evs, Pick(log, T), r, N, d)
    BY <1>5, <1>6, <1>7 DEF Repeats, Stutters
<1> QED
    BY <1>8 DEF d

(* The pattern of a session is that of its steps.                           *)
LEMMA KeptAre ==
    ASSUME Given, NEW sid
    PROVE  LET L == InText(sid)
               K == Fp!KeptOf(L, sid)
               T == Told(L, DOMAIN L)
           IN  /\ T \subseteq K /\ \A k \in K : k \in T <=> L[k].msg # "handshake ok"
               /\ \E l \in Nat : DOMAIN L = 1..l
<1> DEFINE L == InText(sid)
           K == Fp!KeptOf(L, sid)
           T == Told(L, DOMAIN L)
<1>1. PICK g, l : TextLog(sid, g, l)
    BY TextLogIs
<1>2. /\ l \in Nat /\ L = [n \in 1..l |-> true_log[g[n]]]
      /\ \A n \in 1..l : g[n] \in Own(true_log, sid)
    BY <1>1 DEF TextLog
<1> HIDE DEF L
<1>3. DOMAIN L = 1..l /\ \A n \in DOMAIN L : L[n].sid = sid
    BY <1>2 DEF Own
<1>4. T \subseteq K /\ \A k \in K : k \in T <=> L[k].msg # "handshake ok"
    BY <1>3 DEF Fp!KeptOf, Fp!KEEP_MSGS, Told, IsTold, IsCommand, Marks
<1> QED
    BY <1>2, <1>3, <1>4 DEF L

LEMMA ShapeIs ==
    ASSUME Given, NEW sid
    PROVE  Fp!Shape(file, sid) = Steps(sid)
<1> DEFINE L == InText(sid)
           K == Fp!KeptOf(L, sid)
           T == Told(L, DOMAIN L)
           told == Pick(L, T)
           evs == Fp!Sorted(file, sid)
           hex == {i \in DOMAIN evs : Fp!IsHexInject(evs[i])}
           size == [i \in DOMAIN evs |->
                       IF i \in hex THEN Fp!Cardinality(Fp!Run(evs, hex, i)) ELSE 1]
           next == [i \in DOMAIN evs |-> i + size[i]]
           shown == {i \in Fp!Visits(next) : evs[i].msg # "handshake ok"}
           e == [i \in DOMAIN evs |-> Fp!ShapeEntry(evs[i])]
<1>1. PICK m, N : Holds(L, evs, m, N, K)
    BY SortedAre
<1>2. Fp!Shape(file, sid) = Fp!Collapse(Pick(e, shown))
    <2>1. Fp!Shape(file, sid) = Fp!Collapse(Fp!Pick(e, shown))
        BY DEF Fp!Shape, Fp!ShapeAndRaw
    <2> QED
        BY <2>1, SameFp
<1> HIDE DEF evs
<1>3. /\ N \in Nat /\ evs = [n \in 1..N |-> evs[n]] /\ DOMAIN evs = 1..N
      /\ \A n \in 1..N : m[n] \in K /\ evs[n] = L[m[n]]
    <2>1. N \in Nat /\ evs = [n \in 1..N |-> L[m[n]]] /\ \A n \in 1..N : m[n] \in K
        BY <1>1 DEF Holds
    <2> QED
        BY <2>1
<1> DEFINE A == {n \in 1..N : m[n] \in T}
<1>4. /\ T \subseteq K /\ \A k \in K : k \in T <=> L[k].msg # "handshake ok"
      /\ \E l \in Nat : DOMAIN L = 1..l
    BY KeptAre
<1> HIDE DEF K, T, L
<1>5. \A n \in 1..N : n \in A <=> evs[n].msg # "handshake ok"
    BY <1>3, <1>4
<1>6. Folds(evs, N, hex, size)
    <2>1. hex \subseteq 1..N
        BY <1>3
    <2>2. \A i \in 1..N : \/ size[i] = 1
                          \/ i \in hex /\ size[i] = Cardinality(Fp!Run(evs, hex, i))
        <3> HIDE DEF hex
        <3> QED
            BY <1>3, SameFp
    <2> HIDE DEF hex, size
    <2> QED
        BY <1>3, <2>1, <2>2 DEF Folds
<1>7. /\ Forward(next, N)
      /\ \A i, j \in 1..N : i <= j /\ j < next[i] => i = j \/ Alike(evs, hex, i, j)
    <2>1. next = [i \in 1..N |-> i + size[i]]
        BY <1>3
    <2> HIDE DEF hex, size
    <2> QED
        BY <1>6, <2>1, FoldsForward
<1>8. shown = Fp!Visits(next) \cap A
    <2>1. Fp!Visits(next) \subseteq 1..N
        <3> HIDE DEF next
        <3> QED
            BY <1>7, VisitsLead
    <2> HIDE DEF next, A
    <2> QED
        BY <1>5, <2>1
<1>9. ASSUME NEW v \in 1..N, NEW i \in A, v <= i, i < next[v] PROVE v \in A /\ e[v] = e[i]
    <2>1. i \in 1..N
        OBVIOUS
    <2>2. v = i \/ Alike(evs, hex, v, i)
        <3> HIDE DEF next, A, hex
        <3> QED
            BY <1>7, <1>9, <2>1
    <2>3. ASSUME Alike(evs, hex, v, i) PROVE v \in A /\ e[v] = e[i]
        <3>1. /\ Fp!IsHexInject(evs[v]) /\ Fp!IsHexInject(evs[i])
              /\ evs[i].command.target = evs[v].command.target
            BY <2>3 DEF Alike
        <3>2. evs[v].msg # "handshake ok"
            BY <3>1 DEF Fp!IsHexInject, Fp!IsCommand
        <3>3. Fp!ShapeEntry(evs[v]) = Fp!ShapeEntry(evs[i])
            BY <3>1 DEF Fp!ShapeEntry
        <3> HIDE DEF A
        <3> QED
            BY <1>3, <1>5, <2>1, <3>2, <3>3
    <2> QED
        BY <2>2, <2>3
<1>10. DOMAIN e = 1..N /\ \A n \in 1..N : e[n] = Fp!ShapeEntry(evs[n])
    BY <1>3
<1>11. A \subseteq 1..N
    OBVIOUS
<1> HIDE DEF hex, size, next, shown, e
<1> DEFINE c == Cardinality(A)
           d == Cardinality(shown)
           f == Pick(e, A)
           t == Pick(e, shown)
           all == [i \in DOMAIN told |-> Fp!ShapeEntry(told[i])]
           m2 == [n \in 1..c |-> m[At(A, n)]]
<1>12. Pick(f, Changes(f, c)) = Pick(t, Changes(t, d))
    <2>1. \E r : Stutters(f, t, r, c, d)
        <3> HIDE DEF A
        <3>1. LeadsAlike(next, N, e, A)
            BY <1>7, <1>9, <1>11 DEF LeadsAlike
        <3> QED
            BY <1>8, <3>1, LeadsStutter
    <2> HIDE DEF f, t, c, d
    <2> QED
        BY <2>1, OnceEach
<1>13. Holds(L, Pick(evs, A), m2, c, T)
    BY <1>1, <1>4, PartHolds
<1>14. PICK r2 : Repeats(Pick(evs, A), told, r2, c, Cardinality(T))
    <2> HIDE DEF m2, c, A
    <2> QED
        BY <1>4, <1>13, HeldRepeats
<1>15. DOMAIN told = 1..Cardinality(T)
    BY DEF Pick
<1> HIDE DEF told
<1>16. \A n \in 1..c : f[n] = all[r2[n]]
    <2> TAKE n \in 1..c
    <2>1. r2[n] \in DOMAIN told /\ Pick(evs, A)[n] = told[r2[n]]
        <3> HIDE DEF c, A
        <3> QED
            BY <1>14, <1>15 DEF Repeats, Stutters, Rises
    <2>2. Pick(evs, A)[n] = evs[At(A, n)] /\ f[n] = e[At(A, n)]
        BY DEF Pick
    <2>3. At(A, n) \in 1..N
        <3>1. Spots(A)
            BY <1>3, <1>11, PlacesIn
        <3> QED
            BY <1>11, <3>1, PlaceAt
    <2>4. all[r2[n]] = Fp!ShapeEntry(told[r2[n]])
        BY <2>1
    <2> QED
        BY <1>10, <2>1, <2>2, <2>3, <2>4
<1>17. Pick(f, Changes(f, c)) = Pick(all, Changes(all, Cardinality(T)))
    <2> HIDE DEF f, c, all, A
    <2>1. Stutters(f, all, r2, c, Cardinality(T))
        BY <1>14, <1>16 DEF Repeats, Stutters
    <2> QED
        BY <2>1, OnceEach
<1>18. Steps(sid) = Pick(all, Changes(all, Cardinality(T)))
    <2>1. DOMAIN all = 1..Cardinality(T)
        BY <1>15
    <2>2. told = ToldRecords(sid)
        BY DEF ToldRecords, told, T, L
    <2>3. Steps(sid) = Pick(all, {i \in DOMAIN all : i = 1 \/ all[i - 1] # all[i]})
        BY <2>2 DEF Steps
    <2> HIDE DEF all
    <2> QED
        BY <2>1, <2>3 DEF Changes
<1>19. Fp!Collapse(t) = Pick(t, Changes(t, d))
    <2>1. DOMAIN t = 1..d
        BY DEF Pick
    <2> HIDE DEF t, d
    <2>2. Fp!Collapse(t) = Pick(t, {i \in DOMAIN t : i = 1 \/ t[i - 1] # t[i]})
        BY SameFp DEF Fp!Collapse
    <2> QED
        BY <2>1, <2>2 DEF Changes
<1> HIDE DEF f, c, d, all
<1> QED
    BY <1>2, <1>12, <1>17, <1>18, <1>19

(* The sessions of the file that got past the handshake are those of the    *)
(* log.                                                                     *)
LEMMA BegunAre ==
    ASSUME Given
    PROVE  {file[i].sid : i \in {j \in DOMAIN file : file[j].msg \in Fp!KEEP_MSGS}} =
               {sid \in TrueSids : Fp!KeptOf(true_log, sid) # {}}
<1> DEFINE L == {file[i].sid : i \in {j \in DOMAIN file : file[j].msg \in Fp!KEEP_MSGS}}
           R == {sid \in TrueSids : Fp!KeptOf(true_log, sid) # {}}
<1>1. true_log \in Logs /\ IsLog(true_log) /\ block \in Blocks(true_log) /\ file = Splice(true_log, block)
    BY LogFacts DEF Given
<1>2. \A p \in DOMAIN file : \E k \in DOMAIN true_log : file[p] = true_log[k]
    BY <1>1, SpliceShape
<1>3. \A k \in DOMAIN true_log : \E p \in DOMAIN file : file[p] = true_log[k]
    <2> TAKE k \in DOMAIN true_log
    <2>1. PICK p \in DOMAIN Splice(true_log, block) : Source(true_log, block, p) = k
        BY <1>1, SourceOnto
    <2>2. Splice(true_log, block)[p] = true_log[Source(true_log, block, p)]
        BY <1>1, SpliceShape
    <2> QED
        BY <1>1, <2>1, <2>2
<1>4. ASSUME NEW i \in DOMAIN file, file[i].msg \in Fp!KEEP_MSGS PROVE file[i].sid \in R
    <2>1. PICK k \in DOMAIN true_log : file[i] = true_log[k]
        BY <1>2
    <2>2. k \in Fp!KeptOf(true_log, file[i].sid)
        BY <1>4, <2>1 DEF Fp!KeptOf
    <2>3. file[i].sid \in TrueSids
        BY <2>1 DEF TrueSids, ToSet
    <2> QED
        BY <2>2, <2>3
<1>5. ASSUME NEW sid \in R PROVE sid \in L
    <2>1. PICK k \in Fp!KeptOf(true_log, sid) : TRUE
        OBVIOUS
    <2>2. k \in DOMAIN true_log /\ true_log[k].sid = sid /\ true_log[k].msg \in Fp!KEEP_MSGS
        BY DEF Fp!KeptOf
    <2>3. PICK p \in DOMAIN file : file[p] = true_log[k]
        BY <1>3, <2>2
    <2> QED
        BY <2>2, <2>3
<1> QED
    BY <1>4, <1>5

LEMMA ShapesHold ==
    ASSUME Given
    PROVE  ShapesStable
<1> DEFINE begun == {sid \in TrueSids : Fp!KeptOf(true_log, sid) # {}}
<1>1. \A sid : Fp!Shape(file, sid) = Steps(sid)
    BY ShapeIs
<1>2. Fp!Patterns(file) = {{t \in begun : Fp!Shape(file, t) = Fp!Shape(file, sid)} : sid \in begun}
    BY BegunAre DEF Fp!Patterns
<1>3. Fp!Patterns(file) = {{t \in begun : Steps(t) = Steps(sid)} : sid \in begun}
    <2> HIDE DEF begun
    <2> QED
        BY <1>1, <1>2
<1> DEFINE steps == [sid \in TrueSids |-> Steps(sid)]
<1>4. \A sid \in TrueSids : steps[sid] = Steps(sid)
    OBVIOUS
<1>5. begun \subseteq TrueSids
    OBVIOUS
<1>6. groups # <<>> =>
          /\ \A sid \in TrueSids : Fp!Shape(file, sid) = steps[sid]
          /\ Fp!Patterns(file) = {{t \in begun : steps[t] = steps[sid]} : sid \in begun}
    <2> HIDE DEF begun, steps
    <2>1. \A sid \in TrueSids : Fp!Shape(file, sid) = steps[sid]
        BY <1>1, <1>4
    <2>2. ASSUME NEW sid \in begun
          PROVE  {t \in begun : Steps(t) = Steps(sid)} = {t \in begun : steps[t] = steps[sid]}
        BY <1>4, <1>5
    <2>3. {{t \in begun : Steps(t) = Steps(sid)} : sid \in begun} =
              {{t \in begun : steps[t] = steps[sid]} : sid \in begun}
        BY <2>2
    <2> QED
        BY <1>3, <2>1, <2>3
<1> QED
    BY <1>6 DEF ShapesStable

(* fingerprint.py: the pattern of a session is the list of the steps that   *)
(* the log has of it, in the order of the texts of their times and without  *)
(* immediate repetitions, and sessions share a pattern exactly when these   *)
(* lists are the same: for every log and resolution of its clock, for every *)
(* block that the merge repeated, whole sessions or not, and for every      *)
(* number of chunks that a binary came in.                                  *)
THEOREM ShapesStayStable == Spec => []ShapesStable
<1>1. IInv => ShapesStable
    BY ShapesHold DEF IInv
<1> QED
    BY <1>1, InvInit, InvStep, PTL DEF Spec

-------------------------------------------------------------------------------
(* replay.py.                                                               *)

(* What is repeated as often as it occurs is the whole.                     *)
Occurs(s, t, size, r, N, M) ==
    /\ s = [n \in 1..N |-> s[n]] /\ Rises(r, N, M)
    /\ \A i \in 1..M :
           /\ Class(r, N, i) # {} /\ Cardinality(Class(r, N, i)) = size[i]
           /\ \A n \in Class(r, N, i) : s[n] = t[i]

LEMMA OccursWhole ==
    ASSUME NEW s, NEW t, NEW size, NEW r, NEW N, NEW M, Occurs(s, t, size, r, N, M)
    PROVE  FlattenSeq([i \in 1..M |-> [n \in 1..size[i] |-> t[i]]]) = s
<1> DEFINE V == {s[n] : n \in 1..N}
           qs == [i \in 1..M |-> [n \in 1..size[i] |-> t[i]]]
<1>1. /\ N \in Nat /\ M \in Nat /\ Rises(r, N, M) /\ s = [n \in 1..N |-> s[n]]
      /\ \A i \in 1..M :
           /\ Class(r, N, i) # {} /\ Cardinality(Class(r, N, i)) = size[i]
           /\ \A n \in Class(r, N, i) : s[n] = t[i]
    BY DEF Occurs, Rises
<1>2. s \in [1..N -> V]
    BY <1>1
<1>3. ASSUME NEW i \in 1..M PROVE size[i] \in Nat /\ t[i] \in V
    <2>1. Class(r, N, i) \subseteq 1..N
        BY DEF Class
    <2>2. Cardinality(Class(r, N, i)) \in Nat
        BY <1>1, <2>1, PlacesIn
    <2>3. PICK n \in Class(r, N, i) : TRUE
        BY <1>1
    <2>4. s[n] = t[i] /\ n \in 1..N
        BY <1>1, <2>1
    <2> QED
        BY <1>1, <2>2, <2>4
<1> HIDE DEF V
<1>4. s \in Seq(V) /\ Len(s) = N
    BY <1>1, <1>2
<1>5. ASSUME NEW i \in 1..M
      PROVE  /\ qs[i] \in Seq(V) /\ Len(qs[i]) = size[i]
             /\ \A k \in 1..Len(qs[i]) : qs[i][k] = t[i]
    <2> DEFINE x == t[i]
               c == size[i]
               q == [n \in 1..c |-> x]
    <2>1. c \in Nat /\ x \in V
        BY <1>3
    <2> HIDE DEF x, c
    <2>2. q \in [1..c -> V] /\ \A k \in 1..c : q[k] = x
        BY <2>1
    <2>3. qs[i] = q
        BY DEF x, c
    <2> HIDE DEF q, qs
    <2>4. q \in Seq(V) /\ Len(q) = c
        BY <2>1, <2>2
    <2> QED
        BY <2>2, <2>3, <2>4 DEF x, c
<1>6. qs \in Seq(Seq(V)) /\ Len(qs) = M
    <2>1. qs \in [1..M -> Seq(V)]
        BY <1>5
    <2> HIDE DEF qs
    <2> QED
        BY <1>1, <2>1
<1> HIDE DEF qs
<1>7. Spreads(s, qs, r, N, M, V)
    <2>1. \A i \in 1..M : Len(qs[i]) = Cardinality(Class(r, N, i))
        BY <1>1, <1>5
    <2>2. ASSUME NEW i \in 1..M, NEW n \in Class(r, N, i), NEW k \in 1..Len(qs[i])
          PROVE  qs[i][k] = s[n]
        BY <1>1, <1>5
    <2> QED
        BY <1>1, <1>4, <1>6, <2>1, <2>2 DEF Spreads
<1>8. FlattenSeq(qs) = s
    BY <1>7, Spread
<1> QED
    BY <1>8 DEF qs

(* The elements between a stop of a loop and the next.                      *)
Legs(next, V, r, N) ==
    /\ Rises(r, N, Cardinality(V))
    /\ \A i \in 1..Cardinality(V) :
           /\ At(V, i) \in Class(r, N, i)
           /\ Cardinality(Class(r, N, i)) = next[At(V, i)] - At(V, i)
           /\ \A n \in Class(r, N, i) : At(V, i) <= n /\ n < next[At(V, i)]

LEMMA VisitsClasses ==
    ASSUME NEW N, NEW next, Forward(next, N)
    PROVE  \E r : Legs(next, Fp!Visits(next), r, N)
<1> DEFINE V == Fp!Visits(next)
           d == Cardinality(V)
           r == [n \in 1..N |-> Rank(V, n)]
<1>1. N \in Nat /\ next \in [1..N -> 1..(N + 1)] /\ \A i \in 1..N : i < next[i]
    BY DEF Forward
<1>2. /\ V \subseteq 1..N
      /\ \A i \in 1..N : \E v \in V : Lead(V, v, i) /\ i < next[v]
      /\ \A v \in V, i \in 1..N : v <= i /\ i < next[v] => Lead(V, v, i)
    BY VisitsLead
<1> HIDE DEF V
<1>3. Spots(V) /\ d \in Nat
    BY <1>1, <1>2, PlacesIn
<1>4. ASSUME NEW n \in 1..N
      PROVE  /\ r[n] \in 1..d
             /\ At(V, r[n]) <= n /\ n < next[At(V, r[n])]
    <2>1. PICK v \in V : Lead(V, v, n) /\ n < next[v]
        BY <1>2
    <2>2. n \in Nat
        BY <1>1
    <2>3. Rank(V, n) \in 1..d /\ At(V, Rank(V, n)) = v
        BY <1>3, <2>1, <2>2, LeadRank
    <2>4. v <= n
        BY <2>1 DEF Lead
    <2> QED
        BY <2>1, <2>3, <2>4
<1>5. Rises(r, N, d)
    <2>1. ASSUME NEW n \in 1..N, NEW k \in 1..N, n <= k PROVE r[n] <= r[k]
        <3>1. n \in Nat /\ k \in Nat
            BY <1>1
        <3>2. Rank(V, n) <= Rank(V, k)
            BY <1>3, <2>1, <3>1, RankPlace
        <3> QED
            BY <3>2
    <2> HIDE DEF r, d
    <2> QED
        BY <1>1, <1>3, <1>4, <2>1 DEF Rises
<1>6. ASSUME NEW i \in 1..d
      PROVE  /\ At(V, i) \in Class(r, N, i)
             /\ Cardinality(Class(r, N, i)) = next[At(V, i)] - At(V, i)
             /\ \A n \in Class(r, N, i) : At(V, i) <= n /\ n < next[At(V, i)]
    <2> DEFINE v == At(V, i)
    <2>1. v \in V /\ Rank(V, v) = i
        BY <1>3, PlaceAt
    <2> HIDE DEF v
    <2>2. v \in 1..N /\ next[v] \in 1..(N + 1) /\ v < next[v]
        BY <1>1, <1>2, <2>1
    <2>3. \A n \in Class(r, N, i) : n \in 1..N /\ v <= n /\ n < next[v]
        BY <1>4 DEF Class, v
    <2>4. ASSUME NEW n \in 1..N, v <= n, n < next[v] PROVE n \in Class(r, N, i)
        <3>1. Lead(V, v, n) /\ n \in Nat
            BY <1>1, <1>2, <2>1, <2>4
        <3>2. Rank(V, n) = Rank(V, v)
            BY <1>3, <3>1, LeadRank
        <3> QED
            BY <2>1, <3>2 DEF Class
    <2> DEFINE y == next[v]
    <2>5. y \in 1..(N + 1) /\ v < y
        BY <2>2
    <2>6. Class(r, N, i) = v..(y - 1)
        <3>1. \A n \in v..(y - 1) : n \in 1..N /\ v <= n /\ n < y
            BY <1>1, <2>2, <2>5
        <3>2. \A n \in 1..N : v <= n /\ n < y => n \in v..(y - 1)
            BY <1>1, <2>2, <2>5
        <3> HIDE DEF r
        <3> QED
            BY <2>3, <2>4, <3>1, <3>2
    <2>7. v \in Class(r, N, i)
        BY <2>2, <2>4
    <2> HIDE DEF y
    <2>8. Cardinality(v..(y - 1)) = y - v
        <3>1. Cardinality(v..(y - 1)) = IF v > y - 1 THEN 0 ELSE y - 1 - v + 1
            BY <1>1, <2>2, <2>5, FS_Interval
        <3> QED
            BY <1>1, <2>2, <2>5, <3>1
    <2>9. Cardinality(Class(r, N, i)) = next[v] - v
        BY <2>6, <2>8 DEF y
    <2> QED
        BY <2>2, <2>3, <2>7, <2>9 DEF v
<1> HIDE DEF r
<1>7. Legs(next, V, r, N)
    BY <1>5, <1>6 DEF Legs
<1> QED
    BY <1>7 DEF V

(* Each line of the replay stands for the commands that it folds.           *)
LEMMA LineOf ==
    ASSUME NEW rec, NEW n
    PROVE  LET p == Fp!Printed(rec, n) IN p[3] = n /\ <<p[1], p[2]>> = Line(rec)
BY DEF Fp!Printed, Line

LEMMA FoldedLines ==
    ASSUME NEW cmds, NEW N, NEW echo, NEW size, Folds(cmds, N, echo, size),
           \A i \in echo : Fp!IsEcho(cmds[i])
    PROVE  Unfold(Pick([i \in 1..N |-> Fp!Printed(cmds[i], size[i])],
                       Fp!Visits([i \in 1..N |-> i + size[i]]))) =
               [n \in 1..N |-> Line(cmds[n])]
<1> DEFINE next == [i \in 1..N |-> i + size[i]]
           V == Fp!Visits(next)
           d == Cardinality(V)
           printed == [i \in 1..N |-> Fp!Printed(cmds[i], size[i])]
           lines == Pick(printed, V)
           s == [n \in 1..N |-> Line(cmds[n])]
           t == [i \in 1..d |-> Line(cmds[At(V, i)])]
           times == [i \in 1..d |-> size[At(V, i)]]
<1>1. /\ Forward(next, N)
      /\ \A i \in 1..N : size[i] \in Nat \ {0}
      /\ \A i, j \in 1..N : i <= j /\ j < next[i] => i = j \/ Alike(cmds, echo, i, j)
    BY FoldsForward
<1>2. N \in Nat /\ \A i \in 1..N : next[i] = i + size[i]
    BY DEF Folds
<1> HIDE DEF next
<1>3. V \subseteq 1..N
    BY <1>1, VisitsLead
<1>4. PICK r : Legs(next, V, r, N)
    BY <1>1, VisitsClasses
<1> HIDE DEF V
<1>5. \A i \in 1..d : At(V, i) \in 1..N
    <2>1. Spots(V)
        BY <1>2, <1>3, PlacesIn
    <2> QED
        BY <1>3, <2>1, PlaceAt
<1>6. ASSUME NEW i \in 1..d
      PROVE  lines[i][3] = times[i] /\ <<lines[i][1], lines[i][2]>> = t[i]
    <2> DEFINE v == At(V, i)
    <2>1. v \in 1..N /\ lines[i] = printed[v] /\ t[i] = Line(cmds[v]) /\ times[i] = size[v]
        BY <1>5 DEF Pick
    <2> HIDE DEF v
    <2>2. lines[i] = Fp!Printed(cmds[v], size[v])
        BY <2>1
    <2> HIDE DEF lines, t, times
    <2> QED
        BY <2>1, <2>2, LineOf
<1>7. Unfold(lines) = FlattenSeq([i \in 1..d |-> [n \in 1..times[i] |-> t[i]]])
    <2>1. DOMAIN lines = 1..d
        BY DEF Pick
    <2> HIDE DEF lines, t, times, d
    <2>2. [i \in DOMAIN lines |-> [n \in 1..lines[i][3] |-> <<lines[i][1], lines[i][2]>>]] =
              [i \in 1..d |-> [n \in 1..times[i] |-> t[i]]]
        BY <1>6, <2>1
    <2> QED
        BY <2>2 DEF Unfold
<1>8. ASSUME NEW i \in 1..d
      PROVE  /\ Class(r, N, i) # {} /\ Cardinality(Class(r, N, i)) = times[i]
             /\ \A n \in Class(r, N, i) : s[n] = t[i]
    <2> DEFINE v == At(V, i)
    <2>1. /\ v \in Class(r, N, i)
          /\ Cardinality(Class(r, N, i)) = next[v] - v
          /\ \A n \in Class(r, N, i) : v <= n /\ n < next[v]
        BY <1>4 DEF Legs
    <2>2. v \in 1..N /\ times[i] = size[v] /\ t[i] = Line(cmds[v])
        BY <1>5
    <2> HIDE DEF v
    <2>3. next[v] - v = size[v]
        <3>1. size[v] \in Nat /\ next[v] = v + size[v] /\ v \in Nat
            BY <1>1, <1>2, <2>2
        <3> QED
            BY <3>1
    <2>4. ASSUME NEW n \in Class(r, N, i) PROVE s[n] = t[i]
        <3>1. n \in 1..N
            BY DEF Class
        <3>2. n = v \/ Alike(cmds, echo, v, n)
            BY <1>1, <2>1, <2>2, <3>1
        <3>3. ASSUME Alike(cmds, echo, v, n) PROVE Line(cmds[n]) = Line(cmds[v])
            <4>1. /\ Fp!IsEcho(cmds[v]) /\ Fp!IsEcho(cmds[n])
                  /\ cmds[n].command.target = cmds[v].command.target
                BY <3>3 DEF Alike
            <4> QED
                BY <4>1 DEF Line, Fp!Printed
        <3> QED
            BY <2>2, <3>1, <3>2, <3>3
    <2> HIDE DEF t, s, times
    <2> QED
        BY <2>1, <2>2, <2>3, <2>4
<1>9. Occurs(s, t, times, r, N, d)
    <2>1. s = [n \in 1..N |-> s[n]]
        OBVIOUS
    <2>2. Rises(r, N, d)
        BY <1>4 DEF Legs
    <2> HIDE DEF s, t, times, d
    <2> QED
        BY <1>8, <2>1, <2>2 DEF Occurs
<1>10. FlattenSeq([i \in 1..d |-> [n \in 1..times[i] |-> t[i]]]) = s
    <2> HIDE DEF s, t, times, d
    <2> QED
        BY <1>9, OccursWhole
<1> HIDE DEF lines, s
<1>11. Unfold(lines) = s
    BY <1>7, <1>10
<1> QED
    BY <1>11 DEF lines, s, printed, V, next

LEMMA ReplayIs ==
    ASSUME Given, NEW sid, NEW fold \in BOOLEAN
    PROVE  LET told == ToldRecords(sid)
           IN  Unfold(Fp!RenderSession(file, sid, fold)) =
                   FlattenSeq([i \in DOMAIN told |->
                       [n \in 1..Copies(told[i]) |-> Line(told[i])]])
<1> DEFINE L == InText(sid)
           K == Fp!KeptOf(L, sid)
           T == Told(L, DOMAIN L)
           told == Pick(L, T)
           evs == Fp!Sorted(file, sid)
           cmds == Fp!Cmds(evs)
           echo == {i \in DOMAIN cmds : Fp!IsEcho(cmds[i])}
           size == [i \in DOMAIN cmds |->
                       IF fold /\ Fp!Cardinality(Fp!Run(cmds, echo, i)) >= FoldMin
                       THEN Fp!Cardinality(Fp!Run(cmds, echo, i)) ELSE 1]
           next == [i \in DOMAIN cmds |-> i + size[i]]
           printed == [i \in DOMAIN cmds |-> Fp!Printed(cmds[i], size[i])]
<1>1. PICK m, N : Holds(L, evs, m, N, K)
    BY SortedAre
<1>2. Fp!RenderSession(file, sid, fold) = Pick(printed, Fp!Visits(next))
    <2>1. Fp!RenderSession(file, sid, fold) = Fp!Pick(printed, Fp!Visits(next))
        BY DEF Fp!RenderSession
    <2> QED
        BY <2>1, SameFp
<1> DEFINE A == {n \in 1..N : m[n] \in T}
           c == Cardinality(A)
<1>3. /\ T \subseteq K /\ \A k \in K : k \in T <=> L[k].msg # "handshake ok"
      /\ \E l \in Nat : DOMAIN L = 1..l
    BY KeptAre
<1>4. cmds = Pick(evs, A)
    <2> HIDE DEF K, T, L, evs
    <2>1. /\ DOMAIN evs = 1..N /\ \A n \in 1..N : m[n] \in K /\ evs[n] = L[m[n]]
        <3>1. evs = [n \in 1..N |-> L[m[n]]] /\ \A n \in 1..N : m[n] \in K
            BY <1>1 DEF Holds
        <3> QED
            BY <3>1
    <2>2. A = {i \in DOMAIN evs : evs[i].msg # "handshake ok"}
        BY <1>3, <2>1
    <2> HIDE DEF A
    <2> QED
        BY <2>2, SameFp DEF Fp!Cmds
<1> HIDE DEF cmds
<1>5. PICK m2 : Holds(L, cmds, m2, c, T)
    <2> HIDE DEF evs, K, T, L
    <2>1. Holds(L, Pick(evs, A), [n \in 1..c |-> m[At(A, n)]], c, T)
        BY <1>1, <1>3, PartHolds
    <2> HIDE DEF A, c
    <2> QED
        BY <1>4, <2>1
<1> HIDE DEF c, K, T, L, evs
<1>6. c \in Nat /\ cmds = [n \in 1..c |-> cmds[n]] /\ DOMAIN cmds = 1..c
    <2>1. c \in Nat /\ cmds = [n \in 1..c |-> L[m2[n]]]
        BY <1>5 DEF Holds
    <2> QED
        BY <2>1
<1>7. Folds(cmds, c, echo, size)
    <2>1. echo \subseteq 1..c
        BY <1>6
    <2> HIDE DEF echo
    <2>2. ASSUME NEW i \in 1..c
          PROVE  \/ size[i] = 1
                 \/ i \in echo /\ size[i] = Cardinality(Fp!Run(cmds, echo, i))
        <3> DEFINE run == Cardinality(Fp!Run(cmds, echo, i))
        <3>1. run \in Nat /\ (run # 0 <=> i \in echo)
            BY <1>6, RunShape
        <3>2. size[i] = IF fold /\ run >= FoldMin THEN run ELSE 1
            BY <1>6, SameFp
        <3> HIDE DEF run, size
        <3>3. run >= FoldMin => run # 0
            BY <3>1, FoldAssumption
        <3> QED
            BY <3>1, <3>2, <3>3 DEF run
    <2> HIDE DEF size
    <2> QED
        BY <1>6, <2>1, <2>2 DEF Folds
<1>8. \A i \in echo : Fp!IsEcho(cmds[i])
    OBVIOUS
<1>9. Unfold(Fp!RenderSession(file, sid, fold)) = [n \in 1..c |-> Line(cmds[n])]
    <2>1. printed = [i \in 1..c |-> Fp!Printed(cmds[i], size[i])] /\ next = [i \in 1..c |-> i + size[i]]
        BY <1>6
    <2> HIDE DEF echo, size, printed, next
    <2> QED
        BY <1>2, <1>7, <1>8, <2>1, FoldedLines
<1> DEFINE d == Cardinality(T)
           s == [n \in 1..c |-> Line(cmds[n])]
           t == [i \in 1..d |-> Line(told[i])]
           times == [i \in 1..d |-> Copies(told[i])]
<1>10. PICK r : Repeats(cmds, told, r, c, d)
    BY <1>3, <1>5, HeldRepeats
<1>11. DOMAIN told = 1..d
    BY DEF Pick
<1> HIDE DEF told
<1>12. ASSUME NEW i \in 1..d
       PROVE  /\ Class(r, c, i) # {} /\ Cardinality(Class(r, c, i)) = times[i]
              /\ \A n \in Class(r, c, i) : s[n] = t[i]
    <2>1. Class(r, c, i) # {} /\ Cardinality(Class(r, c, i)) = Copies(told[i])
        BY <1>10 DEF Repeats, Stutters
    <2>2. ASSUME NEW n \in Class(r, c, i) PROVE s[n] = t[i]
        <3>1. n \in 1..c /\ r[n] = i
            BY DEF Class
        <3>2. cmds[n] = told[i]
            BY <1>10, <3>1 DEF Repeats, Stutters
        <3> QED
            BY <3>1, <3>2
    <2> QED
        BY <2>1, <2>2
<1>13. Occurs(s, t, times, r, c, d)
    <2>1. s = [n \in 1..c |-> s[n]]
        OBVIOUS
    <2>2. Rises(r, c, d)
        BY <1>10 DEF Repeats, Stutters
    <2> HIDE DEF s, t, times, d
    <2> QED
        BY <1>12, <2>1, <2>2 DEF Occurs
<1>14. FlattenSeq([i \in 1..d |-> [n \in 1..times[i] |-> t[i]]]) = s
    <2> HIDE DEF s, t, times, d
    <2> QED
        BY <1>13, OccursWhole
<1>15. [i \in 1..d |-> [n \in 1..times[i] |-> t[i]]] =
           [i \in DOMAIN told |-> [n \in 1..Copies(told[i]) |-> Line(told[i])]]
    BY <1>11
<1>16. told = ToldRecords(sid)
    BY DEF ToldRecords, told, T, L
<1> HIDE DEF s, t, times, d
<1>17. s = Unfold(Fp!RenderSession(file, sid, fold))
    BY <1>9 DEF s
<1> QED
    BY <1>14, <1>15, <1>16, <1>17

(* The order of the texts follows the seconds.                              *)
LEMMA ToldInOrder ==
    ASSUME Given, NEW sid,
           NEW i \in DOMAIN ToldRecords(sid), NEW j \in DOMAIN ToldRecords(sid),
           Second(ToldRecords(sid)[i].time) < Second(ToldRecords(sid)[j].time)
    PROVE  i < j
<1> DEFINE L == InText(sid)
           T == Told(L, DOMAIN L)
           a == At(T, i)
           b == At(T, j)
<1>1. PICK g, l : TextLog(sid, g, l)
    BY TextLogIs
<1>2. /\ l \in Nat /\ L = [n \in 1..l |-> true_log[g[n]]]
      /\ \A n \in 1..l : g[n] \in Own(true_log, sid)
      /\ \A n, k \in 1..l : n < k =>
             TextKey(true_log[g[n]].time) < TextKey(true_log[g[k]].time)
    BY <1>1 DEF TextLog
<1>3. ToldRecords(sid) = Pick(L, T)
    BY DEF ToldRecords
<1> HIDE DEF L
<1>4. DOMAIN L = 1..l /\ T \subseteq 1..l
    BY <1>2 DEF Told
<1> HIDE DEF T
<1>5. Spots(T) /\ Cardinality(T) \in Nat
    BY <1>2, <1>4, PlacesIn
<1>6. i \in 1..Cardinality(T) /\ j \in 1..Cardinality(T)
    BY <1>3 DEF Pick
<1>7. a \in 1..l /\ b \in 1..l /\ (j <= i => b <= a)
    BY <1>4, <1>5, <1>6, PlaceAt
<1>8. ToldRecords(sid)[i] = true_log[g[a]] /\ ToldRecords(sid)[j] = true_log[g[b]]
    <2>1. ToldRecords(sid)[i] = L[a] /\ ToldRecords(sid)[j] = L[b]
        BY <1>3, <1>6 DEF Pick
    <2> HIDE DEF a, b
    <2> QED
        BY <1>2, <1>7, <2>1
<1> HIDE DEF a, b
<1>9. g[a] \in Own(true_log, sid) /\ g[b] \in Own(true_log, sid)
    BY <1>2, <1>7
<1>10. /\ TextKey(true_log[g[a]].time) \in Nat /\ TextKey(true_log[g[b]].time) \in Nat
       /\ TextKey(true_log[g[a]].time) < TextKey(true_log[g[b]].time)
    BY <1>8, <1>9, OwnTimes
<1>11. ASSUME b <= a PROVE FALSE
    <2>1. b < a \/ b = a
        BY <1>7, <1>11
    <2> QED
        BY <1>2, <1>7, <1>10, <2>1
<1> QED
    BY <1>5, <1>6, <1>7, <1>11

LEMMA ReplayHolds ==
    ASSUME Given
    PROVE  ReplayInOrder
<1>1. ASSUME NEW sid \in TrueSids, NEW fold \in BOOLEAN
      PROVE  Unfold(Fp!RenderSession(file, sid, fold)) =
                 FlattenSeq([i \in DOMAIN ToldRecords(sid) |->
                     [n \in 1..Copies(ToldRecords(sid)[i]) |-> Line(ToldRecords(sid)[i])]])
    BY ReplayIs
<1>2. \A sid : \A i, j \in DOMAIN ToldRecords(sid) :
          Second(ToldRecords(sid)[i].time) < Second(ToldRecords(sid)[j].time) => i < j
    BY ToldInOrder
<1> QED
    BY <1>1, <1>2 DEF ReplayInOrder

(* replay.py: unfolded, what is shown of a session is each of its records   *)
(* in the order of the texts of their times, which follows the seconds, as  *)
(* often as the file holds it: for every log and resolution of its clock,   *)
(* every block that the merge repeated and every length from which runs     *)
(* are folded.                                                              *)
THEOREM ReplaysStayInOrder == Spec => []ReplayInOrder
<1>1. IInv => ReplayInOrder
    BY ReplayHolds DEF IInv
<1> QED
    BY <1>1, InvInit, InvStep, PTL DEF Spec
================================================================================

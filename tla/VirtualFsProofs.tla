---------------------------- MODULE VirtualFsProofs ----------------------------
(***************************************************************************)
(* What VirtualFs promises for every set of command lines, upload targets   *)
(* and file names.  The first part uses nothing of how paths are resolved;   *)
(* the second proves of Clean what MadeIsFound needs.                       *)
(***************************************************************************)
EXTENDS VirtualFs, FiniteSetTheorems, SequenceTheorems, WellFoundedInduction, TLAPS

-------------------------------------------------------------------------------
(* Folds.  The community modules define a fold as a recursive function over *)
(* the subsets of its set, and a recursive function as one that is chosen   *)
(* among those that satisfy its equation: so there must be one, and what    *)
(* holds of the fold needs induction over the subsets.                      *)

(* A non-empty set of subsets of a finite set has a minimal element.  This  *)
(* is induction without an operator parameter: the elements are those for   *)
(* which a claim fails, and a minimal one is the first to fail.             *)
LEMMA MinimalSubset ==
    ASSUME NEW S, IsFiniteSet(S), NEW B, B \subseteq SUBSET S, B # {}
    PROVE  \E X \in B : \A Y \in B : Y \subseteq X => Y = X
<1>1. IsWellFoundedOn(StrictSubsetOrdering(S), FiniteSubsetsOf(S))
    BY FS_StrictSubsetOrderingWellFounded
<1>2. B \subseteq FiniteSubsetsOf(S)
    BY FS_FiniteSubsetsOfFinite
<1>3. \E X \in B : \A Y \in B : <<Y, X>> \notin StrictSubsetOrdering(S)
    BY <1>1, <1>2, WFMin
<1> QED
    BY <1>3 DEF StrictSubsetOrdering

(* g is the fold of h over the subsets of S that takes out c[X] of X first.  *)
Recurs(g, S, V, base, c, h) ==
    /\ g \in [SUBSET S -> V]
    /\ g[{}] = base
    /\ \A X \in SUBSET S : X # {} => g[X] = h[c[X]][g[X \ {c[X]}]]

(* Folds over a set and over a part of it agree on the part. *)
LEMMA RecursUnique ==
    ASSUME NEW S, IsFiniteSet(S), NEW T \in SUBSET S, NEW V, NEW base, NEW c, NEW h,
           \A X \in SUBSET S : X # {} => c[X] \in X,
           NEW f, Recurs(f, S, V, base, c, h), NEW g, Recurs(g, T, V, base, c, h)
    PROVE  \A X \in SUBSET T : f[X] = g[X]
<1> DEFINE B == {X \in SUBSET T : f[X] # g[X]}
<1> SUFFICES ASSUME B # {} PROVE FALSE
    OBVIOUS
<1>1. IsFiniteSet(T) /\ B \subseteq SUBSET T
    BY FS_Subset
<1>2. PICK X \in B : \A Y \in B : Y \subseteq X => Y = X
    <2> HIDE DEF B
    <2> QED
        BY <1>1, MinimalSubset
<1>3. X # {}
    BY DEF Recurs
<1> DEFINE Y == X \ {c[X]}
<1>4. Y \subseteq X /\ Y # X /\ X \in SUBSET T /\ X \in SUBSET S
    BY <1>3
<1>5. f[Y] = g[Y]
    BY <1>2, <1>4
<1> QED
    BY <1>3, <1>4, <1>5 DEF Recurs

(* Such a fold exists: a recursive function over subsets is not empty talk.  *)
LEMMA RecursExists ==
    ASSUME NEW S, IsFiniteSet(S), NEW V, NEW base \in V, NEW c, NEW h,
           \A X \in SUBSET S : X # {} => c[X] \in X,
           \A x \in S : h[x] \in [V -> V]
    PROVE  \E g : Recurs(g, S, V, base, c, h)
<1> DEFINE R(g, X) == Recurs(g, X, V, base, c, h)
           B == {X \in SUBSET S : ~\E g : R(g, X)}
<1> SUFFICES ASSUME B # {} PROVE FALSE
    <2>1. S \notin B => \E g : R(g, S)
        OBVIOUS
    <2> QED
        BY <2>1
<1>2. PICK X \in B : \A Y \in B : Y \subseteq X => Y = X
    <2>1. B \subseteq SUBSET S
        OBVIOUS
    <2> HIDE DEF B
    <2> QED
        BY <2>1, MinimalSubset
<1> DEFINE G(Y) == CHOOSE g : R(g, Y)
           Rest(Z) == Z \ {c[Z]}
           it == [Z \in SUBSET X |->
                     IF Z = {} THEN base ELSE h[c[Z]][G(Rest(Z))[Rest(Z)]]]
<1>3. \A Y \in SUBSET X : Y # X => R(G(Y), Y)
    <2> SUFFICES ASSUME NEW Y \in SUBSET X, Y # X PROVE R(G(Y), Y)
        OBVIOUS
    <2>1. \E g : R(g, Y)
        BY <1>2
    <2> HIDE DEF R
    <2> QED
        BY <2>1
<1>4. \A Z \in SUBSET X : Z # {} =>
          c[Z] \in Z /\ c[Z] \in S /\ Rest(Z) \in SUBSET X /\ Rest(Z) # X /\ Rest(Z) # Z
    OBVIOUS
<1>5. \A Z \in SUBSET X : Z # {} => G(Rest(Z))[Rest(Z)] \in V
    <2> SUFFICES ASSUME NEW Z \in SUBSET X, Z # {} PROVE G(Rest(Z))[Rest(Z)] \in V
        OBVIOUS
    <2> DEFINE Y == Rest(Z)
    <2>1. Y \in SUBSET X /\ R(G(Y), Y)
        BY <1>3, <1>4
    <2> HIDE DEF G, Y
    <2>2. G(Y)[Y] \in V
        BY <2>1 DEF Recurs
    <2> QED
        BY <2>2 DEF Y
<1>6. it \in [SUBSET X -> V]
    <2> HIDE DEF G, Rest
    <2> QED
        BY <1>4, <1>5
<1>7. ASSUME NEW Z \in SUBSET X, Z # {} PROVE it[Z] = h[c[Z]][it[Rest(Z)]]
    <2> DEFINE W == Rest(Z)
    <2>1. W \in SUBSET X /\ W # X
        BY <1>4, <1>7
    <2>2. it[W] = G(W)[W]
        <3>1. CASE W = {}
            <4>1. it[W] = base
                BY <3>1
            <4>2. R(G(W), W)
                BY <1>3, <2>1
            <4>3. G(W)[W] = base
                <5> HIDE DEF G, W
                <5> QED
                  BY <3>1, <4>2 DEF Recurs
            <4> QED
                BY <4>1, <4>3
        <3>2. CASE W # {}
            <4> DEFINE U == Rest(W)
            <4>1. U \in SUBSET X /\ U # X /\ U \in SUBSET W /\ c[W] \in W
                BY <1>4, <2>1, <3>2
            <4>2. R(G(W), W) /\ R(G(U), U)
                BY <1>3, <2>1, <4>1
            <4>3. IsFiniteSet(W)
                BY FS_Subset
            <4>4. G(W)[U] = G(U)[U]
                <5>1. \A Y \in SUBSET W : Y # {} => c[Y] \in Y
                    OBVIOUS
                <5> HIDE DEF G, W, U
                <5> QED
                    BY <4>1, <4>2, <4>3, <5>1, RecursUnique
            <4>5. it[W] = h[c[W]][G(U)[U]]
                BY <2>1, <3>2
            <4>6. G(W)[W] = h[c[W]][G(W)[U]]
                <5> HIDE DEF G, W
                <5> QED
                    BY <3>2, <4>2 DEF Recurs
            <4> QED
                BY <4>4, <4>5, <4>6
        <3> QED
            BY <3>1, <3>2
    <2>3. it[Z] = h[c[Z]][G(W)[W]]
        BY <1>7
    <2> QED
        BY <2>2, <2>3
<1>8. it[{}] = base
    OBVIOUS
<1>9. R(it, X)
    <2> HIDE DEF it
    <2> QED
        BY <1>6, <1>7, <1>8 DEF Recurs
<1> QED
    BY <1>2, <1>9

(* What every step keeps, the fold has. *)
LEMMA RecursType ==
    ASSUME NEW S, IsFiniteSet(S), NEW V, NEW g, g[{}] \in V, NEW c,
           \A X \in SUBSET S : X # {} => c[X] \in X /\ (g[X \ {c[X]}] \in V => g[X] \in V)
    PROVE  \A X \in SUBSET S : g[X] \in V
<1> DEFINE B == {X \in SUBSET S : g[X] \notin V}
<1> SUFFICES ASSUME B # {} PROVE FALSE
    OBVIOUS
<1>1. PICK X \in B : \A Y \in B : Y \subseteq X => Y = X
    <2>1. B \subseteq SUBSET S
        OBVIOUS
    <2> HIDE DEF B
    <2> QED
        BY <2>1, MinimalSubset
<1>2. X # {} /\ X \in SUBSET S
    BY <1>1
<1>3. X \ {c[X]} \subseteq X /\ X \ {c[X]} # X
    BY <1>2
<1> QED
    BY <1>1, <1>2, <1>3

(* The largest of some numbers is one of them. *)
LEMMA MaxOf ==
    ASSUME NEW n \in Nat, NEW X \in SUBSET (1..n), X # {}
    PROVE  Max(X) \in X
<1> DEFINE S == 1..n
           Top(Y) == \E x \in Y : \A y \in Y : x >= y
           B == {Y \in SUBSET S : Y # {} /\ ~Top(Y)}
<1>1. B = {}
    <2> SUFFICES ASSUME B # {} PROVE FALSE
        OBVIOUS
    <2>1. IsFiniteSet(S) /\ B \subseteq SUBSET S
        BY FS_Interval
    <2>2. PICK Y \in B : \A Z \in B : Z \subseteq Y => Z = Y
        <3> HIDE DEF B, S
        <3> QED
            BY <2>1, MinimalSubset
    <2>3. PICK x \in Y : TRUE
        OBVIOUS
    <2> DEFINE Z == Y \ {x}
    <2>4. CASE Z = {}
        BY <2>3, <2>4
    <2>5. CASE Z # {}
        <3>1. Z \in SUBSET S /\ Z # Y /\ Z \subseteq Y
            BY <2>3
        <3>2. Z \notin B
            BY <2>2, <3>1
        <3>3. Top(Z)
            <4> HIDE DEF Top, Z
            <4> QED
                BY <2>5, <3>1, <3>2
        <3>4. PICK z \in Z : \A y \in Z : z >= y
            BY <3>3
        <3>5. x \in Nat /\ z \in Nat /\ Y \subseteq Nat
            OBVIOUS
        <3>6. \A y \in Y : y = x \/ z >= y
            BY <3>4
        <3>7. Top(Y)
            <4>1. CASE x >= z
                BY <2>3, <3>5, <3>6, <4>1
            <4>2. CASE z >= x
                BY <3>4, <3>5, <3>6, <4>2
            <4> QED
                BY <3>5, <4>1, <4>2
        <3> QED
            BY <3>7
    <2> QED
        BY <2>4, <2>5
<1>2. Top(X)
    BY <1>1
<1> QED
    BY <1>2 DEF Max

-------------------------------------------------------------------------------
(* The state. *)

(* Home, too, exists unless it was removed. *)
HomeExists == Home \in dirs \cup removed

(* What was made and not removed since is still in the session.             *)
MadeIsKept == made \subseteq DOMAIN fs \cup dirs

(* A line with a failed segment is over. *)
FailedIsOver == failed => pc # "run"

Inv == CwdExists /\ HomeExists /\ MadeIsKept /\ PanicsExplained /\ FailedIsOver

-------------------------------------------------------------------------------
(* Paths.  Clean is a fold; it never leaves an empty component.              *)

Blank == ""

(* What a path is made of: strings, of which the provers are told these two. *)
Names == STRING \cup {Blank, "root"}
Component == Names \ {Blank}

(* A clean absolute path. *)
IsClean(p) ==
    /\ p \in Seq(Names) /\ Len(p) >= 2 /\ p[1] = Blank
    /\ p = Root \/ \A i \in 2..Len(p) : p[i] # Blank

(* What is left of the components of a path when "." and ".." are gone. *)
Steps(full, p) == FoldLeft(LAMBDA a, c : Enter(full, a, c), <<>>, p)

(* The definitions that spell out the empty component, without it. *)
LEMMA AbsoluteForm == \A p : Absolute(p) <=> Len(p) > 1 /\ p[1] = Blank
BY Zenon DEF Absolute, Blank

LEMMA CleanForm ==
    ASSUME NEW p, Absolute(p)
    PROVE  Clean(p) = LET s == Steps(Absolute(p), p)
                      IN <<Blank>> \o (IF s = <<>> THEN <<Blank>> ELSE s)
BY Zenon DEF Clean, Steps, Blank

LEMMA EnterForm ==
    ASSUME NEW full, NEW a, NEW c
    PROVE  \/ Enter(full, a, c) = a
           \/ a # <<>> /\ Enter(full, a, c) = Front(a)
           \/ c # Blank /\ Enter(full, a, c) = Append(a, c)
BY Zenon DEF Enter, Blank

LEMMA BelowForm ==
    ASSUME NEW d, d # Root, NEW S, NEW p \in S, Len(p) > Len(d),
           SubSeq(p, 1, Len(d)) = d, p[Len(d) + 1] # Blank
    PROVE  p[Len(d) + 1] \in Below(d, S)
BY Zenon DEF Below, Blank

LEMMA FixedPaths ==
    Blank \in Names /\ Root = <<Blank, Blank>> /\ IsClean(Root) /\ IsClean(Home)
<1> DEFINE r == "root"
<1>1. Root = <<Blank, Blank>> /\ Blank \in Names /\ r \in Names
    BY Zenon DEF Root, Blank, Names
<1>2. Home = <<Blank, r>> /\ r # Blank
    BY Zenon DEF Home, Blank
<1> HIDE DEF r
<1> QED
    BY <1>1, <1>2 DEF IsClean

LEMMA TwoOf == ASSUME NEW N, NEW b \in N PROVE <<b>> \o <<b>> = <<b, b>>
<1> DEFINE q == <<b>> \o <<b>>
           r == <<b, b>>
<1>1. q \in Seq(N) /\ Len(q) = 2 /\ q[1] = b /\ q[2] = b
    OBVIOUS
<1>2. r \in Seq(N) /\ Len(r) = 2 /\ r[1] = b /\ r[2] = b
    OBVIOUS
<1> HIDE DEF q, r
<1>3. Len(q) = Len(r) /\ \A i \in 1..Len(q) : q[i] = r[i]
    BY <1>1, <1>2
<1>4. q = r
    BY Zenon, <1>1, <1>2, <1>3, SeqEqual
<1> QED
    BY <1>4 DEF q, r

LEMMA LongIsNotRoot ==
    ASSUME NEW p, Len(p) > 2
    PROVE  p # Root
<1>1. p = Root => Len(p) = 2
    BY FixedPaths
<1>2. ~(2 > 2)
    OBVIOUS
<1> QED
    BY Zenon, <1>1, <1>2

LEMMA StepsNamed ==
    ASSUME NEW p \in Seq(Names), NEW full
    PROVE  Steps(full, p) \in Seq(Component)
<1> DEFINE S == DOMAIN p
           W == Component
           V == Seq(W)
           c == [X \in SUBSET S |-> Max(X)]
           h == [i \in S |-> [a \in V |-> Enter(full, a, p[i])]]
           Def(iter) == iter = [s \in SUBSET S |->
               IF s = {} THEN <<>> ELSE Enter(full, iter[s \ {Max(s)}], p[Max(s)])]
           it == CHOOSE iter : Def(iter)
<1>1. Steps(full, p) = it[S]
    BY DEF Steps, FoldLeft, MapThenFoldSet
<1>2. /\ IsFiniteSet(S) /\ <<>> \in V
      /\ \A X \in SUBSET S : X # {} => Max(X) \in X /\ c[X] = Max(X)
    <2>1. Len(p) \in Nat /\ S = 1..Len(p)
        OBVIOUS
    <2>2. IsFiniteSet(S)
        BY <2>1, FS_Interval
    <2>3. \A X \in SUBSET S : X # {} => Max(X) \in X
        BY <2>1, MaxOf
    <2>4. <<>> \in V
        BY EmptySeq
    <2>5. \A X \in SUBSET S : X # {} => c[X] = Max(X)
        <3> HIDE DEF S
        <3> QED
            OBVIOUS
    <2> QED
        BY <2>2, <2>3, <2>4, <2>5
<1>3. \A x \in S : h[x] \in [V -> V]
    <2> SUFFICES ASSUME NEW x \in S, NEW a \in V PROVE Enter(full, a, p[x]) \in V
        OBVIOUS
    <2> HIDE DEF h, c, it, Def, W
    <2>1. p[x] \in Names
        OBVIOUS
    <2>2. a # <<>> => Front(a) \in V
        <3> SUFFICES ASSUME a # <<>> PROVE SubSeq(a, 1, Len(a) - 1) \in V
            BY DEF Front
        <3>1. Len(a) \in Nat /\ Len(a) # 0
            BY EmptySeq
        <3>2. Len(a) - 1 \in 0 .. Len(a)
            BY <3>1
        <3> QED
            BY <3>1
    <2>3. p[x] # Blank => Append(a, p[x]) \in V
        <3>1. p[x] # Blank => p[x] \in W
            BY <2>1 DEF W, Component
        <3>2. p[x] \in W => Append(a, p[x]) \in V
            BY AppendProperties
        <3> QED
            BY <3>1, <3>2
    <2> DEFINE e == Enter(full, a, p[x])
    <2>4. \/ e = a
          \/ a # <<>> /\ e = Front(a)
          \/ p[x] # Blank /\ e = Append(a, p[x])
        BY Zenon, EnterForm
    <2> HIDE DEF e, V
    <2>5. e \in V
        BY <2>2, <2>3, <2>4
    <2> QED
        BY <2>5 DEF e
<1>4. PICK g : Recurs(g, S, V, <<>>, c, h)
    <2> HIDE DEF S, V, c, h
    <2> QED
        BY <1>2, <1>3, RecursExists
<1>5. Def(g)
    <2> DEFINE f == [s \in SUBSET S |->
               IF s = {} THEN <<>> ELSE Enter(full, g[s \ {Max(s)}], p[Max(s)])]
    <2>1. ASSUME NEW X \in SUBSET S, X # {}
          PROVE  g[X] = Enter(full, g[X \ {Max(X)}], p[Max(X)])
        <3>1. g[X] = h[c[X]][g[X \ {c[X]}]] /\ g[X \ {c[X]}] \in V
            <4> HIDE DEF S, V, c, h
            <4> QED
                BY <1>4, <2>1 DEF Recurs
        <3> QED
            BY <1>2, <2>1, <3>1
    <2>2. g \in [SUBSET S -> V] /\ g[{}] = <<>>
        BY <1>4 DEF Recurs
    <2>3. \A X \in SUBSET S : g[X] = f[X]
        <3> HIDE DEF S, V
        <3> QED
            BY <2>1, <2>2
    <2> QED
        <3> HIDE DEF S, V
        <3> QED
          BY <2>2, <2>3
<1>6. Def(it)
    <2> HIDE DEF Def
    <2> QED
        BY <1>5
<1>7. \A X \in SUBSET S : it[X] \in V
    <2>1. it[{}] \in V
        BY <1>2, <1>6
    <2>2. ASSUME NEW X \in SUBSET S, X # {}, it[X \ {c[X]}] \in V PROVE it[X] \in V
        <3>1. it[X] = Enter(full, it[X \ {c[X]}], p[c[X]])
            <4> HIDE DEF it
            <4> QED
                BY <1>2, <1>6, <2>2
        <3>2. c[X] \in S
            BY <1>2, <2>2
        <3>3. h[c[X]][it[X \ {c[X]}]] = Enter(full, it[X \ {c[X]}], p[c[X]])
            <4> DEFINE y == c[X]
                       a == it[X \ {c[X]}]
            <4>1. y \in S /\ a \in V
                BY <2>2, <3>2
            <4> HIDE DEF it, V, c, S, y, a
            <4>2. h[y][a] = Enter(full, a, p[y])
                BY <4>1
            <4> QED
                BY <4>2 DEF y, a
        <3> QED
            <4> HIDE DEF it, h, V, c
            <4> QED
                BY <1>3, <2>2, <3>1, <3>2, <3>3
    <2>3. \A X \in SUBSET S : X # {} => c[X] \in X
        BY <1>2
    <2> HIDE DEF it, h, V, c, S
    <2> QED
        BY <1>2, <2>1, <2>2, <2>3, RecursType
<1> QED
    BY <1>1, <1>7

LEMMA CleanIsClean ==
    ASSUME NEW p \in Seq(Names), Absolute(p)
    PROVE  IsClean(Clean(p))
<1> DEFINE s == Steps(Absolute(p), p)
<1>1. Clean(p) = <<Blank>> \o (IF s = <<>> THEN <<Blank>> ELSE s)
    BY CleanForm
<1>2. s \in Seq(Component)
    BY StepsNamed
<1> HIDE DEF s
<1>3. CASE s = <<>>
    <2>1. Clean(p) = <<Blank>> \o <<Blank>>
        BY <1>1, <1>3
    <2>2. <<Blank>> \o <<Blank>> = Root
        BY Zenon, TwoOf, FixedPaths
    <2> QED
        BY <2>1, <2>2, FixedPaths
<1>4. CASE s # <<>>
    <2>1. Blank \in Names /\ Component \subseteq Names /\ Blank \notin Component
        BY DEF Names, Component
    <2>2. Len(s) \in Nat /\ Len(s) > 0 /\ \A i \in 1..Len(s) : s[i] \in Component
        BY <1>2, <1>4, EmptySeq
    <2> DEFINE q == <<Blank>> \o s
    <2>3. /\ q \in Seq(Names) /\ Len(q) = Len(s) + 1 /\ q[1] = Blank
          /\ \A i \in 2..Len(q) : q[i] = s[i - 1]
        BY <1>2, <2>1, <2>2
    <2>4. Clean(p) = q
        BY <1>1, <1>4
    <2> HIDE DEF q
    <2>5. \A i \in 2..Len(q) : q[i] # Blank
        BY <2>1, <2>2, <2>3
    <2> QED
        BY <2>2, <2>3, <2>4, <2>5 DEF IsClean
<1> QED
    BY <1>3, <1>4

LEMMA ResolveIsClean ==
    ASSUME IsClean(cwd), NEW a \in Seq(Names)
    PROVE  IsClean(Resolve(a))
<1>1. CASE Absolute(a)
    BY <1>1, CleanIsClean, FixedPaths DEF Resolve
<1>2. CASE ~Absolute(a)
    <2>1. cwd \in Seq(Names) /\ Len(cwd) >= 2 /\ cwd[1] = Blank
        BY DEF IsClean
    <2> DEFINE q == cwd \o a
    <2>2. q \in Seq(Names) /\ Len(q) > 1 /\ q[1] = Blank
        BY <2>1
    <2> HIDE DEF q
    <2>3. Absolute(q)
        BY <2>2, AbsoluteForm
    <2> QED
        BY <1>2, <2>2, <2>3, CleanIsClean, FixedPaths DEF Resolve, q
<1> QED
    BY <1>1, <1>2

LEMMA ParentIsClean ==
    ASSUME NEW p, IsClean(p)
    PROVE  IsClean(Parent(p))
<1>1. CASE Len(p) <= 2
    BY <1>1, FixedPaths DEF Parent
<1>2. CASE Len(p) > 2
    <2>1. p # Root
        BY <1>2, LongIsNotRoot
    <2>2. Parent(p) = SubSeq(p, 1, Len(p) - 1)
        BY <1>2 DEF Parent, Front, IsClean
    <2> QED
        BY <1>2, <2>1, <2>2 DEF IsClean
<1> QED
    BY <1>1, <1>2 DEF IsClean

(* cat and cd take a clean path of the session, and ls of its directory      *)
(* shows it.                                                                *)
LEMMA CleanIsFound ==
    ASSUME NEW p \in DOMAIN fs \cup dirs, IsClean(p)
    PROVE  Found(p)
<1>1. CASE Len(p) <= 2
    BY <1>1 DEF Found, Parent
<1>2. CASE Len(p) > 2
    <2> DEFINE n == Len(p) - 1
               d == SubSeq(p, 1, n)
    <2>1. Len(Root) = 2 /\ Root[2] = Blank
        BY FixedPaths
    <2>2. p \in Seq(Names) /\ \A i \in 2..Len(p) : p[i] # Blank
        BY <1>2, LongIsNotRoot DEF IsClean
    <2>3. Parent(p) = d /\ Last(p) = p[n + 1]
        BY <1>2, <2>2 DEF Parent, Front, Last
    <2>4. Len(d) = n /\ Len(p) > n /\ d[2] = p[2]
        BY <1>2, <2>2
    <2>5. p[2] # Blank /\ p[n + 1] # Blank
        BY <1>2, <2>2
    <2> HIDE DEF n
    <2>6. SubSeq(p, 1, Len(d)) = d
        BY <2>4
    <2> HIDE DEF d
    <2>7. d # Root
        BY <2>1, <2>4, <2>5
    <2>8. \A S : p \in S => p[Len(d) + 1] \in Below(d, S)
        BY <2>4, <2>5, <2>6, <2>7, BelowForm
    <2> QED
        BY <2>3, <2>4, <2>8 DEF Found, SessionLS
<1> QED
    BY <1>1, <1>2 DEF IsClean

(* However a segment or a stage ends, only dispatch's own state moves.       *)
LEMMA EndSegmentOver ==
    ASSUME NEW o, NEW e, EndSegment(o, e)
    PROVE  FailedIsOver' /\ (pc' = pc \/ pc' = "prompt")
BY DEF EndSegment, FailedIsOver

LEMMA FinishOver ==
    ASSUME NEW o, NEW e, FailedIsOver, Finish(o, e), pc = "run"
    PROVE  FailedIsOver' /\ pc' # "panic"
<1>1. CASE Len(segs[1]) > 1
    BY <1>1 DEF Finish, FailedIsOver
<1>2. CASE ~(Len(segs[1]) > 1)
    BY <1>2, EndSegmentOver DEF Finish
<1> QED
    BY <1>1, <1>2

(* The line count of the stage that runs is a matter of what is left to run. *)
LEMMA SegsKeepCount == NegativeCount /\ UNCHANGED segs => NegativeCount'
BY DEF NegativeCount, Counts, Option, Stage

LEMMA InitInv == Init => Inv
BY DEF Init, Inv, CwdExists, HomeExists, MadeIsKept, PanicsExplained, FailedIsOver,
       FakeDirs

LEMMA NextInv == Inv /\ [Next]_vars => Inv'
<1> SUFFICES ASSUME Inv, [Next]_vars PROVE Inv'
    OBVIOUS
<1> USE DEF Inv, CwdExists, HomeExists, MadeIsKept, PanicsExplained
<1>1. ASSUME NEW l \in Line, StartLine(l) PROVE Inv'
    BY <1>1 DEF StartLine, FailedIsOver, sessionVars, history
<1>2. CASE SkipStage
    BY <1>2, FinishOver DEF SkipStage, Running, sessionVars, history
<1>3. CASE NotFound
    BY <1>3, FinishOver, EndSegmentOver DEF NotFound, Running, sessionVars, history
<1>4. CASE Redispatch
    BY <1>4 DEF Redispatch, FailedIsOver, sessionVars, history
<1>5. CASE Cd
    <2> DEFINE target == IF Stage.args = <<>> THEN Home ELSE Resolve(Stage.args[1])
    <2>1. CASE target \in dirs /\ cwd' = target /\ Finish("", 0)
        BY <1>5, <2>1, FinishOver DEF Cd, Running, history
    <2>2. CASE Finish("error", 1) /\ UNCHANGED cwd
        BY <1>5, <2>2, FinishOver DEF Cd, Running, history
    <2>3. CASE target \notin dirs /\ Stage.args = <<>> /\ Panic /\ UNCHANGED cwd
        BY <1>5, <2>3 DEF Cd, Panic, FailedIsOver, HomeExists, history
    <2> QED
        BY <1>5, <2>1, <2>2, <2>3 DEF Cd
<1>6. CASE Mkdir
    BY <1>6, FinishOver DEF Mkdir, Running
<1>7. CASE Touch
    BY <1>7, FinishOver DEF Touch, Running
<1>8. CASE Rm
    BY <1>8, FinishOver DEF Rm, Running
<1>9. CASE Ls \/ Echo \/ Noop
    BY <1>9, FinishOver DEF Ls, Echo, Noop, Running, sessionVars, history
<1>10. CASE Cat
    BY <1>10, FinishOver DEF Cat, Running, sessionVars, history
<1>11. CASE CrontabInstall \/ CrontabRemove
    BY <1>11, FinishOver DEF CrontabInstall, CrontabRemove, Running, history
<1>12. CASE CrontabList
    BY <1>12, FinishOver DEF CrontabList, Running, sessionVars, history
<1>13. CASE GrepCmd \/ SortCmd \/ AwkCmd
    BY <1>13, FinishOver DEF GrepCmd, SortCmd, AwkCmd, Running, sessionVars, history
<1>14. CASE HeadCmd \/ TailCmd
    <2>1. UNCHANGED <<sessionVars, history>>
        BY <1>14 DEF HeadCmd, TailCmd
    <2>2. CASE \E o, e : Finish(o, e)
        BY <1>14, <2>1, <2>2, FinishOver DEF HeadCmd, TailCmd, Running, sessionVars, history
    <2>3. CASE Panic /\ NegativeCount
        BY <2>1, <2>3, SegsKeepCount DEF Panic, FailedIsOver, sessionVars, history
    <2> QED
        BY <1>14, <2>2, <2>3 DEF HeadCmd, TailCmd, NegativeCount, Running
<1>15. ASSUME NEW t \in Target, NEW n \in FileName, Upload(t, n) PROVE Inv'
    BY <1>15 DEF Upload, FailedIsOver
<1>16. CASE UNCHANGED vars
    BY <1>16, SegsKeepCount DEF vars, sessionVars, history, FailedIsOver
<1> QED
    BY <1>1, <1>2, <1>3, <1>4, <1>5, <1>6, <1>7, <1>8, <1>9, <1>10, <1>11, <1>12,
       <1>13, <1>14, <1>15, <1>16 DEF Next, Command

LEMMA InvInvariant == Spec => []Inv
BY InitInv, NextInv, PTL DEF Spec

(* cmd_misc.go:46: the working directory exists, unless rm removed it.       *)
THEOREM CwdStays == Spec => []CwdExists
<1>1. Inv => CwdExists
    BY DEF Inv
<1> QED
    BY InvInvariant, <1>1, PTL

(* cmd_misc.go:52 and cmd_text.go:154, 181: args[0] is read without an        *)
(* argument only after home was removed, and only a negative number of lines  *)
(* cuts out of range; no other command brings the process down.             *)
THEOREM OnlyTwoPanics == Spec => []PanicsExplained
<1>1. Inv => PanicsExplained
    BY DEF Inv
<1> QED
    BY InvInvariant, <1>1, PTL

(* cmd_misc.go:60: mkdir, touch and uploads never make anything else go away. *)
THEOREM MadeStays == Spec => []MadeIsKept
<1>1. Inv => MadeIsKept
    BY DEF Inv
<1> QED
    BY InvInvariant, <1>1, PTL

(* commands.go:283: after a failed segment no command runs. *)
THEOREM FailureStops == Spec => FailureStopsLine
<1>1. Inv /\ [Next]_vars => [failed /\ Command => UNCHANGED sessionVars]_vars
    <2> SUFFICES ASSUME FailedIsOver, failed, Command PROVE FALSE
        BY DEF Inv
    <2>1. pc = "run"
        BY DEF Command, SkipStage, NotFound, Redispatch, Cd, Mkdir, Touch, Rm, Ls, Cat,
               Echo, Noop, HeadCmd, TailCmd, GrepCmd, SortCmd, AwkCmd, CrontabInstall, CrontabList, CrontabRemove, Running
    <2> QED
        BY <2>1 DEF FailedIsOver
<1> QED
    BY InvInvariant, <1>1, PTL DEF Spec, FailureStopsLine

-------------------------------------------------------------------------------
(* What was made is found.  Every path of the session is clean, since its    *)
(* commands only see paths that Resolve made; for that the stages that are   *)
(* still to run are what a line may hold, less the sudos already taken.      *)

Queued ==
    {s \in [cmd : STRING, wraps : Nat, args : {x.args : x \in Stages}] :
        TakesPaths(s) => s.args \in Seq(Seq(STRING))}
Pipeline == Seq(Queued) \ {<<>>}

SegsQueued == segs \in Seq(Pipeline) /\ (pc = "run" => segs # <<>>)
MadeClean == IsClean(cwd) /\ \A p \in made : IsClean(p)
UploadClean(u) == Absolute(u.target) => IsClean(u.path) /\ u.path \in DOMAIN fs
UploadsClean == \A u \in uploads : UploadClean(u)
PathInv == SegsQueued /\ MadeClean /\ UploadsClean

LEMMA StagesQueued == Stages \subseteq Queued
<1> SUFFICES ASSUME NEW s \in Stages PROVE s \in Queued
    OBVIOUS
<1>1. s \in [cmd : STRING, wraps : Nat, args : {s.args}]
    BY StageAssumption
<1>2. s \in [cmd : STRING, wraps : Nat, args : {x.args : x \in Stages}]
    BY <1>1
<1> QED
    BY <1>2, StageAssumption DEF Queued

LEMMA LinesQueued == ASSUME NEW l \in Line PROVE l \in Seq(Pipeline) /\ l # <<>>
<1>1. l \in Seq(Seq(Stages)) /\ l # <<>> /\ \A i \in DOMAIN l : l[i] # <<>>
    BY LineAssumption
<1>2. \A q \in Seq(Stages) : q \in Seq(Queued)
    BY StagesQueued, SeqMonotonic
<1>3. \A i \in 1..Len(l) : l[i] \in Pipeline
    BY <1>1, <1>2 DEF Pipeline
<1>4. l \in Seq(Pipeline)
    <2>1. Len(l) \in Nat /\ l \in [1..Len(l) -> Pipeline]
        BY <1>1, <1>3
    <2> QED
        BY <2>1, SeqDef
<1> QED
    BY <1>1, <1>4

(* The stage that runs. *)
LEMMA StageQueued == SegsQueued /\ pc = "run" => Stage \in Queued
<1> SUFFICES ASSUME SegsQueued, pc = "run" PROVE Stage \in Queued
    OBVIOUS
<1>1. segs \in Seq(Pipeline) /\ Len(segs) > 0
    BY EmptySeq DEF SegsQueued
<1>2. segs[1] \in Seq(Queued) /\ segs[1] # <<>>
    BY <1>1 DEF Pipeline
<1>3. Len(segs[1]) > 0
    BY <1>2, EmptySeq
<1> QED
    BY <1>2, <1>3 DEF Stage

LEMMA EndSegmentQueued ==
    ASSUME NEW o, NEW e, SegsQueued, pc = "run", EndSegment(o, e)
    PROVE  SegsQueued'
<1>1. segs \in Seq(Pipeline) /\ Len(segs) \in Nat /\ segs # <<>>
    BY DEF SegsQueued
<1>2. CASE e = 0 /\ Len(segs) > 1
    <2>1. segs' = Tail(segs) /\ pc' = pc
        BY <1>2 DEF EndSegment
    <2>2. Tail(segs) \in Seq(Pipeline) /\ Len(Tail(segs)) = Len(segs) - 1
        BY <1>1, HeadTailProperties
    <2>3. Tail(segs) # <<>>
        <3> DEFINE t == Tail(segs)
        <3>1. Len(t) > 0
            BY <1>1, <1>2, <2>2
        <3> HIDE DEF t
        <3>2. t # <<>>
            BY <3>1
        <3> QED
            BY <3>2 DEF t
    <2> QED
        BY <2>1, <2>2, <2>3 DEF SegsQueued
<1>3. CASE ~(e = 0 /\ Len(segs) > 1)
    <2>1. segs' = <<>> /\ pc' = "prompt"
        BY <1>3 DEF EndSegment
    <2> QED
        BY <2>1, EmptySeq DEF SegsQueued
<1> QED
    BY <1>2, <1>3

LEMMA FinishQueued ==
    ASSUME NEW o, NEW e, SegsQueued, pc = "run", Finish(o, e)
    PROVE  SegsQueued'
<1>1. segs \in Seq(Pipeline) /\ Len(segs) \in Nat /\ Len(segs) > 0
    BY EmptySeq DEF SegsQueued
<1>2. CASE Len(segs[1]) > 1
    <2> DEFINE t == Tail(segs[1])
    <2>1. segs[1] \in Seq(Queued) /\ segs[1] # <<>>
        BY <1>1 DEF Pipeline
    <2>2. t \in Seq(Queued) /\ Len(t) = Len(segs[1]) - 1 /\ Len(segs[1]) \in Nat
        BY <2>1, HeadTailProperties
    <2>3. t # <<>>
        BY <1>2, <2>2, EmptySeq
    <2>4. t \in Pipeline
        BY <2>2, <2>3 DEF Pipeline
    <2>5. segs' = [segs EXCEPT ![1] = t] /\ pc' = pc
        BY <1>2 DEF Finish
    <2> HIDE DEF t
    <2>6. segs' \in Seq(Pipeline) /\ Len(segs') = Len(segs)
        BY <1>1, <2>4, <2>5, ExceptSeq
    <2> QED
        BY <1>1, <2>6, EmptySeq DEF SegsQueued
<1>3. CASE ~(Len(segs[1]) > 1)
    BY <1>3, EndSegmentQueued DEF Finish
<1> QED
    BY <1>2, <1>3

LEMMA RedispatchQueued ==
    ASSUME SegsQueued, Redispatch
    PROVE  SegsQueued'
<1> DEFINE s == [Stage EXCEPT !.wraps = @ - 1]
           q == [segs[1] EXCEPT ![1] = s]
<1>1. segs \in Seq(Pipeline) /\ Len(segs) \in Nat /\ Len(segs) > 0
    <2>1. pc = "run"
        BY DEF Redispatch
    <2> QED
        BY <2>1, EmptySeq DEF SegsQueued
<1>2. segs[1] \in Seq(Queued) /\ segs[1] # <<>>
    BY <1>1 DEF Pipeline
<1>3. Stage \in Queued /\ Stage.wraps > 0 /\ pc' = pc
    BY StageQueued DEF Redispatch
<1>4. s \in Queued
    <2>1. s.cmd = Stage.cmd /\ s.args = Stage.args
        BY <1>3 DEF Queued
    <2>2. s \in [cmd : STRING, wraps : Nat, args : {x.args : x \in Stages}]
        BY <1>3 DEF Queued
    <2>3. TakesPaths(s) => s.args \in Seq(Seq(STRING))
        BY <1>3, <2>1 DEF Queued, TakesPaths
    <2> QED
        BY <2>2, <2>3 DEF Queued
<1>5. segs' = [segs EXCEPT ![1] = q]
    BY <1>1, <1>2 DEF Redispatch, Stage
<1> HIDE DEF s
<1>6. Len(segs[1]) \in Nat /\ Len(segs[1]) > 0
    BY <1>2, EmptySeq
<1>7. q \in Seq(Queued) /\ Len(q) = Len(segs[1])
    BY <1>2, <1>4, <1>6, ExceptSeq
<1> HIDE DEF q
<1>8. q \in Pipeline
    BY <1>6, <1>7, EmptySeq DEF Pipeline
<1>9. segs' \in Seq(Pipeline) /\ Len(segs') = Len(segs)
    BY <1>1, <1>5, <1>8, ExceptSeq
<1> QED
    BY <1>1, <1>9, EmptySeq DEF SegsQueued

LEMMA NextSegs == SegsQueued /\ [Next]_vars => SegsQueued'
<1> SUFFICES ASSUME SegsQueued, [Next]_vars PROVE SegsQueued'
    OBVIOUS
<1>1. ASSUME NEW l \in Line, StartLine(l) PROVE SegsQueued'
    BY <1>1, LinesQueued DEF StartLine, SegsQueued
<1>2. CASE Redispatch
    BY <1>2, RedispatchQueued
<1>3. CASE NotFound
    BY <1>3, FinishQueued, EndSegmentQueued DEF NotFound, Running
<1>4. CASE SkipStage \/ Mkdir \/ Touch \/ Rm \/ Ls \/ Echo \/ Noop
    BY <1>4, FinishQueued DEF SkipStage, Mkdir, Touch, Rm, Ls, Echo, Noop, Running
<1>5. CASE GrepCmd \/ SortCmd \/ AwkCmd \/ CrontabInstall \/ CrontabList \/ CrontabRemove
    BY <1>5, FinishQueued
       DEF GrepCmd, SortCmd, AwkCmd, CrontabInstall, CrontabList, CrontabRemove, Running
<1>6. CASE Cat
    BY <1>6, FinishQueued DEF Cat, Running
<1>7. CASE Cd \/ HeadCmd \/ TailCmd
    <2>1. pc = "run" /\ (Panic \/ \E o, e : Finish(o, e))
        BY <1>7 DEF Cd, HeadCmd, TailCmd, Running
    <2>2. CASE Panic
        BY <2>1, <2>2 DEF Panic, SegsQueued
    <2> QED
        BY <2>1, <2>2, FinishQueued
<1>8. CASE UNCHANGED segs /\ UNCHANGED pc
    BY <1>8 DEF SegsQueued
<1> QED
    BY <1>1, <1>2, <1>3, <1>4, <1>5, <1>6, <1>7, <1>8 DEF Next, Command, Upload, vars

(* What cd, mkdir and touch make of their arguments. *)
LEMMA ArgsResolve ==
    ASSUME SegsQueued, MadeClean, pc = "run", TakesPaths(Stage), NEW i \in DOMAIN Stage.args
    PROVE  IsClean(Resolve(Stage.args[i]))
<1>1. Stage.args \in Seq(Seq(STRING))
    BY StageQueued DEF Queued
<1>2. Stage.args[i] \in Seq(STRING)
    BY <1>1
<1>3. Stage.args[i] \in Seq(Names)
    BY <1>2, SeqMonotonic DEF Names
<1> QED
    BY <1>3, ResolveIsClean DEF MadeClean

LEMMA InitPaths == Init => PathInv
<1> SUFFICES ASSUME Init PROVE PathInv
    OBVIOUS
<1>1. cwd = Home /\ made = {} /\ uploads = {} /\ segs = <<>> /\ pc = "prompt"
    BY DEF Init
<1>2. SegsQueued
    BY <1>1, EmptySeq DEF SegsQueued
<1> QED
    BY <1>1, <1>2, FixedPaths DEF PathInv, MadeClean, UploadsClean

(* Where no file goes away, an upload is still there. *)
LEMMA UploadsStay ==
    ASSUME UploadsClean, UNCHANGED uploads, DOMAIN fs \subseteq DOMAIN fs'
    PROVE  UploadsClean'
BY DEF UploadsClean, UploadClean

LEMMA UploadIsClean ==
    ASSUME NEW t \in Target, NEW n \in FileName, Absolute(t)
    PROVE  /\ Resolve(t \o <<n>>) = Clean(t \o <<n>>)
           /\ IsClean(Clean(t \o <<n>>))
<1> DEFINE q == t \o <<n>>
<1>1. t \in Seq(Names) /\ n \in Names /\ Len(t) > 1 /\ t[1] = Blank
    BY UploadAssumption, AbsoluteForm, SeqMonotonic DEF Names
<1>2. q \in Seq(Names) /\ Len(q) > 2 /\ q[1] = Blank
    BY <1>1
<1>3. Absolute(q)
    <2> HIDE DEF q
    <2> QED
        BY <1>2, AbsoluteForm
<1> HIDE DEF q
<1>4. IsClean(Clean(q))
    BY <1>2, <1>3, CleanIsClean
<1>5. \A x, y : Len(<<x>>) = 1 /\ Len(<<x, y>>) = 2
    OBVIOUS
<1>6. \A x, y : q # <<x>> /\ q # <<x, y>>
    <2> SUFFICES ASSUME NEW x, NEW y PROVE q # <<x>> /\ q # <<x, y>>
        OBVIOUS
    <2>1. q = <<x>> => Len(q) = 1
        BY Zenon, <1>5
    <2>2. q = <<x, y>> => Len(q) = 2
        BY Zenon, <1>5
    <2>3. Len(q) # 1 /\ Len(q) # 2
        <3>1. \A k \in Nat : k > 2 => k # 1 /\ k # 2
            OBVIOUS
        <3>2. Len(q) \in Nat
            BY <1>2
        <3> QED
            BY Zenon, <1>2, <3>1, <3>2
    <2> QED
        BY Zenon, <2>1, <2>2, <2>3
<1>7. Resolve(q) = Clean(q)
    BY Zenon, <1>3, <1>6 DEF Resolve
<1> QED
    BY <1>4, <1>7 DEF q

LEMMA NextPaths == PathInv /\ [Next]_vars => PathInv'
<1> SUFFICES ASSUME PathInv, [Next]_vars PROVE MadeClean' /\ UploadsClean'
    BY NextSegs DEF PathInv
<1> USE DEF PathInv
<1>1. CASE Cd
    <2>1. cwd' = cwd \/ cwd' = Home \/ (Stage.args # <<>> /\ cwd' = Resolve(Stage.args[1]))
        BY <1>1 DEF Cd
    <2>2. TakesPaths(Stage) /\ pc = "run" /\ UNCHANGED <<fs, history>>
        BY <1>1 DEF Cd, Running, TakesPaths
    <2>3. Stage.args # <<>> => 1 \in DOMAIN Stage.args
        <3>1. Stage.args \in Seq(Seq(STRING))
            BY <2>2, StageQueued DEF Queued
        <3> QED
            BY <3>1, EmptySeq
    <2>4. IsClean(cwd')
        BY <2>1, <2>2, <2>3, ArgsResolve, FixedPaths DEF MadeClean
    <2> QED
        BY <2>2, <2>4, UploadsStay DEF MadeClean, history
<1>2. ASSUME Mkdir \/ Touch PROVE MadeClean' /\ UploadsClean'
    <2> DEFINE new == {Resolve(a) : a \in Args}
    <2>1. TakesPaths(Stage) /\ pc = "run" /\ UNCHANGED <<cwd, uploads>>
        BY <1>2 DEF Mkdir, Touch, Running, TakesPaths
    <2>2. \A p \in new : IsClean(p)
        BY <2>1, ArgsResolve DEF Args, Range
    <2>3. made' \subseteq made \cup new \cup {Parent(p) : p \in new}
        BY <1>2 DEF Mkdir, Touch
    <2>4. \A p \in made' : IsClean(p)
        <3> HIDE DEF new
        <3>1. \A p \in {Parent(q) : q \in new} : IsClean(p)
            BY <2>2, ParentIsClean
        <3> QED
            BY <2>2, <2>3, <3>1 DEF MadeClean
    <2>5. DOMAIN fs \subseteq DOMAIN fs'
        BY <1>2 DEF Mkdir, Touch
    <2> QED
        BY <2>1, <2>4, <2>5, UploadsStay DEF MadeClean
<1>3. CASE Rm
    BY <1>3 DEF Rm, MadeClean, UploadsClean, UploadClean
<1>4. ASSUME NEW t \in Target, NEW n \in FileName, Upload(t, n)
      PROVE  MadeClean' /\ UploadsClean'
    <2> DEFINE u == [target |-> t, path |-> Resolve(t \o <<n>>)]
    <2>1. /\ UNCHANGED <<cwd, made>> /\ uploads' = uploads \cup {u}
          /\ DOMAIN fs' = DOMAIN fs \cup {Clean(t \o <<n>>)}
        BY <1>4 DEF Upload
    <2>2. Absolute(t) => IsClean(u.path) /\ u.path \in DOMAIN fs'
        BY <2>1, UploadIsClean
    <2>3. u.target = t
        OBVIOUS
    <2> HIDE DEF u
    <2>4. \A v \in uploads' :
              Absolute(v.target) => IsClean(v.path) /\ v.path \in DOMAIN fs'
        BY <2>1, <2>2, <2>3 DEF UploadsClean, UploadClean
    <2> QED
        BY <2>1, <2>4 DEF MadeClean, UploadsClean, UploadClean
<1>5. CASE UNCHANGED <<cwd, fs, made, uploads>>
    BY <1>5, UploadsStay DEF MadeClean
<1>6. UNCHANGED vars => UNCHANGED <<cwd, fs, made, uploads>>
    BY DEF vars, sessionVars, history
<1>7. ASSUME NEW l \in Line, StartLine(l) PROVE UNCHANGED <<cwd, fs, made, uploads>>
    BY <1>7 DEF StartLine, sessionVars, history
<1>8. ASSUME Command, ~Cd, ~Mkdir, ~Touch, ~Rm PROVE UNCHANGED <<cwd, fs, made, uploads>>
    BY <1>8 DEF Command, SkipStage, NotFound, Redispatch, Ls, Cat, Echo, Noop, HeadCmd,
       TailCmd, GrepCmd, SortCmd, AwkCmd, CrontabInstall, CrontabList, CrontabRemove,
       sessionVars, history
<1> QED
    BY <1>1, <1>2, <1>3, <1>4, <1>5, <1>6, <1>7, <1>8 DEF Next

(* README.md:372 "mkdir /tmp/x then ls /tmp shows it": what mkdir, touch or an *)
(* upload to an absolute target made is found until it is removed itself,     *)
(* however it was named and wherever cd went since.                         *)
THEOREM MadeIsAlwaysFound == Spec => []MadeIsFound
<1>1. Spec => []PathInv
    BY InitPaths, NextPaths, PTL DEF Spec
<1>2. Inv /\ PathInv => MadeIsFound
    <2> SUFFICES ASSUME MadeIsKept, MadeClean, UploadsClean PROVE MadeIsFound
        BY DEF Inv, PathInv
    <2>1. \A p \in made : Found(p)
        BY CleanIsFound DEF MadeIsKept, MadeClean
    <2>2. \A u \in uploads : Absolute(u.target) => Found(u.path) /\ u.path \in DOMAIN fs
        BY CleanIsFound DEF UploadsClean, UploadClean
    <2> QED
        BY <2>1, <2>2 DEF MadeIsFound
<1> QED
    BY InvInvariant, <1>1, <1>2, PTL
===============================================================================

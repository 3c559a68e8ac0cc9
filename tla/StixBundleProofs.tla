---------------------------- MODULE StixBundleProofs ----------------------------
(***************************************************************************)
(* The bundle that gen_stix_bundle.py writes is closed and its counts are   *)
(* exact, and the families that classify.py writes before it add up to the  *)
(* clusters, for all sessions, mappings and lists of the script.            *)
(***************************************************************************)
EXTENDS StixBundle, FiniteSetTheorems, SequenceTheorems, WellFoundedInduction, TLAPS

-------------------------------------------------------------------------------
(* Finite sets, their sizes and sums of these.                              *)

(* A non-empty set of subsets of a finite set has a minimal element.  This  *)
(* is induction without an operator parameter: the elements are those for   *)
(* which a claim fails, and a minimal one is the first to fail.             *)
LEMMA MinimalSubset ==
    ASSUME NEW S, IsFiniteSet(S), NEW B, B \subseteq SUBSET S, B # {}
    PROVE  \E X \in B : \A Y \in B : Y \subseteq X => Y = X
<1>1. IsWellFoundedOn(StrictSubsetOrdering(S), FiniteSubsetsOf(S))
    BY FS_StrictSubsetOrderingWellFounded
<1>2. B \subseteq FiniteSubsetsOf(S)
    BY FS_FiniteSubsetsOfFinite
<1>3. \E X \in B : \A Y \in B : <<Y, X>> \notin StrictSubsetOrdering(S)
    BY <1>1, <1>2, WFMin
<1> QED
    BY <1>3 DEF StrictSubsetOrdering

(* The values of a function on a finite set. *)
LEMMA FiniteImage ==
    ASSUME NEW f, IsFiniteSet(DOMAIN f)
    PROVE  IsFiniteSet({f[x] : x \in DOMAIN f})
<1> DEFINE T == {f[x] : x \in DOMAIN f}
           g == [x \in DOMAIN f |-> f[x]]
<1>1. g \in Surjection(DOMAIN f, T)
    BY DEF Surjection
<1> QED
    BY <1>1, FS_Surjection

(* An injective f has as many values as arguments. *)
LEMMA InjectiveImage ==
    ASSUME NEW f, IsFiniteSet(DOMAIN f),
           \A x, y \in DOMAIN f : f[x] = f[y] => x = y
    PROVE  /\ IsFiniteSet({f[x] : x \in DOMAIN f})
           /\ Cardinality({f[x] : x \in DOMAIN f}) = Cardinality(DOMAIN f)
<1> DEFINE T == {f[x] : x \in DOMAIN f}
           g == [x \in DOMAIN f |-> f[x]]
<1>1. g \in Bijection(DOMAIN f, T)
    BY DEF Bijection, Injection, Surjection, IsInjective
<1>2. ExistsBijection(DOMAIN f, T)
    BY <1>1 DEF ExistsBijection
<1> QED
    BY <1>2, FS_Bijection

LEMMA PairCount ==
    ASSUME NEW a, NEW b, a # b
    PROVE  IsFiniteSet({a, b}) /\ Cardinality({a, b}) = 2
<1> DEFINE A == {a}
<1>1. A \cup {b} = {a, b} /\ b \notin A
    OBVIOUS
<1>2. IsFiniteSet(A) /\ Cardinality(A) = 1
    BY FS_Singleton
<1> HIDE DEF A
<1>3. IsFiniteSet(A \cup {b}) /\ Cardinality(A \cup {b}) = 2
    BY <1>1, <1>2, FS_AddElement
<1> QED
    BY <1>1, <1>3

LEMMA ImageCount ==
    ASSUME NEW f, NEW D, DOMAIN f = D, IsFiniteSet(D),
           \A x, y \in D : f[x] = f[y] => x = y,
           NEW T, T = {f[x] : x \in D}
    PROVE  IsFiniteSet(T) /\ Cardinality(T) = Cardinality(D)
BY InjectiveImage

(* A sum of the sizes of disjoint sets is the size of their union.          *)
LEMMA SumCount ==
    ASSUME NEW f, IsFiniteSet(DOMAIN f), NEW P,
           \A x \in DOMAIN f : IsFiniteSet(P[x]) /\ f[x] = Cardinality(P[x]),
           \A x, y \in DOMAIN f : x # y => P[x] \cap P[y] = {}
    PROVE  SumFunction(f) = Cardinality(UNION {P[x] : x \in DOMAIN f})
<1> DEFINE S == DOMAIN f
           U(X) == UNION {P[x] : x \in X}
           c == [s \in SUBSET S |-> CHOOSE x \in s : TRUE]
           Def(iter) == iter = [s \in SUBSET S |->
               IF s = {} THEN 0
               ELSE f[CHOOSE x \in s : TRUE] + iter[s \ {CHOOSE x \in s : TRUE}]]
           it == CHOOSE iter : Def(iter)
           g == [s \in SUBSET S |-> Cardinality(U(s))]
<1>1. SumFunction(f) = it[S]
    BY DEF SumFunction, SumFunctionOnSet, FoldFunctionOnSet, MapThenFoldSet
<1>2. \A X \in SUBSET S : X # {} => c[X] \in X
    OBVIOUS
<1>3. \A X \in SUBSET S : IsFiniteSet(U(X))
    <2> SUFFICES ASSUME NEW X \in SUBSET S PROVE IsFiniteSet(U(X))
        OBVIOUS
    <2> DEFINE q == [x \in X |-> P[x]]
               T == {q[x] : x \in DOMAIN q}
    <2>1. IsFiniteSet(DOMAIN q)
        BY FS_Subset
    <2>2. IsFiniteSet(T)
        <3> HIDE DEF q
        <3> QED
            BY <2>1, FiniteImage
    <2>3. U(X) = UNION T /\ \A Y \in T : IsFiniteSet(Y)
        OBVIOUS
    <2> HIDE DEF T, U
    <2> QED
        BY <2>2, <2>3, FS_UNION
<1>4. ASSUME NEW X \in SUBSET S, NEW y \in X
      PROVE  Cardinality(U(X)) = f[y] + Cardinality(U(X \ {y}))
    <2> DEFINE V == U(X \ {y})
    <2>1. U(X) = V \cup P[y]
        OBVIOUS
    <2>2. V \cap P[y] = {}
        OBVIOUS
    <2>3. IsFiniteSet(V) /\ IsFiniteSet(P[y])
        BY <1>3
    <2> HIDE DEF V
    <2>4. Cardinality(V \cup P[y]) = Cardinality(V) + Cardinality(P[y]) - Cardinality({})
        BY <2>2, <2>3, FS_Union
    <2>5. Cardinality(V) \in Nat /\ Cardinality(P[y]) \in Nat /\ Cardinality({}) = 0
        BY <2>3, FS_CardinalityType, FS_EmptySet
    <2>6. f[y] = Cardinality(P[y])
        OBVIOUS
    <2> HIDE DEF U
    <2>7. Cardinality(U(X)) = f[y] + Cardinality(V)
        BY <2>1, <2>4, <2>5, <2>6
    <2> QED
        BY <2>7 DEF V
<1>5. g[{}] = 0
    <2>1. U({}) = {}
        OBVIOUS
    <2> QED
        BY <2>1, FS_EmptySet
<1>6. Def(g)
    <2> DEFINE w == [s \in SUBSET S |->
               IF s = {} THEN 0
               ELSE f[CHOOSE x \in s : TRUE] + g[s \ {CHOOSE x \in s : TRUE}]]
    <2>1. ASSUME NEW X \in SUBSET S PROVE g[X] = w[X]
        <3>1. CASE X = {}
            BY <1>5, <3>1
        <3>2. CASE X # {}
            <4> DEFINE y == CHOOSE x \in X : TRUE
                       V == X \ {y}
            <4>1. y \in X /\ V \in SUBSET S
                BY <3>2
            <4>2. w[X] = f[y] + g[V]
                <5> HIDE DEF g
                <5> QED
                    BY <3>2
            <4>3. g[V] = Cardinality(U(V)) /\ g[X] = Cardinality(U(X))
                BY <4>1
            <4>4. Cardinality(U(X)) = f[y] + Cardinality(U(V))
                <5> HIDE DEF U, S
                <5>1. y \in X
                    BY <4>1
                <5> HIDE DEF y
                <5> QED
                    BY <1>4, <5>1
            <4> QED
                BY <4>2, <4>3, <4>4
        <3> QED
            BY <3>1, <3>2
    <2> HIDE DEF U
    <2> QED
        BY <2>1
<1>7. Def(it)
    <2> HIDE DEF Def
    <2> QED
        BY <1>6
<1>8. it[S] = g[S]
    <2> DEFINE B == {X \in SUBSET S : it[X] # g[X]}
    <2> SUFFICES ASSUME B # {} PROVE FALSE
        OBVIOUS
    <2>1. PICK X \in B : \A Y \in B : Y \subseteq X => Y = X
        <3>1. B \subseteq SUBSET S
            OBVIOUS
        <3> HIDE DEF B
        <3> QED
            BY <3>1, MinimalSubset
    <2> DEFINE y == CHOOSE x \in X : TRUE
               Y == X \ {y}
    <2>2. X # {} /\ X \in SUBSET S
        <3>1. it[{}] = 0
            <4> HIDE DEF it
            <4> QED
                BY <1>7
        <3> HIDE DEF it, g
        <3> QED
            BY <1>5, <3>1
    <2>3. y \in X /\ Y \subseteq X /\ Y # X /\ Y \in SUBSET S
        BY <2>2
    <2>4. it[Y] = g[Y]
        <3> HIDE DEF it, g, Y
        <3> QED
            BY <2>1, <2>3
    <2>5. it[X] = f[y] + it[Y]
        <3> HIDE DEF it
        <3> QED
            BY <1>7, <2>2
    <2>6. g[X] = f[y] + g[Y]
        <3> HIDE DEF g
        <3> QED
            BY <1>6, <2>2
    <2>7. it[X] # g[X]
        <3> HIDE DEF it, g
        <3> QED
            BY <2>1
    <2> HIDE DEF it, g, Y, y
    <2> QED
        BY <2>4, <2>5, <2>6, <2>7
<1>9. g[S] = Cardinality(U(S))
    OBVIOUS
<1> HIDE DEF it, g
<1> QED
    BY <1>1, <1>8, <1>9

-------------------------------------------------------------------------------
(* What classify.py collects is finite, and its families are those of the   *)
(* addresses.                                                               *)

Finite ==
    /\ IsFiniteSet(DOMAIN ip_data)
    /\ \A ip \in DOMAIN ip_data :
           IsFiniteSet(ip_data[ip]) /\ \A s \in ip_data[ip] : IsFiniteSet(s.families)

LEMMA FamilyIdsFinite ==
    ASSUME NEW cid, NEW shape
    PROVE  IsFiniteSet(FamilyIds(cid, shape))
<1>1. \A table, key : IsFiniteSet(Get(table, key))
    BY FS_EmptySet, FS_Singleton DEF Get
<1>2. IsFiniteSet({"F7", "F12"})
    BY PairCount
<1>3. CASE cid = "C08"
    BY <1>1, <1>3 DEF FamilyIds
<1>4. CASE cid = "C14"
    BY <1>2, <1>4 DEF FamilyIds
<1>5. CASE cid # "C08" /\ cid # "C14"
    BY <1>1, <1>5 DEF FamilyIds
<1> QED
    BY <1>3, <1>4, <1>5

LEMMA FamiliesFinite ==
    ASSUME Finite
    PROVE  /\ \A ip \in DOMAIN ip_data : IsFiniteSet(FamiliesOf(ip))
           /\ IsFiniteSet(UNION {FamiliesOf(ip) : ip \in DOMAIN ip_data})
<1>1. ASSUME NEW ip \in DOMAIN ip_data PROVE IsFiniteSet(FamiliesOf(ip))
    <2> DEFINE f == [s \in ip_data[ip] |-> s.families]
               T == {f[s] : s \in DOMAIN f}
    <2>1. IsFiniteSet(DOMAIN f)
        BY DEF Finite
    <2>2. IsFiniteSet(T)
        <3> HIDE DEF f
        <3> QED
            BY <2>1, FiniteImage
    <2>3. \A X \in T : IsFiniteSet(X)
        BY DEF Finite
    <2>4. FamiliesOf(ip) = UNION T
        BY DEF FamiliesOf
    <2> HIDE DEF T
    <2> QED
        BY <2>2, <2>3, <2>4, FS_UNION
<1>2. IsFiniteSet(UNION {FamiliesOf(ip) : ip \in DOMAIN ip_data})
    <2> DEFINE f == [ip \in DOMAIN ip_data |-> FamiliesOf(ip)]
               T == {f[ip] : ip \in DOMAIN f}
    <2>1. IsFiniteSet(DOMAIN f)
        BY DEF Finite
    <2>2. IsFiniteSet(T)
        <3> HIDE DEF f
        <3> QED
            BY <2>1, FiniteImage
    <2>3. \A X \in T : IsFiniteSet(X)
        BY <1>1
    <2>4. UNION {FamiliesOf(ip) : ip \in DOMAIN ip_data} = UNION T
        OBVIOUS
    <2> HIDE DEF T
    <2> QED
        BY <2>2, <2>3, <2>4, FS_UNION
<1> QED
    BY <1>1, <1>2

(* Classifying a session keeps everything finite. *)
LEMMA ClassifyFinite ==
    ASSUME Finite, ClassifySession
    PROVE  Finite'
<1> DEFINE s == Head(todo)
           c == Classified(s)
           known == IF s.ip \in DOMAIN ip_data THEN ip_data[s.ip] ELSE {}
<1>1. IsFiniteSet(c.families)
    BY FamilyIdsFinite DEF Classified
<1> HIDE DEF c
<1>2. IsFiniteSet(known) /\ \A t \in known : IsFiniteSet(t.families)
    BY FS_EmptySet DEF Finite
<1> HIDE DEF known
<1>3. IsFiniteSet(known \cup {c})
    BY <1>2, FS_AddElement
<1>4. ip_data' = [ip \in DOMAIN ip_data \cup {s.ip} |->
                     IF ip = s.ip THEN known \cup {c} ELSE ip_data[ip]]
    BY DEF ClassifySession, known, c
<1>5. IsFiniteSet(DOMAIN ip_data \cup {s.ip})
    BY FS_AddElement DEF Finite
<1> HIDE DEF s
<1> QED
    BY <1>1, <1>2, <1>3, <1>4, <1>5 DEF Finite

(* The addresses of a family, and the families of an address. *)
LEMMA MembersOf ==
    ASSUME Finite, families = Aggregated
    PROVE  /\ IsFiniteSet(DOMAIN families)
           /\ \A fid \in DOMAIN families :
                  Members(fid) = {ip \in DOMAIN ip_data : fid \in FamiliesOf(ip)}
           /\ DOMAIN families = UNION {FamiliesOf(ip) : ip \in DOMAIN ip_data}
<1>1. DOMAIN families = UNION {FamiliesOf(ip) : ip \in DOMAIN ip_data}
    BY DEF Aggregated
<1>2. IsFiniteSet(DOMAIN families)
    BY <1>1, FamiliesFinite
<1>3. ASSUME NEW fid \in DOMAIN families
      PROVE  Members(fid) = {ip \in DOMAIN ip_data : fid \in FamiliesOf(ip)}
    <2> DEFINE I == {i \in DOMAIN ip_data : fid \in FamiliesOf(i)}
               E(ip) == [ip |-> ip, session_count |-> Cardinality(ip_data[ip]),
                         clusters |-> {s.cluster_id : s \in ip_data[ip]}]
    <2>1. families[fid].ips = {E(ip) : ip \in I}
        BY <1>1 DEF Aggregated
    <2>2. \A ip : E(ip).ip = ip
        OBVIOUS
    <2> HIDE DEF E, I
    <2>3. Members(fid) = I
        BY <2>1, <2>2 DEF Members
    <2> QED
        BY <2>3 DEF I
<1> QED
    BY <1>1, <1>2, <1>3

Ips == DOMAIN ip_to_fids

LEMMA IpsOf ==
    ASSUME Finite, families = Aggregated
    PROVE  /\ IsFiniteSet(Ips) /\ Ips \subseteq DOMAIN ip_data
           /\ \A fid \in DOMAIN families : Members(fid) \subseteq Ips /\ IsFiniteSet(Members(fid))
           /\ \A ip \in Ips : ip_to_fids[ip] \subseteq DOMAIN families
           /\ \A ip \in DOMAIN ip_data : \A fid \in DOMAIN families :
                  (ip \in Ips /\ fid \in ip_to_fids[ip])
                      <=> \E s \in ip_data[ip] : fid \in s.families
<1>1. Ips = UNION {Members(fid) : fid \in DOMAIN families}
    BY DEF Ips, ip_to_fids, Members
<1>2. ASSUME NEW ip \in Ips
      PROVE  ip_to_fids[ip] = {fid \in DOMAIN families : ip \in Members(fid)}
    <2>1. \A fid : ip \in Members(fid) <=> \E e \in families[fid].ips : e.ip = ip
        BY DEF Members
    <2>2. ip_to_fids[ip] = {fid \in DOMAIN families : \E e \in families[fid].ips : e.ip = ip}
        BY DEF Ips, ip_to_fids
    <2> QED
        BY <2>1, <2>2
<1>3. Ips \subseteq DOMAIN ip_data
    BY <1>1, MembersOf
<1>4. IsFiniteSet(Ips)
    BY <1>3, FS_Subset DEF Finite
<1>5. \A ip \in DOMAIN ip_data : \A fid : fid \in FamiliesOf(ip)
                                  <=> \E s \in ip_data[ip] : fid \in s.families
    BY DEF FamiliesOf
<1>6. \A fid \in DOMAIN families : Members(fid) \subseteq Ips /\ IsFiniteSet(Members(fid))
    BY <1>1, <1>4, FS_Subset
<1>7. ASSUME NEW ip \in DOMAIN ip_data, NEW fid \in DOMAIN families
      PROVE  (ip \in Ips /\ fid \in ip_to_fids[ip]) <=> fid \in FamiliesOf(ip)
    <2>1. ip \in Members(fid) <=> fid \in FamiliesOf(ip)
        BY MembersOf
    <2> QED
        BY <1>2, <1>6, <2>1
<1> QED
    BY <1>2, <1>3, <1>4, <1>5, <1>6, <1>7

-------------------------------------------------------------------------------
(* The sections: their objects and tallies.                                 *)

Objs(n) == SectionOf(n).objs
Tal(n, type) == IF type \in DOMAIN SectionOf(n).tally THEN SectionOf(n).tally[type] ELSE 0
OfT(objs, type) == {o \in objs : o.id[1] = type}

(* What the sections rely on: see IpsOf. *)
Ready ==
    /\ IsFiniteSet(DOMAIN families) /\ IsFiniteSet(Ips)
    /\ \A fid \in DOMAIN families : Members(fid) \subseteq Ips /\ IsFiniteSet(Members(fid))
    /\ \A ip \in Ips : ip_to_fids[ip] \subseteq DOMAIN families

LEMMA SectionObjs ==
    /\ Objs(1) = AttackPatterns /\ Objs(2) = Addresses /\ Objs(3) = Indicators
    /\ Objs(4) = Relationships /\ Objs(5) = F2Note /\ Objs(6) = Worm
    /\ Objs(7) = F10Binaries /\ Objs(8) = F10C2 /\ Objs(9) = F5C2
    /\ Objs(10) = F11C2 /\ Objs(11) = F14Probes /\ Objs(12) = FeedbackNote
BY DEF Objs, SectionOf, Each, Adds

(* A section of one type is tallied by its size. *)
LEMMA EachTally ==
    ASSUME NEW n, NEW objs, NEW t, SectionOf(n) = Each(objs, t), IsFiniteSet(objs),
           \A o \in objs : o.id[1] = t, NEW type
    PROVE  IsFiniteSet(OfT(Objs(n), type)) /\ Cardinality(OfT(Objs(n), type)) = Tal(n, type)
<1>1. Objs(n) = objs /\ Tal(n, type) = IF type = t THEN Cardinality(objs) ELSE 0
    BY DEF Objs, Tal, Each, Adds, Tally
<1>2. CASE type = t
    <2>1. OfT(objs, type) = objs
        BY <1>2 DEF OfT
    <2> QED
        BY <1>1, <1>2, <2>1
<1>3. CASE type # t
    <2>1. OfT(objs, type) = {}
        BY <1>3 DEF OfT
    <2> QED
        BY <1>1, <1>3, <2>1, FS_EmptySet
<1> QED
    BY <1>2, <1>3

LEMMA EachSections ==
    ASSUME Ready
    PROVE  \A n \in {1, 2, 3, 4, 5, 12} : \A type :
               /\ IsFiniteSet(OfT(Objs(n), type))
               /\ Cardinality(OfT(Objs(n), type)) = Tal(n, type)
<1>1. SectionOf(1) = Each(AttackPatterns, "attack-pattern")
      /\ SectionOf(2) = Each(Addresses, "ipv4-addr")
      /\ SectionOf(3) = Each(Indicators, "indicator")
      /\ SectionOf(4) = Each(Relationships, "relationship")
      /\ SectionOf(5) = Each(F2Note, "note")
      /\ SectionOf(12) = Each(FeedbackNote, "note")
    BY DEF SectionOf
<1>2. \A o \in AttackPatterns : o.id[1] = "attack-pattern"
    BY DEF AttackPatterns, Object
<1>3. \A o \in Addresses : o.id[1] = "ipv4-addr"
    BY DEF Addresses, Object
<1>4. \A o \in Indicators : o.id[1] = "indicator"
    BY DEF Indicators, Object
<1>5. \A o \in Relationships : o.id[1] = "relationship"
    BY DEF Relationships, Link, Object
<1>6. \A o \in F2Note \cup FeedbackNote : o.id[1] = "note"
    BY DEF F2Note, FeedbackNote, Object
<1>7. IsFiniteSet(F2Note) /\ IsFiniteSet(FeedbackNote)
    BY FS_Singleton DEF F2Note, FeedbackNote
<1>8. IsFiniteSet(AttackPatterns)
    <2> DEFINE f == [fid \in DOMAIN families |-> Object(<<"attack-pattern", fid>>, {})]
    <2>1. AttackPatterns = {f[x] : x \in DOMAIN f} /\ IsFiniteSet(DOMAIN f)
        BY DEF AttackPatterns, Ready
    <2> HIDE DEF f
    <2> QED
        BY <2>1, FiniteImage
<1>9. IsFiniteSet(Addresses)
    <2> DEFINE f == [ip \in Ips |-> Object(<<"ipv4-addr", ip>>, {})]
    <2>1. Addresses = {f[x] : x \in DOMAIN f} /\ IsFiniteSet(DOMAIN f)
        BY DEF Addresses, Ready, Ips
    <2> HIDE DEF f
    <2> QED
        BY <2>1, FiniteImage
<1>10. IsFiniteSet(Indicators)
    <2> DEFINE f == [ip \in Ips |-> Object(<<"indicator", ip>>, {})]
    <2>1. Indicators = {f[x] : x \in DOMAIN f} /\ IsFiniteSet(DOMAIN f)
        BY DEF Indicators, Ready, Ips
    <2> HIDE DEF f
    <2> QED
        BY <2>1, FiniteImage
<1>11. IsFiniteSet(Memberships)
    <2>1. Memberships \subseteq Ips \X DOMAIN families
        BY DEF Memberships, Ready, Ips
    <2>2. IsFiniteSet(Ips \X DOMAIN families)
        BY FS_Product DEF Ready
    <2> QED
        BY <2>1, <2>2, FS_Subset
<1>12. IsFiniteSet(Relationships)
    <2> DEFINE f == [m \in Memberships |->
               Link(<<"relationship", "ind-to-ap", m[1], m[2]>>, Ind(m[1]), Ap(m[2]))]
    <2>1. Relationships = {f[x] : x \in DOMAIN f} /\ IsFiniteSet(DOMAIN f)
        BY <1>11 DEF Relationships
    <2> HIDE DEF f
    <2> QED
        BY <2>1, FiniteImage
<1>13. SUFFICES ASSUME NEW n \in {1, 2, 3, 4, 5, 12}, NEW type
                PROVE  /\ IsFiniteSet(OfT(Objs(n), type))
                       /\ Cardinality(OfT(Objs(n), type)) = Tal(n, type)
    OBVIOUS
<1>14. CASE n = 1
    BY <1>1, <1>2, <1>8, <1>14, EachTally
<1>15. CASE n = 2
    BY <1>1, <1>3, <1>9, <1>15, EachTally
<1>16. CASE n = 3
    BY <1>1, <1>4, <1>10, <1>16, EachTally
<1>17. CASE n = 4
    BY <1>1, <1>5, <1>12, <1>17, EachTally
<1>18. CASE n = 5
    BY <1>1, <1>6, <1>7, <1>18, EachTally
<1>19. CASE n = 12
    BY <1>1, <1>6, <1>7, <1>19, EachTally
<1> QED
    BY <1>14, <1>15, <1>16, <1>17, <1>18, <1>19

(* What three objects for each of a list are. *)
LEMMA ThreeEach ==
    ASSUME NEW S, NEW f, NEW g, NEW h
    PROVE  UNION {{f[x], g[x], h[x]} : x \in S}
               = {f[x] : x \in S} \cup {g[x] : x \in S} \cup {h[x] : x \in S}
OBVIOUS

LEMMA F10Tally ==
    ASSUME NEW type
    PROVE  IsFiniteSet(OfT(Objs(7), type)) /\ Cardinality(OfT(Objs(7), type)) = Tal(7, type)
<1> DEFINE S == F10_BINARIES
           file == [b \in S |-> Object(<<"file", b>>, {})]
           malware == [b \in S |-> Object(<<"malware", "F10", b>>, {<<"file", b>>})]
           link == [b \in S |-> Link(<<"relationship", "f10-mal-uses-ap", b>>,
                                     <<"malware", "F10", b>>, Ap("F10"))]
<1>1. F10Binaries = {file[b] : b \in S} \cup {malware[b] : b \in S} \cup {link[b] : b \in S}
    <2>1. F10Binaries = UNION {{file[b], malware[b], link[b]} : b \in S}
        BY DEF F10Binaries
    <2> HIDE DEF file, malware, link
    <2> QED
        BY <2>1, ThreeEach
<1>2. \A b \in S : file[b].id = <<"file", b>> /\ malware[b].id = <<"malware", "F10", b>>
                   /\ link[b].id = <<"relationship", "f10-mal-uses-ap", b>>
    BY DEF Object, Link
<1>3. IsFiniteSet(S)
    BY ListsAssumption
<1>4. Tal(7, type) = IF type \in {"file", "malware", "relationship"} THEN Cardinality(S) ELSE 0
    BY DEF Tal, SectionOf, Adds, Tally
<1>5. Objs(7) = F10Binaries
    BY SectionObjs
<1> HIDE DEF file, malware, link
<1>6. \A b \in S : file[b].id[1] = "file" /\ malware[b].id[1] = "malware"
                   /\ link[b].id[1] = "relationship"
    BY <1>2
<1>7. CASE type = "file"
    <2>1. OfT(F10Binaries, type) = {file[b] : b \in S}
        BY <1>1, <1>6, <1>7 DEF OfT
    <2>2. \A x, y \in S : file[x] = file[y] => x = y
        BY <1>2
    <2>3. DOMAIN file = S
        BY DEF file
    <2> QED
        BY <1>3, <1>4, <1>5, <1>7, <2>1, <2>2, <2>3, ImageCount
<1>8. CASE type = "malware"
    <2>1. OfT(F10Binaries, type) = {malware[b] : b \in S}
        BY <1>1, <1>6, <1>8 DEF OfT
    <2>2. \A x, y \in S : malware[x] = malware[y] => x = y
        BY <1>2
    <2>3. DOMAIN malware = S
        BY DEF malware
    <2> QED
        BY <1>3, <1>4, <1>5, <1>8, <2>1, <2>2, <2>3, ImageCount
<1>9. CASE type = "relationship"
    <2>1. OfT(F10Binaries, type) = {link[b] : b \in S}
        BY <1>1, <1>6, <1>9 DEF OfT
    <2>2. \A x, y \in S : link[x] = link[y] => x = y
        BY <1>2
    <2>3. DOMAIN link = S
        BY DEF link
    <2> QED
        BY <1>3, <1>4, <1>5, <1>9, <2>1, <2>2, <2>3, ImageCount
<1>10. CASE type \notin {"file", "malware", "relationship"}
    <2>1. OfT(F10Binaries, type) = {}
        BY <1>1, <1>6, <1>10 DEF OfT
    <2> QED
        BY <1>4, <1>5, <1>10, <2>1, FS_EmptySet
<1> QED
    BY <1>7, <1>8, <1>9, <1>10

LEMMA C2Count ==
    ASSUME NEW S, IsFiniteSet(S), NEW fid, NEW type,
           NEW objs, objs = UNION {C2(ip, fid) : ip \in S}
    PROVE  /\ IsFiniteSet(OfT(objs, type))
           /\ Cardinality(OfT(objs, type)) =
                  IF type \in {"ipv4-addr", "indicator", "relationship"} THEN Cardinality(S) ELSE 0
<1> DEFINE addr == [ip \in S |-> Object(<<"ipv4-addr", ip>>, {})]
           ind == [ip \in S |-> Object(<<"indicator", "c2", ip, fid>>, {})]
           link == [ip \in S |-> Link(<<"relationship", "c2-ind-to-ap", ip, fid>>,
                                      <<"indicator", "c2", ip, fid>>, Ap(fid))]
<1>1. objs = {addr[b] : b \in S} \cup {ind[b] : b \in S} \cup {link[b] : b \in S}
    <2>1. objs = UNION {{addr[b], ind[b], link[b]} : b \in S}
        BY DEF C2
    <2> HIDE DEF addr, ind, link
    <2> QED
        BY <2>1, ThreeEach
<1>2. \A b \in S : addr[b].id = <<"ipv4-addr", b>> /\ ind[b].id = <<"indicator", "c2", b, fid>>
                   /\ link[b].id = <<"relationship", "c2-ind-to-ap", b, fid>>
    BY DEF Object, Link
<1>3. DOMAIN addr = S /\ DOMAIN ind = S /\ DOMAIN link = S
    OBVIOUS
<1> HIDE DEF addr, ind, link
<1>4. \A b \in S : addr[b].id[1] = "ipv4-addr" /\ ind[b].id[1] = "indicator"
                   /\ link[b].id[1] = "relationship"
    BY <1>2
<1>5. CASE type = "ipv4-addr"
    <2>1. OfT(objs, type) = {addr[b] : b \in S}
        BY <1>1, <1>4, <1>5 DEF OfT
    <2>2. \A x, y \in S : addr[x] = addr[y] => x = y
        BY <1>2
    <2> QED
        BY <1>3, <1>5, <2>1, <2>2, ImageCount
<1>6. CASE type = "indicator"
    <2>1. OfT(objs, type) = {ind[b] : b \in S}
        BY <1>1, <1>4, <1>6 DEF OfT
    <2>2. \A x, y \in S : ind[x] = ind[y] => x = y
        BY <1>2
    <2> QED
        BY <1>3, <1>6, <2>1, <2>2, ImageCount
<1>7. CASE type = "relationship"
    <2>1. OfT(objs, type) = {link[b] : b \in S}
        BY <1>1, <1>4, <1>7 DEF OfT
    <2>2. \A x, y \in S : link[x] = link[y] => x = y
        BY <1>2
    <2> QED
        BY <1>3, <1>7, <2>1, <2>2, ImageCount
<1>8. CASE type \notin {"ipv4-addr", "indicator", "relationship"}
    <2>1. OfT(objs, type) = {}
        BY <1>1, <1>4, <1>8 DEF OfT
    <2> QED
        BY <1>8, <2>1, FS_EmptySet
<1> QED
    BY <1>5, <1>6, <1>7, <1>8

LEMMA C2Tallies ==
    ASSUME NEW n \in {8, 10}, NEW type
    PROVE  IsFiniteSet(OfT(Objs(n), type)) /\ Cardinality(OfT(Objs(n), type)) = Tal(n, type)
<1>1. CASE n = 8
    <2>1. Tal(8, type) = IF type \in {"ipv4-addr", "indicator", "relationship"}
                         THEN Cardinality(F10_C2_IPS) ELSE 0
        BY DEF Tal, SectionOf, Adds, Tally
    <2>2. Objs(8) = UNION {C2(ip, "F10") : ip \in F10_C2_IPS}
        BY SectionObjs DEF F10C2
    <2>3. IsFiniteSet(F10_C2_IPS)
        BY ListsAssumption
    <2> QED
        BY <1>1, <2>1, <2>2, <2>3, C2Count
<1>2. CASE n = 10
    <2>1. Tal(10, type) = IF type \in {"ipv4-addr", "indicator", "relationship"}
                          THEN Cardinality(F11_C2_IPS) ELSE 0
        BY DEF Tal, SectionOf, Adds, Tally
    <2>2. Objs(10) = UNION {C2(ip, "F11") : ip \in F11_C2_IPS}
        BY SectionObjs DEF F11C2
    <2>3. IsFiniteSet(F11_C2_IPS)
        BY ListsAssumption
    <2> QED
        BY <1>2, <2>1, <2>2, <2>3, C2Count
<1> QED
    BY <1>1, <1>2

LEMMA WormTally ==
    ASSUME NEW type, IsFiniteSet(Members("F13"))
    PROVE  IsFiniteSet(OfT(Objs(6), type)) /\ Cardinality(OfT(Objs(6), type)) = Tal(6, type)
<1> DEFINE S == Members("F13")
           file == <<"file", "gJw27HGL">>
           malware == <<"malware", "gJw27HGL">>
           a == Object(file, {})
           b == Object(malware, {file})
           u == Link(<<"relationship", "malware-uses-ap", "F13">>, malware, Ap("F13"))
           link == [ip \in S |-> Link(<<"relationship", "ind-to-malware", ip>>, Ind(ip), malware)]
           L == {link[ip] : ip \in S}
<1>1. Objs(6) = {a, b, u} \cup L
    BY SectionObjs DEF Worm
<1>2. a.id[1] = "file" /\ b.id[1] = "malware" /\ u.id[1] = "relationship"
      /\ u.id[2] = "malware-uses-ap"
    BY DEF Object, Link
<1>3. \A ip \in S : link[ip].id[1] = "relationship" /\ link[ip].id[2] = "ind-to-malware"
                    /\ link[ip].id[3] = ip
    BY DEF Object, Link
<1>4. IsFiniteSet(L) /\ Cardinality(L) = Cardinality(S)
    <2>1. DOMAIN link = S
        OBVIOUS
    <2> HIDE DEF link
    <2>2. \A x, y \in S : link[x] = link[y] => x = y
        BY <1>3
    <2> QED
        BY <2>1, <2>2, ImageCount
<1>5. Tal(6, type) = CASE type = "file" -> 1
                       [] type = "malware" -> 1
                       [] type = "relationship" -> 1 + Cardinality(S)
                       [] OTHER -> 0
    BY DEF Tal, SectionOf, Adds, Tally
<1> HIDE DEF a, b, u, link
<1>6. CASE type = "file"
    <2>1. OfT(Objs(6), type) = {a}
        BY <1>1, <1>2, <1>3, <1>6 DEF OfT
    <2> QED
        BY <1>5, <1>6, <2>1, FS_Singleton
<1>7. CASE type = "malware"
    <2>1. OfT(Objs(6), type) = {b}
        BY <1>1, <1>2, <1>3, <1>7 DEF OfT
    <2> QED
        BY <1>5, <1>7, <2>1, FS_Singleton
<1>8. CASE type = "relationship"
    <2>1. OfT(Objs(6), type) = L \cup {u}
        BY <1>1, <1>2, <1>3, <1>8 DEF OfT
    <2>2. u \notin L
        BY <1>2, <1>3
    <2> HIDE DEF L, S
    <2>3. IsFiniteSet(L \cup {u}) /\ Cardinality(L \cup {u}) = Cardinality(L) + 1
        BY <1>4, <2>2, FS_AddElement
    <2>4. Cardinality(L) \in Nat
        BY <1>4, FS_CardinalityType
    <2> QED
        BY <1>4, <1>5, <1>8, <2>1, <2>3, <2>4
<1>9. CASE type \notin {"file", "malware", "relationship"}
    <2>1. OfT(Objs(6), type) = {}
        BY <1>1, <1>2, <1>3, <1>9 DEF OfT
    <2> QED
        BY <1>5, <1>9, <2>1, FS_EmptySet
<1> QED
    BY <1>6, <1>7, <1>8, <1>9

LEMMA F5Tally ==
    ASSUME NEW type
    PROVE  IsFiniteSet(OfT(Objs(9), type)) /\ Cardinality(OfT(Objs(9), type)) = Tal(9, type)
<1> DEFINE url == <<"indicator", "c2-url", F5_C2_IP, "F5">>
           ind == <<"indicator", "c2", F5_C2_IP, "F5">>
           a == Object(<<"ipv4-addr", F5_C2_IP>>, {})
           b == Object(ind, {})
           c == Link(<<"relationship", "c2-ind-to-ap", F5_C2_IP, "F5">>, ind, Ap("F5"))
           d == Object(<<"url", F5_C2_IP>>, {})
           e == Object(url, {})
           l == Link(<<"relationship", "c2-url-to-ap", F5_C2_IP, "F5">>, url, Ap("F5"))
<1>1. Objs(9) = {a, b, c, d, e, l}
    BY SectionObjs DEF F5C2, C2
<1>2. a.id[1] = "ipv4-addr" /\ d.id[1] = "url" /\ b.id[1] = "indicator" /\ b.id[2] = "c2"
      /\ e.id[1] = "indicator" /\ e.id[2] = "c2-url"
      /\ c.id[1] = "relationship" /\ c.id[2] = "c2-ind-to-ap"
      /\ l.id[1] = "relationship" /\ l.id[2] = "c2-url-to-ap"
    BY DEF Object, Link
<1>3. Tal(9, type) = CASE type = "ipv4-addr" -> 1
                       [] type = "url" -> 1
                       [] type = "indicator" -> 2
                       [] type = "relationship" -> 2
                       [] OTHER -> 0
    BY DEF Tal, SectionOf, Adds, Tally
<1> HIDE DEF a, b, c, d, e, l
<1>4. CASE type = "ipv4-addr"
    <2>1. OfT(Objs(9), type) = {a}
        BY <1>1, <1>2, <1>4 DEF OfT
    <2> QED
        BY <1>3, <1>4, <2>1, FS_Singleton
<1>5. CASE type = "url"
    <2>1. OfT(Objs(9), type) = {d}
        BY <1>1, <1>2, <1>5 DEF OfT
    <2> QED
        BY <1>3, <1>5, <2>1, FS_Singleton
<1>6. CASE type = "indicator"
    <2>1. OfT(Objs(9), type) = {b, e} /\ b # e
        BY <1>1, <1>2, <1>6 DEF OfT
    <2> QED
        BY <1>3, <1>6, <2>1, PairCount
<1>7. CASE type = "relationship"
    <2>1. OfT(Objs(9), type) = {c, l} /\ c # l
        BY <1>1, <1>2, <1>7 DEF OfT
    <2> QED
        BY <1>3, <1>7, <2>1, PairCount
<1>8. CASE type \notin {"ipv4-addr", "url", "indicator", "relationship"}
    <2>1. OfT(Objs(9), type) = {}
        BY <1>1, <1>2, <1>8 DEF OfT
    <2> QED
        BY <1>3, <1>8, <2>1, FS_EmptySet
<1> QED
    BY <1>4, <1>5, <1>6, <1>7, <1>8

LEMMA F14Tally ==
    ASSUME NEW type
    PROVE  IsFiniteSet(OfT(Objs(11), type)) /\ Cardinality(OfT(Objs(11), type)) = Tal(11, type)
<1> DEFINE S == F14_PROBES
           file == [p \in S |-> Object(<<"file", "probe", p>>, {})]
           note == Object(<<"note", "F14">>, {Ap("F14")} \cup {<<"file", "probe", p>> : p \in S})
           L == {file[p] : p \in S}
<1>1. Objs(11) = L \cup {note}
    BY SectionObjs DEF F14Probes
<1>2. note.id[1] = "note" /\ DOMAIN file = S
    BY DEF Object
<1>3. \A p \in S : file[p].id[1] = "file" /\ file[p].id[3] = p
    BY DEF Object
<1>4. Tal(11, type) = CASE type = "file" -> Cardinality(S)
                        [] type = "note" -> 1
                        [] OTHER -> 0
    BY DEF Tal, SectionOf, Adds, Tally
<1> HIDE DEF file, note
<1>5. CASE type = "file"
    <2>1. OfT(Objs(11), type) = L
        BY <1>1, <1>2, <1>3, <1>5 DEF OfT
    <2>2. \A x, y \in S : file[x] = file[y] => x = y
        BY <1>3
    <2>3. IsFiniteSet(S)
        BY ListsAssumption
    <2> QED
        BY <1>2, <1>4, <1>5, <2>1, <2>2, <2>3, ImageCount
<1>6. CASE type = "note"
    <2>1. OfT(Objs(11), type) = {note}
        BY <1>1, <1>2, <1>3, <1>6 DEF OfT
    <2> QED
        BY <1>4, <1>6, <2>1, FS_Singleton
<1>7. CASE type \notin {"file", "note"}
    <2>1. OfT(Objs(11), type) = {}
        BY <1>1, <1>2, <1>3, <1>7 DEF OfT
    <2> QED
        BY <1>4, <1>7, <2>1, FS_EmptySet
<1> QED
    BY <1>5, <1>6, <1>7

(* Every section is tallied right: the counters kept by hand add what it    *)
(* writes of each type.                                                     *)
LEMMA Tallies ==
    ASSUME Ready, NEW n \in 1..12, Needs[n] \subseteq DOMAIN families, NEW type
    PROVE  IsFiniteSet(OfT(Objs(n), type)) /\ Cardinality(OfT(Objs(n), type)) = Tal(n, type)
<1>1. n \in {1, 2, 3, 4, 5, 12} \/ n = 6 \/ n = 7 \/ n \in {8, 10} \/ n = 9 \/ n = 11
    OBVIOUS
<1>2. CASE n \in {1, 2, 3, 4, 5, 12}
    BY <1>2, EachSections
<1>3. CASE n = 6
    <2>1. "F13" \in DOMAIN families
        BY <1>3 DEF Needs
    <2>2. IsFiniteSet(Members("F13"))
        BY <2>1 DEF Ready
    <2> QED
        BY <1>3, <2>2, WormTally
<1>4. CASE n = 7
    BY <1>4, F10Tally
<1>5. CASE n \in {8, 10}
    BY <1>5, C2Tallies
<1>6. CASE n = 9
    BY <1>6, F5Tally
<1>7. CASE n = 11
    BY <1>7, F14Tally
<1> QED
    BY <1>1, <1>2, <1>3, <1>4, <1>5, <1>6, <1>7

-------------------------------------------------------------------------------
(* The ids: each tells its section, but for the addresses of command        *)
(* servers, and within a section its object.                                *)

Place(id) ==
    CASE id[1] = "attack-pattern" -> 1
      [] id[1] = "ipv4-addr" -> IF id[2] \in F10_C2_IPS THEN 8
                                ELSE IF id[2] = F5_C2_IP THEN 9
                                ELSE IF id[2] \in F11_C2_IPS THEN 10 ELSE 2
      [] id[1] = "url" -> 9
      [] id[1] = "file" -> IF Len(id) = 3 THEN 11 ELSE IF id[2] = "gJw27HGL" THEN 6 ELSE 7
      [] id[1] = "malware" -> IF Len(id) = 3 THEN 7 ELSE 6
      [] id[1] = "note" -> IF id[2] = "F2" THEN 5 ELSE IF id[2] = "F14" THEN 11 ELSE 12
      [] id[1] = "indicator" -> IF Len(id) = 2 THEN 3
                                ELSE IF id[4] = "F10" THEN 8 ELSE IF id[4] = "F5" THEN 9 ELSE 10
      [] id[1] = "relationship" ->
             IF id[2] = "ind-to-ap" THEN 4
             ELSE IF id[2] \in {"malware-uses-ap", "ind-to-malware"} THEN 6
             ELSE IF id[2] = "f10-mal-uses-ap" THEN 7
             ELSE IF id[4] = "F10" THEN 8 ELSE IF id[4] = "F5" THEN 9 ELSE 10

Keyed(objs) == \A o, p \in objs : o.id = p.id => o = p
Placed(objs, n) == \A o \in objs : Place(o.id) = n \/ (n = 2 /\ SharedAddress(o.id))

LEMMA PlacedFamilies ==
    /\ Keyed(AttackPatterns) /\ Placed(AttackPatterns, 1)
    /\ Keyed(Addresses) /\ Placed(Addresses, 2)
    /\ Keyed(Indicators) /\ Placed(Indicators, 3)
    /\ Keyed(Relationships) /\ Placed(Relationships, 4)
<1>1. Keyed(AttackPatterns) /\ Placed(AttackPatterns, 1)
    BY DEF AttackPatterns, Keyed, Placed, Place, Object
<1>2. Keyed(Addresses) /\ Placed(Addresses, 2)
    BY DEF Addresses, Keyed, Placed, Place, Object, SharedAddress
<1>3. Keyed(Indicators) /\ Placed(Indicators, 3)
    BY DEF Indicators, Keyed, Placed, Place, Object
<1>4. Keyed(Relationships) /\ Placed(Relationships, 4)
    BY DEF Relationships, Keyed, Placed, Place, Object, Link
<1> QED
    BY <1>1, <1>2, <1>3, <1>4

LEMMA PlacedNotes ==
    /\ Keyed(F2Note) /\ Placed(F2Note, 5)
    /\ Keyed(FeedbackNote) /\ Placed(FeedbackNote, 12)
    /\ Keyed(F14Probes) /\ Placed(F14Probes, 11)
<1>1. Keyed(F2Note) /\ Placed(F2Note, 5)
    BY DEF F2Note, Keyed, Placed, Place, Object
<1>2. Keyed(FeedbackNote) /\ Placed(FeedbackNote, 12)
    BY DEF FeedbackNote, Keyed, Placed, Place, Object
<1>3. Keyed(F14Probes) /\ Placed(F14Probes, 11)
    BY DEF F14Probes, Keyed, Placed, Place, Object
<1> QED
    BY <1>1, <1>2, <1>3

LEMMA PlacedMalware ==
    /\ Keyed(Worm) /\ Placed(Worm, 6)
    /\ Keyed(F10Binaries) /\ Placed(F10Binaries, 7)
<1>1. Placed(Worm, 6)
    BY DEF Worm, Placed, Place, Object, Link
<1>2. Keyed(Worm)
    BY DEF Worm, Keyed, Object, Link
<1>3. Placed(F10Binaries, 7)
    BY ListsAssumption DEF F10Binaries, Placed, Place, Object, Link
<1>4. Keyed(F10Binaries)
    BY DEF F10Binaries, Keyed, Object, Link
<1> QED
    BY <1>1, <1>2, <1>3, <1>4

LEMMA PlacedC2 ==
    /\ Keyed(F10C2) /\ Placed(F10C2, 8)
    /\ Keyed(F5C2) /\ Placed(F5C2, 9)
    /\ Keyed(F11C2) /\ Placed(F11C2, 10)
<1>1. \A S, fid : Keyed(UNION {C2(ip, fid) : ip \in S})
    BY DEF C2, Keyed, Object, Link
<1>2. Placed(F10C2, 8)
    BY ListsAssumption DEF F10C2, C2, Placed, Place, Object, Link
<1>3. Placed(F11C2, 10)
    BY ListsAssumption DEF F11C2, C2, Placed, Place, Object, Link
<1>4. Placed(F5C2, 9)
    BY ListsAssumption DEF F5C2, C2, Placed, Place, Object, Link
<1>5. Keyed(F5C2)
    BY DEF F5C2, C2, Keyed, Object, Link
<1> QED
    BY <1>1, <1>2, <1>3, <1>4, <1>5 DEF F10C2, F11C2

LEMMA SectionsPlaced ==
    ASSUME NEW n \in 1..12
    PROVE  Keyed(Objs(n)) /\ Placed(Objs(n), n)
BY SectionObjs, PlacedFamilies, PlacedNotes, PlacedMalware, PlacedC2

LEMMA ObjectId == \A id, refs : Object(id, refs).id = id
BY DEF Object

(* What an object refers to is a family, an address that attacked, or an    *)
(* object of its own section.                                               *)
LEMMA Resolved ==
    ASSUME Ready, NEW n \in 1..12, Needs[n] \subseteq DOMAIN families,
           NEW o \in Objs(n), NEW r \in o.refs
    PROVE  \/ \E fid \in DOMAIN families : r = Ap(fid)
           \/ \E ip \in Ips : r = Ind(ip)
           \/ \E p \in Objs(n) : p.id = r
<1>1. CASE n \in {1, 2, 3}
    BY <1>1, SectionObjs DEF AttackPatterns, Addresses, Indicators, Object
<1>2. CASE n = 4
    <2>1. PICK m \in Memberships :
              o = Link(<<"relationship", "ind-to-ap", m[1], m[2]>>, Ind(m[1]), Ap(m[2]))
        BY <1>2, SectionObjs DEF Relationships
    <2>2. m[1] \in Ips /\ m[2] \in DOMAIN families
        BY DEF Memberships, Ready, Ips
    <2>3. r \in {Ind(m[1]), Ap(m[2])}
        BY <2>1 DEF Link, Object
    <2> QED
        BY <2>2, <2>3
<1>3. CASE n = 5
    <2>1. "F2" \in DOMAIN families
        BY <1>3 DEF Needs
    <2>2. Members("F2") \subseteq Ips
        BY <2>1 DEF Ready
    <2>3. r \in {Ap("F2")} \cup {Ind(ip) : ip \in Members("F2")}
        BY <1>3, SectionObjs DEF F2Note, Object
    <2> QED
        BY <2>1, <2>2, <2>3
<1>4. CASE n = 6
    <2>1. "F13" \in DOMAIN families
        BY <1>4 DEF Needs
    <2>2. Members("F13") \subseteq Ips
        BY <2>1 DEF Ready
    <2> DEFINE file == <<"file", "gJw27HGL">>
               malware == <<"malware", "gJw27HGL">>
    <2>3. Objs(6) = Worm /\ Object(file, {}) \in Worm /\ Object(malware, {file}) \in Worm
        BY SectionObjs DEF Worm
    <2>4. Object(file, {}).id = file /\ Object(malware, {file}).id = malware
        BY DEF Object
    <2>5. r \in {file, malware, Ap("F13")} \/ \E ip \in Members("F13") : r = Ind(ip)
        BY <1>4, <2>3 DEF Worm, Link, Object
    <2> HIDE DEF file, malware
    <2> QED
        BY <1>4, <2>1, <2>2, <2>3, <2>4, <2>5
<1>5. CASE n = 7
    <2>1. "F10" \in DOMAIN families
        BY <1>5 DEF Needs
    <2>2. Objs(7) = F10Binaries
        BY SectionObjs
    <2>3. ASSUME NEW b \in F10_BINARIES
          PROVE  /\ \E p \in Objs(7) : p.id = <<"file", b>>
                 /\ \E p \in Objs(7) : p.id = <<"malware", "F10", b>>
        <3>1. /\ Object(<<"file", b>>, {}) \in Objs(7)
              /\ Object(<<"malware", "F10", b>>, {<<"file", b>>}) \in Objs(7)
            <4> DEFINE T(x) == {Object(<<"file", x>>, {}),
                                Object(<<"malware", "F10", x>>, {<<"file", x>>}),
                                Link(<<"relationship", "f10-mal-uses-ap", x>>,
                                     <<"malware", "F10", x>>, Ap("F10"))}
            <4>1. Objs(7) = UNION {T(x) : x \in F10_BINARIES}
                BY <2>2 DEF F10Binaries
            <4>2. /\ Object(<<"file", b>>, {}) \in T(b)
                  /\ Object(<<"malware", "F10", b>>, {<<"file", b>>}) \in T(b)
                OBVIOUS
            <4> HIDE DEF T
            <4> QED
                BY <4>1, <4>2
        <3> QED
            BY <3>1, ObjectId
    <2>4. r = Ap("F10") \/ \E b \in F10_BINARIES : r \in {<<"file", b>>, <<"malware", "F10", b>>}
        BY <1>5, <2>2 DEF F10Binaries, Link, Object
    <2> QED
        BY <1>5, <2>1, <2>3, <2>4
<1>6. CASE n = 8
    <2>1. "F10" \in DOMAIN families
        BY <1>6 DEF Needs
    <2>2. Objs(8) = F10C2
        BY SectionObjs
    <2>3. ASSUME NEW ip \in F10_C2_IPS
          PROVE  \E p \in Objs(8) : p.id = <<"indicator", "c2", ip, "F10">>
        <3>1. Object(<<"indicator", "c2", ip, "F10">>, {}) \in Objs(8)
            BY <2>2 DEF F10C2, C2
        <3> QED
            BY <3>1, ObjectId
    <2>4. r = Ap("F10") \/ \E ip \in F10_C2_IPS : r = <<"indicator", "c2", ip, "F10">>
        BY <1>6, <2>2 DEF F10C2, C2, Link, Object
    <2> QED
        BY <1>6, <2>1, <2>3, <2>4
<1>7. CASE n = 9
    <2>1. "F5" \in DOMAIN families
        BY <1>7 DEF Needs
    <2>2. Objs(9) = F5C2
        BY SectionObjs
    <2>3. /\ \E p \in Objs(9) : p.id = <<"indicator", "c2", F5_C2_IP, "F5">>
          /\ \E p \in Objs(9) : p.id = <<"indicator", "c2-url", F5_C2_IP, "F5">>
        <3>1. /\ Object(<<"indicator", "c2", F5_C2_IP, "F5">>, {}) \in Objs(9)
              /\ Object(<<"indicator", "c2-url", F5_C2_IP, "F5">>, {}) \in Objs(9)
            BY <2>2 DEF F5C2, C2
        <3> QED
            BY <3>1, ObjectId
    <2>4. \/ r = Ap("F5")
          \/ r = <<"indicator", "c2", F5_C2_IP, "F5">>
          \/ r = <<"indicator", "c2-url", F5_C2_IP, "F5">>
        BY <1>7, <2>2 DEF F5C2, C2, Link, Object
    <2> QED
        BY <1>7, <2>1, <2>3, <2>4
<1>8. CASE n = 10
    <2>1. "F11" \in DOMAIN families
        BY <1>8 DEF Needs
    <2>2. Objs(10) = F11C2
        BY SectionObjs
    <2>3. ASSUME NEW ip \in F11_C2_IPS
          PROVE  \E p \in Objs(10) : p.id = <<"indicator", "c2", ip, "F11">>
        <3>1. Object(<<"indicator", "c2", ip, "F11">>, {}) \in Objs(10)
            BY <2>2 DEF F11C2, C2
        <3> QED
            BY <3>1, ObjectId
    <2>4. r = Ap("F11") \/ \E ip \in F11_C2_IPS : r = <<"indicator", "c2", ip, "F11">>
        BY <1>8, <2>2 DEF F11C2, C2, Link, Object
    <2> QED
        BY <1>8, <2>1, <2>3, <2>4
<1>9. CASE n = 11
    <2>1. "F14" \in DOMAIN families
        BY <1>9 DEF Needs
    <2>2. Objs(11) = F14Probes
        BY SectionObjs
    <2>3. ASSUME NEW b \in F14_PROBES PROVE \E p \in Objs(11) : p.id = <<"file", "probe", b>>
        <3>1. Object(<<"file", "probe", b>>, {}) \in Objs(11)
            BY <2>2 DEF F14Probes
        <3> QED
            BY <3>1, ObjectId
    <2>4. r = Ap("F14") \/ \E b \in F14_PROBES : r = <<"file", "probe", b>>
        BY <1>9, <2>2 DEF F14Probes, Object
    <2> QED
        BY <1>9, <2>1, <2>3, <2>4
<1>10. CASE n = 12
    <2>1. {"F1", "F4", "F6", "F9", "F11"} \subseteq DOMAIN families
        BY <1>10 DEF Needs
    <2>2. r \in {Ap("F4"), Ap("F6"), Ap("F11"), Ap("F1"), Ap("F9")}
        BY <1>10, SectionObjs DEF FeedbackNote, Object
    <2> QED
        BY <2>1, <2>2
<1> QED
    BY <1>1, <1>2, <1>3, <1>4, <1>5, <1>6, <1>7, <1>8, <1>9, <1>10

-------------------------------------------------------------------------------
(* The inductive invariant: the sections written so far are those of the    *)
(* families, which no step changes once there is a section, and the         *)
(* counters count them.                                                     *)

Bundling ==
    /\ Finite
    /\ section \in 1..13
    /\ objects = [n \in 1..(section - 1) |-> Objs(n)]
    /\ \A n \in 1..(section - 1) : Needs[n] \subseteq DOMAIN families
    /\ \A type \in Types :
           IsFiniteSet(OfType(type)) /\ counts[type] = Cardinality(OfType(type))
    /\ phase = "classify" => section = 1
    /\ phase \in {"classified", "bundled"} => families = Aggregated
    /\ phase = "bundled" => section = 13

LEMMA BundlingInit == BundleInit => Bundling
<1> SUFFICES ASSUME BundleInit PROVE Bundling
    OBVIOUS
<1>1. section = 1 /\ objects = <<>> /\ phase = "classify" /\ DOMAIN ip_data = {}
    BY DEF BundleInit, Init, Nothing
<1>2. Finite
    BY <1>1, FS_EmptySet DEF Finite
<1>3. objects = [n \in 1..(section - 1) |-> Objs(n)]
    <2> DEFINE k == section - 1
    <2>1. k = 0
        BY <1>1
    <2> HIDE DEF k
    <2>2. [n \in 1..k |-> Objs(n)] = <<>>
        BY <2>1
    <2> QED
        BY <1>1, <2>2 DEF k
<1>4. \A type : OfType(type) = {}
    BY <1>1 DEF OfType, Entries
<1>5. counts = [type \in Types |-> 0]
    BY DEF BundleInit
<1> QED
    BY <1>1, <1>2, <1>3, <1>4, <1>5, FS_EmptySet DEF Bundling

(* The sections depend on the families alone. *)
LEMMA SameSections ==
    ASSUME families' = families
    PROVE  /\ \A n : Objs(n)' = Objs(n)
           /\ DOMAIN families' = DOMAIN families
<1>1. ip_to_fids' = ip_to_fids
    BY DEF ip_to_fids
<1>2. \A fid : Members(fid)' = Members(fid)
    BY DEF Members
<1>3. Memberships' = Memberships
    BY <1>1 DEF Memberships
<1>4. AttackPatterns' = AttackPatterns /\ Addresses' = Addresses /\ Indicators' = Indicators
    BY <1>1 DEF AttackPatterns, Addresses, Indicators
<1>5. Relationships' = Relationships
    BY <1>3 DEF Relationships
<1>6. F2Note' = F2Note /\ Worm' = Worm
    BY <1>2 DEF F2Note, Worm
<1>7. \A n : SectionOf(n)' = SectionOf(n)
    BY <1>2, <1>4, <1>5, <1>6 DEF SectionOf
<1> QED
    BY <1>7 DEF Objs

(* The entries are the objects of the sections so far. *)
LEMMA EntriesAre ==
    ASSUME NEW k \in Nat, objects = [n \in 1..k |-> Objs(n)]
    PROVE  /\ \A e \in Entries : e[1] \in 1..k /\ e[2] \in Objs(e[1]) /\ e = <<e[1], e[2]>>
           /\ \A n \in 1..k : \A o \in Objs(n) : <<n, o>> \in Entries
BY DEF Entries

(* The sections are counted one by one. *)
LEMMA OfTypeGrows ==
    ASSUME NEW k \in Nat, objects = [n \in 1..k |-> Objs(n)],
           NEW objs, objects' = [n \in 1..(k + 1) |-> IF n = k + 1 THEN objs ELSE Objs(n)],
           NEW type, IsFiniteSet(OfType(type)), IsFiniteSet(OfT(objs, type))
    PROVE  /\ IsFiniteSet(OfType(type)')
           /\ Cardinality(OfType(type)') = Cardinality(OfType(type)) + Cardinality(OfT(objs, type))
<1> DEFINE N == OfT(objs, type)
           f == [o \in N |-> <<k + 1, o>>]
           P == {f[o] : o \in N}
<1>1. IsFiniteSet(P) /\ Cardinality(P) = Cardinality(N)
    <2>1. DOMAIN f = N /\ \A x, y \in N : f[x] = f[y] => x = y
        OBVIOUS
    <2> HIDE DEF f, N
    <2> QED
        BY <2>1, ImageCount DEF N
<1>2. Entries' = Entries \cup {<<k + 1, o>> : o \in objs}
    <2>1. Entries = UNION {{n} \X Objs(n) : n \in 1..k}
        BY DEF Entries
    <2>2. Entries' = UNION {{n} \X (IF n = k + 1 THEN objs ELSE Objs(n)) : n \in 1..(k + 1)}
        BY DEF Entries
    <2>3. \A n : n \in 1..(k + 1) <=> n \in 1..k \/ n = k + 1
        OBVIOUS
    <2>4. k + 1 \notin 1..k
        OBVIOUS
    <2>5. {k + 1} \X objs = {<<k + 1, o>> : o \in objs}
        OBVIOUS
    <2> DEFINE m == k + 1
               I == 1..k
               J == 1..(k + 1)
    <2> HIDE DEF m, I, J
    <2> QED
        BY <2>1, <2>2, <2>3, <2>4, <2>5 DEF m, I, J
<1>3. OfType(type)' = OfType(type) \cup P
    <2>1. P = {<<k + 1, o>> : o \in {p \in objs : p.id[1] = type}}
        BY DEF OfT
    <2> HIDE DEF P
    <2>2. OfType(type)' = {e \in Entries \cup {<<k + 1, o>> : o \in objs} : e[2].id[1] = type}
        BY <1>2 DEF OfType
    <2> QED
        BY <2>1, <2>2 DEF OfType
<1>4. OfType(type) \cap P = {}
    <2>1. \A e \in OfType(type) : e[1] \in 1..k
        BY EntriesAre DEF OfType
    <2>2. \A e \in P : e[1] = k + 1
        OBVIOUS
    <2> HIDE DEF P
    <2> QED
        BY <2>1, <2>2
<1> HIDE DEF P, N
<1>5. /\ IsFiniteSet(OfType(type) \cup P)
      /\ Cardinality(OfType(type) \cup P) =
             Cardinality(OfType(type)) + Cardinality(P) - Cardinality({})
    BY <1>1, <1>4, FS_Union
<1>6. Cardinality({}) = 0 /\ Cardinality(OfType(type)) \in Nat /\ Cardinality(P) \in Nat
    BY <1>1, FS_EmptySet, FS_CardinalityType
<1> QED
    BY <1>1, <1>3, <1>5, <1>6 DEF N

LEMMA FinallyReady ==
    ASSUME Finite, families = Aggregated
    PROVE  Ready
BY MembersOf, IpsOf DEF Ready

(* A section is appended and counted. *)
LEMMA AddKeeps ==
    ASSUME Bundling, AddSection
    PROVE  Bundling'
<1> DEFINE k == section - 1
           s == SectionOf(section)
<1>1. section \in 1..12 /\ k \in Nat /\ k + 1 = section /\ section' - 1 = section
      /\ section' \in 1..13
    BY DEF Bundling, AddSection
<1>2. families' = families /\ ip_data' = ip_data /\ phase' = phase /\ phase = "classified"
    BY DEF AddSection, vars
<1>3. Ready
    BY <1>2, FinallyReady DEF Bundling
<1>4. objects = [n \in 1..k |-> Objs(n)] /\ objects' = Append(objects, Objs(section))
    BY DEF Bundling, AddSection, Objs
<1>5. objects' = [n \in 1..(k + 1) |-> IF n = k + 1 THEN Objs(section) ELSE Objs(n)]
    <2> DEFINE S == {Objs(n) : n \in 1..12}
    <2>1. objects \in [1..k -> S] /\ Objs(section) \in S
        <3>1. \A n \in 1..k : n \in 1..12
            BY <1>1
        <3>2. \A n \in 1..k : Objs(n) \in S
            BY <3>1
        <3> HIDE DEF k, S
        <3>3. objects \in [1..k -> S]
            BY <1>4, <3>2
        <3> QED
            BY <1>1, <3>3 DEF S
    <2> HIDE DEF k, S
    <2>2. objects \in Seq(S) /\ Len(objects) = k
        BY <1>1, <2>1
    <2> QED
        BY <1>1, <1>4, <2>1, <2>2
<1>6. counts' = [type \in Types |-> counts[type] + Tal(section, type)]
    BY DEF AddSection, Tal
<1> HIDE DEF k
<1>7. Needs[section] \subseteq DOMAIN families
    BY DEF AddSection
<1>8. ASSUME NEW type \in Types
      PROVE  IsFiniteSet(OfType(type)') /\ counts'[type] = Cardinality(OfType(type)')
    <2>1. IsFiniteSet(OfType(type)) /\ counts[type] = Cardinality(OfType(type))
        BY DEF Bundling
    <2>2. /\ IsFiniteSet(OfT(Objs(section), type))
          /\ Cardinality(OfT(Objs(section), type)) = Tal(section, type)
        BY <1>1, <1>3, <1>7, Tallies
    <2>3. /\ IsFiniteSet(OfType(type)')
          /\ Cardinality(OfType(type)') =
                 Cardinality(OfType(type)) + Cardinality(OfT(Objs(section), type))
        BY <1>1, <1>4, <1>5, <2>1, <2>2, OfTypeGrows
    <2> QED
        BY <1>6, <2>1, <2>2, <2>3
<1>9. objects' = [n \in 1..(section' - 1) |-> Objs(n)']
    <2>1. \A n : Objs(n)' = Objs(n)
        BY <1>2, SameSections
    <2> QED
        BY <1>1, <1>5, <2>1
<1>10. \A n \in 1..(section' - 1) : Needs[n] \subseteq DOMAIN families'
    <2> SUFFICES ASSUME NEW n \in 1..(section' - 1) PROVE Needs[n] \subseteq DOMAIN families
        BY <1>2
    <2>1. section' - 1 = section
        BY <1>1
    <2>2. n \in 1..section
        BY <2>1
    <2>3. n \in 1..(section - 1) \/ n = section
        BY <1>1, <2>2
    <2> QED
        BY <1>7, <2>3 DEF Bundling
<1>11. Finite'
    BY <1>2 DEF Bundling, Finite
<1>12. Aggregated' = Aggregated
    BY <1>2 DEF Aggregated, FamiliesOf, AllSessions, Staged, Unclassified
<1> QED
    BY <1>1, <1>2, <1>8, <1>9, <1>10, <1>11, <1>12 DEF Bundling

(* What does not touch the bundle keeps it, while the families stay or      *)
(* there is no section yet.                                                 *)
LEMMA OthersKeep ==
    ASSUME Bundling, UNCHANGED bundleVars, families' = families \/ section = 1
    PROVE  /\ section' \in 1..13
           /\ objects' = [n \in 1..(section' - 1) |-> Objs(n)']
           /\ \A n \in 1..(section' - 1) : Needs[n] \subseteq DOMAIN families'
           /\ \A type \in Types : /\ IsFiniteSet(OfType(type)')
                                  /\ counts'[type] = Cardinality(OfType(type)')
<1>1. section' = section /\ objects' = objects /\ counts' = counts
    BY DEF bundleVars
<1>2. \A type : OfType(type)' = OfType(type)
    BY <1>1 DEF OfType, Entries
<1>3. CASE families' = families
    <2>1. \A n : Objs(n)' = Objs(n)
        BY <1>3, SameSections
    <2> QED
        BY <1>1, <1>2, <1>3, <2>1 DEF Bundling
<1>4. CASE section = 1
    <2> DEFINE I == 1..(section - 1)
    <2>1. I = {}
        BY <1>4
    <2>2. objects = [n \in I |-> Objs(n)] /\ \A n \in I : Needs[n] \subseteq DOMAIN families
        BY DEF Bundling
    <2> HIDE DEF I
    <2>3. objects' = [n \in I |-> Objs(n)'] /\ \A n \in I : Needs[n] \subseteq DOMAIN families'
        BY <1>1, <2>1, <2>2
    <2> QED
        BY <1>1, <1>2, <2>3 DEF Bundling, I
<1> QED
    BY <1>3, <1>4

LEMMA BundlingStep == Bundling /\ [Next]_<<vars, bundleVars>> => Bundling'
<1> SUFFICES ASSUME Bundling, [Next]_<<vars, bundleVars>> PROVE Bundling'
    OBVIOUS
<1>1. CASE AddSection
    BY <1>1, AddKeeps
<1>2. CASE ~AddSection
    <2>1. UNCHANGED bundleVars
        BY <1>2 DEF Next, FamilyMissing, WriteBundle
    <2>2. families' = families \/ section = 1
        BY <1>2 DEF Next, ClassifyNext, SkipExcluded, ClassifySession, WriteFamilies,
                    RefuseToWrite, FamilyMissing, WriteBundle, vars, Bundling
    <2>3. Finite'
        <3>1. CASE ClassifySession
            BY <3>1, ClassifyFinite DEF Bundling
        <3>2. CASE ~ClassifySession
            <4>1. ip_data' = ip_data
                BY <1>2, <3>2 DEF Next, ClassifyNext, SkipExcluded, WriteFamilies,
                                  RefuseToWrite, FamilyMissing, WriteBundle, vars
            <4> QED
                BY <4>1 DEF Bundling, Finite
        <3> QED
            BY <3>1, <3>2
    <2>4. phase' = "classify" => phase = "classify"
        BY <1>2 DEF Next, ClassifyNext, SkipExcluded, ClassifySession, WriteFamilies,
                    RefuseToWrite, FamilyMissing, WriteBundle, vars
    <2>5. phase' = "bundled" => section = 13
        BY <1>2 DEF Next, ClassifyNext, SkipExcluded, ClassifySession, WriteFamilies,
                    RefuseToWrite, FamilyMissing, WriteBundle, vars, Bundling
    <2>6. ASSUME phase' \in {"classified", "bundled"} PROVE families' = Aggregated'
        <3>1. ip_data' = ip_data /\ families' = Aggregated
            BY <1>2, <2>6 DEF Next, ClassifyNext, SkipExcluded, ClassifySession, WriteFamilies,
                    RefuseToWrite, FamilyMissing, WriteBundle, vars, Bundling
        <3>2. Aggregated' = Aggregated
            BY <3>1 DEF Aggregated, FamiliesOf, AllSessions, Staged, Unclassified
        <3> QED
            BY <3>1, <3>2
    <2>7. section' = section
        BY <2>1 DEF bundleVars
    <2>8. /\ section' \in 1..13
          /\ objects' = [n \in 1..(section' - 1) |-> Objs(n)']
          /\ \A n \in 1..(section' - 1) : Needs[n] \subseteq DOMAIN families'
          /\ \A type \in Types : /\ IsFiniteSet(OfType(type)')
                                 /\ counts'[type] = Cardinality(OfType(type)')
        BY <2>1, <2>2, OthersKeep
    <2>9. phase' = "classify" => section' = 1
        BY <2>4, <2>7 DEF Bundling
    <2>10. phase' = "bundled" => section' = 13
        BY <2>5, <2>7
    <2> QED
        BY <2>3, <2>6, <2>8, <2>9, <2>10 DEF Bundling
<1> QED
    BY <1>1, <1>2

-------------------------------------------------------------------------------
(* What is written is closed.                                               *)

LEMMA LinkParts == \A id, x, y : Link(id, x, y).id = id /\ x \in Link(id, x, y).refs
BY DEF Link, Object

(* The relationship between an indicator and a family is that of section 4. *)
LEMMA LinkOfMember ==
    ASSUME NEW n \in 1..12, NEW o \in Objs(n), o.id[1] = "relationship",
           NEW ip, NEW fid, o.refs = {Ind(ip), Ap(fid)}
    PROVE  /\ n = 4 /\ <<ip, fid>> \in Memberships
           /\ o = Link(<<"relationship", "ind-to-ap", ip, fid>>, Ind(ip), Ap(fid))
<1>1. CASE n \in {1, 2, 3, 5, 12}
    BY <1>1, SectionObjs DEF AttackPatterns, Addresses, Indicators, F2Note, FeedbackNote, Object
<1>2. CASE n = 4
    <2>1. PICK m \in Memberships :
              o = Link(<<"relationship", "ind-to-ap", m[1], m[2]>>, Ind(m[1]), Ap(m[2]))
        BY <1>2, SectionObjs DEF Relationships
    <2>2. {Ind(m[1]), Ap(m[2])} = {Ind(ip), Ap(fid)}
        BY <2>1 DEF Link, Object
    <2>3. \A x, y : Ind(x) # Ap(y)
        BY DEF Ind, Ap
    <2>4. Ind(m[1]) = Ind(ip) /\ Ap(m[2]) = Ap(fid)
        BY <2>2, <2>3
    <2>5. m[1] = ip /\ m[2] = fid
        BY <2>4 DEF Ind, Ap
    <2>6. m = <<m[1], m[2]>>
        BY DEF Memberships
    <2> QED
        BY <1>2, <2>1, <2>5, <2>6
<1>4. CASE n = 6
    <2> DEFINE malware == <<"malware", "gJw27HGL">>
               file == <<"file", "gJw27HGL">>
    <2>1. \/ o = Object(file, {})
          \/ o = Object(malware, {file})
          \/ \E id, x, y : o = Link(id, x, y) /\ malware \in {x, y}
        BY <1>4, SectionObjs DEF Worm
    <2>2. file[1] = "file" /\ malware[1] = "malware"
        OBVIOUS
    <2> HIDE DEF malware, file
    <2>3. malware \in o.refs
        BY <2>1, <2>2 DEF Object, Link
    <2>4. malware \notin {Ind(ip), Ap(fid)}
        BY DEF malware, Ind, Ap
    <2> QED
        BY <2>3, <2>4
<1>5. CASE n = 7
    <2>1. PICK b \in F10_BINARIES :
              \/ o = Object(<<"file", b>>, {})
              \/ o = Object(<<"malware", "F10", b>>, {<<"file", b>>})
              \/ o = Link(<<"relationship", "f10-mal-uses-ap", b>>,
                         <<"malware", "F10", b>>, Ap("F10"))
        BY <1>5, SectionObjs DEF F10Binaries
    <2>2. o = Link(<<"relationship", "f10-mal-uses-ap", b>>, <<"malware", "F10", b>>, Ap("F10"))
        <3>1. /\ o # Object(<<"file", b>>, {})
              /\ o # Object(<<"malware", "F10", b>>, {<<"file", b>>})
            BY ObjectId
        <3> QED
            BY <2>1, <3>1
    <2>3. <<"malware", "F10", b>> \in o.refs
        BY <2>2, LinkParts
    <2> QED
        BY <2>3 DEF Ind, Ap
<1>6. CASE n \in {8, 9, 10}
    <2>1. \/ \E b, f : o \in C2(b, f)
          \/ o = Object(<<"url", F5_C2_IP>>, {})
          \/ o = Object(<<"indicator", "c2-url", F5_C2_IP, "F5">>, {})
          \/ o = Link(<<"relationship", "c2-url-to-ap", F5_C2_IP, "F5">>,
                     <<"indicator", "c2-url", F5_C2_IP, "F5">>, Ap("F5"))
        BY <1>6, SectionObjs DEF F10C2, F5C2, F11C2
    <2>2. ASSUME NEW b, NEW f, o \in C2(b, f) PROVE <<"indicator", "c2", b, f>> \in o.refs
        <3>1. /\ o # Object(<<"ipv4-addr", b>>, {})
              /\ o # Object(<<"indicator", "c2", b, f>>, {})
            BY ObjectId
        <3>2. o = Link(<<"relationship", "c2-ind-to-ap", b, f>>, <<"indicator", "c2", b, f>>, Ap(f))
            BY <2>2, <3>1 DEF C2
        <3> QED
            BY <3>2, LinkParts
    <2>3. \E b, s, f : <<"indicator", s, b, f>> \in o.refs
        <3>1. CASE \E b, f : o \in C2(b, f)
            BY <2>2, <3>1
        <3>2. CASE ~\E b, f : o \in C2(b, f)
            <4>1. <<"indicator", "c2-url", F5_C2_IP, "F5">> \in o.refs
                <5>1. /\ o # Object(<<"url", F5_C2_IP>>, {})
                      /\ o # Object(<<"indicator", "c2-url", F5_C2_IP, "F5">>, {})
                    BY ObjectId
                <5>2. o = Link(<<"relationship", "c2-url-to-ap", F5_C2_IP, "F5">>,
                               <<"indicator", "c2-url", F5_C2_IP, "F5">>, Ap("F5"))
                    BY <2>1, <3>2, <5>1
                <5> QED
                    BY <5>2, LinkParts
            <4> QED
                BY <4>1
        <3> QED
            BY <3>1, <3>2
    <2> QED
        BY <2>3 DEF Ind, Ap
<1>7. CASE n = 11
    BY <1>7, SectionObjs DEF F14Probes, Object
<1> QED
    BY <1>1, <1>2, <1>4, <1>5, <1>6, <1>7

(* What the four parts of BundleClosed are once all sections are written.   *)
LEMMA AllWritten ==
    ASSUME Bundling, phase = "bundled"
    PROVE  RefsResolve /\ CountsExact /\ IdsUnique /\ MembershipsLinked
<1>1. section = 13 /\ families = Aggregated /\ Finite
    BY DEF Bundling
<1>2. Ready
    BY <1>1, FinallyReady
<1>3. objects = [n \in 1..12 |-> Objs(n)]
      /\ \A n \in 1..12 : Needs[n] \subseteq DOMAIN families
    <2>1. section - 1 = 12
        BY <1>1
    <2> QED
        BY <2>1 DEF Bundling
<1>4. /\ \A e \in Entries : e[1] \in 1..12 /\ e[2] \in Objs(e[1]) /\ e = <<e[1], e[2]>>
      /\ \A n \in 1..12 : \A o \in Objs(n) : <<n, o>> \in Entries
    BY <1>3, EntriesAre
<1>5. CountsExact
    BY DEF Bundling, CountsExact
<1>6. ASSUME NEW n \in 1..12, NEW o \in Objs(n), NEW r, o.id = r
      PROVE  \E e \in Entries : e[2].id = r
    BY <1>4, <1>6
<1>7. RefsResolve
    <2> SUFFICES ASSUME NEW d \in Entries, NEW r \in d[2].refs
                 PROVE  \E e \in Entries : e[2].id = r
        BY DEF RefsResolve
    <2>1. d[1] \in 1..12 /\ d[2] \in Objs(d[1])
        BY <1>4
    <2>2. CASE \E fid \in DOMAIN families : r = Ap(fid)
        <3>1. PICK fid \in DOMAIN families : r = Ap(fid)
            BY <2>2
        <3>2. Object(Ap(fid), {}) \in Objs(1)
            BY SectionObjs DEF AttackPatterns, Ap
        <3> QED
            BY <1>6, <3>1, <3>2, ObjectId
    <2>3. CASE \E ip \in Ips : r = Ind(ip)
        <3>1. PICK ip \in Ips : r = Ind(ip)
            BY <2>3
        <3>2. Object(Ind(ip), {}) \in Objs(3)
            BY SectionObjs DEF Indicators, Ind, Ips
        <3> QED
            BY <1>6, <3>1, <3>2, ObjectId
    <2>4. CASE \E p \in Objs(d[1]) : p.id = r
        BY <1>6, <2>1, <2>4
    <2> QED
        BY <1>2, <1>3, <2>1, <2>2, <2>3, <2>4, Resolved
<1>8. IdsUnique
    <2> SUFFICES ASSUME NEW d \in Entries, NEW e \in Entries, d[2].id = e[2].id
                 PROVE  d = e \/ SharedAddress(d[2].id)
        BY DEF IdsUnique
    <2>1. d[1] \in 1..12 /\ d[2] \in Objs(d[1]) /\ e[1] \in 1..12 /\ e[2] \in Objs(e[1])
        BY <1>4
    <2>2. \/ Place(d[2].id) = d[1] /\ Place(e[2].id) = e[1]
          \/ SharedAddress(d[2].id)
        BY <2>1, SectionsPlaced DEF Placed
    <2>3. d[1] = e[1] \/ SharedAddress(d[2].id)
        BY <2>2
    <2>4. d[1] = e[1] => d[2] = e[2]
        BY <2>1, SectionsPlaced DEF Keyed
    <2>5. d = <<d[1], d[2]>> /\ e = <<e[1], e[2]>>
        BY <1>4
    <2> QED
        BY <2>3, <2>4, <2>5
<1>9. MembershipsLinked
    <2> SUFFICES ASSUME NEW ip \in DOMAIN ip_data, NEW fid \in DOMAIN families
                 PROVE  Cardinality({e \in OfType("relationship") : e[2].refs = {Ind(ip), Ap(fid)}})
                            = IF \E s \in ip_data[ip] : fid \in s.families THEN 1 ELSE 0
        BY DEF MembershipsLinked
    <2> DEFINE X == {e \in OfType("relationship") : e[2].refs = {Ind(ip), Ap(fid)}}
               o == Link(<<"relationship", "ind-to-ap", ip, fid>>, Ind(ip), Ap(fid))
    <2>1. (\E s \in ip_data[ip] : fid \in s.families) <=> <<ip, fid>> \in Memberships
        <3>1. <<ip, fid>> \in Memberships <=> ip \in Ips /\ fid \in ip_to_fids[ip]
            BY DEF Memberships, Ips
        <3> QED
            BY <1>1, <3>1, IpsOf
    <2>2. \A e \in X : e = <<4, o>> /\ <<ip, fid>> \in Memberships
        <3> SUFFICES ASSUME NEW e \in X PROVE e = <<4, o>> /\ <<ip, fid>> \in Memberships
            OBVIOUS
        <3>1. e[1] \in 1..12 /\ e[2] \in Objs(e[1]) /\ e = <<e[1], e[2]>>
              /\ e[2].id[1] = "relationship" /\ e[2].refs = {Ind(ip), Ap(fid)}
            BY <1>4 DEF OfType
        <3>2. e[1] = 4 /\ e[2] = o /\ <<ip, fid>> \in Memberships
            BY <3>1, LinkOfMember
        <3> QED
            BY <3>1, <3>2
    <2>3. <<ip, fid>> \in Memberships => <<4, o>> \in X
        <3> SUFFICES ASSUME <<ip, fid>> \in Memberships PROVE <<4, o>> \in X
            OBVIOUS
        <3>1. o \in Objs(4)
            <4> DEFINE m == <<ip, fid>>
            <4>1. m[1] = ip /\ m[2] = fid /\ m \in Memberships
                OBVIOUS
            <4> HIDE DEF m
            <4> QED
                BY <4>1, SectionObjs DEF Relationships
        <3>2. o.id[1] = "relationship" /\ o.refs = {Ind(ip), Ap(fid)}
            BY DEF Link, Object
        <3>3. <<4, o>> \in Entries
            BY <1>4, <3>1
        <3> HIDE DEF o
        <3> QED
            BY <3>2, <3>3 DEF OfType
    <2>4. CASE <<ip, fid>> \in Memberships
        <3>1. X = {<<4, o>>}
            <4> HIDE DEF X, o
            <4> QED
                BY <2>2, <2>3, <2>4
        <3> HIDE DEF X
        <3>2. Cardinality(X) = 1
            BY <3>1, FS_Singleton
        <3> QED
            BY <2>1, <2>4, <3>2 DEF X
    <2>5. CASE <<ip, fid>> \notin Memberships
        <3>1. X = {}
            <4> HIDE DEF X
            <4> QED
                BY <2>2, <2>5
        <3> HIDE DEF X
        <3>2. Cardinality(X) = 0
            BY <3>1, FS_EmptySet
        <3> QED
            BY <2>1, <2>5, <3>2 DEF X
    <2> QED
        BY <2>4, <2>5
<1> QED
    BY <1>5, <1>7, <1>8, <1>9

(* gen_stix_bundle.py, whatever classify.py found: the bundle it writes     *)
(* refers to nothing that it lacks, the counts it prints are those of its   *)
(* objects, no id occurs twice but for the address of a command server that *)
(* also attacked, and each membership of an address in a family is one      *)
(* relationship.                                                            *)
THEOREM BundleAlwaysClosed == Spec => []BundleClosed
<1>1. Bundling => BundleClosed
    BY AllWritten DEF BundleClosed
<1> QED
    BY <1>1, BundlingInit, BundlingStep, PTL DEF Spec

-------------------------------------------------------------------------------
(* What classify.py has read: the sessions before those in todo.            *)

(* The sessions so far, and of these those of one address. *)
ReadSoFar == {i \in DOMAIN Kept : i <= Len(sessions) - Len(todo)}
ReadOf(ip) == {i \in ReadSoFar : sessions[i].ip = ip}

Classifying ==
    /\ sessions \in Inputs
    /\ todo \in Seq(Range(sessions))
    /\ Len(todo) <= Len(sessions)
    /\ \A i \in 1..Len(todo) : todo[i] = sessions[Len(sessions) - Len(todo) + i]
    /\ DOMAIN ip_data = {sessions[i].ip : i \in ReadSoFar}
    /\ \A ip \in DOMAIN ip_data : ip_data[ip] = {Classified(sessions[i]) : i \in ReadOf(ip)}
    /\ phase = "classify" => families = Nothing
    /\ families = Nothing \/ (families = Aggregated /\ todo = <<>>)

LEMMA InputFacts ==
    ASSUME sessions \in Inputs
    PROVE  /\ sessions \in Seq(Range(sessions)) /\ Len(sessions) \in Nat
           /\ DOMAIN sessions = 1..Len(sessions)
           /\ \A i, j \in DOMAIN sessions : sessions[i].sid = sessions[j].sid => i = j
BY InputsAssumption

LEMMA ClassifyingInit == BundleInit => Classifying
<1> SUFFICES ASSUME BundleInit PROVE Classifying
    OBVIOUS
<1>1. sessions \in Inputs /\ todo = sessions /\ phase = "classify"
      /\ families = Nothing /\ ip_data = Nothing
    BY DEF BundleInit, Init
<1>2. Len(sessions) \in Nat /\ todo \in Seq(Range(sessions)) /\ DOMAIN sessions = 1..Len(sessions)
    BY <1>1, InputFacts
<1>3. ReadSoFar = {}
    BY <1>1, <1>2 DEF ReadSoFar, Kept
<1>4. \A i \in 1..Len(todo) : todo[i] = sessions[Len(sessions) - Len(todo) + i]
    <2> SUFFICES ASSUME NEW i \in 1..Len(todo)
                 PROVE  todo[i] = sessions[Len(sessions) - Len(todo) + i]
        OBVIOUS
    <2>1. Len(sessions) - Len(todo) + i = i
        BY <1>1, <1>2
    <2> QED
        BY <1>1, <2>1
<1>5. DOMAIN ip_data = {} /\ {sessions[i].ip : i \in ReadSoFar} = {}
    BY <1>1, <1>3 DEF Nothing
<1>6. Len(todo) <= Len(sessions)
    BY <1>1, <1>2
<1>7. \A ip \in DOMAIN ip_data :
          ip_data[ip] = {Classified(sessions[i]) : i \in ReadOf(ip)}
    BY <1>5
<1>8. DOMAIN ip_data = {sessions[i].ip : i \in ReadSoFar}
    BY <1>5
<1> QED
    BY <1>1, <1>2, <1>4, <1>6, <1>7, <1>8 DEF Classifying

(* The head of todo is the next session. *)
LEMMA NextSession ==
    ASSUME Classifying, todo # <<>>, todo' = Tail(todo), sessions' = sessions
    PROVE  LET k == Len(sessions) - Len(todo) + 1
           IN  /\ k \in DOMAIN sessions /\ Head(todo) = sessions[k]
               /\ todo' \in Seq(Range(sessions)) /\ Len(todo') <= Len(sessions)
               /\ \A i \in 1..Len(todo') : todo'[i] = sessions[Len(sessions) - Len(todo') + i]
               /\ k \notin ReadSoFar
               /\ ReadSoFar' = IF sessions[k].sid \in exclude_sids THEN ReadSoFar
                               ELSE ReadSoFar \cup {k}
<1> DEFINE n == Len(sessions)
           m == Len(todo)
           k == n - m + 1
<1>1. n \in Nat /\ DOMAIN sessions = 1..n
    BY InputFacts DEF Classifying
<1>2. m \in Nat /\ m <= n /\ m > 0 /\ todo \in Seq(Range(sessions))
    BY DEF Classifying
<1>3. todo' \in Seq(Range(sessions)) /\ Len(todo') = m - 1 /\ Head(todo) = todo[1]
      /\ \A i \in 1..(m - 1) : todo'[i] = todo[i + 1]
    BY <1>2
<1>4. \A i \in 1..m : todo[i] = sessions[n - m + i]
    BY DEF Classifying
<1>5. k \in DOMAIN sessions /\ Head(todo) = sessions[k]
    <2> HIDE DEF n, m
    <2>1. 1 \in 1..m /\ k \in 1..n
        BY <1>1, <1>2
    <2> QED
        BY <1>1, <1>3, <1>4, <2>1
<1>6. ASSUME NEW i \in 1..(m - 1) PROVE todo'[i] = sessions[n - (m - 1) + i]
    <2> HIDE DEF n, m
    <2>1. i + 1 \in 1..m /\ n - m + (i + 1) = n - (m - 1) + i
        BY <1>1, <1>2
    <2> QED
        BY <1>3, <1>4, <2>1
<1>7. k \notin ReadSoFar
    <2>1. \A i \in ReadSoFar : i <= n - m
        BY DEF ReadSoFar
    <2> HIDE DEF n, m
    <2> QED
        BY <1>1, <1>2, <2>1
<1>8. ReadSoFar' = IF sessions[k].sid \in exclude_sids THEN ReadSoFar ELSE ReadSoFar \cup {k}
    <2>1. ReadSoFar = {i \in 1..n : sessions[i].sid \notin exclude_sids /\ i <= n - m}
        BY <1>1 DEF ReadSoFar, Kept
    <2>2. ReadSoFar' = {i \in 1..n : sessions[i].sid \notin exclude_sids /\ i <= n - (m - 1)}
        BY <1>1, <1>3 DEF ReadSoFar, Kept
    <2>3. \A i \in 1..n : i <= n - (m - 1) <=> i <= n - m \/ i = k
        <3> HIDE DEF n, m
        <3> QED
            BY <1>1, <1>2
    <2>4. k \in 1..n
        BY <1>1, <1>5
    <2> HIDE DEF n, m, k
    <2> QED
        BY <2>1, <2>2, <2>3, <2>4
<1>9. Len(todo') <= n
    <2> HIDE DEF n, m
    <2> QED
        BY <1>1, <1>2, <1>3
<1> QED
    BY <1>3, <1>5, <1>6, <1>7, <1>8, <1>9

LEMMA ClassifyKeeps ==
    ASSUME Classifying, ClassifySession
    PROVE  Classifying'
<1> DEFINE k == Len(sessions) - Len(todo) + 1
           s == sessions[k]
           known == IF s.ip \in DOMAIN ip_data THEN ip_data[s.ip] ELSE {}
<1>1. phase = "classify" /\ phase' = phase /\ todo # <<>> /\ todo' = Tail(todo)
      /\ sessions' = sessions /\ families' = families
    BY DEF ClassifySession
<1>2. /\ Head(todo) = s
      /\ todo' \in Seq(Range(sessions)) /\ Len(todo') <= Len(sessions)
      /\ \A i \in 1..Len(todo') : todo'[i] = sessions[Len(sessions) - Len(todo') + i]
      /\ ReadSoFar' = IF s.sid \in exclude_sids THEN ReadSoFar ELSE ReadSoFar \cup {k}
    BY <1>1, NextSession
<1>3. s.sid \notin exclude_sids
      /\ ip_data' = [ip \in DOMAIN ip_data \cup {s.ip} |->
                       IF ip = s.ip THEN known \cup {Classified(s)} ELSE ip_data[ip]]
    BY <1>2 DEF ClassifySession
<1>4. ReadSoFar' = ReadSoFar \cup {k}
    BY <1>2, <1>3
<1> HIDE DEF k
<1>5. \A ip : ReadOf(ip)' = ReadOf(ip) \cup IF s.ip = ip THEN {k} ELSE {}
    BY <1>1, <1>4 DEF ReadOf
<1>6. \A ip : {Classified(sessions[i]) : i \in ReadOf(ip)'}
              = {Classified(sessions[i]) : i \in ReadOf(ip)}
                \cup IF s.ip = ip THEN {Classified(s)} ELSE {}
    BY <1>5
<1>7. known = {Classified(sessions[i]) : i \in ReadOf(s.ip)}
    <2>1. CASE s.ip \in DOMAIN ip_data
        BY <2>1 DEF Classifying
    <2>2. CASE s.ip \notin DOMAIN ip_data
        <3>1. ReadOf(s.ip) = {}
            BY <2>2 DEF Classifying, ReadOf
        <3> QED
            BY <2>2, <3>1
    <2> QED
        BY <2>1, <2>2
<1>8. DOMAIN ip_data' = {sessions[i].ip : i \in ReadSoFar'}
    <2>1. DOMAIN ip_data = {sessions[i].ip : i \in ReadSoFar}
        BY DEF Classifying
    <2>2. DOMAIN ip_data' = DOMAIN ip_data \cup {s.ip}
        BY <1>3
    <2> QED
        BY <1>4, <2>1, <2>2
<1>9. ASSUME NEW ip \in DOMAIN ip_data'
      PROVE  ip_data'[ip] = {Classified(sessions[i]) : i \in ReadOf(ip)'}
    <2> HIDE DEF known, s
    <2>1. CASE ip = s.ip
        <3>1. ip_data'[ip] = known \cup {Classified(s)}
            BY <1>3, <2>1
        <3> QED
            BY <1>6, <1>7, <2>1, <3>1
    <2>2. CASE ip # s.ip
        <3>1. ip \in DOMAIN ip_data /\ ip_data'[ip] = ip_data[ip]
            BY <1>3, <2>2
        <3>2. ip_data[ip] = {Classified(sessions[i]) : i \in ReadOf(ip)}
            BY <3>1 DEF Classifying
        <3> QED
            BY <1>6, <2>2, <3>1, <3>2
    <2> QED
        BY <2>1, <2>2
<1>10. families' = Nothing /\ sessions \in Inputs
    BY <1>1 DEF Classifying
<1> QED
    BY <1>1, <1>2, <1>8, <1>9, <1>10 DEF Classifying

LEMMA SkipKeeps ==
    ASSUME Classifying, SkipExcluded
    PROVE  Classifying'
<1> DEFINE k == Len(sessions) - Len(todo) + 1
<1>1. phase = "classify" /\ phase' = phase /\ todo # <<>> /\ todo' = Tail(todo)
      /\ sessions' = sessions /\ families' = families /\ ip_data' = ip_data
      /\ Head(todo).sid \in exclude_sids
    BY DEF SkipExcluded
<1>2. /\ Head(todo) = sessions[k]
      /\ todo' \in Seq(Range(sessions)) /\ Len(todo') <= Len(sessions)
      /\ \A i \in 1..Len(todo') : todo'[i] = sessions[Len(sessions) - Len(todo') + i]
      /\ ReadSoFar' = IF sessions[k].sid \in exclude_sids THEN ReadSoFar ELSE ReadSoFar \cup {k}
    BY <1>1, NextSession
<1> HIDE DEF k
<1>3. ReadSoFar' = ReadSoFar
    BY <1>1, <1>2
<1>4. \A ip : ReadOf(ip)' = ReadOf(ip)
    BY <1>1, <1>3 DEF ReadOf
<1>5. families' = Nothing /\ sessions \in Inputs
    BY <1>1 DEF Classifying
<1> QED
    BY <1>1, <1>2, <1>3, <1>4, <1>5 DEF Classifying

LEMMA ClassifyingStep == Classifying /\ [Next]_<<vars, bundleVars>> => Classifying'
<1> SUFFICES ASSUME Classifying, [Next]_<<vars, bundleVars>> PROVE Classifying'
    OBVIOUS
<1>1. CASE ClassifySession
    BY <1>1, ClassifyKeeps
<1>2. CASE SkipExcluded
    BY <1>2, SkipKeeps
<1>3. CASE ~ClassifySession /\ ~SkipExcluded
    <2>1. sessions' = sessions /\ todo' = todo /\ ip_data' = ip_data
        BY <1>3 DEF Next, ClassifyNext, WriteFamilies, RefuseToWrite, AddSection,
                    FamilyMissing, WriteBundle, vars
    <2>2. \/ families' = families
          \/ families' = Aggregated /\ todo = <<>> /\ phase' = "classified"
        BY <1>3 DEF Next, ClassifyNext, WriteFamilies, RefuseToWrite, AddSection,
                    FamilyMissing, WriteBundle, vars
    <2>3. phase' = "classify" => phase = "classify"
        BY <1>3 DEF Next, ClassifyNext, WriteFamilies, RefuseToWrite, AddSection,
                    FamilyMissing, WriteBundle, vars
    <2>4. Aggregated' = Aggregated
        BY <2>1 DEF Aggregated, FamiliesOf, AllSessions, Staged, Unclassified
    <2>5. ReadSoFar' = ReadSoFar
        BY <2>1 DEF ReadSoFar, Kept
    <2>6. \A ip : ReadOf(ip)' = ReadOf(ip)
        BY <2>1, <2>5 DEF ReadOf
    <2> QED
        BY <2>1, <2>2, <2>3, <2>4, <2>5, <2>6 DEF Classifying
<1> QED
    BY <1>1, <1>2, <1>3

-------------------------------------------------------------------------------
(* The report of cluster.py, in terms of the sessions kept.                 *)

Kind(i) == ClusterOf(sessions[i].shape)
OfShape(shape) == {i \in DOMAIN Kept : sessions[i].shape = shape}
OfCluster(cids) == {i \in DOMAIN Kept : Kind(i) \in cids}
InFamily(fam) == {i \in DOMAIN Kept : fam \in FamilyIds(Kind(i), sessions[i].shape)}

LEMMA KeptFinite ==
    ASSUME sessions \in Inputs, NEW X, X \subseteq DOMAIN Kept
    PROVE  IsFiniteSet(X)
<1> DEFINE S == 1..Len(sessions)
<1>1. Len(sessions) \in Nat /\ X \subseteq S
    BY InputFacts DEF Kept
<1>2. IsFiniteSet(S)
    BY <1>1, FS_Interval
<1> HIDE DEF S
<1> QED
    BY <1>1, <1>2, FS_Subset

LEMMA PatternFacts ==
    ASSUME sessions \in Inputs
    PROVE  /\ \A p \in Patterns(Kept) :
                  /\ p.session_count = Cardinality(OfShape(p.shape))
                  /\ p.ips = {sessions[i].ip : i \in OfShape(p.shape)}
                  /\ OfShape(p.shape) # {}
           /\ \A p, q \in Patterns(Kept) : p.shape = q.shape => p = q
           /\ \A i \in DOMAIN Kept : \E p \in Patterns(Kept) : p.shape = sessions[i].shape
           /\ IsFiniteSet(Patterns(Kept))
<1> DEFINE D == DOMAIN Kept
           P(shape) == [shape |-> shape,
                        session_count |-> Cardinality({i \in D : Kept[i].shape = shape}),
                        ips |-> {s.ip : s \in {q \in ToSet(Kept) : q.shape = shape}}]
<1>1. \A i \in D : Kept[i] = sessions[i]
    BY DEF Kept
<1>2. ToSet(Kept) = {Kept[i] : i \in D}
    BY DEF ToSet
<1>3. Patterns(Kept) = {P(shape) : shape \in {s.shape : s \in ToSet(Kept)}}
    BY DEF Patterns
<1>4. {s.shape : s \in ToSet(Kept)} = {sessions[i].shape : i \in D}
    BY <1>1, <1>2
<1>5. ASSUME NEW shape
      PROVE  /\ P(shape).shape = shape
             /\ P(shape).session_count = Cardinality(OfShape(shape))
             /\ P(shape).ips = {sessions[i].ip : i \in OfShape(shape)}
    <2>1. {i \in D : Kept[i].shape = shape} = OfShape(shape)
        BY <1>1 DEF OfShape
    <2>2. {s.ip : s \in {q \in ToSet(Kept) : q.shape = shape}} = {sessions[i].ip : i \in OfShape(shape)}
        BY <1>1, <1>2 DEF OfShape
    <2> QED
        BY <2>1, <2>2
<1>6. Patterns(Kept) = {P(shape) : shape \in {sessions[i].shape : i \in D}}
    BY <1>3, <1>4
<1> HIDE DEF P
<1>7. IsFiniteSet(Patterns(Kept))
    <2> DEFINE f == [i \in D |-> P(sessions[i].shape)]
    <2>1. Patterns(Kept) = {f[i] : i \in DOMAIN f}
        <3>1. {f[i] : i \in DOMAIN f} = {P(sessions[i].shape) : i \in D}
            OBVIOUS
        <3> HIDE DEF f
        <3> QED
            BY <1>6, <3>1
    <2>2. IsFiniteSet(DOMAIN f)
        BY KeptFinite
    <2> HIDE DEF f
    <2> QED
        BY <2>1, <2>2, FiniteImage
<1>8. ASSUME NEW p \in Patterns(Kept)
      PROVE  \E i \in D : p = P(sessions[i].shape) /\ i \in OfShape(p.shape)
    <2>1. PICK i \in D : p = P(sessions[i].shape)
        BY <1>6
    <2>2. p.shape = sessions[i].shape
        BY <1>5, <2>1
    <2> QED
        BY <2>1, <2>2 DEF OfShape
<1>9. \A p \in Patterns(Kept) : p = P(p.shape)
    BY <1>5, <1>8
<1>10. ASSUME NEW i \in D PROVE \E p \in Patterns(Kept) : p.shape = sessions[i].shape
    <2>1. P(sessions[i].shape) \in Patterns(Kept)
        BY <1>6
    <2> QED
        BY <1>5, <2>1
<1> QED
    BY <1>5, <1>7, <1>8, <1>9, <1>10

LEMMA ReportFacts ==
    ASSUME sessions \in Inputs
    PROVE  /\ DOMAIN Clusters = {Kind(i) : i \in DOMAIN Kept}
           /\ \A cid \in DOMAIN Clusters :
                  /\ Clusters[cid].sessions = Cardinality(OfCluster({cid}))
                  /\ Clusters[cid].ips = {sessions[i].ip : i \in OfCluster({cid})}
<1> DEFINE patterns == Patterns(Kept)
           cid_of == [p \in patterns |-> ClusterOf(p.shape)]
           Bucket(cid) == {p \in patterns : cid_of[p] = cid}
           counts_of(cid) == [p \in Bucket(cid) |-> p.session_count]
<1>1. Clusters = [cid \in Range(cid_of) |->
            [patterns |-> Cardinality(Bucket(cid)),
             sessions |-> SumFunction(counts_of(cid)),
             ips |-> UNION {p.ips : p \in Bucket(cid)}]]
    BY DEF Clusters, Report
<1> HIDE DEF patterns
<1>2. ASSUME NEW p \in patterns
      PROVE  \E i \in DOMAIN Kept : i \in OfShape(p.shape) /\ p.shape = sessions[i].shape
    <2>1. PICK i \in OfShape(p.shape) : TRUE
        BY PatternFacts DEF patterns
    <2> QED
        BY <2>1 DEF OfShape
<1>3. \A i \in DOMAIN Kept : \E p \in patterns : p.shape = sessions[i].shape
    BY PatternFacts DEF patterns
<1>4. Range(cid_of) = {Kind(i) : i \in DOMAIN Kept}
    BY <1>2, <1>3 DEF Range, Kind
<1>5. \A cid : \A i : i \in OfCluster({cid}) <=> i \in DOMAIN Kept /\ \E p \in Bucket(cid) : i \in OfShape(p.shape)
    BY <1>3 DEF OfCluster, OfShape, Kind
<1>6. ASSUME NEW cid
      PROVE  SumFunction(counts_of(cid)) = Cardinality(OfCluster({cid}))
    <2> DEFINE f == counts_of(cid)
               U == [p \in Bucket(cid) |-> OfShape(p.shape)]
    <2>1. IsFiniteSet(DOMAIN f)
        BY PatternFacts, FS_Subset DEF patterns
    <2>2. \A p \in DOMAIN f : IsFiniteSet(U[p]) /\ f[p] = Cardinality(U[p])
        BY PatternFacts, KeptFinite DEF patterns, OfShape
    <2>3. \A p, q \in DOMAIN f : p # q => U[p] \cap U[q] = {}
        BY PatternFacts DEF patterns, OfShape
    <2>4. UNION {U[p] : p \in DOMAIN f} = OfCluster({cid})
        <3>1. \A i : i \in UNION {U[p] : p \in DOMAIN f} <=> \E p \in Bucket(cid) : i \in OfShape(p.shape)
            OBVIOUS
        <3> HIDE DEF U, f
        <3> QED
            BY <1>5, <3>1 DEF OfShape
    <2> HIDE DEF f, U
    <2>5. SumFunction(f) = Cardinality(UNION {U[p] : p \in DOMAIN f})
        BY <2>1, <2>2, <2>3, SumCount
    <2>6. SumFunction(f) = Cardinality(OfCluster({cid}))
        BY <2>4, <2>5
    <2> QED
        BY <2>6 DEF f
<1>7. ASSUME NEW cid
      PROVE  UNION {p.ips : p \in Bucket(cid)} = {sessions[i].ip : i \in OfCluster({cid})}
    <2>1. \A p \in Bucket(cid) : p.ips = {sessions[i].ip : i \in OfShape(p.shape)}
        BY PatternFacts DEF patterns
    <2> HIDE DEF Bucket
    <2>2. ASSUME NEW x \in UNION {p.ips : p \in Bucket(cid)}
          PROVE  x \in {sessions[i].ip : i \in OfCluster({cid})}
        <3>1. PICK p \in Bucket(cid) : x \in p.ips
            OBVIOUS
        <3>2. PICK i \in OfShape(p.shape) : x = sessions[i].ip
            BY <2>1, <3>1
        <3> QED
            BY <1>5, <3>1, <3>2 DEF OfShape
    <2>3. ASSUME NEW i \in OfCluster({cid})
          PROVE  sessions[i].ip \in UNION {p.ips : p \in Bucket(cid)}
        <3>1. PICK p \in Bucket(cid) : i \in OfShape(p.shape)
            BY <1>5
        <3>2. sessions[i].ip \in p.ips
            BY <2>1, <3>1
        <3> QED
            BY <3>1, <3>2
    <2> QED
        BY <2>2, <2>3
<1> HIDE DEF counts_of, Bucket, cid_of
<1> QED
    BY <1>1, <1>4, <1>6, <1>7

-------------------------------------------------------------------------------
(* The sessions of a family are those of its clusters and those of C08 that  *)
(* the fingerprint gives it.                                                *)

Fingerprinted(fam) ==
    {i \in DOMAIN Kept : Kind(i) = "C08" /\ fam \in FamilyIds("C08", sessions[i].shape)}

LEMMA FamilyParts ==
    ASSUME NEW fam
    PROVE  /\ InFamily(fam) = OfCluster(Whole(fam)) \cup Fingerprinted(fam)
           /\ OfCluster(Whole(fam)) \cap Fingerprinted(fam) = {}
<1>1. ASSUME NEW cid, NEW shape, cid # "C08"
      PROVE  fam \in FamilyIds(cid, shape) <=> cid \in Whole(fam)
    <2>1. CASE cid = "C14"
        BY <1>1, <2>1 DEF FamilyIds, Whole
    <2>2. CASE cid # "C14"
        <3>1. FamilyIds(cid, shape) = Get(by_cluster, cid)
            BY <1>1, <2>2 DEF FamilyIds
        <3> QED
            BY <1>1, <2>2, <3>1 DEF Get, Whole
    <2> QED
        BY <2>1, <2>2
<1>2. "C08" \notin Whole(fam)
    BY DEF Whole
<1>3. ASSUME NEW i \in DOMAIN Kept
      PROVE  fam \in FamilyIds(Kind(i), sessions[i].shape)
                 <=> Kind(i) \in Whole(fam)
                     \/ (Kind(i) = "C08" /\ fam \in FamilyIds("C08", sessions[i].shape))
    <2>1. CASE Kind(i) = "C08"
        BY <1>2, <2>1
    <2>2. CASE Kind(i) # "C08"
        BY <1>1, <2>2
    <2> QED
        BY <2>1, <2>2
<1> QED
    BY <1>2, <1>3 DEF InFamily, OfCluster, Fingerprinted

LEMMA WholeSum ==
    ASSUME sessions \in Inputs, NEW fam
    PROVE  SumFunction([cid \in Whole(fam) \cap DOMAIN Clusters |-> Clusters[cid].sessions])
               = Cardinality(OfCluster(Whole(fam)))
<1> DEFINE C == Whole(fam) \cap DOMAIN Clusters
           f == [cid \in C |-> Clusters[cid].sessions]
           U == [cid \in C |-> OfCluster({cid})]
<1>1. IsFiniteSet(DOMAIN f)
    <2> DEFINE kind == [i \in DOMAIN Kept |-> Kind(i)]
    <2>1. DOMAIN Clusters = {kind[i] : i \in DOMAIN kind} /\ IsFiniteSet(DOMAIN kind)
        BY ReportFacts, KeptFinite
    <2> HIDE DEF kind
    <2>2. IsFiniteSet(DOMAIN Clusters)
        BY <2>1, FiniteImage
    <2> QED
        BY <2>2, FS_Subset
<1>2. \A cid \in DOMAIN f : IsFiniteSet(U[cid]) /\ f[cid] = Cardinality(U[cid])
    BY ReportFacts, KeptFinite DEF OfCluster
<1>3. \A x, y \in DOMAIN f : x # y => U[x] \cap U[y] = {}
    BY DEF OfCluster
<1>4. UNION {U[cid] : cid \in DOMAIN f} = OfCluster(Whole(fam))
    <2>1. \A i : i \in UNION {U[cid] : cid \in DOMAIN f} <=> \E cid \in C : i \in OfCluster({cid})
        OBVIOUS
    <2>2. \A i \in DOMAIN Kept : Kind(i) \in DOMAIN Clusters
        BY ReportFacts
    <2> HIDE DEF f, U
    <2> QED
        BY <2>1, <2>2 DEF OfCluster
<1> HIDE DEF f, U
<1>5. SumFunction(f) = Cardinality(UNION {U[cid] : cid \in DOMAIN f})
    BY <1>1, <1>2, <1>3, SumCount
<1>6. SumFunction(f) = Cardinality(OfCluster(Whole(fam)))
    BY <1>4, <1>5
<1> QED
    BY <1>6 DEF f

LEMMA SplitFacts ==
    ASSUME sessions \in Inputs, NEW fam
    PROVE  /\ Cardinality(Split(fam)) = Cardinality(Fingerprinted(fam))
           /\ {s.ip : s \in Split(fam)} = {sessions[i].ip : i \in Fingerprinted(fam)}
<1> DEFINE D == Fingerprinted(fam)
           f == [i \in D |-> sessions[i]]
<1>1. Split(fam) = {sessions[i] : i \in D}
    BY DEF Split, Fingerprinted, Kind, Kept, ToSet
<1>2. \A i, j \in D : f[i] = f[j] => i = j
    BY InputFacts DEF Fingerprinted, Kept
<1>3. IsFiniteSet(D)
    BY KeptFinite DEF Fingerprinted
<1>4. {sessions[i] : i \in D} = {f[i] : i \in D} /\ DOMAIN f = D
    OBVIOUS
<1> HIDE DEF D, f
<1>5. Cardinality(Split(fam)) = Cardinality(D)
    BY <1>1, <1>2, <1>3, <1>4, ImageCount
<1>6. {s.ip : s \in Split(fam)} = {sessions[i].ip : i \in D}
    BY <1>1
<1> QED
    BY <1>5, <1>6 DEF D

-------------------------------------------------------------------------------
(* When nothing is left to read, ip_data holds the sessions kept.           *)

OfAddress(ip) == {i \in DOMAIN Kept : sessions[i].ip = ip}
ClassifiedAt(X) == {Classified(sessions[i]) : i \in X}

LEMMA ClassifiedFields ==
    \A i : /\ Classified(sessions[i]).sid = sessions[i].sid
           /\ Classified(sessions[i]).cluster_id = Kind(i)
           /\ Classified(sessions[i]).families = FamilyIds(Kind(i), sessions[i].shape)
           /\ Classified(sessions[i]).stage = IF Kind(i) = "C09" THEN Stage(sessions[i].cmds)
                                                                 ELSE "none"
BY DEF Classified, Kind

LEMMA ClassifiedCount ==
    ASSUME sessions \in Inputs, NEW X, X \subseteq DOMAIN Kept
    PROVE  IsFiniteSet(ClassifiedAt(X)) /\ Cardinality(ClassifiedAt(X)) = Cardinality(X)
<1> DEFINE f == [i \in X |-> Classified(sessions[i])]
<1>1. ClassifiedAt(X) = {f[i] : i \in X} /\ DOMAIN f = X
    BY DEF ClassifiedAt
<1>2. IsFiniteSet(X)
    BY KeptFinite
<1>3. ASSUME NEW i \in X, NEW j \in X, f[i] = f[j] PROVE i = j
    <2>1. sessions[i].sid = sessions[j].sid
        BY <1>3, ClassifiedFields
    <2> QED
        BY <2>1, InputFacts DEF Kept
<1> HIDE DEF f
<1> QED
    BY <1>1, <1>2, <1>3, ImageCount

LEMMA Collected ==
    ASSUME Classifying, todo = <<>>
    PROVE  /\ DOMAIN ip_data = {sessions[i].ip : i \in DOMAIN Kept}
           /\ \A ip \in DOMAIN ip_data : ip_data[ip] = ClassifiedAt(OfAddress(ip))
           /\ AllSessions = ClassifiedAt(DOMAIN Kept)
<1>1. ReadSoFar = DOMAIN Kept
    <2>1. Len(sessions) \in Nat /\ DOMAIN sessions = 1..Len(sessions)
        BY InputFacts DEF Classifying
    <2>2. Len(todo) = 0
        OBVIOUS
    <2> QED
        BY <2>1, <2>2 DEF ReadSoFar, Kept
<1>2. \A ip : ReadOf(ip) = OfAddress(ip)
    BY <1>1 DEF ReadOf, OfAddress
<1>3. DOMAIN ip_data = {sessions[i].ip : i \in DOMAIN Kept}
    BY <1>1 DEF Classifying
<1>4. \A ip \in DOMAIN ip_data : ip_data[ip] = ClassifiedAt(OfAddress(ip))
    BY <1>2 DEF Classifying, ClassifiedAt
<1>5. AllSessions = ClassifiedAt(DOMAIN Kept)
    <2>1. ASSUME NEW i \in DOMAIN Kept PROVE Classified(sessions[i]) \in AllSessions
        <3>1. sessions[i].ip \in DOMAIN ip_data /\ i \in OfAddress(sessions[i].ip)
            BY <1>3 DEF OfAddress
        <3>2. Classified(sessions[i]) \in ip_data[sessions[i].ip]
            BY <1>4, <3>1 DEF ClassifiedAt
        <3> QED
            BY <3>1, <3>2 DEF AllSessions
    <2>2. ASSUME NEW s \in AllSessions PROVE s \in ClassifiedAt(DOMAIN Kept)
        <3>1. PICK ip \in DOMAIN ip_data : s \in ip_data[ip]
            BY DEF AllSessions
        <3> QED
            BY <1>4, <3>1 DEF ClassifiedAt, OfAddress
    <2>3. \A s \in ClassifiedAt(DOMAIN Kept) : s \in AllSessions
        BY <2>1 DEF ClassifiedAt
    <2> QED
        BY <2>2, <2>3
<1> QED
    BY <1>3, <1>4, <1>5

(* The families of an address, and the sessions of a family. *)
LEMMA InFamilies ==
    ASSUME Classifying, todo = <<>>
    PROVE  /\ \A ip \in DOMAIN ip_data : \A fam :
                  fam \in FamiliesOf(ip) <=> \E i \in InFamily(fam) : sessions[i].ip = ip
           /\ \A fam : {s \in AllSessions : fam \in s.families} = ClassifiedAt(InFamily(fam))
<1>1. ASSUME NEW ip \in DOMAIN ip_data, NEW fam
      PROVE  fam \in FamiliesOf(ip) <=> \E i \in InFamily(fam) : sessions[i].ip = ip
    <2>1. fam \in FamiliesOf(ip) <=> \E s \in ClassifiedAt(OfAddress(ip)) : fam \in s.families
        BY Collected DEF FamiliesOf
    <2>2. fam \in FamiliesOf(ip)
              <=> \E i \in OfAddress(ip) : fam \in FamilyIds(Kind(i), sessions[i].shape)
        BY <2>1, ClassifiedFields DEF ClassifiedAt
    <2> QED
        BY <2>2 DEF OfAddress, InFamily
<1>2. ASSUME NEW fam
      PROVE  {s \in AllSessions : fam \in s.families} = ClassifiedAt(InFamily(fam))
    <2>1. AllSessions = ClassifiedAt(DOMAIN Kept)
        BY Collected
    <2> QED
        BY <2>1, ClassifiedFields DEF ClassifiedAt, InFamily
<1> QED
    BY <1>1, <1>2

LEMMA SessionsSum ==
    ASSUME Classifying, todo = <<>>, families = Aggregated
    PROVE  SessionsAddUp
<1>1. sessions \in Inputs
    BY DEF Classifying
<1>2. ASSUME NEW fam \in DOMAIN families
      PROVE  families[fam].session_count =
                 SumFunction([cid \in Whole(fam) \cap DOMAIN Clusters |-> Clusters[cid].sessions])
                 + Cardinality(Split(fam))
    <2> DEFINE A == OfCluster(Whole(fam))
               B == Fingerprinted(fam)
    <2>1. families[fam].session_count = Cardinality({s \in AllSessions : fam \in s.families})
        BY DEF Aggregated
    <2>2. families[fam].session_count = Cardinality(InFamily(fam))
        <3>1. {s \in AllSessions : fam \in s.families} = ClassifiedAt(InFamily(fam))
            BY InFamilies
        <3>2. InFamily(fam) \subseteq DOMAIN Kept
            BY DEF InFamily
        <3> QED
            BY <1>1, <2>1, <3>1, <3>2, ClassifiedCount
    <2>3. InFamily(fam) = A \cup B /\ A \cap B = {}
        BY FamilyParts
    <2>4. IsFiniteSet(A) /\ IsFiniteSet(B)
        BY <1>1, KeptFinite DEF OfCluster, Fingerprinted
    <2> HIDE DEF A, B
    <2>5. Cardinality(A \cup B) = Cardinality(A) + Cardinality(B)
        <3>1. Cardinality(A \cup B) = Cardinality(A) + Cardinality(B) - Cardinality(A \cap B)
            BY <2>4, FS_Union
        <3>2. Cardinality(A \cap B) = 0 /\ Cardinality(A) \in Nat /\ Cardinality(B) \in Nat
            BY <2>3, <2>4, FS_EmptySet, FS_CardinalityType
        <3> QED
            BY <3>1, <3>2
    <2>6. SumFunction([cid \in Whole(fam) \cap DOMAIN Clusters |-> Clusters[cid].sessions])
              = Cardinality(A)
        BY <1>1, WholeSum DEF A
    <2>7. Cardinality(Split(fam)) = Cardinality(B)
        BY <1>1, SplitFacts DEF B
    <2> QED
        BY <2>2, <2>3, <2>5, <2>6, <2>7
<1> QED
    BY <1>2 DEF SessionsAddUp

LEMMA AddressesSum ==
    ASSUME Classifying, Finite, todo = <<>>, families = Aggregated
    PROVE  AddressesAddUp
<1>1. sessions \in Inputs
    BY DEF Classifying
<1>2. ASSUME NEW fam \in DOMAIN families
      PROVE  {e.ip : e \in families[fam].ips} =
                 (UNION {Clusters[cid].ips : cid \in Whole(fam) \cap DOMAIN Clusters})
                 \cup {s.ip : s \in Split(fam)}
    <2> DEFINE C == Whole(fam) \cap DOMAIN Clusters
    <2>1. Members(fam) = {ip \in DOMAIN ip_data : fam \in FamiliesOf(ip)}
        BY MembersOf
    <2>2. \A ip : ip \in Members(fam) <=> \E i \in InFamily(fam) : sessions[i].ip = ip
        <3>1. \A i \in InFamily(fam) : sessions[i].ip \in DOMAIN ip_data
            BY Collected DEF InFamily
        <3> QED
            BY <2>1, <3>1, InFamilies
    <2>3. \A ip : ip \in UNION {Clusters[cid].ips : cid \in C}
                     <=> \E i \in OfCluster(Whole(fam)) : sessions[i].ip = ip
        <3>1. \A cid \in C : Clusters[cid].ips = {sessions[i].ip : i \in OfCluster({cid})}
            BY <1>1, ReportFacts
        <3>2. \A i \in OfCluster(Whole(fam)) : Kind(i) \in C /\ i \in OfCluster({Kind(i)})
            BY <1>1, ReportFacts DEF OfCluster
        <3>3. \A cid \in C : OfCluster({cid}) \subseteq OfCluster(Whole(fam))
            BY DEF OfCluster
        <3> HIDE DEF C
        <3>4. ASSUME NEW cid \in C, NEW ip \in Clusters[cid].ips
              PROVE  \E i \in OfCluster(Whole(fam)) : sessions[i].ip = ip
            <4>1. Clusters[cid].ips = {sessions[i].ip : i \in OfCluster({cid})}
                BY <3>1
            <4>2. PICK i \in OfCluster({cid}) : ip = sessions[i].ip
                BY <4>1
            <4> QED
                BY <3>3, <4>2
        <3>5. ASSUME NEW i \in OfCluster(Whole(fam))
              PROVE  \E cid \in C : sessions[i].ip \in Clusters[cid].ips
            BY <3>1, <3>2
        <3> QED
            BY <3>4, <3>5
    <2>4. \A ip : ip \in {s.ip : s \in Split(fam)}
                     <=> \E i \in Fingerprinted(fam) : sessions[i].ip = ip
        <3>1. {s.ip : s \in Split(fam)} = {sessions[i].ip : i \in Fingerprinted(fam)}
            BY <1>1, SplitFacts
        <3> QED
            BY <3>1
    <2>5. InFamily(fam) = OfCluster(Whole(fam)) \cup Fingerprinted(fam)
        BY FamilyParts
    <2> HIDE DEF C
    <2>6. Members(fam) = (UNION {Clusters[cid].ips : cid \in C}) \cup {s.ip : s \in Split(fam)}
        BY <2>2, <2>3, <2>4, <2>5
    <2> QED
        BY <2>6 DEF Members, C
<1>3. ASSUME NEW fam \in DOMAIN families, NEW e \in families[fam].ips
      PROVE  e.session_count = Cardinality({i \in DOMAIN Kept : Kept[i].ip = e.ip})
    <2>1. fam \in DOMAIN Aggregated
        OBVIOUS
    <2>2. PICK ip \in DOMAIN ip_data : e.ip = ip /\ e.session_count = Cardinality(ip_data[ip])
        BY <2>1 DEF Aggregated
    <2>3. ip_data[ip] = ClassifiedAt(OfAddress(ip))
        BY Collected
    <2>4. OfAddress(ip) \subseteq DOMAIN Kept
        BY DEF OfAddress
    <2>5. Cardinality(ip_data[ip]) = Cardinality(OfAddress(ip))
        BY <1>1, <2>3, <2>4, ClassifiedCount
    <2>6. {i \in DOMAIN Kept : Kept[i].ip = e.ip} = OfAddress(ip)
        BY <2>2 DEF OfAddress, Kept
    <2> QED
        BY <2>2, <2>5, <2>6
<1> QED
    BY <1>2, <1>3 DEF AddressesAddUp

LEMMA MultiSum ==
    ASSUME Finite, families = Aggregated
    PROVE  MultiAgrees
<1> SUFFICES ASSUME NEW ip \in DOMAIN ip_data
             PROVE  ip \in MultiFamily <=>
                        Cardinality({fam \in DOMAIN families : \E e \in families[fam].ips : e.ip = ip}) > 1
    BY DEF MultiAgrees
<1>1. \A fam \in DOMAIN families : (\E e \in families[fam].ips : e.ip = ip) <=> fam \in FamiliesOf(ip)
    <2>1. \A fam : (\E e \in families[fam].ips : e.ip = ip) <=> ip \in Members(fam)
        BY DEF Members
    <2> QED
        BY <2>1, MembersOf
<1>2. FamiliesOf(ip) \subseteq DOMAIN families
    BY MembersOf
<1>3. {fam \in DOMAIN families : \E e \in families[fam].ips : e.ip = ip} = FamiliesOf(ip)
    BY <1>1, <1>2
<1> QED
    BY <1>3 DEF MultiFamily

LEMMA StageType == \A cmds : Stage(cmds) \in Stages
BY DEF Stage, Stages

LEMMA OnlyC09 ==
    ASSUME NEW cid, NEW shape
    PROVE  "F2" \in FamilyIds(cid, shape) <=> cid = "C09" /\ "C09" \in DOMAIN by_cluster
<1>1. CASE cid = "C08"
    <2>1. "F2" \notin Get(c08_fid_family, shape)
        BY MappingAssumption DEF Get, Range
    <2> QED
        BY <1>1, <2>1 DEF FamilyIds
<1>2. CASE cid = "C14"
    BY <1>2 DEF FamilyIds
<1>3. CASE cid # "C08" /\ cid # "C14"
    <2>1. FamilyIds(cid, shape) = Get(by_cluster, cid)
        BY <1>3 DEF FamilyIds
    <2>2. cid \in DOMAIN by_cluster => (by_cluster[cid] = "F2" <=> cid = "C09")
        BY <1>3, MappingAssumption
    <2> QED
        BY <2>1, <2>2 DEF Get
<1> QED
    BY <1>1, <1>2, <1>3

LEMMA StagesSum ==
    ASSUME Classifying, Finite, todo = <<>>, families = Aggregated
    PROVE  StagesAddUp
<1> SUFFICES ASSUME "F2" \in DOMAIN families
             PROVE  SumFunction(families["F2"].stage_breakdown) = families["F2"].session_count
    BY DEF StagesAddUp
<1>1. sessions \in Inputs
    BY DEF Classifying
<1> DEFINE f == [stage \in Stages |-> Cardinality(Staged(stage))]
           U == [stage \in Stages |-> Staged(stage)]
           All == {s \in AllSessions : "F2" \in s.families}
<1>2. families["F2"].stage_breakdown = f /\ families["F2"].session_count = Cardinality(All)
    BY DEF Aggregated
<1>3. "C09" \in DOMAIN by_cluster
    <2>1. PICK ip \in DOMAIN ip_data : "F2" \in FamiliesOf(ip)
        BY DEF Aggregated
    <2>2. PICK i \in InFamily("F2") : TRUE
        BY <2>1, InFamilies
    <2> QED
        BY <2>2, OnlyC09 DEF InFamily
<1>4. AllSessions = ClassifiedAt(DOMAIN Kept)
    BY Collected
<1>5. \A s \in AllSessions : "F2" \in s.families <=> s.stage \in Stages
    <2>1. "none" \notin Stages
        BY DEF Stages
    <2>2. \A i : "F2" \in Classified(sessions[i]).families
                     <=> Classified(sessions[i]).stage \in Stages
        BY <1>3, <2>1, ClassifiedFields, OnlyC09, StageType
    <2> QED
        BY <1>4, <2>2 DEF ClassifiedAt
<1>6. ASSUME NEW s \in AllSessions, "F2" \in s.families
      PROVE  \E ip \in DOMAIN ip_data \ Unclassified : s \in ip_data[ip]
    <2>1. PICK ip \in DOMAIN ip_data : s \in ip_data[ip]
        BY DEF AllSessions
    <2>2. "F2" \in FamiliesOf(ip)
        BY <1>6, <2>1 DEF FamiliesOf
    <2> QED
        BY <2>1, <2>2 DEF Unclassified
<1>7. \A stage \in Stages : Staged(stage) = {s \in All : s.stage = stage}
    <2>1. \A stage, s : s \in Staged(stage)
              <=> s.stage = stage /\ \E ip \in DOMAIN ip_data \ Unclassified : s \in ip_data[ip]
        BY DEF Staged
    <2>2. \A s : (\E ip \in DOMAIN ip_data \ Unclassified : s \in ip_data[ip]) => s \in AllSessions
        BY DEF AllSessions
    <2> QED
        BY <1>5, <1>6, <2>1, <2>2
<1>8. IsFiniteSet(All)
    <2>1. IsFiniteSet(AllSessions)
        BY <1>1, <1>4, ClassifiedCount
    <2> QED
        BY <2>1, FS_Subset
<1>9. \A s \in All : s.stage \in Stages
    BY <1>5
<1> HIDE DEF All
<1>10. IsFiniteSet(DOMAIN f)
    <2>1. DOMAIN f = {"recon_only", "recon_kill"} \cup {"recon_kill_execute"}
        BY DEF Stages
    <2>2. IsFiniteSet({"recon_only", "recon_kill"})
        BY PairCount
    <2> HIDE DEF f
    <2> QED
        BY <2>1, <2>2, FS_AddElement
<1>11. \A x \in DOMAIN f : IsFiniteSet(U[x]) /\ f[x] = Cardinality(U[x])
    <2>1. \A stage \in Stages : IsFiniteSet(Staged(stage))
        BY <1>7, <1>8, FS_Subset
    <2> QED
        BY <2>1
<1>12. \A x, y \in DOMAIN f : x # y => U[x] \cap U[y] = {}
    BY <1>7
<1>13. UNION {U[x] : x \in DOMAIN f} = All
    <2>1. \A s : s \in UNION {U[x] : x \in DOMAIN f} <=> \E stage \in Stages : s \in Staged(stage)
        OBVIOUS
    <2> HIDE DEF U, f
    <2> QED
        BY <1>7, <1>9, <2>1
<1> HIDE DEF f, U
<1>14. SumFunction(f) = Cardinality(UNION {U[x] : x \in DOMAIN f})
    BY <1>10, <1>11, <1>12, SumCount
<1> QED
    BY <1>2, <1>13, <1>14

(* classify.py, whatever the logs, the mapping and the exclusions: what it  *)
(* writes of each family is what cluster.py reports of the clusters that    *)
(* the mapping gives it, so no kept session is lost or counted twice.       *)
THEOREM FamiliesAddUp == Spec => []FamilySums
<1> DEFINE IInv == Bundling /\ Classifying
<1>1. BundleInit => IInv
    BY BundlingInit, ClassifyingInit
<1>2. IInv /\ [Next]_<<vars, bundleVars>> => IInv'
    BY BundlingStep, ClassifyingStep
<1>3. IInv => FamilySums
    <2> SUFFICES ASSUME IInv, families # Nothing
                 PROVE  SessionsAddUp /\ AddressesAddUp /\ MultiAgrees /\ StagesAddUp
        BY DEF FamilySums
    <2>1. Finite /\ families = Aggregated /\ todo = <<>>
        BY DEF Bundling, Classifying
    <2> QED
        BY <2>1, SessionsSum, AddressesSum, MultiSum, StagesSum
<1> QED
    BY <1>1, <1>2, <1>3, PTL DEF Spec
===============================================================================

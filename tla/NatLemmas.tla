----------------------------- MODULE NatLemmas ------------------------------
(***************************************************************************)
(* Facts about natural numbers, sets of them and what a sequence holds at  *)
(* such a set of places, that the proofs of this project cite.             *)
(***************************************************************************)
EXTENDS Places, Integers, Sequences, FiniteSetsExt, FiniteSetTheorems, WellFoundedInduction, TLAPS

\* The library's well-foundedness theorem, with its relation written out.
LEMMA LessThanIsWellFounded ==
    IsWellFoundedOn({p \in Nat \X Nat : p[1] < p[2]}, Nat)
BY NatLessThanWellFounded DEF OpToRel

\* Every nonempty set of naturals has a least element.
LEMMA LeastElement ==
    ASSUME NEW T \in SUBSET Nat, T # {}
    PROVE  \E x \in T : \A y \in T : x <= y
<1> DEFINE R == {p \in Nat \X Nat : p[1] < p[2]}
<1>1. IsWellFoundedOn(R, Nat)
  BY LessThanIsWellFounded
<1> HIDE DEF R
<1>2. PICK x \in T : \A y \in T : <<y, x>> \notin R
  BY <1>1, WFMin
<1>3. \A y \in T : ~(y < x)
  BY <1>2 DEF R
<1> QED
  BY <1>3

\* Every nonempty set of naturals with an upper bound has a greatest element.
LEMMA GreatestElement ==
    ASSUME NEW n \in Nat, NEW T, T \subseteq 1 .. n, T # {}
    PROVE  \E x \in T : \A y \in T : y <= x
<1> DEFINE U == {k \in Nat : n - k \in T}
<1>0. PICK t \in T : TRUE
  OBVIOUS
<1>1. n - t \in U
  OBVIOUS
<1>2. PICK k \in U : \A l \in U : k <= l
  BY <1>1, LeastElement
<1>3. ASSUME NEW y \in T
      PROVE  y <= n - k
  <2>1. n - y \in U
    OBVIOUS
  <2> QED
    BY <2>1, <1>2
<1> QED
  BY <1>2, <1>3

LEMMA MinFacts ==
    ASSUME NEW S \in SUBSET Nat, S # {}
    PROVE  Min(S) \in S /\ \A y \in S : Min(S) <= y
<1>1. \E x \in S : \A y \in S : x <= y
  BY LeastElement
<1> QED
  BY <1>1 DEF Min

LEMMA MaxFacts ==
    ASSUME NEW n \in Nat, NEW S \in SUBSET (0 .. n), S # {}
    PROVE  Max(S) \in S /\ \A y \in S : Max(S) >= y
<1> DEFINE T == {k \in 1 .. n + 1 : k - 1 \in S}
<1>1. \A k \in S : k + 1 \in T /\ k + 1 - 1 = k
  OBVIOUS
<1>0. PICK k \in S : TRUE
  OBVIOUS
<1>2. T \subseteq 1 .. n + 1 /\ T # {} /\ n + 1 \in Nat
  <2>1. k + 1 \in T /\ T \subseteq 1 .. n + 1
    BY <1>0, <1>1
  <2> HIDE DEF T
  <2> QED
    BY <2>1
<1> HIDE DEF T
<1>3. PICK x \in T : \A y \in T : y <= x
  BY <1>2, GreatestElement
<1>4. x - 1 \in S /\ x \in 1 .. n + 1
  BY DEF T
<1>5. ASSUME NEW y \in S PROVE x - 1 >= y
  <2>1. y + 1 \in T /\ y \in 0 .. n
    BY <1>1
  <2>2. y + 1 <= x
    BY <1>3, <2>1
  <2> QED
    BY <1>4, <2>1, <2>2
<1> QED
  BY <1>4, <1>5 DEF Max

-----------------------------------------------------------------------------
(***************************************************************************)
(* The n-th of a set of places.                                            *)
(***************************************************************************)

UpTo(S, i) == {j \in S : j <= i}

Rank(S, i) == Cardinality(UpTo(S, i))

LEMMA InUpTo ==
    ASSUME NEW S, NEW i, NEW j
    PROVE  j \in UpTo(S, i) <=> j \in S /\ j <= i
BY DEF UpTo

LEMMA PlacesAreFinite ==
    ASSUME NEW k \in Nat, NEW S \in SUBSET (1 .. k)
    PROVE  IsFiniteSet(S) /\ Cardinality(S) \in Nat /\ S \subseteq Nat
<1>1. IsFiniteSet(1 .. k)
  BY FS_Interval
<1>2. S \subseteq 1 .. k /\ S \subseteq Nat
  OBVIOUS
<1>3. IsFiniteSet(S)
  BY <1>1, <1>2, FS_Subset
<1> QED
  BY <1>2, <1>3, FS_CardinalityType

LEMMA UpToFacts ==
    ASSUME NEW k \in Nat, NEW S \in SUBSET (1 .. k), NEW i \in S
    PROVE  /\ IsFiniteSet(S) /\ Cardinality(S) \in Nat
           /\ IsFiniteSet(UpTo(S, i))
           /\ Rank(S, i) \in 1 .. Cardinality(S)
<1>1. IsFiniteSet(S) /\ Cardinality(S) \in Nat
  BY PlacesAreFinite
<1>2. UpTo(S, i) \subseteq S /\ i \in UpTo(S, i)
  BY DEF UpTo
<1>3. IsFiniteSet(UpTo(S, i)) /\ Rank(S, i) <= Cardinality(S) /\ Rank(S, i) \in Nat
  BY <1>1, <1>2, FS_Subset, FS_CardinalityType DEF Rank
<1>4. Rank(S, i) # 0
  BY <1>2, <1>3, FS_EmptySet DEF Rank
<1> QED
  BY <1>1, <1>3, <1>4

\* Of two places the later one has the higher rank.
LEMMA RanksAscend ==
    ASSUME NEW k \in Nat, NEW S \in SUBSET (1 .. k), NEW i \in S, NEW j \in S, i < j
    PROVE  Rank(S, i) < Rank(S, j)
<1>1. S \subseteq Nat
  OBVIOUS
<1>2. UpTo(S, i) \subseteq UpTo(S, j)
  <2> SUFFICES ASSUME NEW x \in UpTo(S, i) PROVE x \in UpTo(S, j)
    OBVIOUS
  <2>1. x \in S /\ x <= i
    BY InUpTo
  <2>2. x \in S /\ x <= j
    BY <1>1, <2>1
  <2> QED
    BY <2>2, InUpTo
<1>3. j \in UpTo(S, j) /\ j \notin UpTo(S, i)
  BY <1>1, InUpTo
<1>4. IsFiniteSet(UpTo(S, j))
  BY UpToFacts
<1>5. Rank(S, i) <= Rank(S, j) /\ (Rank(S, i) = Rank(S, j) => UpTo(S, i) = UpTo(S, j))
  BY <1>2, <1>4, FS_Subset DEF Rank
<1>6. Rank(S, i) \in Nat /\ Rank(S, j) \in Nat
  <2>1. \A x \in S : Rank(S, x) \in 1 .. Cardinality(S)
    BY UpToFacts
  <2>2. Cardinality(S) \in Nat
    BY PlacesAreFinite
  <2> QED
    BY <2>1, <2>2
<1> QED
  BY <1>3, <1>5, <1>6

\* Every number up to the size of the set is the rank of a place: the least
\* place with at least that rank has no more than it.
LEMMA RanksReach ==
    ASSUME NEW k \in Nat, NEW S \in SUBSET (1 .. k), NEW n \in 1 .. Cardinality(S)
    PROVE  \E i \in S : Rank(S, i) = n
<1>1. IsFiniteSet(S) /\ Cardinality(S) \in Nat /\ S \subseteq Nat
  BY PlacesAreFinite
<1>2. \A x \in S : Rank(S, x) \in Nat
  <2>1. \A x \in S : Rank(S, x) \in 1 .. Cardinality(S)
    BY UpToFacts
  <2> QED
    BY <1>1, <2>1
<1>3. S # {}
  BY <1>1, FS_EmptySet
<1>4. PICK m \in S : \A j \in S : j <= m
  BY <1>3, GreatestElement
<1> DEFINE U == {i \in S : Rank(S, i) >= n}
<1>5. m \in U
  <2>1. UpTo(S, m) = S
    <3>1. \A x : x \in UpTo(S, m) <=> x \in S
      BY <1>4, InUpTo
    <3> QED
      BY <3>1
  <2> QED
    BY <1>1, <2>1 DEF Rank
<1>6. PICK i \in U : \A j \in U : i <= j
  <2>1. U \subseteq Nat /\ U # {}
    BY <1>1, <1>5
  <2> HIDE DEF U
  <2> QED
    BY <2>1, LeastElement
<1>7. CASE Rank(S, i) = n
  BY <1>7
<1>8. CASE Rank(S, i) > n
  <2> DEFINE T == UpTo(S, i) \ {i}
  <2>1. IsFiniteSet(UpTo(S, i)) /\ i \in UpTo(S, i) /\ Rank(S, i) \in Nat
    <3>1. i \in S /\ i <= i
      BY <1>1
    <3> QED
      BY <1>2, <3>1, UpToFacts, InUpTo
  <2>2. IsFiniteSet(T) /\ Cardinality(T) = Rank(S, i) - 1
    BY <2>1, FS_RemoveElement DEF Rank
  <2>3. Cardinality(T) >= n /\ n >= 1
    BY <2>1, <2>2, <1>8
  <2>4. T # {}
    BY <2>2, <2>3, FS_EmptySet
  <2>5. T \subseteq 1 .. k
    BY DEF UpTo
  <2>6. PICK p \in T : \A j \in T : j <= p
    <3> HIDE DEF T
    <3> QED
      BY <2>4, <2>5, GreatestElement
  <2>7. p \in S /\ p < i /\ UpTo(S, p) = T
    <3>1. p \in S /\ p <= i /\ p # i
      BY <2>6 DEF UpTo
    <3>2. ASSUME NEW j \in S PROVE j <= p <=> j \in T
      <4>1. j \in T <=> j <= i /\ j # i
        BY InUpTo
      <4>2. j \in Nat /\ p \in Nat /\ i \in Nat
        BY <3>1
      <4>3. j \in T => j <= p
        BY <2>6
      <4> QED
        BY <3>1, <4>1, <4>2, <4>3
    <3>3. T \subseteq S /\ \A j : j \in UpTo(S, p) <=> j \in S /\ j <= p
      BY InUpTo
    <3> HIDE DEF T
    <3>4. UpTo(S, p) = T
      BY <3>2, <3>3
    <3> QED
      BY <3>1, <3>4
  <2>8. p \in U
    BY <2>3, <2>7 DEF Rank
  <2> QED
    BY <1>6, <2>7, <2>8
<1> QED
  BY <1>2, <1>6, <1>7, <1>8

LEMMA NthFacts ==
    ASSUME NEW k \in Nat, NEW S \in SUBSET (1 .. k)
    PROVE  /\ Cardinality(S) \in Nat
           /\ \A n \in 1 .. Cardinality(S) : Nth(S, n) \in S /\ Rank(S, Nth(S, n)) = n
           /\ \A i \in S : Rank(S, i) \in 1 .. Cardinality(S) /\ Nth(S, Rank(S, i)) = i
<1>1. Cardinality(S) \in Nat
  BY PlacesAreFinite
<1>2. \A n : Nth(S, n) = CHOOSE i \in S : Rank(S, i) = n
  BY DEF Nth, Rank, UpTo
<1>3. ASSUME NEW n \in 1 .. Cardinality(S)
      PROVE  Nth(S, n) \in S /\ Rank(S, Nth(S, n)) = n
  BY <1>2, RanksReach
<1>4. ASSUME NEW i \in S
      PROVE  Rank(S, i) \in 1 .. Cardinality(S) /\ Nth(S, Rank(S, i)) = i
  <2>1. Rank(S, i) \in 1 .. Cardinality(S)
    BY UpToFacts
  <2> DEFINE j == Nth(S, Rank(S, i))
  <2>2. j \in S /\ Rank(S, j) = Rank(S, i)
    BY <1>3, <2>1
  <2> HIDE DEF j
  <2>3. i < j => Rank(S, i) < Rank(S, j)
    BY <2>2, RanksAscend
  <2>4. j < i => Rank(S, j) < Rank(S, i)
    BY <2>2, RanksAscend
  <2>5. i \in Nat /\ j \in Nat
    BY <2>2
  <2>6. i = j
    BY <2>1, <2>2, <2>3, <2>4, <2>5
  <2> QED
    BY <2>1, <2>6 DEF j
<1> QED
  BY <1>1, <1>3, <1>4

\* Only is a sequence as long as the set, ...
LEMMA OnlyIsASequence ==
    ASSUME NEW k \in Nat, NEW s, NEW S \in SUBSET (1 .. k), NEW T,
           \A i \in S : s[i] \in T
    PROVE  Only(s, S) \in Seq(T)
<1> DEFINE n == Cardinality(S)
<1>1. n \in Nat /\ Only(s, S) = [m \in 1 .. n |-> s[Nth(S, m)]]
  BY NthFacts DEF Only
<1>2. \A m \in 1 .. n : Nth(S, m) \in S
  BY NthFacts
<1> HIDE DEF n
<1>3. Only(s, S) \in [1 .. n -> T]
  BY <1>1, <1>2
<1> QED
  BY <1>1, <1>3

\* ... of what stands at its places, ...
Held(s, S) == {s[i] : i \in S}

LEMMA OnlyHolds ==
    ASSUME NEW k \in Nat, NEW s, NEW S \in SUBSET (1 .. k)
    PROVE  Range(Only(s, S)) = Held(s, S)
<1> DEFINE n == Cardinality(S)
<1>1. n \in Nat /\ Only(s, S) = [m \in 1 .. n |-> s[Nth(S, m)]]
  BY NthFacts DEF Only
<1>2. \A m \in 1 .. n : Nth(S, m) \in S
  BY NthFacts
<1>3. \A i \in S : Rank(S, i) \in 1 .. n /\ Nth(S, Rank(S, i)) = i
  BY NthFacts
<1> HIDE DEF n
<1> QED
  BY <1>1, <1>2, <1>3 DEF Range, Held

\* ... each place once.
LEMMA OnlyOnce ==
    ASSUME NEW k \in Nat, NEW s, NEW S \in SUBSET (1 .. k),
           \A i, j \in S : s[i] = s[j] => i = j
    PROVE  \A a, b \in DOMAIN Only(s, S) : Only(s, S)[a] = Only(s, S)[b] => a = b
<1> DEFINE n == Cardinality(S)
<1>1. Only(s, S) = [m \in 1 .. n |-> s[Nth(S, m)]]
  BY NthFacts DEF Only
<1>2. \A m \in 1 .. n : Nth(S, m) \in S /\ Rank(S, Nth(S, m)) = m
  BY NthFacts
<1> HIDE DEF n
<1>3. ASSUME NEW a \in 1 .. n, NEW b \in 1 .. n, Only(s, S)[a] = Only(s, S)[b]
      PROVE  a = b
  <2>1. s[Nth(S, a)] = s[Nth(S, b)]
    BY <1>1, <1>3
  <2>2. Nth(S, a) = Nth(S, b)
    BY <1>2, <2>1
  <2> QED
    BY <1>2, <2>2
<1> QED
  BY <1>1, <1>3

\* ... and in the order of the places.
LEMMA NthAscends ==
    ASSUME NEW k \in Nat, NEW S \in SUBSET (1 .. k),
           NEW a \in 1 .. Cardinality(S), NEW b \in 1 .. Cardinality(S), a < b
    PROVE  Nth(S, a) < Nth(S, b)
<1>1. /\ Nth(S, a) \in S /\ Rank(S, Nth(S, a)) = a
      /\ Nth(S, b) \in S /\ Rank(S, Nth(S, b)) = b
      /\ Cardinality(S) \in Nat
  BY NthFacts
<1> DEFINE i == Nth(S, a)
           j == Nth(S, b)
<1> HIDE DEF i, j
<1>3. i \in S /\ j \in S /\ Rank(S, i) = a /\ Rank(S, j) = b
  BY <1>1 DEF i, j
<1>2. j < i => Rank(S, j) < Rank(S, i)
  BY <1>3, RanksAscend
<1>4. i < j
  <2>1. ~(j < i)
    <3>1. a \in Nat /\ b \in Nat
      BY <1>1
    <3> QED
      BY <1>2, <1>3, <3>1
  <2>2. i # j
    BY <1>3
  <2>3. i \in Nat /\ j \in Nat
    BY <1>3
  <2> QED
    BY <2>1, <2>2, <2>3
<1> QED
  BY <1>4 DEF i, j

LEMMA OnlyLength ==
    ASSUME NEW k \in Nat, NEW s, NEW S \in SUBSET (1 .. k)
    PROVE  /\ Len(Only(s, S)) = Cardinality(S) /\ Cardinality(S) \in Nat
           /\ DOMAIN Only(s, S) = 1 .. Cardinality(S)
           /\ \A n \in 1 .. Cardinality(S) : Only(s, S)[n] = s[Nth(S, n)]
<1> DEFINE n == Cardinality(S)
<1>1. n \in Nat /\ Only(s, S) = [m \in 1 .. n |-> s[Nth(S, m)]]
  BY NthFacts DEF Only
<1> HIDE DEF n
<1>2. /\ Len(Only(s, S)) = n /\ DOMAIN Only(s, S) = 1 .. n
      /\ \A m \in 1 .. n : Only(s, S)[m] = s[Nth(S, m)]
  BY <1>1
<1> QED
  BY <1>1, <1>2 DEF n

-----------------------------------------------------------------------------
(***************************************************************************)
(* Initial segments and concatenations.                                    *)
(***************************************************************************)

\* Places that hold with every place before them are the first few.
LEMMA InitialSegment ==
    ASSUME NEW n \in Nat, NEW S \in SUBSET (1 .. n),
           \A i \in 1 .. n, j \in S : i < j => i \in S
    PROVE  /\ Cardinality(S) \in 0 .. n
           /\ \A i \in 1 .. n : i \in S <=> i <= Cardinality(S)
<1>1. CASE S = {}
  <2>1. Cardinality(S) = 0
    BY <1>1, FS_EmptySet
  <2> QED
    BY <1>1, <2>1
<1>2. CASE S # {}
  <2>1. PICK m \in S : \A j \in S : j <= m
    BY <1>2, GreatestElement
  <2>2. S = 1 .. m
    <3>1. S \subseteq 1 .. m
      BY <2>1
    <3>2. ASSUME NEW i \in 1 .. m PROVE i \in S
      <4>1. i \in 1 .. n /\ m \in 1 .. n /\ (i < m \/ i = m)
        BY <2>1
      <4> QED
        BY <2>1, <4>1
    <3> QED
      BY <3>1, <3>2
  <2>3. Cardinality(S) = m
    <3>1. m \in Nat
      BY <2>1
    <3>2. Cardinality(1 .. m) = m
      BY <3>1, FS_Interval
    <3> QED
      BY <2>2, <3>2
  <2>4. m \in 1 .. n /\ \A i \in 1 .. n : i \in S <=> i <= m
    BY <2>1, <2>2
  <2> QED
    BY <2>3, <2>4
<1> QED
  BY <1>1, <1>2

LEMMA RangeOfConcat ==
    ASSUME NEW S, NEW s \in Seq(S), NEW t \in Seq(S)
    PROVE  s \o t \in Seq(S) /\ Range(s \o t) = Range(s) \cup Range(t)
<1>1. /\ s \o t \in Seq(S) /\ Len(s \o t) = Len(s) + Len(t)
      /\ Len(s) \in Nat /\ Len(t) \in Nat
      /\ DOMAIN s = 1 .. Len(s) /\ DOMAIN t = 1 .. Len(t)
      /\ DOMAIN (s \o t) = 1 .. Len(s) + Len(t)
  OBVIOUS
<1>2. \A i \in 1 .. Len(s) + Len(t) :
         (s \o t)[i] = IF i <= Len(s) THEN s[i] ELSE t[i - Len(s)]
  OBVIOUS
<1>3. Range(s \o t) \subseteq Range(s) \cup Range(t)
  <2> SUFFICES ASSUME NEW i \in 1 .. Len(s) + Len(t)
               PROVE  (s \o t)[i] \in Range(s) \cup Range(t)
    BY <1>1 DEF Range
  <2>1. CASE i <= Len(s)
    BY <1>1, <1>2, <2>1 DEF Range
  <2>2. CASE i > Len(s)
    <3>1. i - Len(s) \in 1 .. Len(t)
      BY <1>1, <2>2
    <3> QED
      BY <1>1, <1>2, <2>2, <3>1 DEF Range
  <2> QED
    BY <1>1, <2>1, <2>2
<1>4. ASSUME NEW i \in 1 .. Len(s)
      PROVE  s[i] \in Range(s \o t)
  <2>1. i \in 1 .. Len(s) + Len(t) /\ (s \o t)[i] = s[i]
    BY <1>1, <1>2
  <2> QED
    BY <1>1, <2>1 DEF Range
<1>5. ASSUME NEW i \in 1 .. Len(t)
      PROVE  t[i] \in Range(s \o t)
  <2>1. i + Len(s) \in 1 .. Len(s) + Len(t) /\ (s \o t)[i + Len(s)] = t[i]
    BY <1>1, <1>2
  <2> QED
    BY <1>1, <2>1 DEF Range
<1> QED
  BY <1>1, <1>3, <1>4, <1>5 DEF Range

=============================================================================

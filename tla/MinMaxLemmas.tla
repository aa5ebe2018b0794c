---------------------------- MODULE MinMaxLemmas ----------------------------
(***************************************************************************)
(* Sets of naturals: least and greatest elements, for the loops that are   *)
(* modelled with Min and Max, the k-th elements of Subsequences, and sums  *)
(* over finite sets (MapThenSumSet).  Induction on size is by the least    *)
(* counterexample.                                                         *)
(***************************************************************************)
EXTENDS Integers, FiniteSetsExt, Subsequences, WellFoundedInduction, FiniteSetTheorems, TLAPS

\* A non-empty set of naturals has a least element, which Min denotes.
LEMMA MinNat ==
  ASSUME NEW S \in SUBSET Nat, S # {}
  PROVE  /\ Min(S) \in S
         /\ \A y \in S : Min(S) <= y
<1>1. \E x \in S : \A y \in S : ~ (<<y, x>> \in OpToRel(<, Nat))
  BY NatLessThanWellFounded, WFMin
<1>2. PICK x \in S : \A y \in S : ~ (<<y, x>> \in OpToRel(<, Nat))
  BY <1>1
<1>3. \A y \in S : x <= y
  <2>1. SUFFICES ASSUME NEW y \in S, ~(x <= y) PROVE FALSE
    OBVIOUS
  <2>2. y < x /\ x \in Nat /\ y \in Nat
    BY <2>1
  <2>3. <<y, x>> \in OpToRel(<, Nat)
    BY <2>2 DEF OpToRel
  <2>4. QED BY <2>3, <1>2
<1>4. QED BY <1>3 DEF Min

\* A non-empty set of naturals with an upper bound has a greatest element,
\* which Max denotes.
LEMMA MaxNat ==
  ASSUME NEW b \in Nat, NEW S \in SUBSET (0..b), S # {}
  PROVE  /\ Max(S) \in S
         /\ \A y \in S : y <= Max(S)
<1> DEFINE T == {b - x : x \in S}
<1>1. \A x \in S : b - x \in Nat
  OBVIOUS
<1>0. T \in SUBSET Nat /\ T # {}
  BY <1>1
<1>2. Min(T) \in T /\ \A y \in T : Min(T) <= y
  BY <1>0, MinNat
<1>3. PICK x \in S : Min(T) = b - x
  BY <1>2
<1>4. \A y \in S : y <= x
  BY <1>2, <1>3
<1> QED
  BY <1>4 DEF Max

-----------------------------------------------------------------------------
\* A set of numbers has a k-th one, by the least bound for which that fails.
LEMMA NthExists ==
  ASSUME NEW n \in Nat, NEW S \in SUBSET (1..n), NEW k \in 1..Cardinality(S)
  PROVE  \E i \in S : Cardinality({j \in S : j <= i}) = k
<1> DEFINE Good(T, l) == \E i \in T : Cardinality({j \in T : j <= i}) = l
           Bad == {m \in Nat : \E T \in SUBSET (1..m) : \E l \in 1..Cardinality(T) : ~Good(T, l)}
<1>1. SUFFICES Bad = {}
  <2>1. n \notin Bad => Good(S, k)
    OBVIOUS
  <2> QED
    BY <1>1, <2>1
<1>2. SUFFICES ASSUME Bad # {} PROVE FALSE
  OBVIOUS
<1>3. PICK m \in Bad : \A y \in Bad : m <= y
  BY <1>2, MinNat
<1>4. PICK T \in SUBSET (1..m) : \E l \in 1..Cardinality(T) : ~Good(T, l)
  OBVIOUS
<1>5. PICK l \in 1..Cardinality(T) : ~Good(T, l)
  BY <1>4
<1>6. m \in Nat /\ IsFiniteSet(T) /\ Cardinality(T) \in Nat
  <2>1. IsFiniteSet(1..m)
    BY FS_Interval
  <2> QED
    BY <2>1, FS_Subset, FS_CardinalityType
<1>7. m # 0
  <2>1. ASSUME m = 0 PROVE FALSE
    <3>1. T = {}
      BY <2>1
    <3> QED
      BY <1>5, <3>1, FS_EmptySet
  <2> QED
    BY <2>1
<1>8. m - 1 \in Nat /\ m - 1 \notin Bad
  <2> HIDE DEF Bad
  <2>1. m - 1 \in Nat /\ ~(m <= m - 1)
    BY <1>6, <1>7
  <2> QED
    BY <1>3, <2>1
<1>9. \A U \in SUBSET (1..m - 1) : \A h \in 1..Cardinality(U) : Good(U, h)
  BY <1>8
<1> HIDE DEF Bad
<1>10. m \in T
  <2>1. ASSUME m \notin T PROVE FALSE
    <3>1. T \in SUBSET (1..m - 1)
      BY <1>6, <1>7, <2>1
    <3> QED
      BY <1>5, <1>9, <3>1
  <2> QED
    BY <2>1
<1> DEFINE U == T \ {m}
<1>11. U \in SUBSET (1..m - 1) /\ Cardinality(U) = Cardinality(T) - 1
  <2>1. Cardinality(U) = Cardinality(T) - 1
    BY <1>6, <1>10, FS_RemoveElement
  <2>2. U \in SUBSET (1..m - 1)
    BY <1>6, <1>7
  <2> QED
    BY <2>1, <2>2
<1>12. CASE l = Cardinality(T)
  <2>1. \A j \in T : j <= m
    BY <1>6
  <2>2. {j \in T : j <= m} = T
    BY <2>1
  <2> QED
    BY <1>5, <1>10, <1>12, <2>2
<1>13. CASE l # Cardinality(T)
  <2>1. l \in 1..Cardinality(U)
    BY <1>5, <1>6, <1>11, <1>13
  <2>2. PICK i \in U : Cardinality({j \in U : j <= i}) = l
    BY <1>9, <1>11, <2>1
  <2>3. {j \in U : j <= i} = {j \in T : j <= i}
    BY <1>6, <1>11
  <2> QED
    BY <1>5, <2>2, <2>3
<1> QED
  BY <1>12, <1>13

\* Nth denotes it, and a later one is larger.
LEMMA NthFacts ==
  ASSUME NEW n \in Nat, NEW S \in SUBSET (1..n)
  PROVE  /\ \A k \in 1..Cardinality(S) : Nth(S, k) \in S
         /\ \A k, l \in 1..Cardinality(S) : k < l => Nth(S, k) < Nth(S, l)
<1>1. ASSUME NEW k \in 1..Cardinality(S)
      PROVE  Nth(S, k) \in S /\ Cardinality({j \in S : j <= Nth(S, k)}) = k
  <2>1. \E i \in S : Cardinality({j \in S : j <= i}) = k
    BY NthExists
  <2> QED
    BY <2>1 DEF Nth
<1>2. ASSUME NEW k \in 1..Cardinality(S), NEW l \in 1..Cardinality(S), k < l
      PROVE  Nth(S, k) < Nth(S, l)
  <2> DEFINE x == Nth(S, k)
             y == Nth(S, l)
  <2>1. /\ x \in S /\ Cardinality({j \in S : j <= x}) = k
        /\ y \in S /\ Cardinality({j \in S : j <= y}) = l
    BY <1>1
  <2> HIDE DEF x, y
  <2>0. x \in Int /\ y \in Int /\ \A j \in S : j \in Int
    BY <2>1
  <2>2. ASSUME y <= x PROVE FALSE
    <3>1. {j \in S : j <= y} \subseteq {j \in S : j <= x}
      <4>1. \A j \in S : j <= y => j <= x
        BY <2>0, <2>2
      <4> QED
        BY <4>1
    <3>2. IsFiniteSet({j \in S : j <= x})
      <4>1. IsFiniteSet(1..n)
        BY FS_Interval
      <4> QED
        BY <4>1, FS_Subset
    <3>3. Cardinality({j \in S : j <= y}) <= Cardinality({j \in S : j <= x})
      BY <3>1, <3>2, FS_Subset
    <3>4. k \in Int /\ l \in Int
      OBVIOUS
    <3> QED
      BY <1>2, <2>1, <3>3, <3>4
  <2>3. x < y
    BY <2>0, <2>2
  <2> QED
    BY <2>3 DEF x, y
<1> QED
  BY <1>1, <1>2

\* There are n numbers up to n.
LEMMA UpTo ==
  ASSUME NEW n \in Nat
  PROVE  IsFiniteSet(1..n) /\ Cardinality(1..n) = n
<1>1. 1 \in Int /\ n \in Int
  OBVIOUS
<1>2. IsFiniteSet(1..n) /\ Cardinality(1..n) = IF 1 > n THEN 0 ELSE n - 1 + 1
  BY <1>1, FS_Interval
<1> QED
  BY <1>2

\* A set of numbers with everything below them is an interval.
LEMMA DownClosed ==
  ASSUME NEW n \in Nat, NEW D \in SUBSET (1..n), \A i \in D : \A j \in 1..i : j \in D
  PROVE  Cardinality(D) \in 0..n /\ D = 1..Cardinality(D)
<1>1. CASE D = {}
  <2>1. Cardinality(D) = 0
    BY <1>1, FS_EmptySet
  <2> QED
    BY <1>1, <2>1
<1>2. CASE D # {}
  <2>1. D \in SUBSET (0..n)
    OBVIOUS
  <2>2. PICK m \in D : \A y \in D : y <= m
    BY <1>2, <2>1, MaxNat
  <2>3. m \in 1..n /\ D = 1..m
    <3>1. m \in 1..n /\ \A y \in D : y \in 1..n /\ y <= m
      BY <2>2
    <3>2. D \subseteq 1..m
      BY <3>1
    <3> QED
      BY <2>2, <3>1, <3>2
  <2>4. Cardinality(1..m) = m
    BY <2>3, FS_Interval
  <2> QED
    BY <2>3, <2>4
<1> QED
  BY <1>1, <1>2

\* The k-th number of an interval.
LEMMA NthInterval ==
  ASSUME NEW a \in Nat, NEW b \in Nat, a <= b
  PROVE  /\ Cardinality(a + 1..b) = b - a
         /\ \A k \in 1..b - a : Nth(a + 1..b, k) = a + k
<1> DEFINE S == a + 1..b
<1>1. ASSUME NEW x \in a..b PROVE Cardinality(a + 1..x) = x - a
  <2>1. a + 1 \in Int /\ x \in Int
    OBVIOUS
  <2>2. Cardinality(a + 1..x) = IF a + 1 > x THEN 0 ELSE x - (a + 1) + 1
    BY <2>1, FS_Interval
  <2> QED
    BY <2>1, <2>2
<1>2. Cardinality(S) = b - a
  BY <1>1
<1>3. ASSUME NEW k \in 1..b - a PROVE Nth(S, k) = a + k
  <2>1. S \in SUBSET (1..b) /\ k \in 1..Cardinality(S)
    BY <1>2
  <2> HIDE DEF S
  <2>2. \E i \in S : Cardinality({j \in S : j <= i}) = k
    BY <2>1, NthExists
  <2>3. Nth(S, k) \in S /\ Cardinality({j \in S : j <= Nth(S, k)}) = k
    BY <2>2 DEF Nth
  <2> DEFINE x == Nth(S, k)
  <2>4. x \in a..b
    BY <2>3 DEF S
  <2> HIDE DEF x
  <2>5. {j \in S : j <= x} = a + 1..x
    BY <2>4 DEF S
  <2>6. x - a = k
    BY <1>1, <2>3, <2>4, <2>5 DEF x
  <2> QED
    BY <2>4, <2>6 DEF x
<1> QED
  BY <1>2, <1>3

-----------------------------------------------------------------------------
(* Sums over sets *)

\* The element of a set that the folds take first.
Pick(s) == CHOOSE x \in s : TRUE

\* g gives the sum of f over every subset of S, the way MapThenSumSet has it.
SumsTo(f, S, g) == g = [s \in SUBSET S |-> IF s = {} THEN 0 ELSE f[Pick(s)] + g[s \ {Pick(s)}]]

\* The sum of f over S.
SumOver(f, S) == (CHOOSE g : SumsTo(f, S, g))[S]

\* The element that is taken first, and what remains.
LEMMA PickFacts ==
  ASSUME NEW S, IsFiniteSet(S), NEW s \in SUBSET S, s # {}
  PROVE  /\ Pick(s) \in s /\ s \ {Pick(s)} \in SUBSET S
         /\ IsFiniteSet(s) /\ Cardinality(s) \in Nat \ {0}
         /\ \A x \in s : Cardinality(s \ {x}) = Cardinality(s) - 1
<1>1. Pick(s) \in s
  BY DEF Pick
<1>2. IsFiniteSet(s)
  BY FS_Subset
<1>3. Cardinality(s) \in Nat /\ Cardinality(s) # 0
  BY <1>2, FS_CardinalityType, FS_EmptySet
<1>4. \A x \in s : Cardinality(s \ {x}) = Cardinality(s) - 1
  BY <1>2, FS_RemoveElement
<1> QED
  BY <1>1, <1>2, <1>3, <1>4

\* There is such a g, by the least size for which a table of sums fails.
LEMMA SumsExist ==
  ASSUME NEW S, IsFiniteSet(S), NEW f \in [S -> Nat]
  PROVE  \E g \in [SUBSET S -> Nat] : SumsTo(f, S, g)
<1> DEFINE Right(g, s) == g[s] = IF s = {} THEN 0 ELSE f[Pick(s)] + g[s \ {Pick(s)}]
           Table(n, g) == \A s \in SUBSET S : Cardinality(s) <= n => Right(g, s)
           Bad == {n \in Nat : ~ \E g \in [SUBSET S -> Nat] : Table(n, g)}
<1>1. \A s \in SUBSET S : Cardinality(s) \in Nat /\ (Cardinality(s) = 0 <=> s = {})
  BY FS_Subset, FS_CardinalityType, FS_EmptySet
<1>2. Bad = {}
  <2>1. SUFFICES ASSUME Bad # {} PROVE FALSE
    OBVIOUS
  <2>2. PICK n \in Bad : \A y \in Bad : n <= y
    BY <2>1, MinNat
  <2>3. n \in Nat /\ ~ \E g \in [SUBSET S -> Nat] : Table(n, g)
    OBVIOUS
  <2>4. n # 0
    <3> DEFINE z == [s \in SUBSET S |-> 0]
    <3>1. z \in [SUBSET S -> Nat] /\ \A s \in SUBSET S : z[s] = 0
      OBVIOUS
    <3>2. Table(0, z)
      <4>1. ASSUME NEW s \in SUBSET S, Cardinality(s) <= 0 PROVE Right(z, s)
        <5>1. s = {}
          BY <1>1, <4>1
        <5> QED
          BY <3>1, <5>1
      <4> QED
        BY <4>1
    <3> QED
      BY <2>3, <3>1, <3>2
  <2>5. n - 1 \in Nat /\ n - 1 \notin Bad
    <3> HIDE DEF Bad
    <3>1. n - 1 \in Nat /\ ~(n <= n - 1)
      BY <2>3, <2>4
    <3> QED
      BY <2>2, <3>1
  <2>6. PICK g \in [SUBSET S -> Nat] : Table(n - 1, g)
    BY <2>5
  <2> DEFINE h == [s \in SUBSET S |-> IF Cardinality(s) = n THEN f[Pick(s)] + g[s \ {Pick(s)}] ELSE g[s]]
  <2>7. ASSUME NEW s \in SUBSET S, Cardinality(s) = n
        PROVE  /\ f[Pick(s)] + g[s \ {Pick(s)}] \in Nat
               /\ s # {} /\ s \ {Pick(s)} \in SUBSET S /\ Cardinality(s \ {Pick(s)}) # n
    <3>1. s # {}
      BY <1>1, <2>4, <2>7
    <3>2. Pick(s) \in S /\ s \ {Pick(s)} \in SUBSET S /\ Cardinality(s \ {Pick(s)}) = n - 1
      BY <2>7, <3>1, PickFacts
    <3>3. f[Pick(s)] \in Nat /\ g[s \ {Pick(s)}] \in Nat
      BY <3>2
    <3> QED
      BY <2>3, <3>1, <3>2, <3>3
  <2>8. h \in [SUBSET S -> Nat]
    BY <2>7
  <2>9. Table(n, h)
    <3>1. ASSUME NEW s \in SUBSET S, Cardinality(s) <= n PROVE Right(h, s)
      <4>1. CASE Cardinality(s) = n
        <5>1. h[s] = f[Pick(s)] + g[s \ {Pick(s)}] /\ h[s \ {Pick(s)}] = g[s \ {Pick(s)}]
          BY <2>7, <4>1
        <5> HIDE DEF h
        <5> QED
          BY <2>7, <4>1, <5>1
      <4>2. CASE Cardinality(s) # n
        <5>1. Right(g, s) /\ h[s] = g[s]
          BY <1>1, <2>3, <2>6, <3>1, <4>2
        <5>2. CASE s = {}
          <6> HIDE DEF h
          <6> QED
            BY <5>1, <5>2
        <5>3. CASE s # {}
          <6>1. s \ {Pick(s)} \in SUBSET S /\ Cardinality(s \ {Pick(s)}) = Cardinality(s) - 1
            BY <5>3, PickFacts
          <6>2. Cardinality(s \ {Pick(s)}) # n
            BY <1>1, <2>3, <3>1, <6>1
          <6>3. h[s \ {Pick(s)}] = g[s \ {Pick(s)}]
            BY <6>1, <6>2
          <6> HIDE DEF h
          <6> QED
            BY <5>1, <5>3, <6>3
        <5> QED
          BY <5>2, <5>3
      <4> QED
        BY <4>1, <4>2
    <3> QED
      BY <3>1
  <2> HIDE DEF h
  <2> QED
    BY <2>3, <2>8, <2>9
<1>3. Cardinality(S) \in Nat /\ \A s \in SUBSET S : Cardinality(s) <= Cardinality(S)
  BY FS_Subset, FS_CardinalityType
<1>4. PICK g \in [SUBSET S -> Nat] : Table(Cardinality(S), g)
  BY <1>2, <1>3
<1>5. \A s \in SUBSET S : Right(g, s)
  BY <1>3, <1>4
<1>6. SumsTo(f, S, g)
  <2>1. g = [s \in SUBSET S |-> g[s]]
    OBVIOUS
  <2>2. g = [s \in SUBSET S |-> IF s = {} THEN 0 ELSE f[Pick(s)] + g[s \ {Pick(s)}]]
    BY <1>5, <2>1
  <2> QED
    BY <2>2 DEF SumsTo
<1> QED
  BY <1>6

\* Tables of sums of functions that agree agree, also on a smaller set.
LEMMA SumsAgree ==
  ASSUME NEW S, IsFiniteSet(S), NEW T \in SUBSET S, NEW f, NEW e, \A x \in T : f[x] = e[x],
         NEW g, SumsTo(f, S, g), NEW h, SumsTo(e, T, h)
  PROVE  \A s \in SUBSET T : g[s] = h[s]
<1> DEFINE Bad == {n \in Nat : \E s \in SUBSET T : Cardinality(s) = n /\ g[s] # h[s]}
<1>1. IsFiniteSet(T) /\ \A s \in SUBSET T : s \in SUBSET S /\ Cardinality(s) \in Nat
  BY FS_Subset, FS_CardinalityType
<1>2. ASSUME Bad # {} PROVE FALSE
  <2>1. PICK n \in Bad : \A y \in Bad : n <= y
    BY <1>2, MinNat
  <2>2. PICK s \in SUBSET T : Cardinality(s) = n /\ g[s] # h[s]
    BY <2>1
  <2>3. /\ g[s] = IF s = {} THEN 0 ELSE f[Pick(s)] + g[s \ {Pick(s)}]
        /\ h[s] = IF s = {} THEN 0 ELSE e[Pick(s)] + h[s \ {Pick(s)}]
    <3>1. s \in SUBSET S
      BY <1>1
    <3> QED
      BY <3>1 DEF SumsTo
  <2>4. s # {}
    BY <2>2, <2>3
  <2>5. Pick(s) \in T /\ s \ {Pick(s)} \in SUBSET T /\ Cardinality(s \ {Pick(s)}) = n - 1 /\ n \in Nat \ {0}
    BY <1>1, <2>2, <2>4, PickFacts
  <2>6. n - 1 \notin Bad /\ n - 1 \in Nat
    <3> HIDE DEF Bad
    <3> QED
      BY <2>1, <2>5
  <2>7. g[s \ {Pick(s)}] = h[s \ {Pick(s)}]
    BY <2>5, <2>6
  <2> QED
    BY <2>2, <2>3, <2>4, <2>5, <2>7
<1>3. Bad = {}
  BY <1>2
<1> QED
  BY <1>1, <1>3

\* Any table gives the sum.
LEMMA SumIs ==
  ASSUME NEW S, IsFiniteSet(S), NEW f \in [S -> Nat]
  PROVE  /\ SumsTo(f, S, CHOOSE g : SumsTo(f, S, g))
         /\ \A g : SumsTo(f, S, g) => g[S] = SumOver(f, S)
         /\ SumOver(f, S) \in Nat
<1>1. PICK g \in [SUBSET S -> Nat] : SumsTo(f, S, g)
  BY SumsExist
<1> DEFINE G == CHOOSE h : SumsTo(f, S, h)
<1>2. SumsTo(f, S, G)
  BY <1>1
<1> HIDE DEF G
<1>3. ASSUME NEW h, SumsTo(f, S, h) PROVE h[S] = G[S]
  <2>1. \A s \in SUBSET S : h[s] = G[s]
    BY <1>2, <1>3, SumsAgree
  <2> QED
    BY <2>1
<1>4. G[S] = SumOver(f, S)
  BY DEF G, SumOver
<1>5. SumOver(f, S) \in Nat
  BY <1>1, <1>3, <1>4
<1> QED
  BY <1>2, <1>3, <1>4, <1>5 DEF G

\* Sums of functions that agree are equal.
LEMMA SumCong ==
  ASSUME NEW S, IsFiniteSet(S), NEW f \in [S -> Nat], NEW D, S \subseteq D, NEW e \in [D -> Nat],
         \A x \in S : f[x] = e[x]
  PROVE  SumOver(f, S) = SumOver(e, S)
<1>1. PICK g \in [SUBSET S -> Nat] : SumsTo(f, S, g)
  BY SumsExist
<1>2. ASSUME NEW s \in SUBSET S, s # {} PROVE f[Pick(s)] = e[Pick(s)]
  BY <1>2, PickFacts
<1>3. SumsTo(e, S, g)
  <2>1. g = [s \in SUBSET S |-> IF s = {} THEN 0 ELSE f[Pick(s)] + g[s \ {Pick(s)}]]
    BY <1>1 DEF SumsTo
  <2>2. \A s \in SUBSET S : (IF s = {} THEN 0 ELSE f[Pick(s)] + g[s \ {Pick(s)}])
                             = (IF s = {} THEN 0 ELSE e[Pick(s)] + g[s \ {Pick(s)}])
    BY <1>2
  <2>3. g = [s \in SUBSET S |-> IF s = {} THEN 0 ELSE e[Pick(s)] + g[s \ {Pick(s)}]]
    BY <2>1, <2>2
  <2> QED
    BY <2>3 DEF SumsTo
<1> DEFINE G == CHOOSE h : SumsTo(e, S, h)
<1>4. SumsTo(e, S, G)
  BY <1>3
<1> HIDE DEF G
<1>5. \A s \in SUBSET S : g[s] = G[s]
  BY <1>3, <1>4, SumsAgree
<1>6. g[S] = SumOver(f, S)
  BY <1>1, SumIs
<1> QED
  BY <1>5, <1>6 DEF G, SumOver

\* In the table g of sums any element of a set may be taken out.
AnyOrder(f, S, g) == \A s \in SUBSET S : \A y \in s : g[s] = f[y] + g[s \ {y}]

\* In a table any element may be the first.
LEMMA SumsAnyOrder ==
  ASSUME NEW S, IsFiniteSet(S), NEW f \in [S -> Nat], NEW g \in [SUBSET S -> Nat], SumsTo(f, S, g)
  PROVE  AnyOrder(f, S, g)
<1> DEFINE Bad == {n \in Nat : \E s \in SUBSET S : Cardinality(s) = n /\ \E y \in s : g[s] # f[y] + g[s \ {y}]}
<1>0. \A s \in SUBSET S : s # {} => g[s] = f[Pick(s)] + g[s \ {Pick(s)}]
  BY DEF SumsTo
<1>1. ASSUME Bad # {} PROVE FALSE
  <2>1. PICK n \in Bad : \A y \in Bad : n <= y
    BY <1>1, MinNat
  <2>2. PICK s \in SUBSET S : Cardinality(s) = n /\ \E y \in s : g[s] # f[y] + g[s \ {y}]
    BY <2>1
  <2>3. PICK y \in s : g[s] # f[y] + g[s \ {y}]
    BY <2>2
  <2> DEFINE x == Pick(s)
  <2>4. /\ x \in s /\ n \in Nat \ {0} /\ s # {}
        /\ Cardinality(s \ {x}) = n - 1 /\ Cardinality(s \ {y}) = n - 1
    BY <2>2, <2>3, PickFacts
  <2>5. g[s] = f[x] + g[s \ {x}]
    BY <1>0, <2>4
  <2> HIDE DEF x
  <2>6. x # y
    BY <2>3, <2>5
  <2>7. n - 1 \notin Bad /\ n - 1 \in Nat
    <3> HIDE DEF Bad
    <3> QED
      BY <2>1, <2>4
  <2> DEFINE r == (s \ {x}) \ {y}
  <2>8. g[s \ {x}] = f[y] + g[r]
    <3>1. s \ {x} \in SUBSET S /\ y \in s \ {x}
      BY <2>6
    <3> QED
      BY <2>4, <2>7, <3>1
  <2>9. g[s \ {y}] = f[x] + g[r]
    <3>1. s \ {y} \in SUBSET S /\ x \in s \ {y} /\ (s \ {y}) \ {x} = r
      BY <2>4, <2>6
    <3>2. g[s \ {y}] = f[x] + g[(s \ {y}) \ {x}]
      BY <2>4, <2>7, <3>1
    <3> QED
      BY <3>1, <3>2
  <2>10. f[x] \in Nat /\ f[y] \in Nat /\ g[r] \in Nat
    <3>1. r \in SUBSET S /\ x \in S /\ y \in S
      BY <2>4
    <3> HIDE DEF r
    <3> QED
      BY <3>1
  <2> HIDE DEF r
  <2>11. g[s] = f[x] + (f[y] + g[r]) /\ f[y] + g[s \ {y}] = f[y] + (f[x] + g[r])
    BY <2>5, <2>8, <2>9
  <2>12. f[x] + (f[y] + g[r]) = f[y] + (f[x] + g[r])
    BY <2>10
  <2> QED
    BY <2>3, <2>11, <2>12
<1>2. Bad = {}
  BY <1>1
<1>3. \A s \in SUBSET S : Cardinality(s) \in Nat
  BY FS_Subset, FS_CardinalityType
<1> QED
  BY <1>2, <1>3 DEF AnyOrder

\* The empty sum, and what one element contributes.
LEMMA SumEmpty == ASSUME NEW f PROVE SumOver(f, {}) = 0
<1> DEFINE g == [s \in SUBSET {} |-> 0]
<1>1. \A s \in SUBSET {} : s = {}
  OBVIOUS
<1>2. g = [s \in SUBSET {} |-> IF s = {} THEN 0 ELSE f[Pick(s)] + g[s \ {Pick(s)}]]
  BY <1>1
<1>3. SumsTo(f, {}, g)
  BY <1>2 DEF SumsTo
<1> DEFINE G == CHOOSE h : SumsTo(f, {}, h)
<1>4. SumsTo(f, {}, G)
  BY <1>3
<1> HIDE DEF G
<1>5. G[{}] = 0
  BY <1>4 DEF SumsTo
<1> QED
  BY <1>5 DEF G, SumOver

\* A sum, with any of its elements taken out.
LEMMA SumTake ==
  ASSUME NEW D, NEW f \in [D -> Nat], NEW S \in SUBSET D, IsFiniteSet(S), NEW y \in S
  PROVE  /\ SumOver(f, S) \in Nat /\ SumOver(f, S \ {y}) \in Nat
         /\ SumOver(f, S) = f[y] + SumOver(f, S \ {y})
<1> DEFINE T == S \ {y}
           F == [x \in S |-> f[x]]
           E == [x \in T |-> f[x]]
<1>1. F \in [S -> Nat] /\ E \in [T -> Nat] /\ \A x \in S : F[x] = f[x]
  OBVIOUS
<1>2. IsFiniteSet(T) /\ T \in SUBSET S /\ \A x \in T : E[x] = f[x] /\ F[x] = E[x]
  BY FS_Subset
<1> HIDE DEF F, E, T
<1>3. SumOver(F, S) = SumOver(f, S) /\ SumOver(E, T) = SumOver(f, T)
  <2>1. S \subseteq D /\ T \subseteq D
    BY <1>2
  <2>2. SumOver(F, S) = SumOver(f, S)
    BY <1>1, <2>1, SumCong
  <2>3. SumOver(E, T) = SumOver(f, T)
    BY <1>1, <1>2, <2>1, SumCong
  <2> QED
    BY <2>2, <2>3
<1>4. PICK g \in [SUBSET S -> Nat] : SumsTo(F, S, g)
  BY <1>1, SumsExist
<1>5. PICK h \in [SUBSET T -> Nat] : SumsTo(E, T, h)
  BY <1>1, <1>2, SumsExist
<1>6. g[S] = SumOver(F, S) /\ h[T] = SumOver(E, T)
  BY <1>1, <1>2, <1>4, <1>5, SumIs
<1>7. g[S] = F[y] + g[T]
  <2>1. S \in SUBSET S
    OBVIOUS
  <2>2. AnyOrder(F, S, g)
    BY <1>1, <1>4, SumsAnyOrder
  <2> QED
    BY <2>1, <2>2 DEF T, AnyOrder
<1>8. g[T] = h[T]
  BY <1>2, <1>4, <1>5, SumsAgree
<1>9. SumOver(F, S) \in Nat /\ SumOver(E, T) \in Nat
  BY <1>1, <1>2, SumIs
<1> QED
  BY <1>1, <1>3, <1>6, <1>7, <1>8, <1>9 DEF T
=============================================================================

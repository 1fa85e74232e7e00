-------------------------- MODULE StatisticsProofs --------------------------
(***************************************************************************)
(* What the tests and the adjustment of summarise.py compute, for          *)
(* differences of any size and any number.  Induction over the number of   *)
(* values is by sets of numbers, from the least number outside of a set.   *)
(***************************************************************************)
EXTENDS Statistics, FiniteSetTheorems, FunctionTheorems, TLAPS

-----------------------------------------------------------------------------
(* Induction.                                                              *)

\* A set of numbers has a least one.
LEMMA Least ==
    ASSUME NEW S \in SUBSET Nat, S # {}
    PROVE  \E x \in S : \A y \in S : x <= y
<1>. DEFINE Less == {ss \in Nat \X Nat : ss[1] < ss[2]}
<1>1. IsWellFoundedOn(Less, Nat)
  BY NatLessThanWellFounded, Zenon DEF OpToRel
<1>2. PICK x \in S : \A y \in S : ~(<<y, x>> \in Less)
  <2>. HIDE DEF Less
  <2>. QED  BY <1>1, WFMin
<1>3. \A y \in S : x <= y
  <2>. SUFFICES ASSUME NEW y \in S, y < x PROVE FALSE
    OBVIOUS
  <2>1. <<y, x>> \in Nat \X Nat
    OBVIOUS
  <2>. QED  BY <1>2, <2>1
<1>. QED  BY <1>3

\* A set that holds 0, and with a number the next one, holds every number.
LEMMA Inductive ==
    ASSUME NEW S, 0 \in S, \A n \in Nat : n \in S => n + 1 \in S
    PROVE  Nat \subseteq S
<1>. SUFFICES ASSUME Nat \ S # {} PROVE FALSE
  OBVIOUS
<1>1. PICK x \in Nat \ S : \A y \in Nat \ S : x <= y
  BY Least
<1>2. x - 1 \in Nat /\ (x - 1) + 1 = x
  OBVIOUS
<1>3. x - 1 \in S
  BY <1>1, <1>2
<1>. QED  BY <1>2, <1>3

\* A bounded set of integers has a greatest one.
LEMMA Greatest ==
    ASSUME NEW S \in SUBSET Int, S # {}, NEW b \in Int, \A y \in S : y <= b
    PROVE  \E x \in S : \A y \in S : y <= x
<1>. DEFINE Gap(y) == b - y
            Gaps == {n \in Nat : b - n \in S}
<1>1. Gaps \in SUBSET Nat
  OBVIOUS
<1>2. \A y \in S : b - y \in Gaps
  OBVIOUS
<1>3. PICK n \in Gaps : \A k \in Gaps : n <= k
  <2>1. Gaps # {}
    BY <1>2
  <2>. HIDE DEF Gaps
  <2>. QED  BY <1>1, <2>1, Least
<1>4. \A y \in S : y <= b - n
  <2>. SUFFICES ASSUME NEW y \in S PROVE y <= b - n
    OBVIOUS
  <2>1. n <= b - y
    BY <1>2, <1>3
  <2>2. n \in Nat /\ y \in Int
    OBVIOUS
  <2>. QED  BY <2>1, <2>2
<1>. QED  BY <1>4
-----------------------------------------------------------------------------
(* Sums.                                                                   *)

\* A value of a sequence.
LEMMA ValuesTyped ==
    ASSUME NEW S, NEW v \in Seq(S) PROVE \A i \in 1..Len(v) : v[i] \in S
OBVIOUS

\* The sums of the first values exist, and the last of them is the total.
LEMMA PartialSums ==
    ASSUME NEW v \in Seq(Int)
    PROVE  \E f \in [0..Len(v) -> Int] :
              /\ f[0] = 0 /\ \A i \in 1..Len(v) : f[i] = f[i - 1] + v[i]
              /\ Total(v) = f[Len(v)]
<1>. DEFINE Sums(n, f) == /\ f \in [0..n -> Int]
                          /\ f = [i \in 0..n |-> IF i = 0 THEN 0
                                                 ELSE f[i - 1] + v[i]]
            Summed == {n \in Nat : n <= Len(v) => \E f : Sums(n, f)}
<1>1. 0 \in Summed
  <2>1. Sums(0, [i \in 0..0 |-> 0])
    OBVIOUS
  <2>. QED  BY <2>1
<1>2. ASSUME NEW n \in Nat, n \in Summed
      PROVE  n + 1 \in Summed
  <2>. SUFFICES ASSUME n + 1 <= Len(v) PROVE \E g : Sums(n + 1, g)
    <3>. HIDE DEF Sums
    <3>. QED  OBVIOUS
  <2>0. n <= Len(v) /\ n + 1 \in 1..Len(v)
    OBVIOUS
  <2>1. PICK f : Sums(n, f)
    <3>. HIDE DEF Sums
    <3>. QED  BY <1>2, <2>0
  <2>. DEFINE g == [i \in 0..(n + 1) |-> IF i = n + 1 THEN f[n] + v[n + 1] ELSE f[i]]
  <2>2. v[n + 1] \in Int
    BY <2>0
  <2>3. g \in [0..(n + 1) -> Int]
    BY <2>1, <2>2
  <2>4. \A i \in 0..(n + 1) :
            g[i] = IF i = 0 THEN 0 ELSE g[i - 1] + v[i]
    <3>. SUFFICES ASSUME NEW i \in 0..(n + 1)
                  PROVE  g[i] = IF i = 0 THEN 0 ELSE g[i - 1] + v[i]
      OBVIOUS
    <3>1. CASE i = n + 1
      BY <3>1
    <3>2. CASE i # n + 1
      <4>1. f[i] = IF i = 0 THEN 0 ELSE f[i - 1] + v[i]
        BY <2>1, <3>2
      <4>2. i = 0 \/ g[i - 1] = f[i - 1]
        BY <3>2
      <4>. QED  BY <3>2, <4>1, <4>2
    <3>. QED  BY <3>1, <3>2
  <2>5. g = [i \in 0..(n + 1) |-> IF i = 0 THEN 0 ELSE g[i - 1] + v[i]]
    <3>. HIDE DEF g
    <3>. QED  BY <2>3, <2>4
  <2>. HIDE DEF g
  <2>. QED  BY <2>3, <2>5
<1>3. Len(v) \in Summed
  <2>. HIDE DEF Summed
  <2>1. Nat \subseteq Summed
    BY <1>1, <1>2, Inductive
  <2>. QED  BY <2>1
<1>. DEFINE upTo == CHOOSE f : f = [i \in 0..Len(v) |-> IF i = 0 THEN 0
                                       ELSE f[i - 1] + v[i]]
<1>4. upTo = [i \in 0..Len(v) |-> IF i = 0 THEN 0 ELSE upTo[i - 1] + v[i]]
  <2>1. \E f : Sums(Len(v), f)
    <3>. HIDE DEF Sums
    <3>. QED  BY <1>3
  <2>2. \E f : f = [i \in 0..Len(v) |-> IF i = 0 THEN 0 ELSE f[i - 1] + v[i]]
    BY <2>1
  <2>. QED  BY <2>2, Zenon
<1>5. Total(v) = upTo[Len(v)]
  BY DEF Total
<1>. HIDE DEF upTo
<1>6. \A n \in Nat : n <= Len(v) => upTo[n] \in Int
  <2>. DEFINE Typed == {n \in Nat : n <= Len(v) => upTo[n] \in Int}
  <2>1. 0 \in Typed
    BY <1>4
  <2>2. ASSUME NEW n \in Nat, n \in Typed PROVE n + 1 \in Typed
    <3>. SUFFICES ASSUME n + 1 <= Len(v) PROVE upTo[n + 1] \in Int
      OBVIOUS
    <3>1. upTo[n + 1] = upTo[n] + v[n + 1]
      BY <1>4
    <3>2. v[n + 1] \in Int /\ upTo[n] \in Int
      BY <2>2
    <3>. QED  BY <3>1, <3>2
  <2>3. Nat \subseteq Typed
    <3>. HIDE DEF Typed
    <3>. QED  BY <2>1, <2>2, Inductive
  <2>. QED  BY <2>3
<1>7. upTo \in [0..Len(v) -> Int]
  BY <1>4, <1>6
<1>8. upTo[0] = 0 /\ \A i \in 1..Len(v) : upTo[i] = upTo[i - 1] + v[i]
  <2>. DEFINE next == [i \in 0..Len(v) |-> IF i = 0 THEN 0 ELSE upTo[i - 1] + v[i]]
  <2>1. upTo = next
    BY <1>4
  <2>2. next[0] = 0 /\ \A i \in 1..Len(v) : next[i] = upTo[i - 1] + v[i]
    OBVIOUS
  <2>. HIDE DEF next
  <2>. QED  BY ONLY <2>1, <2>2
<1>. QED  BY <1>5, <1>7, <1>8

\* The differences of two totals compare as those of their values do.
LEMMA TotalDifferences ==
    ASSUME NEW a \in Seq(Int), NEW b \in Seq(Int), NEW c \in Seq(Int),
           NEW d \in Seq(Int),
           Len(b) = Len(a), Len(c) = Len(a), Len(d) = Len(a),
           \A i \in 1..Len(a) : a[i] - b[i] <= c[i] - d[i]
    PROVE  Total(a) - Total(b) <= Total(c) - Total(d)
<1>1. PICK p \in [0..Len(a) -> Int] :
          /\ p[0] = 0 /\ \A i \in 1..Len(a) : p[i] = p[i - 1] + a[i]
          /\ Total(a) = p[Len(a)]
  BY PartialSums
<1>2. PICK q \in [0..Len(a) -> Int] :
          /\ q[0] = 0 /\ \A i \in 1..Len(a) : q[i] = q[i - 1] + b[i]
          /\ Total(b) = q[Len(a)]
  BY PartialSums
<1>3. PICK r \in [0..Len(a) -> Int] :
          /\ r[0] = 0 /\ \A i \in 1..Len(a) : r[i] = r[i - 1] + c[i]
          /\ Total(c) = r[Len(a)]
  BY PartialSums
<1>4. PICK s \in [0..Len(a) -> Int] :
          /\ s[0] = 0 /\ \A i \in 1..Len(a) : s[i] = s[i - 1] + d[i]
          /\ Total(d) = s[Len(a)]
  BY PartialSums
<1>. DEFINE Compared == {n \in Nat : n <= Len(a) => p[n] - q[n] <= r[n] - s[n]}
<1>5. 0 \in Compared
  BY <1>1, <1>2, <1>3, <1>4
<1>6. ASSUME NEW n \in Nat, n \in Compared PROVE n + 1 \in Compared
  <2>. SUFFICES ASSUME n + 1 <= Len(a)
                PROVE  p[n + 1] - q[n + 1] <= r[n + 1] - s[n + 1]
    OBVIOUS
  <2>1. n + 1 \in 1..Len(a) /\ n \in 0..Len(a) /\ (n + 1) - 1 = n
    OBVIOUS
  <2>2. p[n + 1] = p[n] + a[n + 1] /\ p[n] \in Int /\ a[n + 1] \in Int
    BY <2>1, <1>1, ValuesTyped
  <2>3. q[n + 1] = q[n] + b[n + 1] /\ q[n] \in Int /\ b[n + 1] \in Int
    BY <2>1, <1>2, ValuesTyped
  <2>4. r[n + 1] = r[n] + c[n + 1] /\ r[n] \in Int /\ c[n + 1] \in Int
    BY <2>1, <1>3, ValuesTyped
  <2>5. s[n + 1] = s[n] + d[n + 1] /\ s[n] \in Int /\ d[n + 1] \in Int
    BY <2>1, <1>4, ValuesTyped
  <2>6. ASSUME NEW w \in Int, NEW x \in Int, NEW y \in Int, NEW z \in Int
        PROVE  w - y \in Int /\ x - z \in Int
    OBVIOUS
  <2>7. /\ p[n + 1] - q[n + 1] = (p[n] - q[n]) + (a[n + 1] - b[n + 1])
        /\ p[n] - q[n] \in Int /\ a[n + 1] - b[n + 1] \in Int
    <3>1. (p[n] + a[n + 1]) - (q[n] + b[n + 1])
            = (p[n] - q[n]) + (a[n + 1] - b[n + 1])
      <4>. DEFINE w == p[n]
                  x == a[n + 1]
                  y == q[n]
                  z == b[n + 1]
      <4>1. w \in Int /\ x \in Int /\ y \in Int /\ z \in Int
        BY ONLY <2>2, <2>3
      <4>. HIDE DEF w, x, y, z
      <4>2. (w + x) - (y + z) = (w - y) + (x - z)
        BY ONLY <4>1
      <4>. QED  BY ONLY <4>2 DEF w, x, y, z
    <3>2. p[n] - q[n] \in Int /\ a[n + 1] - b[n + 1] \in Int
      BY ONLY <2>2, <2>3, <2>6
    <3>3. p[n + 1] - q[n + 1] = (p[n] + a[n + 1]) - (q[n] + b[n + 1])
      BY ONLY <2>2, <2>3
    <3>. QED  BY ONLY <3>1, <3>2, <3>3
  <2>8. /\ r[n + 1] - s[n + 1] = (r[n] - s[n]) + (c[n + 1] - d[n + 1])
        /\ r[n] - s[n] \in Int /\ c[n + 1] - d[n + 1] \in Int
    <3>1. (r[n] + c[n + 1]) - (s[n] + d[n + 1])
            = (r[n] - s[n]) + (c[n + 1] - d[n + 1])
      <4>. DEFINE w == r[n]
                  x == c[n + 1]
                  y == s[n]
                  z == d[n + 1]
      <4>1. w \in Int /\ x \in Int /\ y \in Int /\ z \in Int
        BY ONLY <2>4, <2>5
      <4>. HIDE DEF w, x, y, z
      <4>2. (w + x) - (y + z) = (w - y) + (x - z)
        BY ONLY <4>1
      <4>. QED  BY ONLY <4>2 DEF w, x, y, z
    <3>2. r[n] - s[n] \in Int /\ c[n + 1] - d[n + 1] \in Int
      BY ONLY <2>4, <2>5, <2>6
    <3>3. r[n + 1] - s[n + 1] = (r[n] + c[n + 1]) - (s[n] + d[n + 1])
      BY ONLY <2>4, <2>5
    <3>. QED  BY ONLY <3>1, <3>2, <3>3
  <2>9. \A w, x, y, z \in Int : w <= x /\ y <= z => w + y <= x + z
    OBVIOUS
  <2>10. /\ a[n + 1] - b[n + 1] <= c[n + 1] - d[n + 1]
         /\ p[n] - q[n] <= r[n] - s[n]
    BY <2>1, <1>6
  <2>. QED  BY ONLY <2>7, <2>8, <2>9, <2>10
<1>7. Len(a) \in Compared
  <2>1. Nat \subseteq Compared
    <3>. HIDE DEF Compared
    <3>. QED  BY <1>5, <1>6, Inductive
  <2>. QED  BY <2>1
<1>. QED  BY <1>1, <1>2, <1>3, <1>4, <1>7
-----------------------------------------------------------------------------
(* Sign vectors and shares of them.                                        *)

\* What a number of sign vectors that divides the unit leaves of it.
LEMMA UnitDivides ==
    ASSUME NEW c \in Nat \ {0}, Unit % c = 0
    PROVE  Unit \div c \in Nat /\ c * (Unit \div c) = Unit
<1>1. Unit \in Nat
  BY StatisticsAssumption
<1>. QED  BY <1>1

\* There are finitely many ways to give n values a sign, and at least one.
LEMMA SigningsFinite ==
    ASSUME NEW n \in Nat
    PROVE  /\ IsFiniteSet([1..n -> {-1, 1}]) /\ Signings(n) \in Nat \ {0}
<1>. DEFINE Signs == {-1, 1}
            Finites == {m \in Nat : IsFiniteSet([1..m -> Signs])}
<1>1. IsFiniteSet(Signs)
  <2>1. Signs = {-1} \cup {1}
    OBVIOUS
  <2>. HIDE DEF Signs
  <2>. QED  BY <2>1, FS_Singleton, FS_AddElement
<1>. HIDE DEF Signs
<1>2. 0 \in Finites
  <2>1. [1..0 -> Signs] = {[i \in {} |-> 1]}
    <3>1. 1..0 = {}
      OBVIOUS
    <3>. QED  BY <3>1
  <2>. QED  BY <2>1, FS_Singleton
<1>3. ASSUME NEW m \in Nat, m \in Finites PROVE m + 1 \in Finites
  <2>. DEFINE Before == [1..m -> Signs] \X Signs
              After == [1..(m + 1) -> Signs]
              Longer(f, x) == [i \in 1..(m + 1) |-> IF i = m + 1 THEN x ELSE f[i]]
              extend == [p \in Before |-> Longer(p[1], p[2])]
  <2>1. IsFiniteSet(Before)
    BY <1>1, <1>3, FS_Product
  <2>2. extend \in [Before -> After]
    <3>1. ASSUME NEW f \in [1..m -> Signs], NEW x \in Signs PROVE Longer(f, x) \in After
      OBVIOUS
    <3>2. ASSUME NEW p \in Before PROVE p[1] \in [1..m -> Signs] /\ p[2] \in Signs
      OBVIOUS
    <3>. HIDE DEF Longer, Before, After
    <3>. QED  BY <3>1, <3>2
  <2>3. ASSUME NEW g \in After PROVE \E p \in Before : extend[p] = g
    <3>. DEFINE f == [i \in 1..m |-> g[i]]
    <3>1. f \in [1..m -> Signs] /\ g[m + 1] \in Signs
      OBVIOUS
    <3>2. <<f, g[m + 1]>> \in Before
      BY <3>1
    <3>3. Longer(f, g[m + 1]) = g
      OBVIOUS
    <3>4. extend[<<f, g[m + 1]>>] = Longer(f, g[m + 1])
      <4>. HIDE DEF Longer, Before, f
      <4>. QED  BY <3>2
    <3>. QED  BY <3>2, <3>3, <3>4
  <2>4. extend \in Surjection(Before, After)
    <3>. HIDE DEF extend, Before, After
    <3>. QED  BY <2>2, <2>3, Fun_IsSurj
  <2>5. IsFiniteSet(After)
    <3>. HIDE DEF extend, Before, After
    <3>. QED  BY <2>1, <2>4, FS_Surjection
  <2>. QED  BY <2>5
<1>4. n \in Finites
  <2>1. Nat \subseteq Finites
    <3>. HIDE DEF Finites
    <3>. QED  BY <1>2, <1>3, Inductive
  <2>. QED  BY <2>1
<1>5. [i \in 1..n |-> 1] \in [1..n -> {-1, 1}]
  OBVIOUS
<1>6. IsFiniteSet([1..n -> {-1, 1}])
  BY <1>4 DEF Signs
<1>. QED  BY <1>5, <1>6, FS_CardinalityType, FS_EmptySet DEF Signings

\* So many values can be tested: exactly, or with drawn signs.
Testable(n) == n \in 0..ExactLimit \cup DOMAIN Drawn /\ n \in Nat
Signed(signs, values) == [i \in DOMAIN values |-> signs[i] * values[i]]

\* The sign vectors of a test, a number of them that divides the unit.
LEMMA VectorsAreSigns ==
    ASSUME NEW n, Testable(n)
    PROVE  LET vectors == SignVectors(n)
           IN  /\ IsFiniteSet(DOMAIN vectors)
               /\ Cardinality(DOMAIN vectors) \in Nat \ {0}
               /\ Unit % Cardinality(DOMAIN vectors) = 0
               /\ \A v \in DOMAIN vectors : vectors[v] \in [1..n -> {-1, 1}]
<1>1. CASE n <= ExactLimit
  <2>1. SignVectors(n) = [s \in [1..n -> {-1, 1}] |-> s]
    BY <1>1, StatisticsAssumption DEF SignVectors, Testable
  <2>2. DOMAIN SignVectors(n) = [1..n -> {-1, 1}]
    BY <2>1
  <2>3. n \in 0..ExactLimit
    BY <1>1, StatisticsAssumption DEF Testable
  <2>. QED  BY <2>1, <2>2, <2>3, SigningsFinite, StatisticsAssumption
            DEF Signings
<1>2. CASE ~(n <= ExactLimit)
  <2>1. SignVectors(n) = Drawn[n] /\ n \in DOMAIN Drawn
    BY <1>2, StatisticsAssumption DEF SignVectors, Testable
  <2>2. /\ Drawn[n] \in Seq([1..n -> {-1, 1}])
        /\ Drawn[n] # <<>> /\ Unit % Len(Drawn[n]) = 0
    BY <2>1, StatisticsAssumption
  <2>3. DOMAIN Drawn[n] = 1..Len(Drawn[n]) /\ Len(Drawn[n]) \in Nat \ {0}
    BY <2>2
  <2>4. IsFiniteSet(1..Len(Drawn[n])) /\ Cardinality(1..Len(Drawn[n])) = Len(Drawn[n])
    <3>1. 1 \in Int /\ Len(Drawn[n]) \in Int /\ ~(1 > Len(Drawn[n]))
          /\ Len(Drawn[n]) - 1 + 1 = Len(Drawn[n])
      BY <2>3
    <3>. QED  BY <3>1, FS_Interval
  <2>5. \A v \in 1..Len(Drawn[n]) : Drawn[n][v] \in [1..n -> {-1, 1}]
    BY <2>2, ValuesTyped
  <2>. QED  BY <2>1, <2>2, <2>3, <2>4, <2>5
<1>. QED  BY <1>1, <1>2

\* A total is a number.
LEMMA TotalTyped == ASSUME NEW v \in Seq(Int) PROVE Total(v) \in Int
BY PartialSums

\* Values with signs are values.
LEMMA SignedTyped ==
    ASSUME NEW v \in Seq(Int), NEW s \in [1..Len(v) -> {-1, 1}]
    PROVE  /\ Signed(s, v) \in Seq(Int) /\ Len(Signed(s, v)) = Len(v)
           /\ \A i \in 1..Len(v) : Signed(s, v)[i] = s[i] * v[i]
<1>1. DOMAIN v = 1..Len(v) /\ Len(v) \in Nat
  OBVIOUS
<1>2. \A i \in 1..Len(v) : s[i] * v[i] \in Int
  BY ValuesTyped
<1>. QED  BY <1>1, <1>2 DEF Signed

\* The sums a test compares, one for each sign vector.
LEMMA SumsAreTotals ==
    ASSUME NEW v \in Seq(Int), Testable(Len(v))
    PROVE  LET vectors == SignVectors(Len(v))
           IN  /\ DOMAIN SignedSums(v) = DOMAIN vectors
               /\ \A x \in DOMAIN vectors :
                     /\ SignedSums(v)[x] = Total(Signed(vectors[x], v))
                     /\ SignedSums(v)[x] \in Int
<1>1. SignedSums(v) = [x \in DOMAIN SignVectors(Len(v)) |->
                          Total(Signed(SignVectors(Len(v))[x], v))]
  BY DEF SignedSums, Signed
<1>2. \A x \in DOMAIN SignVectors(Len(v)) :
          SignVectors(Len(v))[x] \in [1..Len(v) -> {-1, 1}]
  BY VectorsAreSigns
<1>. QED  BY <1>1, <1>2, SignedTyped, TotalTyped

\* A larger share of the vectors is a larger p-value, and all of them are 1.
LEMMA Shares ==
    ASSUME NEW V, IsFiniteSet(V), Cardinality(V) \in Nat \ {0},
           Unit % Cardinality(V) = 0, NEW Q \in SUBSET V, NEW P \in SUBSET Q
    PROVE  Share(P, V) \in 0..Unit /\ Share(P, V) <= Share(Q, V)
<1>. DEFINE part == Unit \div Cardinality(V)
<1>1. part \in Nat /\ Cardinality(V) * part = Unit
  BY UnitDivides
<1>2. IsFiniteSet(Q) /\ Cardinality(Q) <= Cardinality(V)
  BY FS_Subset
<1>3. IsFiniteSet(P) /\ Cardinality(P) <= Cardinality(Q)
  BY <1>2, FS_Subset
<1>4. Cardinality(P) \in Nat /\ Cardinality(Q) \in Nat
  BY <1>2, <1>3, FS_CardinalityType
<1>5. \A a, b, k \in Nat : a <= b => a * k <= b * k /\ a * k \in Nat
  OBVIOUS
<1>6. Share(P, V) = Cardinality(P) * part /\ Share(Q, V) = Cardinality(Q) * part
  BY DEF Share
<1>. HIDE DEF part
<1>7. /\ Cardinality(P) * part <= Cardinality(Q) * part
      /\ Cardinality(P) * part \in Nat
  BY <1>1, <1>3, <1>4, <1>5
<1>8. Cardinality(P) * part <= Cardinality(V) * part
  BY <1>1, <1>2, <1>3, <1>4, <1>5
<1>. QED  BY <1>1, <1>6, <1>7, <1>8, StatisticsAssumption

\* With all signs changed, the total changes its sign.
LEMMA TotalNegated ==
    ASSUME NEW v \in Seq(Int), NEW w \in Seq(Int), Len(w) = Len(v),
           \A i \in 1..Len(v) : w[i] = -v[i]
    PROVE  Total(w) = -Total(v)
<1>1. PICK p \in [0..Len(v) -> Int] :
          /\ p[0] = 0 /\ \A i \in 1..Len(v) : p[i] = p[i - 1] + v[i]
          /\ Total(v) = p[Len(v)]
  BY PartialSums
<1>2. PICK q \in [0..Len(v) -> Int] :
          /\ q[0] = 0 /\ \A i \in 1..Len(v) : q[i] = q[i - 1] + w[i]
          /\ Total(w) = q[Len(v)]
  BY PartialSums
<1>. DEFINE Negated == {n \in Nat : n <= Len(v) => q[n] = -p[n]}
<1>3. 0 \in Negated
  BY <1>1, <1>2
<1>4. ASSUME NEW n \in Nat, n \in Negated PROVE n + 1 \in Negated
  <2>. SUFFICES ASSUME n + 1 <= Len(v) PROVE q[n + 1] = -p[n + 1]
    OBVIOUS
  <2>1. n + 1 \in 1..Len(v) /\ n \in 0..Len(v) /\ (n + 1) - 1 = n
    OBVIOUS
  <2>2. p[n + 1] = p[n] + v[n + 1] /\ p[n] \in Int /\ v[n + 1] \in Int
    BY <2>1, <1>1, ValuesTyped
  <2>3. q[n + 1] = q[n] + w[n + 1] /\ q[n] = -p[n] /\ w[n + 1] = -v[n + 1]
    BY <2>1, <1>2, <1>4
  <2>4. \A x, y \in Int : -x + -y = -(x + y)
    OBVIOUS
  <2>. QED  BY ONLY <2>2, <2>3, <2>4
<1>5. Nat \subseteq Negated
  <2>. HIDE DEF Negated
  <2>. QED  BY <1>3, <1>4, Inductive
<1>6. q[Len(v)] = -p[Len(v)]
  BY <1>5
<1>. QED  BY <1>1, <1>2, <1>6

\* A shift of every value shifts the total by as much for each of them.
LEMMA TotalShifted ==
    ASSUME NEW v \in Seq(Int), NEW by \in Int
    PROVE  /\ Shifted(v, by) \in Seq(Int) /\ Len(Shifted(v, by)) = Len(v)
           /\ Total(Shifted(v, by)) = Total(v) + by * Len(v)
<1>. DEFINE w == Shifted(v, by)
<1>0. /\ w \in Seq(Int) /\ Len(w) = Len(v)
      /\ \A i \in 1..Len(v) : w[i] = v[i] + by
  <2>1. DOMAIN v = 1..Len(v) /\ Len(v) \in Nat
    OBVIOUS
  <2>2. \A i \in 1..Len(v) : v[i] + by \in Int
    BY ValuesTyped
  <2>. QED  BY <2>1, <2>2 DEF Shifted
<1>. HIDE DEF w
<1>1. PICK p \in [0..Len(v) -> Int] :
          /\ p[0] = 0 /\ \A i \in 1..Len(v) : p[i] = p[i - 1] + v[i]
          /\ Total(v) = p[Len(v)]
  BY PartialSums
<1>2. PICK q \in [0..Len(v) -> Int] :
          /\ q[0] = 0 /\ \A i \in 1..Len(v) : q[i] = q[i - 1] + w[i]
          /\ Total(w) = q[Len(v)]
  BY <1>0, PartialSums
<1>. DEFINE Moved == {n \in Nat : n <= Len(v) => q[n] = p[n] + by * n}
<1>3. 0 \in Moved
  BY <1>1, <1>2
<1>4. ASSUME NEW n \in Nat, n \in Moved PROVE n + 1 \in Moved
  <2>. SUFFICES ASSUME n + 1 <= Len(v) PROVE q[n + 1] = p[n + 1] + by * (n + 1)
    OBVIOUS
  <2>1. n + 1 \in 1..Len(v) /\ n \in 0..Len(v) /\ (n + 1) - 1 = n
    OBVIOUS
  <2>2. p[n + 1] = p[n] + v[n + 1] /\ p[n] \in Int /\ v[n + 1] \in Int
    BY <2>1, <1>1, ValuesTyped
  <2>3. q[n + 1] = q[n] + w[n + 1] /\ q[n] = p[n] + by * n
        /\ w[n + 1] = v[n + 1] + by
    BY <2>1, <1>0, <1>2, <1>4
  <2>4. by * (n + 1) = by * n + by /\ by * n \in Int
    OBVIOUS
  <2>. QED  BY ONLY <2>2, <2>3, <2>4, by \in Int
<1>5. Nat \subseteq Moved
  <2>. HIDE DEF Moved
  <2>. QED  BY <1>3, <1>4, Inductive
<1>6. q[Len(v)] = p[Len(v)] + by * Len(v)
  BY <1>5
<1>. QED  BY <1>0, <1>1, <1>2, <1>6 DEF w

\* All signs changed.
Opposite(s) == [i \in DOMAIN s |-> -s[i]]

\* The exact sign vectors are closed under a change of all signs.
LEMMA OppositeSigns ==
    ASSUME NEW n \in Nat, NEW s \in [1..n -> {-1, 1}]
    PROVE  /\ Opposite(s) \in [1..n -> {-1, 1}]
           /\ Opposite(Opposite(s)) = s
           /\ \A i \in 1..n : Opposite(s)[i] = -s[i]
<1>1. \A i \in 1..n : s[i] \in {-1, 1}
  OBVIOUS
<1>2. Opposite(s) = [i \in 1..n |-> -s[i]]
  BY DEF Opposite
<1>3. Opposite(s) \in [1..n -> {-1, 1}]
  BY <1>1, <1>2
<1>4. Opposite(Opposite(s)) = [i \in 1..n |-> -Opposite(s)[i]]
  BY <1>2 DEF Opposite
<1>5. \A i \in 1..n : -Opposite(s)[i] = s[i]
  BY <1>1, <1>2
<1>. QED  BY <1>2, <1>3, <1>4, <1>5

\* Of the exact sign vectors at most the half is left out by a one-sided test of
\* values whose total is not on its side: its p-value is not significant.
LEMMA HalfOfSigns ==
    ASSUME NEW n \in 0..ExactLimit,
           NEW P \in SUBSET [1..n -> {-1, 1}],
           \A s \in [1..n -> {-1, 1}] : s \notin P => Opposite(s) \in P
    PROVE  ~Significant(Share(P, [1..n -> {-1, 1}]))
<1>. DEFINE V == [1..n -> {-1, 1}]
            turn == [s \in V \ P |-> Opposite(s)]
            part == Unit \div Cardinality(V)
<1>0. n \in Nat
  BY StatisticsAssumption
<1>1. IsFiniteSet(V) /\ Cardinality(V) \in Nat \ {0} /\ Unit % Cardinality(V) = 0
  BY <1>0, SigningsFinite, StatisticsAssumption DEF Signings
<1>2. part \in Nat /\ Cardinality(V) * part = Unit
  BY <1>1, UnitDivides
<1>3. turn \in Injection(V \ P, P)
  <2>1. turn \in [V \ P -> P]
    OBVIOUS
  <2>2. \A s, t \in V \ P : turn[s] = turn[t] => s = t
    <3>. SUFFICES ASSUME NEW s \in V \ P, NEW t \in V \ P, turn[s] = turn[t]
                  PROVE  s = t
      OBVIOUS
    <3>1. Opposite(s) = Opposite(t)
      OBVIOUS
    <3>2. s = Opposite(Opposite(s)) /\ t = Opposite(Opposite(t))
      BY <1>0, OppositeSigns
    <3>. QED  BY <3>1, <3>2
  <2>. HIDE DEF turn, V
  <2>. QED  BY <2>1, <2>2, Fun_IsInj
<1>. HIDE DEF turn
<1>4. /\ IsFiniteSet(P) /\ IsFiniteSet(V \ P)
      /\ Cardinality(V \ P) <= Cardinality(P)
      /\ Cardinality(V) = Cardinality(P) + Cardinality(V \ P)
      /\ Cardinality(P) \in Nat /\ Cardinality(V \ P) \in Nat
  <2>. HIDE DEF V
  <2>1. P \subseteq V
    BY DEF V
  <2>2. IsFiniteSet(P) /\ IsFiniteSet(V \ P)
    BY <2>1, <1>1, FS_Subset, FS_Difference
  <2>3. Cardinality(V \ P) <= Cardinality(P)
    BY <2>2, <1>3, FS_Injection
  <2>4. Cardinality(V \ P) = Cardinality(V) - Cardinality(V \cap P)
    BY <1>1, FS_Difference
  <2>5. V \cap P = P
    BY <2>1
  <2>6. Cardinality(P) \in Nat /\ Cardinality(V \ P) \in Nat
    BY <2>2, FS_CardinalityType
  <2>7. Cardinality(V) = Cardinality(P) + Cardinality(V \ P)
    <3>1. \A x \in Nat, y, z \in Nat : z = x - y => x = y + z
      OBVIOUS
    <3>2. Cardinality(V) \in Nat
      BY <1>1
    <3>3. Cardinality(V \ P) = Cardinality(V) - Cardinality(P)
      BY ONLY <2>4, <2>5
    <3>. QED  BY ONLY <2>6, <3>1, <3>2, <3>3
  <2>. QED  BY <2>2, <2>3, <2>6, <2>7
<1>5. Share(P, V) = Cardinality(P) * part
  BY DEF Share
<1>. HIDE DEF part, V
<1>6. \A a, b, k \in Nat : a <= b => a * k <= b * k /\ a * k \in Nat
  OBVIOUS
<1>7. \A a, b, k \in Nat : (a + b) * k = a * k + b * k
  OBVIOUS
<1>8. Unit = Cardinality(P) * part + Cardinality(V \ P) * part
  BY <1>2, <1>4, <1>7
<1>9. Cardinality(V \ P) * part <= Cardinality(P) * part /\ Cardinality(P) * part \in Nat
  BY <1>2, <1>4, <1>6
<1>10. \A x, y, k \in Nat : y <= x /\ k >= 2 => ~(x * k < x + y)
  <2>. SUFFICES ASSUME NEW x \in Nat, NEW y \in Nat, NEW k \in Nat, y <= x, k >= 2
                PROVE  x * 2 <= x * k
    OBVIOUS
  <2>1. \A a \in Nat, b, c \in Nat : b <= c => a * b <= a * c
    OBVIOUS
  <2>. QED  BY <2>1
<1>11. Cardinality(V \ P) * part \in Nat /\ Level \in Nat /\ Level >= 2
  BY <1>2, <1>4, <1>6, StatisticsAssumption
<1>12. ~((Cardinality(P) * part) * Level < Unit)
  BY <1>8, <1>9, <1>10, <1>11
<1>. QED  BY <1>5, <1>12 DEF Significant, V
-----------------------------------------------------------------------------
(* The exact one-sided tests, and equivalence.                             *)

\* The exact test's vectors are all sign vectors, each its own place.
LEMMA ExactVectors ==
    ASSUME NEW n \in 0..ExactLimit
    PROVE  /\ Testable(n)
           /\ SignVectors(n) = [s \in [1..n -> {-1, 1}] |-> s]
<1>1. n \in Nat /\ ~(n > ExactLimit)
  BY StatisticsAssumption
<1>. QED  BY <1>1 DEF Testable, SignVectors

\* With the opposite signs the sum has the opposite sign.
LEMMA OppositeSums ==
    ASSUME NEW v \in Seq(Int), Len(v) <= ExactLimit,
           NEW s \in [1..Len(v) -> {-1, 1}]
    PROVE  /\ DOMAIN SignedSums(v) = [1..Len(v) -> {-1, 1}]
           /\ SignedSums(v)[s] \in Int
           /\ SignedSums(v)[Opposite(s)] = -SignedSums(v)[s]
<1>1. Len(v) \in 0..ExactLimit /\ Len(v) \in Nat
  BY StatisticsAssumption
<1>2. /\ Testable(Len(v))
      /\ SignVectors(Len(v)) = [x \in [1..Len(v) -> {-1, 1}] |-> x]
  BY <1>1, ExactVectors
<1>3. DOMAIN SignVectors(Len(v)) = [1..Len(v) -> {-1, 1}]
  BY <1>2
<1>4. /\ Opposite(s) \in [1..Len(v) -> {-1, 1}]
      /\ \A i \in 1..Len(v) : Opposite(s)[i] = -s[i]
  BY <1>1, OppositeSigns
<1>5. /\ SignedSums(v)[s] = Total(Signed(s, v)) /\ SignedSums(v)[s] \in Int
      /\ SignedSums(v)[Opposite(s)] = Total(Signed(Opposite(s), v))
      /\ DOMAIN SignedSums(v) = [1..Len(v) -> {-1, 1}]
  BY <1>2, <1>3, <1>4, SumsAreTotals
<1>6. \A i \in 1..Len(v) : Signed(Opposite(s), v)[i] = -Signed(s, v)[i]
  <2>. SUFFICES ASSUME NEW i \in 1..Len(v)
                PROVE  Signed(Opposite(s), v)[i] = -Signed(s, v)[i]
    OBVIOUS
  <2>1. /\ Signed(Opposite(s), v)[i] = Opposite(s)[i] * v[i]
        /\ Signed(s, v)[i] = s[i] * v[i]
    BY <1>4, SignedTyped
  <2>2. Opposite(s)[i] = -s[i] /\ s[i] \in {-1, 1} /\ v[i] \in Int
    BY <1>4, ValuesTyped
  <2>3. \A x \in {-1, 1}, y \in Int : (-x) * y = -(x * y)
    OBVIOUS
  <2>. QED  BY ONLY <2>1, <2>2, <2>3
<1>7. /\ Signed(s, v) \in Seq(Int) /\ Len(Signed(s, v)) = Len(v)
      /\ Signed(Opposite(s), v) \in Seq(Int) /\ Len(Signed(Opposite(s), v)) = Len(v)
  BY <1>4, SignedTyped
<1>8. Total(Signed(Opposite(s), v)) = -Total(Signed(s, v))
  <2>. DEFINE x == Signed(s, v)
              y == Signed(Opposite(s), v)
  <2>1. x \in Seq(Int) /\ y \in Seq(Int) /\ Len(y) = Len(x)
        /\ \A i \in 1..Len(x) : y[i] = -x[i]
    BY <1>6, <1>7
  <2>. HIDE DEF x, y
  <2>2. Total(y) = -Total(x)
    BY <2>1, TotalNegated
  <2>. QED  BY <2>2 DEF x, y
<1>. QED  BY <1>5, <1>8

\* The exact one-sided test rejects only values whose mean is on its side of 0.
THEOREM ExactTestsAreSound ==
    ASSUME NEW v \in Seq(Int), Len(v) <= ExactLimit
    PROVE  /\ Significant(OneSidedGreater(v)) => Total(v) > 0
           /\ Significant(OneSidedLess(v)) => Total(v) < 0
<1>. DEFINE V == [1..Len(v) -> {-1, 1}]
            above == {s \in V : SignedSums(v)[s] >= Total(v)}
            below == {s \in V : SignedSums(v)[s] <= Total(v)}
<1>1. Total(v) \in Int /\ Len(v) \in 0..ExactLimit
  BY TotalTyped, StatisticsAssumption
<1>2. \A s \in V : /\ SignedSums(v)[s] \in Int /\ Opposite(s) \in V
                   /\ SignedSums(v)[Opposite(s)] = -SignedSums(v)[s]
  <2>1. Len(v) \in Nat
    OBVIOUS
  <2>. QED  BY <2>1, OppositeSums, OppositeSigns
<1>3. DOMAIN SignedSums(v) = V
  <2>1. [i \in 1..Len(v) |-> 1] \in V
    OBVIOUS
  <2>. QED  BY <2>1, OppositeSums
<1>4. /\ OneSidedGreater(v) = Share(above, V)
      /\ OneSidedLess(v) = Share(below, V)
  BY <1>3 DEF OneSidedGreater, OneSidedLess
<1>. HIDE DEF V
<1>5. ASSUME Total(v) <= 0, NEW s \in V, s \notin above PROVE Opposite(s) \in above
  <2>1. \A x, t \in Int : t <= 0 /\ ~(x >= t) => -x >= t
    OBVIOUS
  <2>. QED  BY <1>1, <1>2, <1>5, <2>1
<1>6. ASSUME Total(v) >= 0, NEW s \in V, s \notin below PROVE Opposite(s) \in below
  <2>1. \A x, t \in Int : t >= 0 /\ ~(x <= t) => -x <= t
    OBVIOUS
  <2>. QED  BY <1>1, <1>2, <1>6, <2>1
<1>7. above \in SUBSET V /\ below \in SUBSET V
  OBVIOUS
<1>. HIDE DEF above, below
<1>8. Total(v) <= 0 => ~Significant(Share(above, V))
  BY <1>1, <1>5, <1>7, HalfOfSigns DEF V
<1>9. Total(v) >= 0 => ~Significant(Share(below, V))
  BY <1>1, <1>6, <1>7, HalfOfSigns DEF V
<1>10. (~(Total(v) <= 0) => Total(v) > 0) /\ (~(Total(v) >= 0) => Total(v) < 0)
  BY <1>1
<1>. QED  BY <1>4, <1>8, <1>9, <1>10

\* Every test's p-value is one, that of no values at all is None.
LEMMA SidesTyped ==
    ASSUME NEW v \in Seq(Int), Testable(Len(v))
    PROVE  /\ OneSidedGreater(v) \in 0..Unit /\ OneSidedLess(v) \in 0..Unit
           /\ SignPermutation(v) \in (0..Unit) \cup {None}
<1>. DEFINE V == DOMAIN SignVectors(Len(v))
<1>1. /\ IsFiniteSet(V) /\ Cardinality(V) \in Nat \ {0}
      /\ Unit % Cardinality(V) = 0
  BY VectorsAreSigns
<1>2. DOMAIN SignedSums(v) = V
  BY SumsAreTotals
<1>. HIDE DEF V
<1>3. \A P \in SUBSET V : Share(P, V) \in 0..Unit
  BY <1>1, Shares
<1>. QED  BY <1>2, <1>3 DEF OneSidedGreater, OneSidedLess, SignPermutation

\* Both one-sided tests together have a p-value, which decides.
LEMMA EquivalenceTyped ==
    ASSUME NEW v \in Seq(Int), Testable(Len(v)), NEW m \in Int
    PROVE  /\ TostEquivalence(v, m) \in [p : 0..Unit, equivalent : BOOLEAN]
           /\ TostEquivalence(v, m).equivalent
                 = Significant(TostEquivalence(v, m).p)
<1>. DEFINE lower == OneSidedGreater(Shifted(v, m))
            upper == OneSidedLess(Shifted(v, -m))
            p == IF lower > upper THEN lower ELSE upper
<1>1. lower \in 0..Unit /\ upper \in 0..Unit
  BY TotalShifted, SidesTyped
<1>2. TostEquivalence(v, m) = [p |-> p, equivalent |-> Significant(p)]
  BY DEF TostEquivalence
<1>3. Significant(p) \in BOOLEAN
  BY DEF Significant
<1>. HIDE DEF lower, upper
<1>. QED  BY <1>1, <1>2, <1>3

\* By exact tests equivalence is only concluded for values whose mean lies within
\* the margin: both tests reject, and each of them bounds the mean on its side.
LEMMA EquivalenceWithin ==
    ASSUME NEW v \in Seq(Int), Len(v) <= ExactLimit, NEW m \in Int,
           TostEquivalence(v, m).equivalent
    PROVE  Abs(Total(v)) < m * Len(v)
<1>. DEFINE lower == OneSidedGreater(Shifted(v, m))
            upper == OneSidedLess(Shifted(v, -m))
            p == IF lower > upper THEN lower ELSE upper
<1>1. /\ Shifted(v, m) \in Seq(Int) /\ Len(Shifted(v, m)) = Len(v)
      /\ Total(Shifted(v, m)) = Total(v) + m * Len(v)
  BY TotalShifted
<1>2. /\ Shifted(v, -m) \in Seq(Int) /\ Len(Shifted(v, -m)) = Len(v)
      /\ Total(Shifted(v, -m)) = Total(v) + (-m) * Len(v)
  <2>1. -m \in Int
    OBVIOUS
  <2>. QED  BY <2>1, TotalShifted
<1>3. Len(v) \in Nat /\ Len(v) \in 0..ExactLimit
  BY StatisticsAssumption
<1>4. lower \in 0..Unit /\ upper \in 0..Unit
  BY <1>1, <1>2, <1>3, ExactVectors, SidesTyped
<1>5. Significant(p)
  BY DEF TostEquivalence
<1>6. (Significant(lower) => Total(Shifted(v, m)) > 0)
      /\ (Significant(upper) => Total(Shifted(v, -m)) < 0)
  BY <1>1, <1>2, ExactTestsAreSound
<1>. HIDE DEF lower, upper
<1>7. Significant(lower) /\ Significant(upper)
  <2>1. Unit \in Nat /\ Level \in Nat
    BY StatisticsAssumption
  <2>2. \A a, b, k \in Nat : a <= b => a * k <= b * k
    OBVIOUS
  <2>3. lower <= p /\ upper <= p /\ p \in Nat /\ lower \in Nat /\ upper \in Nat
    BY <1>4, <2>1
  <2>. HIDE DEF p
  <2>4. lower * Level <= p * Level /\ upper * Level <= p * Level
    BY <2>1, <2>2, <2>3
  <2>5. lower * Level \in Nat /\ upper * Level \in Nat /\ p * Level \in Nat
    BY <2>1, <2>3
  <2>. QED  BY <1>5, <2>1, <2>4, <2>5 DEF Significant
<1>8. Total(v) \in Int /\ m * Len(v) \in Int /\ (-m) * Len(v) = -(m * Len(v))
  BY <1>3, TotalTyped
<1>9. Total(v) + m * Len(v) > 0 /\ Total(v) - m * Len(v) < 0
  BY <1>1, <1>2, <1>6, <1>7, <1>8
<1>10. \A t, b \in Int : t + b > 0 /\ t - b < 0 => Abs(t) < b
  BY DEF Abs
<1>. QED  BY <1>8, <1>9, <1>10
-----------------------------------------------------------------------------
(* Margins.                                                                *)

\* What a sign vector takes from the total of the values only grows when all of
\* the values grow by as much.
LEMMA ShiftsApart ==
    ASSUME NEW v \in Seq(Int), NEW s \in [1..Len(v) -> {-1, 1}],
           NEW by \in Int, NEW more \in Int, by <= more
    PROVE  Total(Signed(s, Shifted(v, more))) - Total(Shifted(v, more))
             <= Total(Signed(s, Shifted(v, by))) - Total(Shifted(v, by))
<1>. DEFINE b == Shifted(v, more)
            d == Shifted(v, by)
            a == Signed(s, b)
            c == Signed(s, d)
<1>1. /\ b \in Seq(Int) /\ Len(b) = Len(v)
      /\ d \in Seq(Int) /\ Len(d) = Len(v)
      /\ \A i \in 1..Len(v) : b[i] = v[i] + more /\ d[i] = v[i] + by
  BY TotalShifted DEF Shifted
<1>. HIDE DEF b, d
<1>2. /\ a \in Seq(Int) /\ Len(a) = Len(v) /\ c \in Seq(Int) /\ Len(c) = Len(v)
      /\ \A i \in 1..Len(v) : a[i] = s[i] * b[i]
      /\ \A i \in 1..Len(v) : c[i] = s[i] * d[i]
  <2>1. a \in Seq(Int) /\ Len(a) = Len(v) /\ \A i \in 1..Len(v) : a[i] = s[i] * b[i]
    BY <1>1, SignedTyped
  <2>2. c \in Seq(Int) /\ Len(c) = Len(v) /\ \A i \in 1..Len(v) : c[i] = s[i] * d[i]
    BY <1>1, SignedTyped
  <2>. QED  BY ONLY <2>1, <2>2
<1>. HIDE DEF a, c
<1>3. \A i \in 1..Len(a) : a[i] - b[i] <= c[i] - d[i]
  <2>. SUFFICES ASSUME NEW i \in 1..Len(v) PROVE a[i] - b[i] <= c[i] - d[i]
    BY <1>2
  <2>1. s[i] \in {-1, 1} /\ v[i] \in Int
    BY ValuesTyped
  <2>2. a[i] = s[i] * (v[i] + more) /\ b[i] = v[i] + more
    BY <1>1, <1>2
  <2>3. c[i] = s[i] * (v[i] + by) /\ d[i] = v[i] + by
    BY <1>1, <1>2
  <2>4. \A x \in Int, y \in Int, z \in Int : y <= z =>
            /\ 1 * (x + z) - (x + z) <= 1 * (x + y) - (x + y)
            /\ (-1) * (x + z) - (x + z) <= (-1) * (x + y) - (x + y)
    OBVIOUS
  <2>5. CASE s[i] = 1
    BY ONLY <2>1, <2>2, <2>3, <2>4, <2>5, by \in Int, more \in Int, by <= more
  <2>6. CASE s[i] = -1
    BY ONLY <2>1, <2>2, <2>3, <2>4, <2>6, by \in Int, more \in Int, by <= more
  <2>. QED  BY <2>1, <2>5, <2>6
<1>4. Total(a) - Total(b) <= Total(c) - Total(d)
  BY <1>1, <1>2, <1>3, TotalDifferences
<1>. QED  BY <1>4 DEF a, b, c, d

\* The sums of shifted values are over the same sign vectors, drawn or not.
LEMMA ShiftedSums ==
    ASSUME NEW v \in Seq(Int), Testable(Len(v)), NEW by \in Int, NEW more \in Int,
           by <= more
    PROVE  LET vectors == SignVectors(Len(v))
           IN  /\ DOMAIN SignedSums(Shifted(v, by)) = DOMAIN vectors
               /\ Total(Shifted(v, by)) \in Int
               /\ \A x \in DOMAIN vectors :
                     /\ SignedSums(Shifted(v, by))[x] \in Int
                     /\ SignedSums(Shifted(v, more))[x] - Total(Shifted(v, more))
                          <= SignedSums(Shifted(v, by))[x] - Total(Shifted(v, by))
<1>1. /\ Shifted(v, by) \in Seq(Int) /\ Len(Shifted(v, by)) = Len(v)
      /\ Shifted(v, more) \in Seq(Int) /\ Len(Shifted(v, more)) = Len(v)
  BY TotalShifted
<1>2. \A x \in DOMAIN SignVectors(Len(v)) :
          SignVectors(Len(v))[x] \in [1..Len(v) -> {-1, 1}]
  BY VectorsAreSigns
<1>3. /\ DOMAIN SignedSums(Shifted(v, by)) = DOMAIN SignVectors(Len(v))
      /\ \A x \in DOMAIN SignVectors(Len(v)) :
            /\ SignedSums(Shifted(v, by))[x] \in Int
            /\ SignedSums(Shifted(v, by))[x]
                 = Total(Signed(SignVectors(Len(v))[x], Shifted(v, by)))
            /\ SignedSums(Shifted(v, more))[x]
                 = Total(Signed(SignVectors(Len(v))[x], Shifted(v, more)))
  BY <1>1, SumsAreTotals
<1>4. Total(Shifted(v, by)) \in Int
  BY <1>1, TotalTyped
<1>. QED  BY <1>2, <1>3, <1>4, ShiftsApart

\* With a wider margin both one-sided tests, and so equivalence, have p-values
\* that are no larger.
THEOREM WiderIsEasier ==
    ASSUME NEW v \in Seq(Int), Testable(Len(v)), NEW m \in Int, NEW w \in Int, m <= w
    PROVE  TostEquivalence(v, w).p <= TostEquivalence(v, m).p
<1>. DEFINE V == DOMAIN SignVectors(Len(v))
            above(by) == {x \in V : SignedSums(Shifted(v, by))[x] >= Total(Shifted(v, by))}
            below(by) == {x \in V : SignedSums(Shifted(v, by))[x] <= Total(Shifted(v, by))}
            lower(k) == OneSidedGreater(Shifted(v, k))
            upper(k) == OneSidedLess(Shifted(v, -k))
<1>0. -m \in Int /\ -w \in Int /\ -w <= -m
  OBVIOUS
<1>1. /\ IsFiniteSet(V) /\ Cardinality(V) \in Nat \ {0}
      /\ Unit % Cardinality(V) = 0
  BY VectorsAreSigns
<1>2. \A by \in Int : DOMAIN SignedSums(Shifted(v, by)) = V
  BY ShiftedSums
<1>3. \A by \in Int : lower(by) = Share(above(by), V)
  BY <1>2 DEF OneSidedGreater
<1>4. \A by \in Int : OneSidedLess(Shifted(v, by)) = Share(below(by), V)
  BY <1>2 DEF OneSidedLess
<1>5. \A x, y, s, t \in Int : x - s <= y - t /\ x >= s => y >= t
  OBVIOUS
<1>6. \A x, y, s, t \in Int : x - s <= y - t /\ y <= t => x <= s
  OBVIOUS
<1>7. \A by, more \in Int, x \in V : by <= more =>
          /\ SignedSums(Shifted(v, by))[x] \in Int
          /\ SignedSums(Shifted(v, more))[x] \in Int
          /\ Total(Shifted(v, by)) \in Int /\ Total(Shifted(v, more)) \in Int
          /\ SignedSums(Shifted(v, more))[x] - Total(Shifted(v, more))
               <= SignedSums(Shifted(v, by))[x] - Total(Shifted(v, by))
  <2>1. \A by \in Int : by <= by
    OBVIOUS
  <2>. QED  BY <2>1, ShiftedSums
<1>. HIDE DEF V
<1>8. above(w) \subseteq above(m)
  BY <1>5, <1>7
<1>9. below(-w) \subseteq below(-m)
  <2>. DEFINE sums(by, x) == SignedSums(Shifted(v, by))[x]
              total(by) == Total(Shifted(v, by))
  <2>. SUFFICES ASSUME NEW x \in V, sums(-w, x) <= total(-w)
                PROVE  sums(-m, x) <= total(-m)
    OBVIOUS
  <2>1. /\ sums(-m, x) - total(-m) <= sums(-w, x) - total(-w)
        /\ sums(-m, x) \in Int /\ sums(-w, x) \in Int
        /\ total(-m) \in Int /\ total(-w) \in Int
    BY <1>0, <1>7
  <2>. HIDE DEF sums, total
  <2>. QED  BY <1>6, <2>1
<1>10. above(m) \subseteq V /\ below(-m) \subseteq V
  OBVIOUS
<1>. HIDE DEF above, below
<1>11. lower(w) <= lower(m)
  BY <1>1, <1>3, <1>8, <1>10, Shares
<1>12. upper(w) <= upper(m)
  BY <1>0, <1>1, <1>4, <1>9, <1>10, Shares
<1>13. lower(w) \in Int /\ lower(m) \in Int /\ upper(w) \in Int /\ upper(m) \in Int
  <2>1. \A by \in Int : Shifted(v, by) \in Seq(Int) /\ Len(Shifted(v, by)) = Len(v)
    BY TotalShifted
  <2>2. \A by \in Int : /\ OneSidedGreater(Shifted(v, by)) \in 0..Unit
                        /\ OneSidedLess(Shifted(v, by)) \in 0..Unit
    BY <2>1, SidesTyped
  <2>3. lower(w) \in 0..Unit /\ lower(m) \in 0..Unit
    BY <2>2
  <2>4. upper(w) \in 0..Unit /\ upper(m) \in 0..Unit
    BY <1>0, <2>2
  <2>. HIDE DEF lower, upper
  <2>. QED  BY <2>3, <2>4, StatisticsAssumption
<1>14. \A k \in Int : TostEquivalence(v, k).p
                        = IF lower(k) > upper(k) THEN lower(k) ELSE upper(k)
  BY DEF TostEquivalence
<1>. HIDE DEF lower, upper
<1>. QED  BY <1>11, <1>12, <1>13, <1>14
-----------------------------------------------------------------------------
(* Ranks.                                                                  *)

\* The largest of a set is the element that no other exceeds.
LEMMA MaxIs ==
    ASSUME NEW S \in SUBSET Int, NEW x \in S, \A y \in S : y <= x
    PROVE  Max(S) = x
<1>1. \A y \in S : x >= y
  OBVIOUS
<1>2. Max(S) \in S /\ \A y \in S : Max(S) >= y
  BY <1>1, Zenon DEF Max
<1>3. Max(S) >= x /\ Max(S) <= x /\ Max(S) \in Int /\ x \in Int
  BY <1>2
<1>. QED  BY <1>3

\* The smallest of a set is the element that exceeds no other.
LEMMA MinIs ==
    ASSUME NEW S \in SUBSET Int, NEW x \in S, \A y \in S : x <= y
    PROVE  Min(S) = x
<1>2. Min(S) \in S /\ \A y \in S : Min(S) <= y
  BY Zenon DEF Min
<1>3. Min(S) <= x /\ x <= Min(S) /\ Min(S) \in Int /\ x \in Int
  BY <1>2
<1>. QED  BY <1>3

\* A family of p-values: finitely many, at whole numbers, some of them None.
Pvalues(p) == /\ p \in [DOMAIN p -> (0..Unit) \cup {None}]
              /\ DOMAIN p \subseteq Int /\ IsFiniteSet(DOMAIN p)

\* The order of the p-values, ties by their place.
Before(p, j, i) == \/ p[j] < p[i]
                   \/ p[j] = p[i] /\ j < i

\* The p-values that are present.
LEMMA PresentTyped ==
    ASSUME NEW p, Pvalues(p)
    PROVE  /\ IsFiniteSet(Present(p)) /\ Present(p) \subseteq Int
           /\ Cardinality(Present(p)) \in Nat
           /\ \A i \in Present(p) : p[i] \in 0..Unit /\ p[i] \in Nat
<1>1. Present(p) \subseteq DOMAIN p
  BY DEF Present
<1>2. IsFiniteSet(Present(p)) /\ Cardinality(Present(p)) \in Nat
  BY <1>1, FS_Subset, FS_CardinalityType DEF Pvalues
<1>3. \A i \in Present(p) : p[i] \in 0..Unit /\ p[i] \in Nat
  BY StatisticsAssumption DEF Present, Pvalues
<1>. QED  BY <1>1, <1>2, <1>3 DEF Pvalues

\* The rank of a p-value is its place in the order.
LEMMA RankOrders ==
    ASSUME NEW p, Pvalues(p), NEW i \in Present(p), NEW j \in Present(p)
    PROVE  /\ Rank(p, i) \in Nat
           /\ Rank(p, j) <= Rank(p, i) <=> ~Before(p, i, j)
<1>. DEFINE below(k) == {l \in Present(p) : Before(p, l, k)}
<1>1. IsFiniteSet(Present(p))
  BY PresentTyped
<1>2. \A k : Rank(p, k) = Cardinality(below(k))
  BY DEF Rank, Before
<1>3. \A k : IsFiniteSet(below(k)) /\ Cardinality(below(k)) \in Nat
  <2>1. \A k : below(k) \subseteq Present(p)
    OBVIOUS
  <2>. HIDE DEF below
  <2>. QED  BY <1>1, <2>1, FS_Subset, FS_CardinalityType
<1>4. \A k \in Present(p) : p[k] \in Int /\ k \in Int
  BY PresentTyped
<1>5. ASSUME NEW k \in Present(p), NEW l \in Present(p), Before(p, k, l)
      PROVE  Cardinality(below(k)) < Cardinality(below(l))
  <2>1. below(k) \subseteq below(l)
    <3>. SUFFICES ASSUME NEW n \in Present(p), Before(p, n, k) PROVE Before(p, n, l)
      OBVIOUS
    <3>. QED  BY <1>4, <1>5 DEF Before
  <2>2. k \in below(l) /\ k \notin below(k)
    BY <1>4, <1>5 DEF Before
  <2>. HIDE DEF below
  <2>. QED  BY <1>3, <2>1, <2>2, FS_Subset
<1>. HIDE DEF below
<1>6. Before(p, i, j) \/ Before(p, j, i) \/ i = j
  BY <1>4 DEF Before
<1>7. CASE Before(p, i, j)
  BY <1>2, <1>3, <1>5, <1>7
<1>8. CASE ~Before(p, i, j)
  BY <1>2, <1>3, <1>5, <1>6, <1>8
<1>. QED  BY <1>2, <1>3, <1>7, <1>8

\* What is not ranked before a p-value: so many as the factor of its adjustment.
From(p, i) == {j \in Present(p) : ~Before(p, j, i)}

\* They are the p-value itself and those that are no smaller.
LEMMA FromCounts ==
    ASSUME NEW p, Pvalues(p), NEW i \in Present(p)
    PROVE  /\ i \in From(p, i) /\ IsFiniteSet(From(p, i))
           /\ Cardinality(From(p, i)) = Cardinality(Present(p)) - Rank(p, i)
           /\ Cardinality(From(p, i)) \in Nat
           /\ \A j \in From(p, i) : p[i] <= p[j]
<1>. DEFINE below == {l \in Present(p) : Before(p, l, i)}
<1>1. IsFiniteSet(Present(p)) /\ \A k \in Present(p) : p[k] \in Int /\ k \in Int
  BY PresentTyped
<1>2. From(p, i) = Present(p) \ below /\ Present(p) \cap below = below
  BY DEF From
<1>3. Rank(p, i) = Cardinality(below)
  BY DEF Rank, Before
<1>4. /\ IsFiniteSet(From(p, i))
      /\ Cardinality(From(p, i)) = Cardinality(Present(p)) - Cardinality(below)
  <2>1. /\ IsFiniteSet(Present(p) \ below)
        /\ Cardinality(Present(p) \ below)
             = Cardinality(Present(p)) - Cardinality(Present(p) \cap below)
    <3>. HIDE DEF below
    <3>. QED  BY <1>1, FS_Difference
  <2>. HIDE DEF below
  <2>. QED  BY <1>2, <2>1
<1>5. i \in From(p, i) /\ \A j \in From(p, i) : p[i] <= p[j]
  BY <1>1 DEF From, Before
<1>. QED  BY <1>3, <1>4, <1>5, FS_CardinalityType
-----------------------------------------------------------------------------
(* Holm's adjustment is the closed test.                                   *)

\* The p-value of a family in the closed test.
OfFamily(p, F) == Smaller(Unit, Cardinality(F) * Min({p[j] : j \in F}))
Families(p, i) == {F \in SUBSET Present(p) : i \in F}

\* The smallest p-value of a family is that of the one ranked first in it.
LEMMA FamilyMinimum ==
    ASSUME NEW p, Pvalues(p), NEW F \in SUBSET Present(p), F # {}
    PROVE  \E j \in F : /\ F \subseteq From(p, j)
                        /\ \A i \in F : p[j] <= p[i] /\ Rank(p, j) <= Rank(p, i)
                        /\ Min({p[i] : i \in F}) = p[j]
<1>. DEFINE ranks == {Rank(p, i) : i \in F}
<1>1. \A i \in Present(p) : Rank(p, i) \in Nat /\ p[i] \in Int
  BY RankOrders, PresentTyped
<1>2. PICK r \in ranks : \A x \in ranks : r <= x
  <2>1. ranks \in SUBSET Nat /\ ranks # {}
    BY <1>1
  <2>. HIDE DEF ranks
  <2>. QED  BY <2>1, Least
<1>3. PICK j \in F : \A i \in F : Rank(p, j) <= Rank(p, i)
  BY <1>2
<1>4. \A i \in F : ~Before(p, i, j)
  BY <1>3, RankOrders
<1>5. F \subseteq From(p, j)
  BY <1>4 DEF From
<1>6. \A i \in F : p[j] <= p[i]
  BY <1>5, FromCounts
<1>7. Min({p[i] : i \in F}) = p[j]
  <2>. DEFINE S == {p[i] : i \in F}
  <2>1. S \in SUBSET Int /\ p[j] \in S /\ \A y \in S : p[j] <= y
    BY <1>1, <1>6
  <2>. HIDE DEF S
  <2>2. Min(S) = p[j]
    BY <2>1, MinIs
  <2>. QED  BY <2>2 DEF S
<1>. QED  BY <1>3, <1>5, <1>6, <1>7

\* The p-value of a family is one.
LEMMA FamilyTyped ==
    ASSUME NEW p, Pvalues(p), NEW F \in SUBSET Present(p), F # {}
    PROVE  /\ OfFamily(p, F) \in 0..Unit /\ Cardinality(F) \in Nat
           /\ Min({p[i] : i \in F}) \in 0..Unit
<1>1. PICK j \in F : Min({p[i] : i \in F}) = p[j]
  BY FamilyMinimum
<1>2. p[j] \in 0..Unit /\ p[j] \in Nat /\ Unit \in Nat
  BY PresentTyped, StatisticsAssumption
<1>3. Cardinality(F) \in Nat
  BY PresentTyped, FS_Subset, FS_CardinalityType
<1>4. Cardinality(F) * p[j] \in Nat
  BY <1>2, <1>3
<1>. QED  BY <1>1, <1>2, <1>3, <1>4 DEF OfFamily, Smaller

\* The closed test's p-value of one contrast: the largest of its families'.
LEMMA ClosedIs ==
    ASSUME NEW p, Pvalues(p), NEW i \in Present(p)
    PROVE  /\ ClosedTest(p)[i] \in 0..Unit
           /\ \E F \in Families(p, i) : ClosedTest(p)[i] = OfFamily(p, F)
           /\ \A F \in Families(p, i) : OfFamily(p, F) <= ClosedTest(p)[i]
<1>. DEFINE values == {OfFamily(p, F) : F \in Families(p, i)}
<1>1. ClosedTest(p)[i] = Max(values)
  BY DEF ClosedTest, OfFamily, Families, Present
<1>2. \A F \in Families(p, i) : OfFamily(p, F) \in 0..Unit
  BY FamilyTyped DEF Families
<1>3. {i} \in Families(p, i)
  BY DEF Families
<1>4. values \in SUBSET Int /\ values # {} /\ \A x \in values : x <= Unit
  BY <1>2, <1>3, StatisticsAssumption
<1>5. PICK x \in values : \A y \in values : y <= x
  <2>1. Unit \in Int
    BY StatisticsAssumption
  <2>. HIDE DEF values
  <2>. QED  BY <2>1, <1>4, Greatest
<1>6. Max(values) = x
  <2>. HIDE DEF values
  <2>. QED  BY <1>4, <1>5, MaxIs
<1>. QED  BY <1>1, <1>2, <1>5, <1>6

\* A scaled p-value is the p-value of the family that is not ranked before it.
LEMMA ScaledIsOfFamily ==
    ASSUME NEW p, Pvalues(p), NEW j \in Present(p)
    PROVE  Scaled(p, j) = OfFamily(p, From(p, j))
<1>1. /\ j \in From(p, j) /\ From(p, j) \subseteq Present(p)
      /\ Cardinality(From(p, j)) = Cardinality(Present(p)) - Rank(p, j)
      /\ Cardinality(From(p, j)) \in Nat
      /\ \A i \in From(p, j) : p[j] <= p[i]
  BY FromCounts DEF From
<1>2. \A i \in Present(p) : p[i] \in Int
  BY PresentTyped
<1>3. Min({p[i] : i \in From(p, j)}) = p[j]
  <2>. DEFINE S == {p[i] : i \in From(p, j)}
  <2>1. S \in SUBSET Int /\ p[j] \in S /\ \A y \in S : p[j] <= y
    BY <1>1, <1>2
  <2>. HIDE DEF S
  <2>2. Min(S) = p[j]
    BY <2>1, MinIs
  <2>. QED  BY <2>2 DEF S
<1>4. p[j] * Cardinality(From(p, j)) = Cardinality(From(p, j)) * p[j]
  BY <1>1, <1>2
<1>. QED  BY <1>1, <1>3, <1>4 DEF Scaled, OfFamily

\* A family's p-value is at most the one scaled of its first member.
LEMMA FamilyBelowScaled ==
    ASSUME NEW p, Pvalues(p), NEW F \in SUBSET Present(p), F # {}
    PROVE  \E j \in F : /\ \A i \in F : Rank(p, j) <= Rank(p, i)
                        /\ OfFamily(p, F) <= Scaled(p, j)
<1>1. PICK j \in F : /\ F \subseteq From(p, j)
                     /\ \A i \in F : p[j] <= p[i] /\ Rank(p, j) <= Rank(p, i)
                     /\ Min({p[i] : i \in F}) = p[j]
  BY FamilyMinimum
<1>2. /\ IsFiniteSet(From(p, j)) /\ Cardinality(From(p, j)) \in Nat
      /\ Cardinality(From(p, j)) = Cardinality(Present(p)) - Rank(p, j)
  BY FromCounts
<1>3. Cardinality(F) <= Cardinality(From(p, j)) /\ Cardinality(F) \in Nat
  BY <1>1, <1>2, FS_Subset, FS_CardinalityType
<1>4. p[j] \in Nat /\ Unit \in Nat
  BY PresentTyped, StatisticsAssumption
<1>5. \A a, b, k \in Nat : a <= b => a * k <= k * b /\ a * k \in Nat /\ k * b \in Nat
  OBVIOUS
<1>6. /\ Cardinality(F) * p[j] <= p[j] * Cardinality(From(p, j))
      /\ Cardinality(F) * p[j] \in Nat /\ p[j] * Cardinality(From(p, j)) \in Nat
  BY <1>2, <1>3, <1>4, <1>5
<1>7. \A x, y, u \in Nat : x <= y => Smaller(u, x) <= Smaller(u, y)
  BY DEF Smaller
<1>8. Smaller(Unit, Cardinality(F) * p[j])
        <= Smaller(Unit, p[j] * Cardinality(From(p, j)))
  BY <1>4, <1>6, <1>7
<1>. QED  BY <1>1, <1>2, <1>8 DEF Scaled, OfFamily

\* Holm's step-down adjustment is the closed test with Bonferroni's tests, for
\* every family of p-values.
THEOREM HolmClosed ==
    ASSUME NEW p, Pvalues(p)
    PROVE  HolmAdjust(p) = ClosedTest(p)
<1>. SUFFICES ASSUME NEW i \in DOMAIN p PROVE HolmAdjust(p)[i] = ClosedTest(p)[i]
  BY DEF HolmAdjust, ClosedTest
<1>1. CASE p[i] = None
  BY <1>1 DEF HolmAdjust, ClosedTest
<1>2. CASE p[i] # None
  <2>. DEFINE ranked == {j \in Present(p) : Rank(p, j) <= Rank(p, i)}
              scaled == {Scaled(p, j) : j \in ranked}
  <2>1. i \in Present(p)
    BY <1>2 DEF Present
  <2>2. HolmAdjust(p)[i] = Max(scaled)
    BY <1>2 DEF HolmAdjust
  <2>3. PICK F \in Families(p, i) : ClosedTest(p)[i] = OfFamily(p, F)
    BY <2>1, ClosedIs
  <2>4. F \in SUBSET Present(p) /\ F # {} /\ i \in F
    BY DEF Families
  <2>5. PICK j \in F : /\ \A k \in F : Rank(p, j) <= Rank(p, k)
                       /\ OfFamily(p, F) <= Scaled(p, j)
    BY <2>4, FamilyBelowScaled
  <2>6. j \in ranked
    BY <2>4, <2>5
  <2>7. \A k \in ranked : /\ From(p, k) \in Families(p, i)
                          /\ Scaled(p, k) = OfFamily(p, From(p, k))
    <3>. SUFFICES ASSUME NEW k \in ranked
                  PROVE  /\ From(p, k) \in Families(p, i)
                         /\ Scaled(p, k) = OfFamily(p, From(p, k))
      OBVIOUS
    <3>1. k \in Present(p) /\ Rank(p, k) <= Rank(p, i)
      OBVIOUS
    <3>2. i \in From(p, k)
      BY <2>1, <3>1, RankOrders DEF From
    <3>. QED  BY <3>1, <3>2, ScaledIsOfFamily DEF Families, From
  <2>8. \A k \in ranked : /\ Scaled(p, k) <= ClosedTest(p)[i]
                          /\ Scaled(p, k) \in Int
    <3>1. \A G \in Families(p, i) : /\ OfFamily(p, G) <= ClosedTest(p)[i]
                                    /\ OfFamily(p, G) \in 0..Unit
      BY <2>1, ClosedIs, FamilyTyped DEF Families
    <3>. QED  BY <2>7, <3>1, StatisticsAssumption
  <2>9. ClosedTest(p)[i] \in Int
    BY <2>1, ClosedIs, StatisticsAssumption
  <2>. HIDE DEF ranked
  <2>10. Scaled(p, j) = ClosedTest(p)[i]
    BY <2>3, <2>5, <2>6, <2>8, <2>9
  <2>11. scaled \in SUBSET Int /\ Scaled(p, j) \in scaled
         /\ \A x \in scaled : x <= Scaled(p, j)
    BY <2>6, <2>8, <2>10
  <2>. HIDE DEF scaled
  <2>. QED  BY <2>2, <2>10, <2>11, MaxIs
<1>. QED  BY <1>1, <1>2

\* An adjusted p-value is one, and it is not below the raw one, nor below what
\* Bonferroni's test of all of them asks for.
LEMMA HolmBounds ==
    ASSUME NEW p, Pvalues(p), NEW i \in Present(p)
    PROVE  /\ HolmAdjust(p)[i] \in 0..Unit /\ p[i] <= HolmAdjust(p)[i]
           /\ OfFamily(p, Present(p)) <= HolmAdjust(p)[i]
<1>1. /\ HolmAdjust(p)[i] \in 0..Unit
      /\ \A F \in Families(p, i) : OfFamily(p, F) <= HolmAdjust(p)[i]
  BY HolmClosed, ClosedIs
<1>2. {i} \in Families(p, i) /\ Present(p) \in Families(p, i)
  BY DEF Families
<1>3. p[i] \in 0..Unit /\ Unit \in Nat
  BY PresentTyped, StatisticsAssumption
<1>4. OfFamily(p, {i}) = p[i]
  <2>1. Cardinality({i}) = 1
    BY FS_Singleton
  <2>2. {p[j] : j \in {i}} = {p[i]}
    OBVIOUS
  <2>3. Min({p[i]}) = p[i]
    BY <1>3, MinIs
  <2>4. 1 * p[i] = p[i] /\ Smaller(Unit, p[i]) = p[i]
    BY <1>3 DEF Smaller
  <2>. QED  BY <2>1, <2>2, <2>3, <2>4 DEF OfFamily
<1>. QED  BY <1>1, <1>2, <1>4

\* Of two families of the same contrasts, the one whose p-values are no larger
\* has adjusted p-values that are no larger.
LEMMA HolmMonotone ==
    ASSUME NEW p, NEW q, Pvalues(p), Pvalues(q), Present(p) = Present(q),
           \A i \in Present(p) : p[i] <= q[i], NEW i \in Present(p)
    PROVE  HolmAdjust(p)[i] <= HolmAdjust(q)[i]
<1>1. PICK F \in Families(p, i) : HolmAdjust(p)[i] = OfFamily(p, F)
  BY HolmClosed, ClosedIs
<1>2. /\ F \in SUBSET Present(p) /\ F \in SUBSET Present(q) /\ F # {}
      /\ F \in Families(q, i)
  BY DEF Families
<1>3. PICK j \in F : \A k \in F : p[j] <= p[k] /\ Min({p[n] : n \in F}) = p[j]
  BY <1>2, FamilyMinimum
<1>4. PICK l \in F : Min({q[n] : n \in F}) = q[l]
  BY <1>2, FamilyMinimum
<1>5. p[j] \in Nat /\ p[l] \in Nat /\ q[l] \in Nat /\ Unit \in Nat
      /\ Cardinality(F) \in Nat
  BY <1>2, PresentTyped, FamilyTyped, StatisticsAssumption
<1>6. p[j] <= q[l]
  <2>1. p[j] <= p[l] /\ p[l] <= q[l]
    BY <1>2, <1>3
  <2>. QED  BY <1>5, <2>1
<1>7. \A x, y, c, u \in Nat : x <= y => Smaller(u, c * x) <= Smaller(u, c * y)
  <2>1. \A x, y, c \in Nat : x <= y => c * x <= c * y /\ c * x \in Nat /\ c * y \in Nat
    OBVIOUS
  <2>. QED  BY <2>1 DEF Smaller
<1>8. OfFamily(p, F) <= OfFamily(q, F)
  BY <1>3, <1>4, <1>5, <1>6, <1>7 DEF OfFamily
<1>9. OfFamily(q, F) <= HolmAdjust(q)[i]
  BY <1>2, HolmClosed, ClosedIs
<1>10. OfFamily(p, F) \in Int /\ OfFamily(q, F) \in Int /\ HolmAdjust(q)[i] \in Int
  <2>1. OfFamily(p, F) \in 0..Unit /\ OfFamily(q, F) \in 0..Unit
    BY <1>2, FamilyTyped
  <2>2. HolmAdjust(q)[i] \in 0..Unit
    BY HolmClosed, ClosedIs
  <2>. QED  BY <2>1, <2>2, StatisticsAssumption
<1>. QED  BY <1>1, <1>8, <1>9, <1>10
=============================================================================

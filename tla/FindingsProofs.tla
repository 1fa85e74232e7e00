---------------------------- MODULE FindingsProofs ----------------------------
(***************************************************************************)
(* Theorems about the analysis from the loaded observations to the claims  *)
(* of findings.json, for any groups, conditions, latencies and margins and *)
(* any number of batches.  The invariant says what each stage has computed *)
(* and from what; what the tests and the adjustment say of it is           *)
(* StatisticsProofs.                                                       *)
(***************************************************************************)
EXTENDS Findings, StatisticsProofs
-----------------------------------------------------------------------------
(* Medians, and the places of the contrasts.                               *)

\* What is counted by a finite set is finite.
LEMMA ImageFinite ==
    ASSUME NEW S, IsFiniteSet(S), NEW f, DOMAIN f = S
    PROVE  IsFiniteSet({f[x] : x \in S})
<1>. DEFINE g == [x \in S |-> f[x]]
            T == {f[x] : x \in S}
<1>1. g \in [S -> T] /\ \A t \in T : \E x \in S : g[x] = t
  OBVIOUS
<1>. HIDE DEF g, T
<1>2. g \in Surjection(S, T)
  BY <1>1, Fun_IsSurj
<1>3. IsFiniteSet(T)
  BY <1>2, FS_Surjection
<1>. QED  BY <1>3 DEF T

\* Finitely many numbers, whatever they are indexed by, have one in every place
\* of their order.
LEMMA OrderedTyped ==
    ASSUME NEW S, IsFiniteSet(S), NEW v \in [S -> Nat],
           NEW k \in 1..Cardinality(S)
    PROVE  Ordered(v, k) \in Nat
<1>. DEFINE upto(x) == {i \in S : v[i] <= x}
            below(x) == {i \in S : v[i] < x}
            counts == {Cardinality(upto(x)) : x \in ToSet(v)}
            enough == {x \in ToSet(v) : Cardinality(upto(x)) >= k}
<1>1. DOMAIN v = S /\ ToSet(v) \in SUBSET Nat /\ \A i \in S : v[i] \in ToSet(v)
  BY DEF ToSet
<1>2. \A x : /\ IsFiniteSet(upto(x)) /\ Cardinality(upto(x)) \in Nat
             /\ Cardinality(upto(x)) <= Cardinality(S)
  <2>1. \A x : upto(x) \subseteq S
    OBVIOUS
  <2>. HIDE DEF upto
  <2>. QED  BY <2>1, FS_Subset, FS_CardinalityType
<1>3. \A x : IsFiniteSet(below(x)) /\ Cardinality(below(x)) \in Nat
  <2>1. \A x : below(x) \subseteq S
    OBVIOUS
  <2>. HIDE DEF below
  <2>. QED  BY <2>1, FS_Subset, FS_CardinalityType
<1>4. Cardinality(S) \in Nat /\ S # {}
  BY FS_CardinalityType, FS_EmptySet
<1>5. \E x \in ToSet(v) : upto(x) = S
  <2>1. PICK c \in counts : \A d \in counts : d <= c
    <3>1. counts \in SUBSET Int /\ counts # {} /\ \A d \in counts : d <= Cardinality(S)
      <4>. HIDE DEF upto
      <4>. QED  BY <1>1, <1>2, <1>4
    <3>2. Cardinality(S) \in Int
      BY <1>4
    <3>. HIDE DEF counts
    <3>. QED  BY <3>1, <3>2, Greatest
  <2>2. PICK x \in ToSet(v) : c = Cardinality(upto(x))
    BY <2>1
  <2>3. ASSUME NEW i \in S, i \notin upto(x) PROVE FALSE
    <3>1. x \in Nat /\ v[i] \in Nat /\ v[i] > x
      BY <1>1, <2>3
    <3>2. upto(x) \subseteq upto(v[i]) /\ i \in upto(v[i])
      BY <3>1
    <3>3. Cardinality(upto(v[i])) <= Cardinality(upto(x))
      BY <1>1, <2>1, <2>2
    <3>. HIDE DEF upto
    <3>4. Cardinality(upto(x)) < Cardinality(upto(v[i]))
      BY <1>2, <2>3, <3>2, FS_Subset
    <3>. QED  BY <1>2, <3>3, <3>4
  <2>4. upto(x) = S
    BY <2>3
  <2>. QED  BY <2>2, <2>4
<1>6. PICK x \in enough : \A y \in enough : x <= y
  <2>1. enough # {}
    <3>. HIDE DEF upto
    <3>. QED  BY <1>4, <1>5
  <2>2. enough \in SUBSET Nat
    BY <1>1
  <2>. HIDE DEF enough
  <2>. QED  BY <2>1, <2>2, Least
<1>7. Cardinality(below(x)) < k
  <2>1. CASE below(x) = {}
    <3>. HIDE DEF below
    <3>. QED  BY <2>1, FS_EmptySet
  <2>2. CASE below(x) # {}
    <3>. DEFINE lesser == {v[i] : i \in below(x)}
    <3>1. PICK y \in lesser : \A z \in lesser : z <= y
      <4>1. lesser \in SUBSET Int /\ lesser # {} /\ \A z \in lesser : z <= x
        BY <1>1, <2>2
      <4>2. x \in Int
        BY <1>1
      <4>. HIDE DEF lesser
      <4>. QED  BY <4>1, <4>2, Greatest
    <3>2. y \in ToSet(v) /\ y < x
      BY <1>1, <3>1
    <3>3. y \notin enough
      <4>1. y \in Nat /\ x \in Nat
        BY <1>1, <3>2
      <4>. HIDE DEF enough
      <4>. QED  BY <1>6, <3>2, <4>1
    <3>4. Cardinality(upto(y)) < k
      BY <1>2, <3>2, <3>3
    <3>5. below(x) \subseteq upto(y)
      BY <3>1
    <3>. HIDE DEF below, upto
    <3>6. Cardinality(below(x)) <= Cardinality(upto(y))
      BY <1>2, <3>5, FS_Subset
    <3>. QED  BY <1>2, <1>3, <3>4, <3>6
  <2>. QED  BY <2>1, <2>2
<1>8. Ordered(v, k) = CHOOSE z \in ToSet(v) : /\ Cardinality(below(z)) < k
                                              /\ Cardinality(upto(z)) >= k
  BY <1>1 DEF Ordered
<1>9. \E z \in ToSet(v) : Cardinality(below(z)) < k /\ Cardinality(upto(z)) >= k
  BY <1>6, <1>7
<1>. HIDE DEF below, upto
<1>10. Ordered(v, k) \in ToSet(v)
  BY <1>8, <1>9, Zenon
<1>. QED  BY <1>1, <1>10

\* The median of one or more latencies is one.
LEMMA MedianTyped ==
    ASSUME NEW S, IsFiniteSet(S), S # {}, NEW v \in [S -> Nat]
    PROVE  Median(v) \in Nat
<1>. DEFINE n == Cardinality(S)
<1>1. n \in Nat \ {0}
  BY FS_CardinalityType, FS_EmptySet
<1>2. DOMAIN v = S
  OBVIOUS
<1>. HIDE DEF n
<1>3. (n + 1) \div 2 \in 1..n /\ n \div 2 + 1 \in 1..n
  BY <1>1
<1>4. Ordered(v, (n + 1) \div 2) \in Nat /\ Ordered(v, n \div 2 + 1) \in Nat
  BY <1>3, OrderedTyped DEF n
<1>5. TwiceMedian(v) \in Nat
  BY <1>2, <1>4 DEF TwiceMedian, n
<1>. QED  BY <1>5 DEF Median

\* The contrasts that there may be, each at one place.
LEMMA ContrastsListed ==
    /\ IsFiniteSet(DOMAIN AllContrasts) /\ DOMAIN AllContrasts \subseteq Nat
    /\ \A i \in DOMAIN AllContrasts : AllContrasts[i] \in Conditions \X Pairs
    /\ \A k \in Conditions \X Pairs : \E i \in DOMAIN AllContrasts : AllContrasts[i] = k
    /\ \A i, j \in DOMAIN AllContrasts : AllContrasts[i] = AllContrasts[j] => i = j
<1>. DEFINE S == Conditions \X Pairs
            n == Cardinality(S)
            listing(f) == f \in [1..n -> S] /\ IsInjective(f)
<1>1. IsFiniteSet(S)
  <2>1. IsFiniteSet(DOMAIN Grid) /\ IsFiniteSet(DOMAIN Groups)
    <3>1. \A m \in Nat : IsFiniteSet(1..m)
      BY FS_Interval
    <3>2. DOMAIN Grid = 1..Len(Grid) /\ DOMAIN Groups = 1..Len(Groups)
          /\ Len(Grid) \in Nat /\ Len(Groups) \in Nat
      BY FindingsAssumption
    <3>. QED  BY <3>1, <3>2
  <2>2. IsFiniteSet(Conditions)
    BY <2>1, ImageFinite DEF Conditions, ToSet
  <2>3. IsFiniteSet(Pairs)
    <3>. DEFINE D == (DOMAIN Groups) \X (DOMAIN Groups)
                E == {p \in D : p[1] < p[2]}
                F == [p \in E |-> <<Groups[p[1]], Groups[p[2]]>>]
    <3>1. IsFiniteSet(D)
      BY <2>1, FS_Product
    <3>2. IsFiniteSet(E)
      <4>1. E \subseteq D
        OBVIOUS
      <4>. HIDE DEF E, D
      <4>. QED  BY <3>1, <4>1, FS_Subset
    <3>3. Pairs = {F[p] : p \in E} /\ DOMAIN F = E
      BY DEF Pairs
    <3>4. IsFiniteSet({F[p] : p \in E})
      <4>. HIDE DEF E, F
      <4>. QED  BY <3>2, <3>3, ImageFinite
    <3>. QED  BY <3>3, <3>4
  <2>. QED  BY <2>2, <2>3, FS_Product
<1>. HIDE DEF S
<1>2. n \in Nat /\ \E f : f \in Bijection(1..n, S)
  BY <1>1, FS_CardinalityType DEF ExistsBijection
<1>3. \E f : listing(f)
  BY <1>2 DEF Bijection, Injection
<1>4. AllContrasts = CHOOSE f \in [1..n -> S] : IsInjective(f)
  BY DEF AllContrasts, SetToSeq, S
<1>5. listing(AllContrasts)
  <2>. HIDE DEF n
  <2>. QED  BY <1>3, <1>4, Zenon
<1>. HIDE DEF n
<1>6. IsFiniteSet(1..n) /\ 1..n \subseteq Nat
  BY <1>2, FS_Interval
<1>7. AllContrasts \in Injection(1..n, S)
  BY <1>5 DEF Injection
<1>8. Cardinality(1..n) = Cardinality(S)
  BY <1>1, <1>2, FS_Interval DEF n
<1>9. AllContrasts \in Surjection(1..n, S)
  BY <1>1, <1>6, <1>7, <1>8, FS_Injection
<1>10. \A k \in S : \E i \in 1..n : AllContrasts[i] = k
  BY <1>9 DEF Surjection
<1>. QED  BY <1>5, <1>6, <1>10 DEF S, IsInjective
-----------------------------------------------------------------------------
(* Batch medians and their differences.                                    *)

\* The medians of a batch of known outcome, failures included.
LEMMA BatchMedianTyped ==
    ASSUME batches \in Seq(BatchOutcomes), NEW b \in DOMAIN batches,
           NEW c \in Conditions, NEW g \in Names
    PROVE  BatchMedian(b, c, g) \in Nat \cup {NaN}
<1>. DEFINE cell == batches[b][c, g]
            succeeded == {a \in DOMAIN cell : cell[a] # Failed}
<1>1. batches[b] \in BatchOutcomes
  BY ValuesTyped
<1>2. cell \in Seq({Failed} \cup Nat)
  <2>1. <<c, g>> \in Cells
    BY DEF Cells
  <2>. QED  BY <1>1, <2>1, FindingsAssumption
<1>. HIDE DEF cell
<1>3. /\ Successes(cell) = [i \in succeeded |-> cell[i]]
      /\ DOMAIN Successes(cell) = succeeded
  BY DEF Successes
<1>4. IsFiniteSet(succeeded)
  <2>1. DOMAIN cell = 1..Len(cell) /\ Len(cell) \in Nat
    BY <1>2
  <2>2. IsFiniteSet(DOMAIN cell) /\ succeeded \subseteq DOMAIN cell
    BY <2>1, FS_Interval
  <2>. HIDE DEF succeeded
  <2>. QED  BY <2>2, FS_Subset
<1>5. Successes(cell) \in [succeeded -> Nat]
  BY <1>2, <1>3
<1>6. BatchMedian(b, c, g) = IF succeeded = {} THEN NaN ELSE Median(Successes(cell))
  BY <1>3 DEF BatchMedian, cell
<1>. HIDE DEF succeeded
<1>. QED  BY <1>4, <1>5, <1>6, MedianTyped

\* The groups of a pair, and pairs that meet in a group.
LEMMA PairsMeet ==
    /\ \A pair \in Pairs : pair[1] \in Names /\ pair[2] \in Names
    /\ \A pair \in Pairs : pair = <<pair[1], pair[2]>>
    /\ \A pair, other \in Pairs : pair[2] = other[1] => <<pair[1], other[2]>> \in Pairs
<1>. DEFINE D == {q \in (DOMAIN Groups) \X (DOMAIN Groups) : q[1] < q[2]}
<1>1. \A pair \in Pairs : \E p \in D : pair = <<Groups[p[1]], Groups[p[2]]>>
  BY DEF Pairs
<1>2. DOMAIN Groups \subseteq Nat
      /\ \A i, j \in DOMAIN Groups : Groups[i] = Groups[j] => i = j
  BY FindingsAssumption DEF IsInjective
<1>3. ASSUME NEW pair \in Pairs, NEW other \in Pairs, pair[2] = other[1]
      PROVE  <<pair[1], other[2]>> \in Pairs
  <2>1. PICK p \in D : pair = <<Groups[p[1]], Groups[p[2]]>>
    BY <1>1
  <2>2. PICK q \in D : other = <<Groups[q[1]], Groups[q[2]]>>
    BY <1>1
  <2>3. /\ p[1] \in DOMAIN Groups /\ p[2] \in DOMAIN Groups /\ p[1] < p[2]
        /\ q[1] \in DOMAIN Groups /\ q[2] \in DOMAIN Groups /\ q[1] < q[2]
    OBVIOUS
  <2>4. Groups[p[2]] = Groups[q[1]]
    BY <1>3, <2>1, <2>2
  <2>5. p[2] = q[1]
    BY <1>2, <2>3, <2>4
  <2>6. p[1] < q[2]
    BY <1>2, <2>3, <2>5
  <2>7. <<p[1], q[2]>> \in D
    BY <2>3, <2>6
  <2>8. <<pair[1], other[2]>> = <<Groups[p[1]], Groups[q[2]]>>
    BY <2>1, <2>2
  <2>. QED  BY <2>7, <2>8 DEF Pairs
<1>4. ASSUME NEW pair \in Pairs
      PROVE  pair[1] \in Names /\ pair[2] \in Names /\ pair = <<pair[1], pair[2]>>
  BY <1>1 DEF Names
<1>. QED  BY <1>3, <1>4

\* A row of the pairwise differences, and what it is the difference of.
LEMMA DifferencesTyped ==
    ASSUME batches \in Seq(BatchOutcomes)
    PROVE  /\ DOMAIN PairwiseDeltas \subseteq (DOMAIN batches) \X Conditions \X Pairs
           /\ \A b \in DOMAIN batches, c \in Conditions, pair \in Pairs :
                 <<b, c, pair>> \in DOMAIN PairwiseDeltas <=> HasDifference(b, c, pair)
           /\ \A b \in DOMAIN batches, c \in Conditions, pair \in Pairs :
                 HasDifference(b, c, pair) =>
                    /\ BatchMedian(b, c, pair[1]) \in Nat
                    /\ BatchMedian(b, c, pair[2]) \in Nat
                    /\ PairwiseDeltas[<<b, c, pair>>]
                         = BatchMedian(b, c, pair[2]) - BatchMedian(b, c, pair[1])
<1>. DEFINE R == (DOMAIN batches) \X Conditions \X Pairs
            D == {r \in R : HasDifference(r[1], r[2], r[3])}
<1>1. PairwiseDeltas = [row \in D |-> Minus(BatchMedian(row[1], row[2], row[3][2]),
                                           BatchMedian(row[1], row[2], row[3][1]))]
  BY DEF PairwiseDeltas
<1>2. DOMAIN PairwiseDeltas = D
  BY <1>1
<1>3. ASSUME NEW b \in DOMAIN batches, NEW c \in Conditions, NEW pair \in Pairs
      PROVE  <<b, c, pair>> \in R
  OBVIOUS
<1>4. ASSUME NEW b \in DOMAIN batches, NEW c \in Conditions, NEW pair \in Pairs,
             HasDifference(b, c, pair)
      PROVE  /\ BatchMedian(b, c, pair[1]) \in Nat
             /\ BatchMedian(b, c, pair[2]) \in Nat
             /\ PairwiseDeltas[<<b, c, pair>>]
                  = BatchMedian(b, c, pair[2]) - BatchMedian(b, c, pair[1])
  <2>1. pair[1] \in Names /\ pair[2] \in Names
    BY PairsMeet
  <2>2. Finite(BatchMedian(b, c, pair[1])) /\ Finite(BatchMedian(b, c, pair[2]))
    BY <1>4 DEF HasDifference
  <2>3. /\ BatchMedian(b, c, pair[1]) \in Nat \cup {NaN}
        /\ BatchMedian(b, c, pair[2]) \in Nat \cup {NaN}
    BY <2>1, BatchMedianTyped
  <2>4. <<b, c, pair>> \in D
    BY <1>3, <1>4
  <2>5. PairwiseDeltas[<<b, c, pair>>]
           = Minus(BatchMedian(b, c, pair[2]), BatchMedian(b, c, pair[1]))
    <3>. HIDE DEF D
    <3>. QED  BY <1>1, <2>4
  <2>. QED  BY <2>2, <2>3, <2>5 DEF Minus, Finite
<1>. QED  BY <1>2, <1>3, <1>4

\* The values of a contrast: numbers, at most one of each batch, and some if and
\* only if some batch has a difference.
LEMMA ContrastValues ==
    ASSUME batches \in Seq(BatchOutcomes), differences = PairwiseDeltas,
           NEW c, NEW pair
    PROVE  /\ Values(c, pair) \in Seq(Int) /\ Len(Values(c, pair)) <= Len(batches)
           /\ Values(c, pair) # <<>>
                 <=> \E b \in DOMAIN batches : <<b, c, pair>> \in DOMAIN differences
<1>. DEFINE Has(b) == <<b, c, pair>> \in DOMAIN differences
            Extended(s, b) == IF Has(b) THEN Append(s, differences[<<b, c, pair>>])
                              ELSE s
            Good(s, n) == /\ s \in Seq(Int) /\ Len(s) <= n
                          /\ s # <<>> <=> \E b \in 1..n : Has(b)
            Collects(n, f) == f = [b \in 0..n |-> IF b = 0 THEN <<>>
                                                  ELSE Extended(f[b - 1], b)]
            Collected == {n \in Nat : n <= Len(batches) => \E f : Collects(n, f)}
<1>0. DOMAIN batches = 1..Len(batches) /\ Len(batches) \in Nat
  OBVIOUS
<1>1. \A b : Has(b) => differences[<<b, c, pair>>] \in Int
  <2>. SUFFICES ASSUME NEW b, Has(b) PROVE differences[<<b, c, pair>>] \in Int
    OBVIOUS
  <2>1. b \in DOMAIN batches /\ c \in Conditions /\ pair \in Pairs
    BY DifferencesTyped
  <2>2. HasDifference(b, c, pair)
    BY <2>1, DifferencesTyped
  <2>3. /\ BatchMedian(b, c, pair[1]) \in Nat /\ BatchMedian(b, c, pair[2]) \in Nat
        /\ differences[<<b, c, pair>>]
             = BatchMedian(b, c, pair[2]) - BatchMedian(b, c, pair[1])
    BY <2>1, <2>2, DifferencesTyped
  <2>. QED  BY <2>3
<1>2. ASSUME NEW n \in Nat, NEW s, Good(s, n) PROVE Good(Extended(s, n + 1), n + 1)
  <2>1. CASE Has(n + 1)
    <3>1. Extended(s, n + 1) = Append(s, differences[<<n + 1, c, pair>>])
          /\ differences[<<n + 1, c, pair>>] \in Int
      BY <1>1, <2>1
    <3>2. Extended(s, n + 1) \in Seq(Int) /\ Len(Extended(s, n + 1)) = Len(s) + 1
          /\ Len(s) \in Nat
      BY <1>2, <3>1
    <3>3. Extended(s, n + 1) # <<>> /\ Len(Extended(s, n + 1)) <= n + 1
      <4>1. Len(s) <= n
        BY <1>2
      <4>2. Len(Extended(s, n + 1)) <= n + 1 /\ Len(Extended(s, n + 1)) > 0
        <5>. HIDE DEF Extended
        <5>. QED  BY ONLY <3>2, <4>1, n \in Nat
      <4>3. Len(<<>>) = 0
        OBVIOUS
      <4>. HIDE DEF Extended
      <4>. QED  BY ONLY <4>2, <4>3
    <3>4. n + 1 \in 1..(n + 1)
      OBVIOUS
    <3>. HIDE DEF Has, Extended
    <3>. QED  BY <2>1, <3>2, <3>3, <3>4
  <2>2. CASE ~Has(n + 1)
    <3>1. Extended(s, n + 1) = s
      BY <2>2
    <3>2. (\E b \in 1..n : Has(b)) <=> \E b \in 1..(n + 1) : Has(b)
      <4>1. \A b \in 1..(n + 1) : b = n + 1 \/ b \in 1..n
        OBVIOUS
      <4>2. \A b \in 1..n : b \in 1..(n + 1)
        OBVIOUS
      <4>. HIDE DEF Has
      <4>. QED  BY <2>2, <4>1, <4>2
    <3>3. Len(s) <= n + 1
      BY <1>2
    <3>. HIDE DEF Has, Extended
    <3>. QED  BY <1>2, <3>1, <3>2, <3>3
  <2>. QED  BY <2>1, <2>2
<1>3. Good(<<>>, 0)
  BY DEF Good
<1>. HIDE DEF Good, Extended
<1>4. \E f : Collects(Len(batches), f)
  <2>1. 0 \in Collected
    <3>1. Collects(0, [b \in 0..0 |-> <<>>])
      OBVIOUS
    <3>. QED  BY <3>1
  <2>2. ASSUME NEW n \in Nat, n \in Collected PROVE n + 1 \in Collected
    <3>. SUFFICES ASSUME n + 1 <= Len(batches) PROVE \E g : Collects(n + 1, g)
      <4>. HIDE DEF Collects
      <4>. QED  OBVIOUS
    <3>1. PICK f : Collects(n, f)
      <4>. HIDE DEF Collects
      <4>. QED  BY <1>0, <2>2
    <3>. DEFINE g == [b \in 0..(n + 1) |-> IF b = n + 1 THEN Extended(f[n], n + 1)
                                           ELSE f[b]]
    <3>2. \A b \in 0..(n + 1) : g[b] = IF b = 0 THEN <<>> ELSE Extended(g[b - 1], b)
      <4>. SUFFICES ASSUME NEW b \in 0..(n + 1)
                    PROVE  g[b] = IF b = 0 THEN <<>> ELSE Extended(g[b - 1], b)
        OBVIOUS
      <4>1. CASE b = n + 1
        BY <4>1
      <4>2. CASE b # n + 1
        <5>1. f[b] = IF b = 0 THEN <<>> ELSE Extended(f[b - 1], b)
          BY <3>1, <4>2
        <5>2. b = 0 \/ g[b - 1] = f[b - 1]
          BY <4>2
        <5>. QED  BY <4>2, <5>1, <5>2
      <4>. QED  BY <4>1, <4>2
    <3>3. g = [b \in 0..(n + 1) |-> g[b]]
      OBVIOUS
    <3>. HIDE DEF g
    <3>4. Collects(n + 1, g)
      BY <3>2, <3>3
    <3>. QED  BY <3>4
  <2>3. Nat \subseteq Collected
    <3>. HIDE DEF Collected
    <3>. QED  BY <2>1, <2>2, Inductive
  <2>4. Len(batches) \in Collected
    <3>. HIDE DEF Collected
    <3>. QED  BY <1>0, <2>3
  <2>. QED  BY <1>0, <2>4
<1>. DEFINE upTo == CHOOSE f : Collects(Len(batches), f)
<1>5. Collects(Len(batches), upTo)
  <2>. HIDE DEF Collects
  <2>. QED  BY <1>4, Zenon
<1>6. Values(c, pair) = upTo[Len(batches)]
  BY Zenon DEF Values, Extended
<1>. HIDE DEF upTo
<1>7. upTo[0] = <<>> /\ \A b \in 1..Len(batches) : upTo[b] = Extended(upTo[b - 1], b)
  BY <1>0, <1>5
<1>8. Good(upTo[Len(batches)], Len(batches))
  <2>. DEFINE Right == {n \in Nat : n <= Len(batches) => Good(upTo[n], n)}
  <2>1. 0 \in Right
    BY <1>3, <1>7
  <2>2. ASSUME NEW n \in Nat, n \in Right PROVE n + 1 \in Right
    <3>. SUFFICES ASSUME n + 1 <= Len(batches) PROVE Good(upTo[n + 1], n + 1)
      OBVIOUS
    <3>1. n + 1 \in 1..Len(batches) /\ (n + 1) - 1 = n /\ n <= Len(batches)
      BY <1>0
    <3>2. upTo[n + 1] = Extended(upTo[n], n + 1)
      BY <1>7, <3>1
    <3>3. Good(upTo[n], n)
      BY <2>2, <3>1
    <3>. QED  BY <1>2, <3>2, <3>3
  <2>3. Nat \subseteq Right
    <3>. HIDE DEF Right
    <3>. QED  BY <2>1, <2>2, Inductive
  <2>. QED  BY <1>0, <2>3
<1>. QED  BY <1>0, <1>6, <1>8 DEF Good
-----------------------------------------------------------------------------
(* The invariant.                                                          *)

\* The contrasts of which some batch has a difference.
Keys == {<<row[2], row[3]>> : row \in DOMAIN differences}
Raw(k) == Tests(Values(k[1], k[2]))

Tested == {"adjust", "primary", "report", "done"}
Reported == {"report", "done"}

BatchesInv ==
    /\ batches \in Seq(BatchOutcomes) /\ Len(batches) <= MaxBatches
    /\ stage \in {"collect", "confirm", "adjust", "primary", "report", "done", "error"}

\* The summaries are those of the batches, which no later step adds to.
SummariesInv ==
    IF stage \in Tested \cup {"confirm"}
      THEN differences = PairwiseDeltas /\ deltas = PrimaryDeltas
      ELSE differences = NoRows

\* Every contrast has the tests of its own values, and after the adjustment the
\* p-values of its place in each family.
ContrastsInv ==
    /\ stage \notin Tested => contrasts = NoRows
    /\ stage = "adjust" =>
          contrasts = [k \in Keys |-> [tests |-> Raw(k), adjusted |-> None,
                                       tost |-> [m \in Margins |-> None]]]
    /\ stage \in Tested \ {"adjust"} =>
          /\ DOMAIN contrasts = Keys
          /\ \A k \in Keys : contrasts[k].tests = Raw(k)
          /\ \A i \in Family :
                /\ contrasts[AllContrasts[i]].adjusted = HolmAdjust(Differ)[i]
                /\ \A m \in Margins : contrasts[AllContrasts[i]].tost[m]
                                        = HolmAdjust(Equivalent(m))[i]

PrimaryInv ==
    /\ stage \notin Reported => primary = None
    /\ primary # None => \E configured \in PrimaryOptions :
          /\ configured # None
          /\ primary = [of |-> configured,
                        tests |-> Raw(<<configured.condition, configured.pair>>)]

\* The claims are those of the analyses that are there.
Claims(planned, excludes, overlap) ==
    LET found == PrimaryFinding(excludes)
        tail == TailFinding(overlap)
        explored == ExploratoryFinding
    IN  [primary |-> found, tail |-> tail, exploratory |-> explored,
         multiplicity |-> MultiplicityFinding(planned),
         plain |-> Plain(found, tail, explored)]

FindingsInv ==
    findings # None =>
        /\ stage = "done"
        /\ \E planned \in Len(batches)..MaxBatches, excludes, overlap \in BOOLEAN :
              findings = Claims(planned, excludes, overlap)

StagesInv == /\ BatchesInv /\ SummariesInv /\ ContrastsInv /\ PrimaryInv
               /\ FindingsInv
-----------------------------------------------------------------------------
(* What does not change with the batches and their summaries.              *)

\* What a batch showed does not change while no batch is added.
LEMMA SummariesUnmoved ==
    ASSUME batches' = batches
    PROVE  PairwiseDeltas' = PairwiseDeltas /\ PrimaryDeltas' = PrimaryDeltas
<1>1. PairwiseDeltas' = PairwiseDeltas
  BY DEF PairwiseDeltas, HasDifference, Measured, BatchMedian
<1>2. PrimaryDeltas' = PrimaryDeltas
  BY DEF PrimaryDeltas, PrimaryDelta, Measured, BatchMedian
<1>. QED  BY <1>1, <1>2

\* What is computed from the batches and their differences stays with them.
LEMMA Unmoved ==
    ASSUME batches' = batches, differences' = differences
    PROVE  /\ PairwiseDeltas' = PairwiseDeltas /\ PrimaryDeltas' = PrimaryDeltas
           /\ Keys' = Keys /\ \A k : Raw(k)' = Raw(k)
<1>1. PairwiseDeltas' = PairwiseDeltas
  BY SummariesUnmoved
<1>2. PrimaryDeltas' = PrimaryDeltas
  BY SummariesUnmoved
<1>3. Keys' = Keys
  BY DEF Keys
<1>4. \A k : Raw(k)' = Raw(k)
  BY DEF Raw, Values
<1>. QED  BY <1>1, <1>2, <1>3, <1>4

\* The claims stay with the analyses they are derived from.
LEMMA ClaimsUnmoved ==
    ASSUME UNCHANGED <<batches, differences, deltas, tails, contrasts, primary>>,
           NEW planned, NEW excludes, NEW overlap
    PROVE  Claims(planned, excludes, overlap)' = Claims(planned, excludes, overlap)
BY DEF Claims, PrimaryFinding, TailFinding, ExploratoryFinding, MultiplicityFinding,
       Plain, HasPrimary, Worst, Baseline, Percents, SignificantContrasts, FloorTooHigh
-----------------------------------------------------------------------------
(* The tests and the families of the contrasts there are.                  *)

\* The tests of a sequence of values.
LEMMA TestsTyped ==
    ASSUME NEW values \in Seq(Int), Testable(Len(values))
    PROVE  Tests(values) \in TestResults
<1>. DEFINE tost == [m \in Margins |->
                        IF values = <<>> THEN None ELSE TostEquivalence(values, m)]
<1>1. SignPermutation(values) \in (0..Unit) \cup {None}
  BY SidesTyped
<1>2. \A m \in Margins : m \in Int
  BY FindingsAssumption
<1>3. tost \in [Margins -> {None} \cup [p : 0..Unit, equivalent : BOOLEAN]]
  BY <1>2, EquivalenceTyped
<1>4. Tests(values) = [p |-> SignPermutation(values), values |-> values, tost |-> tost]
  BY DEF Tests
<1>. HIDE DEF tost
<1>. QED  BY <1>1, <1>3, <1>4 DEF TestResults

\* There are signs for as many values as there can be.
LEMMA AllTestable ==
    ASSUME NEW n \in Nat, n <= MaxBatches PROVE Testable(n)
<1>1. n \in 0..ExactLimit \/ n \in (ExactLimit + 1)..MaxBatches
  BY StatisticsAssumption, FindingsAssumption
<1>. QED  BY <1>1, FindingsAssumption DEF Testable

\* What is tested of a contrast.
LEMMA RawTyped ==
    ASSUME BatchesInv, differences = PairwiseDeltas, NEW k
    PROVE  /\ Raw(k) \in TestResults /\ Raw(k).values = Values(k[1], k[2])
           /\ Raw(k) = Tests(Values(k[1], k[2]))
           /\ Values(k[1], k[2]) \in Seq(Int) /\ Testable(Len(Values(k[1], k[2])))
           /\ Values(k[1], k[2]) # <<>>
                 <=> \E b \in DOMAIN batches : <<b, k[1], k[2]>> \in DOMAIN differences
<1>. DEFINE values == Values(k[1], k[2])
<1>1. batches \in Seq(BatchOutcomes) /\ Len(batches) <= MaxBatches
  BY DEF BatchesInv
<1>2. /\ values \in Seq(Int) /\ Len(values) <= Len(batches)
      /\ values # <<>>
            <=> \E b \in DOMAIN batches : <<b, k[1], k[2]>> \in DOMAIN differences
  BY <1>1, ContrastValues
<1>3. Testable(Len(values))
  <2>1. Len(values) \in Nat /\ Len(batches) \in Nat /\ MaxBatches \in Nat
    <3>1. Len(values) \in Nat
      BY <1>2
    <3>2. Len(batches) \in Nat
      BY <1>1
    <3>3. MaxBatches \in Nat
      BY FindingsAssumption
    <3>. QED  BY <3>1, <3>2, <3>3
  <2>2. Len(values) <= MaxBatches
    BY <1>1, <1>2, <2>1
  <2>. QED  BY <2>1, <2>2, AllTestable
<1>4. Raw(k) = Tests(values)
  BY DEF Raw
<1>. HIDE DEF values
<1>5. Tests(values) \in TestResults
  BY <1>2, <1>3, TestsTyped
<1>6. Tests(values).values = values
  BY DEF Tests
<1>. QED  BY <1>2, <1>3, <1>4, <1>5, <1>6 DEF values

\* A contrast is one of those there may be, and it has at least one value.
LEMMA KeysTyped ==
    ASSUME BatchesInv, differences = PairwiseDeltas
    PROVE  /\ Keys \subseteq Conditions \X Pairs
           /\ \A k : k \in Keys <=> /\ k = <<k[1], k[2]>>
                                    /\ Values(k[1], k[2]) # <<>>
<1>0. batches \in Seq(BatchOutcomes)
  BY DEF BatchesInv
<1>1. DOMAIN differences \subseteq (DOMAIN batches) \X Conditions \X Pairs
  BY <1>0, DifferencesTyped
<1>2. \A row \in DOMAIN differences :
         /\ row = <<row[1], row[2], row[3]>> /\ row[1] \in DOMAIN batches
         /\ row[2] \in Conditions /\ row[3] \in Pairs
  BY <1>1
<1>3. ASSUME NEW k \in Keys
      PROVE  /\ k \in Conditions \X Pairs /\ k = <<k[1], k[2]>>
             /\ Values(k[1], k[2]) # <<>>
  <2>1. PICK row \in DOMAIN differences : k = <<row[2], row[3]>>
    BY DEF Keys
  <2>2. k \in Conditions \X Pairs /\ k = <<k[1], k[2]>>
    BY <1>2, <2>1
  <2>3. <<row[1], k[1], k[2]>> \in DOMAIN differences /\ row[1] \in DOMAIN batches
    BY <1>2, <2>1
  <2>. QED  BY <2>2, <2>3, RawTyped
<1>4. ASSUME NEW k, k = <<k[1], k[2]>>, Values(k[1], k[2]) # <<>>
      PROVE  k \in Keys
  <2>1. PICK b \in DOMAIN batches : <<b, k[1], k[2]>> \in DOMAIN differences
    BY <1>4, RawTyped
  <2>2. <<b, k[1], k[2]>>[2] = k[1] /\ <<b, k[1], k[2]>>[3] = k[2]
    OBVIOUS
  <2>3. <<k[1], k[2]>> \in Keys
    BY <2>1, <2>2 DEF Keys
  <2>. QED  BY <1>4, <2>3
<1>. QED  BY <1>3, <1>4

\* Every contrast has its place in the families, and only that one.
LEMMA FamilyPlaces ==
    ASSUME BatchesInv, differences = PairwiseDeltas, DOMAIN contrasts = Keys
    PROVE  /\ IsFiniteSet(Family) /\ Family \subseteq Int
           /\ \A i \in Family : AllContrasts[i] \in Keys
           /\ \A k \in Keys : \E i \in Family : AllContrasts[i] = k
           /\ \A i, j \in Family : AllContrasts[i] = AllContrasts[j] => i = j
<1>1. Family \subseteq DOMAIN AllContrasts
  BY DEF Family
<1>2. IsFiniteSet(Family) /\ Family \subseteq Int
  BY <1>1, ContrastsListed, FS_Subset
<1>3. \A i \in Family : AllContrasts[i] \in Keys
  BY DEF Family
<1>4. \A k \in Keys : \E i \in Family : AllContrasts[i] = k
  BY KeysTyped, ContrastsListed DEF Family
<1>5. \A i, j \in Family : AllContrasts[i] = AllContrasts[j] => i = j
  BY <1>1, ContrastsListed
<1>. QED  BY <1>2, <1>3, <1>4, <1>5

\* The families that are adjusted.
LEMMA FamiliesTyped ==
    ASSUME BatchesInv, differences = PairwiseDeltas, DOMAIN contrasts = Keys,
           \A k \in Keys : contrasts[k].tests = Raw(k)
    PROVE  /\ Pvalues(Differ) /\ Present(Differ) = Family
           /\ \A i \in Family : Differ[i] = Raw(AllContrasts[i]).p
           /\ \A m \in Margins :
                 /\ Pvalues(Equivalent(m)) /\ Present(Equivalent(m)) = Family
                 /\ \A i \in Family :
                       /\ Equivalent(m)[i] = Raw(AllContrasts[i]).tost[m].p
                       /\ Raw(AllContrasts[i]).tost[m]
                            = TostEquivalence(Raw(AllContrasts[i]).values, m)
<1>1. /\ IsFiniteSet(Family) /\ Family \subseteq Int
      /\ \A i \in Family : AllContrasts[i] \in Keys
  BY FamilyPlaces
<1>2. /\ DOMAIN Differ = Family
      /\ \A i \in Family : Differ[i] = Raw(AllContrasts[i]).p
  BY <1>1 DEF Differ
<1>3. \A m \in Margins : /\ DOMAIN Equivalent(m) = Family
                         /\ \A i \in Family :
                               Equivalent(m)[i] = Raw(AllContrasts[i]).tost[m].p
  BY <1>1 DEF Equivalent
<1>4. ASSUME NEW k \in Keys
      PROVE  /\ Raw(k).p \in 0..Unit
             /\ \A m \in Margins :
                   /\ Raw(k).tost[m] = TostEquivalence(Raw(k).values, m)
                   /\ Raw(k).tost[m].p \in 0..Unit
  <2>. DEFINE values == Values(k[1], k[2])
  <2>1. /\ Raw(k) = Tests(values) /\ Raw(k).values = values /\ values # <<>>
        /\ values \in Seq(Int) /\ Testable(Len(values))
    BY RawTyped, KeysTyped
  <2>. HIDE DEF values
  <2>2. /\ Raw(k).p = SignPermutation(values)
        /\ \A m \in Margins : Raw(k).tost[m] = TostEquivalence(values, m)
    BY <2>1 DEF Tests
  <2>3. SignPermutation(values) \in 0..Unit
    <3>1. SignPermutation(values) = Share({v \in DOMAIN SignedSums(values) :
                Abs(SignedSums(values)[v]) >= Abs(Total(values))},
                DOMAIN SignedSums(values))
      BY <2>1 DEF SignPermutation
    <3>. DEFINE V == DOMAIN SignVectors(Len(values))
                P == {v \in V : Abs(SignedSums(values)[v]) >= Abs(Total(values))}
    <3>2. /\ IsFiniteSet(V) /\ Cardinality(V) \in Nat \ {0}
          /\ Unit % Cardinality(V) = 0 /\ DOMAIN SignedSums(values) = V
      BY <2>1, VectorsAreSigns, SumsAreTotals
    <3>3. P \in SUBSET V
      OBVIOUS
    <3>4. SignPermutation(values) = Share(P, V)
      BY <3>1, <3>2
    <3>. HIDE DEF V, P
    <3>. QED  BY <3>2, <3>3, <3>4, Shares
  <2>4. \A m \in Margins : TostEquivalence(values, m).p \in 0..Unit
    <3>1. \A m \in Margins : m \in Int
      BY FindingsAssumption
    <3>. QED  BY <2>1, <3>1, EquivalenceTyped
  <2>. QED  BY <2>1, <2>2, <2>3, <2>4
<1>5. Pvalues(Differ) /\ Present(Differ) = Family
  <2>1. \A i \in Family : Differ[i] \in 0..Unit
    BY <1>1, <1>2, <1>4
  <2>2. Differ = [i \in Family |-> Differ[i]]
    BY DEF Differ
  <2>3. Differ \in [Family -> (0..Unit) \cup {None}]
    BY <2>1, <2>2
  <2>. QED  BY <1>1, <1>2, <2>1, <2>3, StatisticsAssumption DEF Pvalues, Present
<1>6. ASSUME NEW m \in Margins
      PROVE  Pvalues(Equivalent(m)) /\ Present(Equivalent(m)) = Family
  <2>. DEFINE q == Equivalent(m)
  <2>1. \A i \in Family : q[i] \in 0..Unit
    BY <1>1, <1>3, <1>4
  <2>2. q = [i \in Family |-> q[i]] /\ DOMAIN q = Family
    BY <1>3 DEF Equivalent
  <2>. HIDE DEF q
  <2>3. q \in [Family -> (0..Unit) \cup {None}]
    BY <2>1, <2>2
  <2>4. Pvalues(q) /\ Present(q) = Family
    BY <1>1, <2>1, <2>2, <2>3, StatisticsAssumption DEF Pvalues, Present
  <2>. QED  BY <2>4 DEF q
<1>. QED  BY <1>1, <1>2, <1>3, <1>4, <1>5, <1>6
-----------------------------------------------------------------------------
(* Every step keeps the invariant.                                         *)

\* At first nothing is observed.
LEMMA StagesStart == Init => StagesInv
BY FindingsAssumption DEF Init, StagesInv, BatchesInv, SummariesInv, ContrastsInv,
   PrimaryInv, FindingsInv, Tested, Reported

\* Before the tests there is nothing but the batches and their summaries.
LEMMA CollectingKeeps ==
    ASSUME StagesInv,
           (\E outcome \in BatchOutcomes : Measure(outcome)) \/ NothingObserved \/ Summarise
    PROVE  StagesInv'
<1>1. stage = "collect" /\ BatchesInv
  BY DEF Measure, NothingObserved, Summarise, StagesInv
<1>2. /\ differences = NoRows /\ contrasts = NoRows /\ primary = None
      /\ findings = None
  BY <1>1 DEF StagesInv, SummariesInv, ContrastsInv, PrimaryInv, FindingsInv,
     Tested, Reported
<1>3. UNCHANGED <<contrasts, primary, findings>>
  BY DEF Measure, NothingObserved, Summarise
<1>4. CASE \E outcome \in BatchOutcomes : Measure(outcome)
  <2>1. PICK outcome \in BatchOutcomes : Measure(outcome)
    BY <1>4
  <2>2. batches' \in Seq(BatchOutcomes) /\ Len(batches') <= MaxBatches
    BY <1>1, <2>1, FindingsAssumption DEF BatchesInv, Measure
  <2>. QED  BY <1>1, <1>2, <1>3, <2>1, <2>2 DEF Measure, StagesInv, BatchesInv,
            SummariesInv, ContrastsInv, PrimaryInv, FindingsInv, Tested, Reported
<1>5. CASE NothingObserved
  BY <1>1, <1>2, <1>3, <1>5 DEF NothingObserved, StagesInv, BatchesInv,
     SummariesInv, ContrastsInv, PrimaryInv, FindingsInv, Tested, Reported
<1>6. CASE Summarise
  <2>1. /\ stage' = "confirm" /\ batches' = batches
        /\ differences' = PairwiseDeltas /\ deltas' = PrimaryDeltas
    BY <1>6 DEF Summarise
  <2>2. PairwiseDeltas' = PairwiseDeltas /\ PrimaryDeltas' = PrimaryDeltas
    BY <2>1, SummariesUnmoved
  <2>. QED  BY <1>1, <1>2, <1>3, <2>1, <2>2 DEF StagesInv, BatchesInv,
            SummariesInv, ContrastsInv, PrimaryInv, FindingsInv, Tested, Reported
<1>. QED  BY <1>4, <1>5, <1>6

\* From there on the batches and their summaries stay.
LEMMA SummariesStay ==
    ASSUME StagesInv, stage \in Tested \cup {"confirm"},
           stage' \in Tested \cup {"confirm"},
           UNCHANGED <<batches, differences, deltas>>
    PROVE  /\ BatchesInv' /\ SummariesInv' /\ BatchesInv
           /\ differences = PairwiseDeltas /\ deltas = PrimaryDeltas
           /\ Keys' = Keys /\ \A k : Raw(k)' = Raw(k)
<1>1. BatchesInv /\ differences = PairwiseDeltas /\ deltas = PrimaryDeltas
  BY DEF StagesInv, SummariesInv
<1>2. /\ PairwiseDeltas' = PairwiseDeltas /\ PrimaryDeltas' = PrimaryDeltas
      /\ Keys' = Keys /\ \A k : Raw(k)' = Raw(k)
  BY Unmoved
<1>3. BatchesInv'
  BY <1>1 DEF BatchesInv, Tested
<1>4. SummariesInv'
  BY <1>1, <1>2 DEF SummariesInv
<1>. QED  BY <1>1, <1>2, <1>3, <1>4

\* The contrasts are tested on their values and not adjusted yet.
LEMMA ConfirmKeeps ==
    ASSUME StagesInv, Confirm PROVE StagesInv'
<1>1. /\ stage = "confirm" /\ stage' = "adjust"
      /\ UNCHANGED <<batches, differences, deltas, primary, findings>>
      /\ contrasts' = [k \in Keys |-> [tests |-> Raw(k), adjusted |-> None,
                                       tost |-> [m \in Margins |-> None]]]
  BY DEF Confirm, Keys, Raw
<1>2. BatchesInv' /\ SummariesInv' /\ Keys' = Keys /\ \A k : Raw(k)' = Raw(k)
  BY <1>1, SummariesStay DEF Tested
<1>3. primary = None /\ findings = None
  BY <1>1 DEF StagesInv, PrimaryInv, FindingsInv, Reported
<1>4. ContrastsInv'
  BY <1>1, <1>2 DEF ContrastsInv, Tested
<1>. QED  BY <1>1, <1>2, <1>3, <1>4 DEF StagesInv, PrimaryInv, FindingsInv, Reported

\* The adjustment gives every contrast the p-value of its place, in the family
\* of the difference tests and in that of each margin, and leaves the tests.
LEMMA AdjustKeeps ==
    ASSUME StagesInv, Adjust PROVE StagesInv'
<1>. DEFINE Place(k) == CHOOSE i \in Family : AllContrasts[i] = k
            tost == [m \in Margins |-> HolmAdjust(Equivalent(m))]
<1>1. /\ stage = "adjust" /\ stage' = "primary"
      /\ UNCHANGED <<batches, differences, deltas, primary, findings>>
      /\ contrasts' = [k \in DOMAIN contrasts |->
            [contrasts[k] EXCEPT
                !.adjusted = HolmAdjust(Differ)[Place(k)],
                !.tost = [m \in Margins |-> tost[m][Place(k)]]]]
  BY Zenon DEF Adjust
<1>2. /\ BatchesInv' /\ SummariesInv' /\ Keys' = Keys /\ \A k : Raw(k)' = Raw(k)
      /\ BatchesInv /\ differences = PairwiseDeltas
  BY <1>1, SummariesStay DEF Tested
<1>3. primary = None /\ findings = None
  BY <1>1 DEF StagesInv, PrimaryInv, FindingsInv, Reported
<1>4. contrasts = [k \in Keys |-> [tests |-> Raw(k), adjusted |-> None,
                                   tost |-> [m \in Margins |-> None]]]
  BY <1>1 DEF StagesInv, ContrastsInv
<1>5. /\ DOMAIN contrasts = Keys /\ DOMAIN contrasts' = Keys
      /\ \A k \in Keys :
            /\ contrasts[k].tests = Raw(k) /\ contrasts'[k].tests = Raw(k)
            /\ contrasts'[k].adjusted = HolmAdjust(Differ)[Place(k)]
            /\ \A m \in Margins :
                  contrasts'[k].tost[m] = HolmAdjust(Equivalent(m))[Place(k)]
  <2>. HIDE DEF Place
  <2>1. DOMAIN contrasts = Keys /\ DOMAIN contrasts' = Keys
    BY <1>1, <1>4
  <2>2. ASSUME NEW k \in Keys
        PROVE  /\ contrasts[k].tests = Raw(k) /\ contrasts'[k].tests = Raw(k)
               /\ contrasts'[k].adjusted = HolmAdjust(Differ)[Place(k)]
               /\ \A m \in Margins :
                     contrasts'[k].tost[m] = HolmAdjust(Equivalent(m))[Place(k)]
    <3>1. contrasts[k] = [tests |-> Raw(k), adjusted |-> None,
                          tost |-> [m \in Margins |-> None]]
      BY <1>4
    <3>2. contrasts'[k] = [contrasts[k] EXCEPT
              !.adjusted = HolmAdjust(Differ)[Place(k)],
              !.tost = [m \in Margins |-> tost[m][Place(k)]]]
      <4>. HIDE DEF tost
      <4>. QED  BY <1>1, <2>1
    <3>3. contrasts'[k].tost = [m \in Margins |-> tost[m][Place(k)]]
      <4>. HIDE DEF tost
      <4>. QED  BY <3>1, <3>2
    <3>4. \A m \in Margins : tost[m] = HolmAdjust(Equivalent(m))
      OBVIOUS
    <3>. HIDE DEF tost
    <3>. QED  BY <3>1, <3>2, <3>3, <3>4
  <2>. QED  BY <2>1, <2>2
<1>6. Family' = Family
  BY <1>5 DEF Family
<1>7. /\ \A i \in Family : AllContrasts[i] \in Keys
      /\ \A i, j \in Family : AllContrasts[i] = AllContrasts[j] => i = j
  BY <1>2, <1>5, FamilyPlaces
<1>8. \A i \in Family : Place(AllContrasts[i]) = i
  <2>. SUFFICES ASSUME NEW i \in Family PROVE Place(AllContrasts[i]) = i
    OBVIOUS
  <2>1. \E j \in Family : AllContrasts[j] = AllContrasts[i]
    OBVIOUS
  <2>2. Place(AllContrasts[i]) \in Family
        /\ AllContrasts[Place(AllContrasts[i])] = AllContrasts[i]
    BY <2>1, Zenon
  <2>. HIDE DEF Place
  <2>. QED  BY <1>7, <2>2
<1>. HIDE DEF Place
<1>9. Differ' = Differ
  <2>1. \A i \in Family : contrasts'[AllContrasts[i]].tests.p
                            = contrasts[AllContrasts[i]].tests.p
    BY <1>5, <1>7
  <2>2. Differ' = [i \in Family |-> contrasts'[AllContrasts[i]].tests.p]
    BY <1>6 DEF Differ
  <2>3. Differ = [i \in Family |-> contrasts[AllContrasts[i]].tests.p]
    BY DEF Differ
  <2>. QED  BY <2>1, <2>2, <2>3
<1>10. ASSUME NEW m \in Margins PROVE Equivalent(m)' = Equivalent(m)
  <2>1. \A i \in Family : contrasts'[AllContrasts[i]].tests.tost[m].p
                            = contrasts[AllContrasts[i]].tests.tost[m].p
    BY <1>5, <1>7
  <2>2. Equivalent(m)' = [i \in Family |-> contrasts'[AllContrasts[i]].tests.tost[m].p]
    BY <1>6 DEF Equivalent
  <2>3. Equivalent(m) = [i \in Family |-> contrasts[AllContrasts[i]].tests.tost[m].p]
    BY DEF Equivalent
  <2>. QED  BY <2>1, <2>2, <2>3
<1>11. \A i \in Family :
          /\ contrasts'[AllContrasts[i]].adjusted = HolmAdjust(Differ)[i]
          /\ \A m \in Margins : contrasts'[AllContrasts[i]].tost[m]
                                  = HolmAdjust(Equivalent(m))[i]
  <2>. SUFFICES ASSUME NEW i \in Family
                PROVE  /\ contrasts'[AllContrasts[i]].adjusted = HolmAdjust(Differ)[i]
                       /\ \A m \in Margins : contrasts'[AllContrasts[i]].tost[m]
                                               = HolmAdjust(Equivalent(m))[i]
    OBVIOUS
  <2>1. AllContrasts[i] \in Keys /\ Place(AllContrasts[i]) = i
    BY <1>7, <1>8
  <2>. QED  BY <1>5, <2>1
<1>12. \A i \in Family' :
          /\ contrasts'[AllContrasts[i]].adjusted = HolmAdjust(Differ')[i]
          /\ \A m \in Margins : contrasts'[AllContrasts[i]].tost[m]
                                  = HolmAdjust(Equivalent(m)')[i]
  BY <1>6, <1>9, <1>10, <1>11
<1>13. DOMAIN contrasts' = Keys' /\ \A k \in Keys' : contrasts'[k].tests = Raw(k)'
  BY <1>2, <1>5
<1>14. ContrastsInv'
  BY <1>1, <1>12, <1>13 DEF ContrastsInv, Tested
<1>. QED  BY <1>1, <1>2, <1>3, <1>14 DEF StagesInv, PrimaryInv, FindingsInv, Reported

\* The contrasts stay once they are adjusted.
LEMMA ContrastsStay ==
    ASSUME StagesInv, stage \in Tested \ {"adjust"}, stage' \in Tested \ {"adjust"},
           UNCHANGED <<batches, differences, contrasts>>
    PROVE  ContrastsInv'
<1>1. Keys' = Keys /\ \A k : Raw(k)' = Raw(k)
  BY Unmoved
<1>2. /\ Family' = Family /\ Differ' = Differ
      /\ \A m \in Margins : Equivalent(m)' = Equivalent(m)
  BY DEF Family, Differ, Equivalent
<1>3. /\ DOMAIN contrasts = Keys /\ \A k \in Keys : contrasts[k].tests = Raw(k)
      /\ \A i \in Family :
            /\ contrasts[AllContrasts[i]].adjusted = HolmAdjust(Differ)[i]
            /\ \A m \in Margins : contrasts[AllContrasts[i]].tost[m]
                                    = HolmAdjust(Equivalent(m))[i]
  BY DEF StagesInv, ContrastsInv
<1>4. /\ DOMAIN contrasts' = Keys' /\ \A k \in Keys' : contrasts'[k].tests = Raw(k)'
      /\ \A i \in Family' :
            /\ contrasts'[AllContrasts[i]].adjusted = HolmAdjust(Differ')[i]
            /\ \A m \in Margins : contrasts'[AllContrasts[i]].tost[m]
                                    = HolmAdjust(Equivalent(m)')[i]
  BY <1>1, <1>2, <1>3
<1>. QED  BY <1>4 DEF ContrastsInv, Tested

\* The primary comparison is tested on the differences that there are.
LEMMA PrimaryKeeps ==
    ASSUME StagesInv, NEW configured \in PrimaryOptions, AnalysePrimary(configured)
    PROVE  StagesInv'
<1>1. /\ stage = "primary" /\ stage' = "report"
      /\ UNCHANGED <<batches, differences, deltas, contrasts, findings>>
      /\ primary' = IF configured = None THEN None
                    ELSE [of |-> configured,
                          tests |-> Raw(<<configured.condition, configured.pair>>)]
  BY DEF AnalysePrimary, Raw
<1>2. BatchesInv' /\ SummariesInv' /\ \A k : Raw(k)' = Raw(k)
  BY <1>1, SummariesStay DEF Tested
<1>3. ContrastsInv'
  BY <1>1, ContrastsStay DEF Tested
<1>4. findings = None
  BY <1>1 DEF StagesInv, FindingsInv
<1>5. PrimaryInv'
  BY <1>1, <1>2 DEF PrimaryInv, Reported
<1>. QED  BY <1>1, <1>2, <1>3, <1>4, <1>5 DEF StagesInv, FindingsInv

\* The claims are derived from all of the analyses, and nothing follows.
LEMMA ReportKeeps ==
    ASSUME StagesInv, Report PROVE StagesInv'
<1>1. PICK planned \in Len(batches)..MaxBatches,
           excludes \in IF HasPrimary THEN ExcludesZero ELSE {FALSE},
           overlap \in IF Worst # {} THEN Overlapping ELSE {TRUE} :
              ComputeFindings(planned, excludes, overlap)
  BY DEF Report
<1>2. excludes \in BOOLEAN /\ overlap \in BOOLEAN
  <2>1. ExcludesZero \subseteq BOOLEAN
    BY DEF ExcludesZero
  <2>2. Overlapping \subseteq BOOLEAN
    BY DEF Overlapping
  <2>. QED  BY <2>1, <2>2
<1>3. /\ stage = "report" /\ stage' = "done"
      /\ UNCHANGED <<batches, differences, deltas, tails, contrasts, primary>>
      /\ findings' = Claims(planned, excludes, overlap)
  BY <1>1 DEF ComputeFindings, Claims
<1>4. BatchesInv' /\ SummariesInv' /\ \A k : Raw(k)' = Raw(k)
  BY <1>3, SummariesStay DEF Tested
<1>5. ContrastsInv'
  BY <1>3, ContrastsStay DEF Tested
<1>6. PrimaryInv'
  BY <1>3, <1>4 DEF StagesInv, PrimaryInv, Reported
<1>7. Claims(planned, excludes, overlap)' = Claims(planned, excludes, overlap)
  BY <1>3, ClaimsUnmoved
<1>8. FindingsInv'
  <2>1. planned \in Len(batches')..MaxBatches
    BY <1>3
  <2>2. findings' = Claims(planned, excludes, overlap)'
    BY <1>3, <1>7
  <2>. QED  BY <1>2, <1>3, <2>1, <2>2 DEF FindingsInv
<1>. QED  BY <1>4, <1>5, <1>6, <1>8 DEF StagesInv

\* A step that changes nothing keeps the invariant.
LEMMA StagesStutter ==
    ASSUME StagesInv, UNCHANGED vars PROVE StagesInv'
<1>1. /\ UNCHANGED <<batches, stage, differences, deltas, tails, contrasts, primary,
                     findings>>
  BY DEF vars
<1>2. /\ PairwiseDeltas' = PairwiseDeltas /\ PrimaryDeltas' = PrimaryDeltas
      /\ Keys' = Keys /\ \A k : Raw(k)' = Raw(k)
  BY <1>1, Unmoved
<1>4. BatchesInv' /\ SummariesInv'
  BY <1>1, <1>2 DEF StagesInv, BatchesInv, SummariesInv
<1>5. ContrastsInv'
  <2>1. CASE stage \in Tested \ {"adjust"}
    BY <1>1, <2>1, ContrastsStay
  <2>2. CASE stage \notin Tested \ {"adjust"}
    BY <1>1, <1>2, <2>2 DEF StagesInv, ContrastsInv
  <2>. QED  BY <2>1, <2>2
<1>6. PrimaryInv'
  BY <1>1, <1>2 DEF StagesInv, PrimaryInv
<1>7. FindingsInv'
  <2>1. \A planned, excludes, overlap :
           Claims(planned, excludes, overlap)' = Claims(planned, excludes, overlap)
    BY <1>1, ClaimsUnmoved
  <2>. QED  BY <1>1, <2>1 DEF StagesInv, FindingsInv
<1>. QED  BY <1>4, <1>5, <1>6, <1>7 DEF StagesInv

\* In every stage the analysis has computed what the batches that it loaded at
\* its start imply, and nothing else.
THEOREM StagesInvHolds == Spec => []StagesInv
<1>1. Init => StagesInv
  BY StagesStart
<1>2. StagesInv /\ [Next]_vars => StagesInv'
  <2>. SUFFICES ASSUME StagesInv, [Next]_vars PROVE StagesInv'
    OBVIOUS
  <2>1. CASE \/ \E outcome \in BatchOutcomes : Measure(outcome)
             \/ NothingObserved \/ Summarise
    BY <2>1, CollectingKeeps
  <2>2. CASE Confirm
    BY <2>2, ConfirmKeeps
  <2>3. CASE Adjust
    BY <2>3, AdjustKeeps
  <2>4. CASE \E configured \in PrimaryOptions : AnalysePrimary(configured)
    BY <2>4, PrimaryKeeps
  <2>5. CASE Report
    BY <2>5, ReportKeeps
  <2>6. CASE Exited \/ UNCHANGED vars
    BY <2>6, StagesStutter DEF Exited
  <2>. QED  BY <2>1, <2>2, <2>3, <2>4, <2>5, <2>6 DEF Next
<1>. QED  BY <1>1, <1>2, PTL DEF Spec
-----------------------------------------------------------------------------
(* What it says of the contrasts, and the first theorems.                  *)

\* What the invariant says of a contrast at any time.
LEMMA ContrastTested ==
    ASSUME StagesInv, NEW k \in DOMAIN contrasts
    PROVE  /\ stage \in Tested /\ BatchesInv /\ differences = PairwiseDeltas
           /\ DOMAIN contrasts = Keys /\ k \in Keys
           /\ contrasts[k].tests = Raw(k)
           /\ \A l \in Keys : contrasts[l].tests = Raw(l)
           /\ Raw(k).values = Values(k[1], k[2]) /\ Raw(k).values # <<>>
           /\ Raw(k).values \in Seq(Int) /\ Testable(Len(Raw(k).values))
           /\ Raw(k) \in TestResults
           /\ \A m \in Margins : Raw(k).tost[m] = TostEquivalence(Raw(k).values, m)
<1>1. stage \in Tested
  BY DEF StagesInv, ContrastsInv, NoRows
<1>2. BatchesInv /\ differences = PairwiseDeltas
  BY <1>1 DEF StagesInv, SummariesInv
<1>3. DOMAIN contrasts = Keys /\ \A l \in Keys : contrasts[l].tests = Raw(l)
  <2>1. CASE stage = "adjust"
    <3>1. contrasts = [l \in Keys |-> [tests |-> Raw(l), adjusted |-> None,
                                       tost |-> [m \in Margins |-> None]]]
      BY <2>1 DEF StagesInv, ContrastsInv
    <3>. QED  BY <3>1
  <2>2. CASE stage # "adjust"
    BY <1>1, <2>2 DEF StagesInv, ContrastsInv
  <2>. QED  BY <2>1, <2>2
<1>4. /\ Raw(k).values = Values(k[1], k[2]) /\ Raw(k) \in TestResults
      /\ Raw(k).values \in Seq(Int) /\ Testable(Len(Raw(k).values))
      /\ Raw(k) = Tests(Raw(k).values) /\ Raw(k).values # <<>>
  <2>. DEFINE values == Values(k[1], k[2])
  <2>1. /\ Raw(k).values = values /\ Raw(k) \in TestResults /\ Raw(k) = Tests(values)
        /\ values \in Seq(Int) /\ Testable(Len(values))
    BY <1>2, RawTyped
  <2>2. values # <<>>
    BY <1>2, <1>3, KeysTyped
  <2>. HIDE DEF values
  <2>3. /\ Raw(k).values \in Seq(Int) /\ Testable(Len(Raw(k).values))
        /\ Raw(k) = Tests(Raw(k).values) /\ Raw(k).values # <<>>
    BY <2>1, <2>2
  <2>. QED  BY <2>1, <2>3 DEF values
<1>5. \A m \in Margins : Raw(k).tost[m] = TostEquivalence(Raw(k).values, m)
  <2>. DEFINE values == Raw(k).values
  <2>1. Raw(k) = Tests(values) /\ values # <<>>
    BY <1>4
  <2>. HIDE DEF values
  <2>2. \A m \in Margins : Tests(values).tost[m] = TostEquivalence(values, m)
    BY <2>1 DEF Tests
  <2>3. \A m \in Margins : Raw(k).tost[m] = TostEquivalence(values, m)
    BY <2>1, <2>2
  <2>. QED  BY <2>3 DEF values
<1>. QED  BY <1>1, <1>2, <1>3, <1>4, <1>5

\* And of its adjusted p-values.
LEMMA ContrastAdjusted ==
    ASSUME StagesInv, NEW k \in DOMAIN contrasts, stage # "adjust"
    PROVE  \E i \in Family :
              /\ AllContrasts[i] = k
              /\ contrasts[k].adjusted = HolmAdjust(Differ)[i]
              /\ \A m \in Margins : contrasts[k].tost[m] = HolmAdjust(Equivalent(m))[i]
<1>1. /\ stage \in Tested /\ BatchesInv /\ differences = PairwiseDeltas
      /\ DOMAIN contrasts = Keys /\ k \in Keys
  BY ContrastTested
<1>2. PICK i \in Family : AllContrasts[i] = k
  BY <1>1, FamilyPlaces
<1>3. /\ contrasts[AllContrasts[i]].adjusted = HolmAdjust(Differ)[i]
      /\ \A m \in Margins : contrasts[AllContrasts[i]].tost[m]
                              = HolmAdjust(Equivalent(m))[i]
  BY <1>1, <1>2 DEF StagesInv, ContrastsInv
<1>. QED  BY <1>2, <1>3

\* The two families, if there is any contrast.
LEMMA ContrastFamilies ==
    ASSUME StagesInv, stage \in Tested
    PROVE  /\ Pvalues(Differ) /\ Present(Differ) = Family
           /\ \A m \in Margins : Pvalues(Equivalent(m)) /\ Present(Equivalent(m)) = Family
           /\ \A i \in Family :
                 /\ AllContrasts[i] \in DOMAIN contrasts
                 /\ Differ[i] = Raw(AllContrasts[i]).p
                 /\ \A m \in Margins : Equivalent(m)[i] = Raw(AllContrasts[i]).tost[m].p
           /\ IsFiniteSet(Family) /\ DOMAIN contrasts = Keys
           /\ BatchesInv /\ differences = PairwiseDeltas
<1>1. BatchesInv /\ differences = PairwiseDeltas
  BY DEF StagesInv, SummariesInv
<1>2. DOMAIN contrasts = Keys /\ \A k \in Keys : contrasts[k].tests = Raw(k)
  <2>1. CASE stage = "adjust"
    <3>1. contrasts = [l \in Keys |-> [tests |-> Raw(l), adjusted |-> None,
                                       tost |-> [m \in Margins |-> None]]]
      BY <2>1 DEF StagesInv, ContrastsInv
    <3>. QED  BY <3>1
  <2>2. CASE stage # "adjust"
    BY <2>2 DEF StagesInv, ContrastsInv
  <2>. QED  BY <2>1, <2>2
<1>. QED  BY <1>1, <1>2, FamiliesTyped, FamilyPlaces

\* The state of the analysis has its type: adjusted p-values lie between 0 and 1
\* and every contrast that is reported was tested on at least one value.
THEOREM AnalysisTyped == Spec => []TypeOK
<1>1. StagesInv => TypeOK
  <2>. SUFFICES ASSUME StagesInv PROVE TypeOK
    OBVIOUS
  <2>1. BatchesInv
    BY DEF StagesInv
  <2>2. ASSUME NEW row \in DOMAIN differences PROVE differences[row] \in Int
    <3>1. differences = PairwiseDeltas
      BY DEF StagesInv, SummariesInv, NoRows
    <3>2. batches \in Seq(BatchOutcomes)
      BY <2>1 DEF BatchesInv
    <3>3. row \in (DOMAIN batches) \X Conditions \X Pairs
      BY <3>1, <3>2, DifferencesTyped
    <3>4. row = <<row[1], row[2], row[3]>> /\ row[1] \in DOMAIN batches
          /\ row[2] \in Conditions /\ row[3] \in Pairs
      BY <3>3
    <3>5. HasDifference(row[1], row[2], row[3])
      BY <3>1, <3>2, <3>4, DifferencesTyped
    <3>6. /\ BatchMedian(row[1], row[2], row[3][1]) \in Nat
          /\ BatchMedian(row[1], row[2], row[3][2]) \in Nat
          /\ differences[<<row[1], row[2], row[3]>>]
                = BatchMedian(row[1], row[2], row[3][2])
                    - BatchMedian(row[1], row[2], row[3][1])
      BY <3>1, <3>2, <3>4, <3>5, DifferencesTyped
    <3>. QED  BY <3>4, <3>6
  <2>3. ASSUME NEW k \in DOMAIN contrasts
        PROVE  /\ contrasts[k].tests \in TestResults
               /\ stage # "adjust" => contrasts[k].adjusted \in 0..Unit
    <3>1. contrasts[k].tests \in TestResults /\ stage \in Tested
      BY ContrastTested
    <3>2. ASSUME stage # "adjust" PROVE contrasts[k].adjusted \in 0..Unit
      BY <3>1, <3>2, ContrastAdjusted, ContrastFamilies, HolmBounds
    <3>. QED  BY <3>1, <3>2
  <2>4. primary \in {None} \cup [of : PrimaryOptions, tests : TestResults]
    <3>1. CASE primary = None
      BY <3>1
    <3>2. CASE primary # None
      <4>1. PICK configured \in PrimaryOptions :
                primary = [of |-> configured,
                           tests |-> Raw(<<configured.condition, configured.pair>>)]
        BY <3>2 DEF StagesInv, PrimaryInv
      <4>2. differences = PairwiseDeltas
        BY <3>2 DEF StagesInv, PrimaryInv, SummariesInv, Tested, Reported
      <4>3. Raw(<<configured.condition, configured.pair>>) \in TestResults
        BY <2>1, <4>2, RawTyped
      <4>. QED  BY <4>1, <4>3
    <3>. QED  BY <3>1, <3>2
  <2>. QED  BY <2>1, <2>2, <2>3, <2>4 DEF TypeOK, BatchesInv
<1>. QED  BY <1>1, StagesInvHolds, PTL

\* For every set of differences that an analysis can come to, a contrast is
\* only called equivalent within a margin that its own mean lies in.
THEOREM EquivalenceHolds == Spec => []EquivalenceIsSound
<1>1. StagesInv => EquivalenceIsSound
  <2>. SUFFICES ASSUME StagesInv, NEW k \in DOMAIN contrasts, NEW m \in Margins,
                       Len(contrasts[k].tests.values) <= ExactLimit,
                       contrasts[k].tests.tost[m].equivalent
                PROVE  WithinMargin(contrasts[k].tests.values, m)
    BY DEF EquivalenceIsSound
  <2>1. /\ contrasts[k].tests = Raw(k) /\ Raw(k).values \in Seq(Int)
        /\ Raw(k).tost[m] = TostEquivalence(Raw(k).values, m)
    BY ContrastTested
  <2>2. m \in Int
    BY FindingsAssumption
  <2>. QED  BY <2>1, <2>2, EquivalenceWithin DEF WithinMargin
<1>. QED  BY <1>1, StagesInvHolds, PTL

\* A contrast that is equivalent within one margin is so within every wider one,
\* before and after the adjustment.
THEOREM WiderMargins == Spec => []WiderMarginsHold
<1>1. StagesInv => WiderMarginsHold
  <2>. SUFFICES ASSUME StagesInv, NEW k \in DOMAIN contrasts,
                       NEW m \in Margins, NEW wider \in Margins, m < wider
                PROVE  /\ contrasts[k].tests.tost[wider].p <= contrasts[k].tests.tost[m].p
                       /\ stage # "adjust" =>
                             contrasts[k].tost[wider] <= contrasts[k].tost[m]
    BY DEF WiderMarginsHold
  <2>1. m \in Int /\ wider \in Int /\ m <= wider
    BY FindingsAssumption
  <2>2. ASSUME NEW l \in DOMAIN contrasts
        PROVE  /\ contrasts[l].tests = Raw(l)
               /\ Raw(l).tost[wider].p <= Raw(l).tost[m].p
    <3>1. /\ contrasts[l].tests = Raw(l) /\ Raw(l).values \in Seq(Int)
          /\ Testable(Len(Raw(l).values))
          /\ Raw(l).tost[m] = TostEquivalence(Raw(l).values, m)
          /\ Raw(l).tost[wider] = TostEquivalence(Raw(l).values, wider)
      BY ContrastTested
    <3>. QED  BY <2>1, <3>1, WiderIsEasier
  <2>3. ASSUME stage # "adjust"
        PROVE  contrasts[k].tost[wider] <= contrasts[k].tost[m]
    <3>1. stage \in Tested
      BY ContrastTested
    <3>2. /\ Pvalues(Equivalent(wider)) /\ Present(Equivalent(wider)) = Family
          /\ Pvalues(Equivalent(m)) /\ Present(Equivalent(m)) = Family
          /\ \A i \in Family : Equivalent(wider)[i] <= Equivalent(m)[i]
      BY <2>2, <3>1, ContrastFamilies
    <3>3. PICK i \in Family :
              /\ contrasts[k].tost[wider] = HolmAdjust(Equivalent(wider))[i]
              /\ contrasts[k].tost[m] = HolmAdjust(Equivalent(m))[i]
      BY <2>3, ContrastAdjusted
    <3>4. HolmAdjust(Equivalent(wider))[i] <= HolmAdjust(Equivalent(m))[i]
      BY <3>2, HolmMonotone
    <3>. QED  BY <3>3, <3>4
  <2>. QED  BY <2>2, <2>3
<1>. QED  BY <1>1, StagesInvHolds, PTL

\* The adjustment controls the family-wise error as the closed test does, for
\* every family of contrasts and every margin.
THEOREM AdjustmentIsClosed == Spec => []HolmIsClosedTest
<1>1. StagesInv => HolmIsClosedTest
  <2>. SUFFICES ASSUME StagesInv, stage = "primary" PROVE HolmIsClosedTest
    BY DEF HolmIsClosedTest
  <2>1. stage \in Tested /\ stage # "adjust"
    BY DEF Tested
  <2>2. \A i \in Family :
            /\ contrasts[AllContrasts[i]].adjusted = HolmAdjust(Differ)[i]
            /\ \A m \in Margins : contrasts[AllContrasts[i]].tost[m]
                                    = HolmAdjust(Equivalent(m))[i]
    BY <2>1 DEF StagesInv, ContrastsInv
  <2>3. HolmAdjust(Differ) = ClosedTest(Differ)
    BY <2>1, ContrastFamilies, HolmClosed
  <2>4. \A m \in Margins : HolmAdjust(Equivalent(m)) = ClosedTest(Equivalent(m))
    BY <2>1, ContrastFamilies, HolmClosed
  <2>5. [i \in Family |-> contrasts[AllContrasts[i]].adjusted] = ClosedTest(Differ)
    <3>1. ClosedTest(Differ) = [i \in Family |-> ClosedTest(Differ)[i]]
      BY DEF ClosedTest, Differ
    <3>. QED  BY <2>2, <2>3, <3>1
  <2>6. ASSUME NEW m \in Margins
        PROVE  [i \in Family |-> contrasts[AllContrasts[i]].tost[m]]
                  = ClosedTest(Equivalent(m))
    <3>1. ClosedTest(Equivalent(m)) = [i \in Family |-> ClosedTest(Equivalent(m))[i]]
      BY DEF ClosedTest, Equivalent
    <3>. QED  BY <2>2, <2>4, <3>1
  <2>. QED  BY <2>5, <2>6 DEF HolmIsClosedTest
<1>. QED  BY <1>1, StagesInvHolds, PTL

\* The primary contrast is the exploratory one of its pair and condition.
THEOREM PrimaryIsExploratory == Spec => []PrimaryAgrees
<1>1. StagesInv => PrimaryAgrees
  <2>. DEFINE key == <<primary.of.condition, primary.of.pair>>
  <2>. SUFFICES ASSUME StagesInv, stage = "report", primary # None
                PROVE  /\ HasPrimary <=> key \in DOMAIN contrasts
                       /\ HasPrimary => primary.tests = contrasts[key].tests
    BY DEF PrimaryAgrees
  <2>1. primary.tests = Raw(key)
    <3>1. PICK configured \in PrimaryOptions :
              primary = [of |-> configured,
                         tests |-> Raw(<<configured.condition, configured.pair>>)]
      BY DEF StagesInv, PrimaryInv
    <3>2. /\ primary.of = configured
          /\ primary.tests = Raw(<<configured.condition, configured.pair>>)
      BY <3>1
    <3>. QED  BY <3>2
  <2>2. /\ BatchesInv /\ differences = PairwiseDeltas /\ DOMAIN contrasts = Keys
        /\ \A k \in Keys : contrasts[k].tests = Raw(k)
    BY DEF StagesInv, SummariesInv, ContrastsInv, Tested
  <2>3. key = <<key[1], key[2]>>
    OBVIOUS
  <2>. HIDE DEF key
  <2>4. Raw(key).values = Values(key[1], key[2])
    BY <2>2, RawTyped
  <2>5. key \in Keys <=> Values(key[1], key[2]) # <<>>
    BY <2>2, <2>3, KeysTyped
  <2>6. HasPrimary <=> Values(key[1], key[2]) # <<>>
    BY <2>1, <2>4 DEF HasPrimary
  <2>. QED  BY <2>1, <2>2, <2>5, <2>6
<1>. QED  BY <1>1, StagesInvHolds, PTL
-----------------------------------------------------------------------------
(* The cost of the hybrid, and what is equivalent.                         *)

Hybrid == "X25519MLKEM768"
Cost == <<"X25519", Hybrid>>

\* A row of the primary differences, where the baseline and the hybrid are groups.
LEMMA PrimaryRows ==
    ASSUME batches \in Seq(BatchOutcomes), Cost \in Pairs
    PROVE  /\ DOMAIN PrimaryDeltas \subseteq (DOMAIN batches) \X Conditions
           /\ \A b \in DOMAIN batches, c \in Conditions :
                 LET row == <<b, c>>
                 IN  HasDifference(b, c, Cost) <=>
                        /\ row \in DOMAIN PrimaryDeltas
                        /\ Finite(PrimaryDeltas[row].absolute)
           /\ \A b \in DOMAIN batches, c \in Conditions :
                 HasDifference(b, c, Cost) =>
                    PrimaryDeltas[<<b, c>>].absolute = PairwiseDeltas[<<b, c, Cost>>]
<1>. DEFINE R == (DOMAIN batches) \X Conditions
            D == {r \in R : \A g \in {"X25519", "X25519MLKEM768"} :
                               Measured(r[1], r[2], g)}
<1>1. /\ PrimaryDeltas = [row \in D |-> PrimaryDelta(row[1], row[2])]
      /\ DOMAIN PrimaryDeltas = D
  BY DEF PrimaryDeltas
<1>2. "X25519" \in Names /\ Hybrid \in Names
  BY PairsMeet DEF Cost
<1>3. ASSUME NEW b \in DOMAIN batches, NEW c \in Conditions
      PROVE  /\ HasDifference(b, c, Cost) <=>
                   /\ <<b, c>> \in DOMAIN PrimaryDeltas
                   /\ Finite(PrimaryDeltas[<<b, c>>].absolute)
             /\ HasDifference(b, c, Cost) =>
                   PrimaryDeltas[<<b, c>>].absolute = PairwiseDeltas[<<b, c, Cost>>]
  <2>1. /\ BatchMedian(b, c, "X25519") \in Nat \cup {NaN}
        /\ BatchMedian(b, c, Hybrid) \in Nat \cup {NaN}
    BY <1>2, BatchMedianTyped
  <2>2. <<b, c>> \in DOMAIN PrimaryDeltas
          <=> Measured(b, c, "X25519") /\ Measured(b, c, Hybrid)
    BY <1>1 DEF Hybrid
  <2>3. HasDifference(b, c, Cost) <=>
            /\ Measured(b, c, "X25519") /\ Measured(b, c, Hybrid)
            /\ Finite(BatchMedian(b, c, "X25519")) /\ Finite(BatchMedian(b, c, Hybrid))
    <3>1. Cost[1] = "X25519" /\ Cost[2] = Hybrid
      BY DEF Cost
    <3>. QED  BY <3>1 DEF HasDifference
  <2>4. ASSUME <<b, c>> \in DOMAIN PrimaryDeltas
        PROVE  PrimaryDeltas[<<b, c>>].absolute
                 = Minus(BatchMedian(b, c, Hybrid), BatchMedian(b, c, "X25519"))
    <3>1. PrimaryDeltas[<<b, c>>] = PrimaryDelta(b, c)
      <4>. HIDE DEF D
      <4>. QED  BY <1>1, <2>4
    <3>. QED  BY <3>1 DEF PrimaryDelta, Hybrid
  <2>5. Finite(Minus(BatchMedian(b, c, Hybrid), BatchMedian(b, c, "X25519")))
          <=> /\ Finite(BatchMedian(b, c, "X25519"))
              /\ Finite(BatchMedian(b, c, Hybrid))
    BY <2>1, FindingsAssumption DEF Minus, Finite
  <2>6. HasDifference(b, c, Cost) => PairwiseDeltas[<<b, c, Cost>>]
           = BatchMedian(b, c, Hybrid) - BatchMedian(b, c, "X25519")
    BY DifferencesTyped DEF Cost
  <2>. QED  BY <2>2, <2>3, <2>4, <2>5, <2>6 DEF Minus
<1>. HIDE DEF D
<1>4. DOMAIN PrimaryDeltas \subseteq R
  BY <1>1 DEF D
<1>. QED  BY <1>3, <1>4

\* The differences of three groups agree, and so do the two functions that
\* compute the cost of the hybrid, for any groups among which that pair is.
THEOREM DifferencesAgree ==
    ASSUME <<"X25519", "X25519MLKEM768">> \in Pairs
    PROVE  Spec => []ContrastsAgree
<1>0. Cost \in Pairs
  BY DEF Cost, Hybrid
<1>1. StagesInv => ContrastsAgree
  <2>. SUFFICES ASSUME StagesInv, stage = "confirm" PROVE ContrastsAgree
    BY DEF ContrastsAgree
  <2>1. /\ batches \in Seq(BatchOutcomes)
        /\ differences = PairwiseDeltas /\ deltas = PrimaryDeltas
    BY DEF StagesInv, BatchesInv, SummariesInv
  <2>2. ASSUME NEW r \in DOMAIN differences
        PROVE  /\ r = <<r[1], r[2], r[3]>> /\ r[1] \in DOMAIN batches
               /\ r[2] \in Conditions /\ r[3] \in Pairs
               /\ HasDifference(r[1], r[2], r[3])
    <3>1. r \in (DOMAIN batches) \X Conditions \X Pairs
      BY <2>1, DifferencesTyped
    <3>2. r = <<r[1], r[2], r[3]>> /\ r[1] \in DOMAIN batches
          /\ r[2] \in Conditions /\ r[3] \in Pairs
      BY <3>1
    <3>. QED  BY <2>1, <3>2, DifferencesTyped
  <2>3. ASSUME NEW r \in DOMAIN differences, NEW pair \in Pairs, r[3][2] = pair[1],
               <<r[1], r[2], pair>> \in DOMAIN differences
        PROVE  LET whole == <<r[1], r[2], <<r[3][1], pair[2]>>>>
               IN  /\ whole \in DOMAIN differences
                   /\ differences[whole]
                        = differences[r] + differences[<<r[1], r[2], pair>>]
    <3>. DEFINE b == r[1]
                c == r[2]
                one == r[3]
                both == <<one[1], pair[2]>>
    <3>1. /\ r = <<b, c, one>> /\ b \in DOMAIN batches /\ c \in Conditions
          /\ one \in Pairs /\ HasDifference(b, c, one)
      BY <2>2
    <3>2. HasDifference(b, c, pair)
      BY <2>1, <2>3, <3>1, DifferencesTyped
    <3>3. one[2] = pair[1] /\ both \in Pairs
      BY <2>3, <3>1, PairsMeet
    <3>4. both[1] = one[1] /\ both[2] = pair[2]
      OBVIOUS
    <3>. HIDE DEF b, c, one, both
    <3>5. HasDifference(b, c, both)
      BY <3>1, <3>2, <3>4 DEF HasDifference
    <3>6. /\ differences[<<b, c, one>>]
               = BatchMedian(b, c, one[2]) - BatchMedian(b, c, one[1])
          /\ differences[<<b, c, pair>>]
               = BatchMedian(b, c, pair[2]) - BatchMedian(b, c, pair[1])
          /\ BatchMedian(b, c, one[1]) \in Nat /\ BatchMedian(b, c, one[2]) \in Nat
          /\ BatchMedian(b, c, pair[2]) \in Nat
      BY <2>1, <3>1, <3>2, DifferencesTyped
    <3>7. /\ <<b, c, both>> \in DOMAIN differences
          /\ differences[<<b, c, both>>]
               = BatchMedian(b, c, both[2]) - BatchMedian(b, c, both[1])
      BY <2>1, <3>1, <3>3, <3>5, DifferencesTyped
    <3>8. differences[<<b, c, both>>]
            = differences[<<b, c, one>>] + differences[<<b, c, pair>>]
      <4>1. \A x, y, z \in Nat : z - x = (y - x) + (z - y)
        OBVIOUS
      <4>. QED  BY <3>3, <3>4, <3>6, <3>7, <4>1
    <3>. QED  BY <3>1, <3>7, <3>8 DEF b, c, one, both
  <2>. DEFINE primaries == {<<r[1], r[2], deltas[r].absolute>> :
                  r \in {d \in DOMAIN deltas : Finite(deltas[d].absolute)}}
              pairwise == {<<r[1], r[2], differences[r]>> : r \in
                  {d \in DOMAIN differences : d[3] = Cost}}
  <2>4. primaries \subseteq pairwise
    <3>. SUFFICES ASSUME NEW r \in DOMAIN deltas, Finite(deltas[r].absolute)
                  PROVE  <<r[1], r[2], deltas[r].absolute>> \in pairwise
      OBVIOUS
    <3>1. r \in (DOMAIN batches) \X Conditions
      BY <1>0, <2>1, PrimaryRows
    <3>2. r = <<r[1], r[2]>> /\ r[1] \in DOMAIN batches /\ r[2] \in Conditions
      BY <3>1
    <3>3. HasDifference(r[1], r[2], Cost)
      BY <1>0, <2>1, <3>2, PrimaryRows
    <3>. DEFINE d == <<r[1], r[2], Cost>>
    <3>4. d \in DOMAIN differences /\ deltas[r].absolute = differences[d]
      BY <1>0, <2>1, <3>2, <3>3, PrimaryRows, DifferencesTyped
    <3>5. d[1] = r[1] /\ d[2] = r[2] /\ d[3] = Cost
      OBVIOUS
    <3>. HIDE DEF d
    <3>. QED  BY <3>4, <3>5
  <2>5. pairwise \subseteq primaries
    <3>. SUFFICES ASSUME NEW d \in DOMAIN differences, d[3] = Cost
                  PROVE  <<d[1], d[2], differences[d]>> \in primaries
      OBVIOUS
    <3>1. /\ d = <<d[1], d[2], Cost>> /\ d[1] \in DOMAIN batches
          /\ d[2] \in Conditions /\ HasDifference(d[1], d[2], Cost)
      BY <2>2
    <3>. DEFINE r == <<d[1], d[2]>>
    <3>2. /\ r \in DOMAIN deltas /\ Finite(deltas[r].absolute)
          /\ deltas[r].absolute = differences[d]
      BY <1>0, <2>1, <3>1, PrimaryRows
    <3>3. r[1] = d[1] /\ r[2] = d[2]
      OBVIOUS
    <3>. HIDE DEF r
    <3>. QED  BY <3>2, <3>3
  <2>6. primaries = pairwise
    BY <2>4, <2>5
  <2>. QED  BY <2>3, <2>6 DEF ContrastsAgree, Cost, Hybrid
<1>. QED  BY <1>1, StagesInvHolds, PTL

\* A p-value that is significant makes every smaller one significant.
LEMMA SmallerIsSignificant ==
    ASSUME NEW p \in 0..Unit, NEW q \in 0..Unit, p <= q, Significant(q)
    PROVE  Significant(p)
<1>1. \A a, b, k \in Nat : a <= b => a * k <= b * k /\ a * k \in Nat /\ b * k \in Nat
  OBVIOUS
<1>2. p \in Nat /\ q \in Nat /\ Level \in Nat /\ Unit \in Nat
  BY StatisticsAssumption
<1>3. p * Level <= q * Level /\ p * Level \in Nat /\ q * Level \in Nat
  BY <1>1, <1>2
<1>. QED  BY <1>2, <1>3 DEF Significant

\* The narrowest margin is one of them.
LEMMA TightestTyped ==
    ASSUME Margins # {} PROVE Tightest \in Margins /\ Tightest \in Int
<1>1. Margins \in SUBSET Nat
  BY FindingsAssumption
<1>2. PICK m \in Margins : \A x \in Margins : m <= x
  BY <1>1, Least
<1>3. Min(Margins) = m
  BY <1>1, <1>2, MinIs
<1>. QED  BY <1>1, <1>3 DEF Tightest

\* Contrasts that the adjusted test calls equivalent lie within the margin.
LEMMA ConfirmedWithin ==
    ASSUME StagesInv, stage # "adjust", NEW k \in DOMAIN contrasts,
           NEW m \in Margins, Significant(contrasts[k].tost[m]),
           Len(contrasts[k].tests.values) <= ExactLimit
    PROVE  WithinMargin(contrasts[k].tests.values, m)
<1>. DEFINE values == Raw(k).values
            p == TostEquivalence(values, m).p
<1>1. /\ stage \in Tested /\ contrasts[k].tests = Raw(k) /\ values \in Seq(Int)
      /\ Testable(Len(values)) /\ Raw(k).tost[m] = TostEquivalence(values, m)
  BY ContrastTested
<1>2. m \in Int
  BY FindingsAssumption
<1>3. PICK i \in Family : /\ AllContrasts[i] = k
                          /\ contrasts[k].tost[m] = HolmAdjust(Equivalent(m))[i]
  BY ContrastAdjusted
<1>4. /\ Pvalues(Equivalent(m)) /\ i \in Present(Equivalent(m))
      /\ Equivalent(m)[i] = p
  BY <1>1, <1>3, ContrastFamilies
<1>5. HolmAdjust(Equivalent(m))[i] \in 0..Unit /\ p <= HolmAdjust(Equivalent(m))[i]
  BY <1>4, HolmBounds
<1>6. p \in 0..Unit /\ TostEquivalence(values, m).equivalent = Significant(p)
  BY <1>1, <1>2, EquivalenceTyped
<1>. HIDE DEF values
<1>7. Significant(p)
  BY <1>3, <1>5, <1>6, SmallerIsSignificant
<1>8. TostEquivalence(values, m).equivalent
  BY <1>6, <1>7
<1>9. Len(values) <= ExactLimit
  BY <1>1 DEF values
<1>10. Abs(Total(values)) < m * Len(values)
  BY <1>1, <1>2, <1>8, <1>9, EquivalenceWithin
<1>. QED  BY <1>1, <1>10 DEF WithinMargin, values
-----------------------------------------------------------------------------
(* The claims.                                                             *)

\* There are as many contrasts as places in the families.
LEMMA ContrastsCounted ==
    ASSUME StagesInv, stage \in Tested
    PROVE  /\ IsFiniteSet(DOMAIN contrasts) /\ IsFiniteSet(Family)
           /\ Cardinality(DOMAIN contrasts) = Cardinality(Family)
           /\ Cardinality(Family) \in Nat
<1>. DEFINE f == [i \in Family |-> AllContrasts[i]]
<1>1. /\ IsFiniteSet(Family) /\ DOMAIN contrasts = Keys
      /\ BatchesInv /\ differences = PairwiseDeltas
  BY ContrastFamilies
<1>2. /\ \A i \in Family : AllContrasts[i] \in Keys
      /\ \A k \in Keys : \E i \in Family : AllContrasts[i] = k
      /\ \A i, j \in Family : AllContrasts[i] = AllContrasts[j] => i = j
  BY <1>1, FamilyPlaces
<1>3. /\ f \in [Family -> Keys] /\ \A k \in Keys : \E i \in Family : f[i] = k
      /\ \A i, j \in Family : f[i] = f[j] => i = j
  BY <1>2
<1>. HIDE DEF f
<1>4. f \in Bijection(Family, Keys)
  BY <1>3, Fun_IsBij
<1>5. ExistsBijection(Family, Keys)
  BY <1>4 DEF ExistsBijection
<1>. QED  BY <1>1, <1>5, FS_Bijection, FS_CardinalityType

\* The conclusion is formal only if the equivalence test of the primary contrast,
\* or without one that of every exploratory contrast, says so.
LEMMA FormalMeans ==
    ASSUME NEW found, NEW tail, NEW explored,
           Plain(found, tail, explored).conclusion = "formal"
    PROVE  IF found.equivalence # None THEN found.equivalence
           ELSE explored.tested > 0 /\ explored.confirmed = explored.tested
BY DEF Plain

\* When the plain summary says that the results formally support viability, the
\* means it speaks of lie within the narrowest margin.
THEOREM FormalConclusion == Spec => []FormalConclusionHolds
<1>1. StagesInv => FormalConclusionHolds
  <2>. DEFINE tested == IF HasPrimary THEN {primary.tests.values}
                        ELSE {contrasts[k].tests.values : k \in DOMAIN contrasts}
  <2>. SUFFICES ASSUME StagesInv, findings # None,
                       findings.plain.conclusion = "formal"
                PROVE  /\ tested # {}
                       /\ \A values \in tested : Len(values) <= ExactLimit =>
                             WithinMargin(values, Tightest)
    BY DEF FormalConclusionHolds
  <2>1. stage = "done" /\ stage \in Tested /\ stage # "adjust"
    BY DEF StagesInv, FindingsInv, Tested
  <2>2. PICK planned \in Len(batches)..MaxBatches, excludes \in BOOLEAN,
             overlap \in BOOLEAN : findings = Claims(planned, excludes, overlap)
    BY DEF StagesInv, FindingsInv
  <2>. DEFINE found == PrimaryFinding(excludes)
  <2>3. IF found.equivalence # None THEN found.equivalence
        ELSE /\ ExploratoryFinding.tested > 0
             /\ ExploratoryFinding.confirmed = ExploratoryFinding.tested
    <3>1. findings.plain = Plain(found, TailFinding(overlap), ExploratoryFinding)
      BY <2>2 DEF Claims
    <3>. HIDE DEF found
    <3>. QED  BY <3>1, FormalMeans
  <2>4. found.equivalence = IF HasPrimary /\ Margins # {}
                              THEN primary.tests.tost[Tightest].equivalent ELSE None
    BY DEF PrimaryFinding
  <2>. HIDE DEF found
  <2>5. Margins = {} => ExploratoryFinding.tested = 0
    BY DEF ExploratoryFinding
  <2>6. Margins # {}
    BY <2>3, <2>4, <2>5
  <2>7. Tightest \in Margins /\ Tightest \in Int
    BY <2>6, TightestTyped
  <2>8. CASE HasPrimary
    <3>1. PICK configured \in PrimaryOptions :
              primary = [of |-> configured,
                         tests |-> Raw(<<configured.condition, configured.pair>>)]
      BY <2>8 DEF HasPrimary, StagesInv, PrimaryInv
    <3>. DEFINE key == <<configured.condition, configured.pair>>
                values == Values(key[1], key[2])
    <3>2. primary.tests = Raw(key)
      BY <3>1
    <3>3. /\ Raw(key) = Tests(values) /\ Raw(key).values = values
          /\ values \in Seq(Int) /\ Testable(Len(values))
      BY <2>1, RawTyped DEF StagesInv, SummariesInv
    <3>. HIDE DEF key, values
    <3>4. values # <<>>
      BY <2>8, <3>2, <3>3 DEF HasPrimary
    <3>5. primary.tests.tost[Tightest] = TostEquivalence(values, Tightest)
      BY <2>7, <3>2, <3>3, <3>4 DEF Tests
    <3>6. TostEquivalence(values, Tightest).equivalent \in BOOLEAN
      BY <2>7, <3>3, EquivalenceTyped
    <3>7. TostEquivalence(values, Tightest).equivalent
      BY <2>3, <2>4, <2>6, <2>8, <3>5, <3>6, FindingsAssumption
    <3>8. Len(values) <= ExactLimit => WithinMargin(values, Tightest)
      BY <2>7, <3>3, <3>7, EquivalenceWithin DEF WithinMargin
    <3>9. tested = {values}
      BY <2>8, <3>2, <3>3
    <3>. HIDE DEF tested
    <3>. QED  BY <3>8, <3>9
  <2>9. CASE ~HasPrimary
    <3>. DEFINE confirmed == {k \in DOMAIN contrasts :
                                 Significant(contrasts[k].tost[Tightest])}
    <3>1. /\ ExploratoryFinding.tested > 0
          /\ ExploratoryFinding.confirmed = ExploratoryFinding.tested
      BY <2>3, <2>4, <2>9
    <3>2. DOMAIN contrasts # {} /\ Cardinality(confirmed) = Cardinality(DOMAIN contrasts)
      <4>1. DOMAIN contrasts = {} => ExploratoryFinding.tested = 0
        BY DEF ExploratoryFinding
      <4>2. ASSUME DOMAIN contrasts = {} PROVE FALSE
        <5>1. ExploratoryFinding.tested = 0
          BY <4>1, <4>2
        <5>2. 0 > 0
          BY ONLY <3>1, <5>1
        <5>. QED  BY ONLY <5>2
      <4>. QED  BY <2>6, <3>1, <4>2 DEF ExploratoryFinding
    <3>3. confirmed = DOMAIN contrasts
      <4>1. confirmed \subseteq DOMAIN contrasts
        OBVIOUS
      <4>. HIDE DEF confirmed
      <4>. QED  BY <2>1, <3>2, <4>1, ContrastsCounted, FS_Subset
    <3>4. \A k \in DOMAIN contrasts :
              Len(contrasts[k].tests.values) <= ExactLimit
                 => WithinMargin(contrasts[k].tests.values, Tightest)
      BY <2>1, <2>7, <3>3, ConfirmedWithin
    <3>. QED  BY <2>9, <3>2, <3>4
  <2>. QED  BY <2>8, <2>9
<1>. QED  BY <1>1, StagesInvHolds, PTL
-----------------------------------------------------------------------------
(* The p-value floor.                                                      *)

\* More values have at least as many sign vectors.
LEMMA SigningsGrow ==
    ASSUME NEW n \in Nat, NEW m \in Nat, n <= m
    PROVE  Signings(n) <= Signings(m)
<1>. DEFINE V == [1..n -> {-1, 1}]
            W == [1..m -> {-1, 1}]
            extend == [s \in V |-> [i \in 1..m |-> IF i \in 1..n THEN s[i] ELSE 1]]
<1>1. extend \in [V -> W]
  OBVIOUS
<1>2. \A s, t \in V : extend[s] = extend[t] => s = t
  <2>. SUFFICES ASSUME NEW s \in V, NEW t \in V, extend[s] = extend[t] PROVE s = t
    OBVIOUS
  <2>1. \A i \in 1..n : i \in 1..m
    OBVIOUS
  <2>2. ASSUME NEW i \in 1..n PROVE s[i] = t[i]
    <3>1. extend[s][i] = s[i] /\ extend[t][i] = t[i]
      BY <2>1
    <3>. QED  BY <3>1
  <2>. QED  BY <2>2
<1>3. IsFiniteSet(W)
  BY SigningsFinite
<1>. HIDE DEF V, W, extend
<1>4. extend \in Injection(V, W)
  BY <1>1, <1>2, Fun_IsInj
<1>5. Cardinality(V) <= Cardinality(W)
  BY <1>3, <1>4, FS_Injection
<1>. QED  BY <1>5 DEF Signings, V, W

\* No exact p-value is smaller than that of the observed signs and their opposites.
LEMMA SmallestPvalue ==
    ASSUME NEW v \in Seq(Int), v # <<>>, Len(v) <= ExactLimit
    PROVE  2 * (Unit \div Signings(Len(v))) <= SignPermutation(v)
<1>. DEFINE V == [1..Len(v) -> {-1, 1}]
            plus == [i \in 1..Len(v) |-> 1]
            minus == Opposite(plus)
            P == {s \in V : Abs(SignedSums(v)[s]) >= Abs(Total(v))}
            part == Unit \div Signings(Len(v))
<1>0. Len(v) \in 0..ExactLimit /\ Len(v) \in Nat /\ Len(v) >= 1
  BY StatisticsAssumption
<1>1. plus \in V /\ minus \in V /\ \A i \in 1..Len(v) : minus[i] = -plus[i]
  BY <1>0, OppositeSigns
<1>2. plus # minus
  <2>1. 1 \in 1..Len(v)
    BY <1>0
  <2>2. plus[1] = 1 /\ minus[1] = -plus[1]
    BY <1>1, <2>1
  <2>. QED  BY <2>2
<1>3. /\ DOMAIN SignedSums(v) = V /\ SignedSums(v)[plus] \in Int
      /\ SignedSums(v)[minus] = -SignedSums(v)[plus]
  BY <1>1, OppositeSums
<1>4. SignedSums(v)[plus] = Total(v)
  <2>1. /\ Testable(Len(v)) /\ SignVectors(Len(v)) = [s \in V |-> s]
    BY <1>0, ExactVectors
  <2>2. DOMAIN SignVectors(Len(v)) = V /\ SignVectors(Len(v))[plus] = plus
    BY <1>1, <2>1
  <2>3. SignedSums(v)[plus] = Total(Signed(plus, v))
    <3>. DEFINE vectors == SignVectors(Len(v))
    <3>1. plus \in DOMAIN vectors /\ vectors[plus] = plus
      BY <1>1, <2>2
    <3>. HIDE DEF plus
    <3>2. SignedSums(v)[plus] = Total(Signed(vectors[plus], v))
      BY <2>1, <3>1, SumsAreTotals
    <3>. QED  BY <3>1, <3>2
  <2>4. Signed(plus, v) = v
    <3>1. /\ Signed(plus, v) = [i \in 1..Len(v) |-> plus[i] * v[i]]
          /\ v = [i \in 1..Len(v) |-> v[i]]
      BY DEF Signed
    <3>2. \A i \in 1..Len(v) : plus[i] * v[i] = v[i]
      <4>1. \A i \in 1..Len(v) : plus[i] = 1 /\ v[i] \in Int
        BY ValuesTyped
      <4>2. \A x \in Int : 1 * x = x
        OBVIOUS
      <4>. HIDE DEF plus
      <4>. QED  BY <4>1, <4>2
    <3>. HIDE DEF plus
    <3>3. [i \in 1..Len(v) |-> plus[i] * v[i]] = [i \in 1..Len(v) |-> v[i]]
      BY ONLY <3>2
    <3>. QED  BY ONLY <3>1, <3>3
  <2>. QED  BY <2>3, <2>4
<1>5. plus \in P /\ minus \in P
  <2>1. \A x \in Int : Abs(-x) = Abs(x) /\ Abs(x) \in Int
    BY DEF Abs
  <2>2. Total(v) \in Int
    BY TotalTyped
  <2>. HIDE DEF V, plus, minus
  <2>3. Abs(SignedSums(v)[plus]) >= Abs(Total(v))
    BY <1>4, <2>1, <2>2
  <2>4. Abs(SignedSums(v)[minus]) >= Abs(Total(v))
    BY <1>3, <1>4, <2>1, <2>2
  <2>. QED  BY <1>1, <2>3, <2>4
<1>. HIDE DEF plus, minus
<1>6. IsFiniteSet(V) /\ Cardinality(V) = Signings(Len(v))
      /\ Cardinality(V) \in Nat \ {0} /\ Unit % Cardinality(V) = 0
  BY <1>0, SigningsFinite, StatisticsAssumption DEF Signings
<1>7. part \in Nat
  BY <1>6, UnitDivides
<1>8. IsFiniteSet(P) /\ 2 <= Cardinality(P) /\ Cardinality(P) \in Nat
  <2>1. P \subseteq V
    OBVIOUS
  <2>. HIDE DEF P, V
  <2>2. IsFiniteSet(P) /\ Cardinality(P) \in Nat
    BY <1>6, <2>1, FS_Subset, FS_CardinalityType
  <2>3. IsFiniteSet({plus}) /\ Cardinality({plus}) = 1
    BY FS_Singleton
  <2>4. {plus} \subseteq P /\ {plus} # P
    BY <1>2, <1>5
  <2>5. Cardinality({plus}) < Cardinality(P)
    BY <2>2, <2>3, <2>4, FS_Subset
  <2>. QED  BY <2>2, <2>3, <2>5
<1>9. SignPermutation(v) = Cardinality(P) * part
  <2>1. SignPermutation(v) = Share({s \in DOMAIN SignedSums(v) :
            Abs(SignedSums(v)[s]) >= Abs(Total(v))}, DOMAIN SignedSums(v))
    BY DEF SignPermutation
  <2>2. SignPermutation(v) = Share(P, V)
    BY <1>3, <2>1
  <2>. HIDE DEF P, V
  <2>. QED  BY <1>6, <2>2 DEF Share
<1>. HIDE DEF P, part
<1>10. \A a, b, k \in Nat : a <= b => a * k <= b * k
  OBVIOUS
<1>. QED  BY <1>7, <1>8, <1>9, <1>10 DEF part

\* The floor of a number of batches is one of any smaller number of values.
LEMMA FloorIsBelow ==
    ASSUME NEW n \in 0..ExactLimit, NEW m \in 0..ExactLimit, n <= m
    PROVE  /\ (2 * Unit) \div Signings(m) \in Nat
           /\ (2 * Unit) \div Signings(m) <= 2 * (Unit \div Signings(n))
<1>. DEFINE a == Signings(n)
            b == Signings(m)
            f == (2 * Unit) \div b
            q == Unit \div a
<1>1. n \in Nat /\ m \in Nat /\ Unit \in Nat
  BY StatisticsAssumption
<1>2. a \in Nat \ {0} /\ b \in Nat \ {0} /\ a <= b /\ Unit % a = 0
  BY <1>1, SigningsFinite, SigningsGrow, StatisticsAssumption
<1>. HIDE DEF a, b
<1>3. q \in Nat /\ a * q = Unit
  BY <1>2, UnitDivides
<1>4. f \in Nat /\ b * f <= 2 * Unit
  BY <1>1, <1>2
<1>. HIDE DEF f, q
<1>5. \A x, y, z \in Nat : x <= y => x * z <= y * z /\ z * x <= z * y
  OBVIOUS
<1>6. a * f <= b * f /\ a * f \in Nat /\ b * f \in Nat
  BY <1>2, <1>4, <1>5
<1>7. ASSUME ~(f <= 2 * q) PROVE FALSE
  <2>1. 2 * q + 1 <= f /\ 2 * q + 1 \in Nat
    BY <1>3, <1>4, <1>7
  <2>2. a * (2 * q + 1) <= a * f
    BY <1>2, <1>4, <1>5, <2>1
  <2>3. a * (2 * q + 1) = 2 * (a * q) + a
    BY <1>2, <1>3
  <2>. QED  BY <1>1, <1>2, <1>3, <1>4, <1>6, <2>2, <2>3
<1>. QED  BY <1>4, <1>7 DEF a, b, f, q

\* When the findings say that the exact test's p-value floor is too high for
\* the adjustment, no contrast is reported as significant, however many batches
\* there may be.
THEOREM FloorNote == Spec => []FloorNoteIsRight
<1>1. StagesInv => FloorNoteIsRight
  <2>. SUFFICES ASSUME StagesInv, findings # None, findings.multiplicity.floor,
                       findings.multiplicity.note = "exact"
                PROVE  findings.multiplicity.significant = 0
    BY DEF FloorNoteIsRight
  <2>1. stage = "done" /\ stage \in Tested /\ stage # "adjust"
    BY DEF StagesInv, FindingsInv, Tested
  <2>2. PICK planned \in Len(batches)..MaxBatches, excludes \in BOOLEAN,
             overlap \in BOOLEAN : findings = Claims(planned, excludes, overlap)
    BY DEF StagesInv, FindingsInv
  <2>3. findings.multiplicity = MultiplicityFinding(planned)
    BY <2>2 DEF Claims
  <2>4. FloorTooHigh(planned)
    <3>1. MultiplicityFinding(planned).floor
             = (DOMAIN contrasts # {} /\ planned > 0 /\ FloorTooHigh(planned))
      BY DEF MultiplicityFinding
    <3>2. MultiplicityFinding(planned).floor
      BY <2>3
    <3>. QED  BY <3>1, <3>2
  <2>5. /\ batches \in Seq(BatchOutcomes) /\ Len(batches) <= MaxBatches
        /\ differences = PairwiseDeltas
    BY <2>1 DEF StagesInv, BatchesInv, SummariesInv
  <2>6. planned \in 0..ExactLimit /\ Len(batches) <= planned /\ Len(batches) \in Nat
        /\ planned \in Nat
    <3>1. MultiplicityFinding(planned).note = "exact"
      BY <2>3
    <3>2. planned <= ExactLimit
      BY <3>1 DEF MultiplicityFinding
    <3>. QED  BY <2>5, <3>2, FindingsAssumption, StatisticsAssumption
  <2>. DEFINE n == Cardinality(Family)
              floor == (2 * Unit) \div Signings(planned)
  <2>7. n \in Nat /\ Cardinality(DOMAIN contrasts) = n
    BY <2>1, ContrastsCounted
  <2>8. floor * Level * n > Unit
    <3>1. planned <= ExactLimit
      BY <2>6, StatisticsAssumption
    <3>. QED  BY <2>4, <2>7, <3>1 DEF FloorTooHigh
  <2>. HIDE DEF n
  <2>9. ASSUME NEW k \in DOMAIN contrasts, Significant(contrasts[k].adjusted)
        PROVE  FALSE
    <3>1. PICK i \in Family : contrasts[k].adjusted = HolmAdjust(Differ)[i]
      BY <2>1, ContrastAdjusted
    <3>2. Pvalues(Differ) /\ Present(Differ) = Family
      BY <2>1, ContrastFamilies
    <3>3. /\ HolmAdjust(Differ)[i] \in 0..Unit
          /\ OfFamily(Differ, Family) <= HolmAdjust(Differ)[i]
      BY <3>1, <3>2, HolmBounds
    <3>4. PICK j \in Family : Min({Differ[l] : l \in Family}) = Differ[j]
      <4>1. Family \in SUBSET Present(Differ) /\ Family # {}
        BY <3>1, <3>2
      <4>. QED  BY <3>2, <4>1, FamilyMinimum
    <3>. DEFINE l == AllContrasts[j]
                values == Raw(l).values
    <3>5. Differ[j] = Raw(l).p /\ l \in DOMAIN contrasts
      BY <2>1, <3>4, ContrastFamilies
    <3>. HIDE DEF l
    <3>6. /\ values = Values(l[1], l[2]) /\ values # <<>> /\ values \in Seq(Int)
      BY <3>5, ContrastTested
    <3>7. Raw(l).p = SignPermutation(values)
      BY <3>6 DEF Raw, Tests
    <3>8. Len(values) <= Len(batches) /\ Len(values) \in Nat
      BY <2>5, <3>6, ContrastValues
    <3>. HIDE DEF values
    <3>9. Len(values) <= planned /\ Len(values) \in 0..ExactLimit
          /\ Len(values) <= ExactLimit
      BY <2>6, <3>8, StatisticsAssumption
    <3>10. floor \in Nat /\ floor <= 2 * (Unit \div Signings(Len(values)))
      BY <2>6, <3>9, FloorIsBelow
    <3>11. 2 * (Unit \div Signings(Len(values))) <= Differ[j]
      BY <3>5, <3>6, <3>7, <3>9, SmallestPvalue
    <3>12. Differ[j] \in Nat
      BY <3>2, PresentTyped
    <3>13. floor <= Differ[j]
      <4>1. Unit \div Signings(Len(values)) \in Int
        <5>1. Signings(Len(values)) \in Nat \ {0} /\ Unit \in Nat
          BY <3>8, SigningsFinite, StatisticsAssumption
        <5>. QED  BY <5>1
      <4>. HIDE DEF floor
      <4>. QED  BY <3>10, <3>11, <3>12, <4>1
    <3>. HIDE DEF floor
    <3>14. Level \in Nat /\ Level >= 2 /\ Unit \in Nat /\ Unit > 0
      BY StatisticsAssumption
    <3>15. \A x, y, z \in Nat : x <= y => x * z <= y * z /\ x * z \in Nat
      OBVIOUS
    <3>16. floor * Level <= Differ[j] * Level /\ floor * Level \in Nat
           /\ Differ[j] * Level \in Nat
      <4>1. floor * Level <= Differ[j] * Level /\ floor * Level \in Nat
        BY <3>10, <3>12, <3>13, <3>14, <3>15
      <4>2. Differ[j] * Level \in Nat
        BY <3>12, <3>14
      <4>. QED  BY <4>1, <4>2
    <3>17. (floor * Level) * n <= (Differ[j] * Level) * n
      BY <2>7, <3>15, <3>16
    <3>18. (Differ[j] * Level) * n = (n * Differ[j]) * Level
      BY <2>7, <3>12, <3>14
    <3>19. n * Differ[j] \in Nat
      BY <2>7, <3>12
    <3>20. (n * Differ[j]) * Level > Unit
      <4>1. (n * Differ[j]) * Level \in Nat /\ (floor * Level) * n \in Nat
        BY <2>7, <3>14, <3>16, <3>19
      <4>. QED  BY <2>8, <3>14, <3>17, <3>18, <4>1
    <3>21. ~Significant(OfFamily(Differ, Family))
      <4>1. OfFamily(Differ, Family) = Smaller(Unit, n * Differ[j])
        BY <3>4 DEF OfFamily, n
      <4>2. ~(Unit * Level < Unit)
        <5>1. \A x, y \in Nat : y >= 2 => x <= x * y
          OBVIOUS
        <5>2. Unit <= Unit * Level /\ Unit * Level \in Nat
          BY <3>14, <5>1
        <5>. QED  BY <3>14, <5>2
      <4>3. ~((n * Differ[j]) * Level < Unit)
        <5>1. (n * Differ[j]) * Level \in Nat
          BY <3>14, <3>19
        <5>. QED  BY <3>14, <3>20, <5>1
      <4>. QED  BY <4>1, <4>2, <4>3 DEF Smaller, Significant
    <3>22. OfFamily(Differ, Family) \in 0..Unit
      BY <3>1, <3>2, FamilyTyped
    <3>. QED  BY <2>9, <3>1, <3>3, <3>21, <3>22, SmallerIsSignificant
  <2>10. SignificantContrasts = {}
    BY <2>9 DEF SignificantContrasts
  <2>. QED  BY <2>3, <2>10, FS_EmptySet DEF MultiplicityFinding
<1>. QED  BY <1>1, StagesInvHolds, PTL
=============================================================================

------------------------------ MODULE Statistics ------------------------------
(***************************************************************************)
(* The tests of analysis/summarise.py on the batch-level differences of    *)
(* one contrast: the paired sign-permutation test, the two one-sided tests *)
(* for equivalence, and the Holm adjustment of a family of p-values.       *)
(*                                                                         *)
(* Latencies are even integers, so that a median of two is one too.  The   *)
(* mean of n values is represented by their sum: the values it is compared *)
(* with are means of n values as well.  A p-value is a number of Units.    *)
(***************************************************************************)
EXTENDS Integers, Sequences, FiniteSets, SequencesExt

CONSTANTS
    ExactLimit,  \* more values than this are tested with drawn signs (16)
    Drawn,       \* Drawn[n]: the signs random.Random(0) gives for n values
    Unit,        \* the p-value 1
    Level,       \* a p-value is significant below 1/Level (20)
    None         \* Python's None

\* The number of ways to give n values a sign: 2**n.
Signings(n) == Cardinality([1..n -> {-1, 1}])

\* Every number of sign vectors divides the unit.
ASSUME StatisticsAssumption ==
    /\ ExactLimit \in Nat /\ Unit \in Nat \ {0} /\ Level \in Nat \ {0, 1}
    /\ \A n \in 0..ExactLimit : Unit % Signings(n) = 0
    /\ \A n \in DOMAIN Drawn : /\ Drawn[n] \in Seq([1..n -> {-1, 1}])
                               /\ Drawn[n] # <<>> /\ Unit % Len(Drawn[n]) = 0
    /\ None \notin 0..Unit

Smaller(a, b) == IF a < b THEN a ELSE b
Abs(x) == IF x < 0 THEN -x ELSE x
Total(values) ==
    LET upTo[i \in 0..Len(values)] ==
            IF i = 0 THEN 0 ELSE upTo[i - 1] + values[i]
    IN  upTo[Len(values)]

\* The k-th of the values in ascending order, whatever they are indexed by.
Ordered(values, k) ==
    CHOOSE x \in ToSet(values) :
        /\ Cardinality({i \in DOMAIN values : values[i] < x}) < k
        /\ Cardinality({i \in DOMAIN values : values[i] <= x}) >= k

\* Twice the median, for values that need not be even.
TwiceMedian(values) ==
    LET n == Cardinality(DOMAIN values)
    IN  Ordered(values, (n + 1) \div 2) + Ordered(values, n \div 2 + 1)
Median(values) == TwiceMedian(values) \div 2

Significant(p) == p * Level < Unit
-----------------------------------------------------------------------------
(* Sign permutations.                                                      *)

\* itertools.product up to the limit, beyond it the seeded generator: a new
\* generator with the same seed for every test, so the same signs again.
SignVectors(n) ==
    IF n > ExactLimit THEN Drawn[n]
    ELSE [s \in [1..n -> {-1, 1}] |-> s]

\* The sums of the values under each sign vector.
SignedSums(values) ==
    LET vectors == SignVectors(Len(values))
    IN  [v \in DOMAIN vectors |->
            Total([i \in DOMAIN values |-> vectors[v][i] * values[i]])]

Share(passing, vectors) == Cardinality(passing) * (Unit \div Cardinality(vectors))

SignPermutation(values) ==
    LET sums == SignedSums(values)
        observed == Abs(Total(values))
    IN  IF values = <<>> THEN None
        ELSE Share({v \in DOMAIN sums : Abs(sums[v]) >= observed}, DOMAIN sums)

OneSidedGreater(values) ==
    LET sums == SignedSums(values)
    IN  Share({v \in DOMAIN sums : sums[v] >= Total(values)}, DOMAIN sums)
OneSidedLess(values) ==
    LET sums == SignedSums(values)
    IN  Share({v \in DOMAIN sums : sums[v] <= Total(values)}, DOMAIN sums)

Shifted(values, by) == [i \in DOMAIN values |-> values[i] + by]

\* Mutant: both boundaries are tested on the same side.
SameSide(values, margin) ==
    LET lower == OneSidedGreater(Shifted(values, margin))
        upper == OneSidedGreater(Shifted(values, margin))
        p == IF lower > upper THEN lower ELSE upper
    IN  [p |-> p, equivalent |-> Significant(p)]

\* Mutant: the shifts are swapped, and so is the side each test looks at.
SwappedMargins(values, margin) ==
    LET lower == OneSidedGreater(Shifted(values, -margin))
        upper == OneSidedLess(Shifted(values, margin))
        p == Smaller(lower, upper)
    IN  [p |-> p, equivalent |-> Significant(p)]

\* Equivalent within the margin only if both one-sided tests reject.
TostEquivalence(values, margin) ==
    LET lower == OneSidedGreater(Shifted(values, margin))
        upper == OneSidedLess(Shifted(values, -margin))
        p == IF lower > upper THEN lower ELSE upper
    IN  [p |-> p, equivalent |-> Significant(p)]
-----------------------------------------------------------------------------
(* Holm's adjustment of a sequence of p-values, some of which are None.    *)

Present(pvalues) == {i \in DOMAIN pvalues : pvalues[i] # None}

\* The 0-based position of an index in the sorted (value, index) pairs.
Rank(pvalues, i) ==
    Cardinality({j \in Present(pvalues) :
                    \/ pvalues[j] < pvalues[i]
                    \/ pvalues[j] = pvalues[i] /\ j < i})

\* Mutant: the smallest p-value is multiplied by one less than the family.
OffByOne(pvalues, i) ==
    Smaller(Unit, pvalues[i] * (Cardinality(Present(pvalues)) - 1
                                  - Rank(pvalues, i)))

\* Mutant: the product is not limited to 1.
Uncapped(pvalues, i) ==
    pvalues[i] * (Cardinality(Present(pvalues)) - Rank(pvalues, i))

Scaled(pvalues, i) ==
    Smaller(Unit, pvalues[i] * (Cardinality(Present(pvalues))
                                  - Rank(pvalues, i)))

\* Mutant: an adjusted value may be smaller than the one ranked before it.
NotRunning(pvalues) ==
    [i \in DOMAIN pvalues |->
        IF pvalues[i] = None THEN None ELSE Scaled(pvalues, i)]

\* The running maximum in the order of the ranks.
HolmAdjust(pvalues) ==
    [i \in DOMAIN pvalues |->
        IF pvalues[i] = None THEN None
        ELSE Max({Scaled(pvalues, j) : j \in
                    {k \in Present(pvalues) :
                        Rank(pvalues, k) <= Rank(pvalues, i)}})]

\* Reference: the closed test with Bonferroni's test of every intersection.  A
\* hypothesis is rejected if every family it belongs to is.
ClosedTest(pvalues) ==
    [i \in DOMAIN pvalues |->
        IF pvalues[i] = None THEN None
        ELSE Max({Smaller(Unit, Cardinality(family)
                                  * Min({pvalues[j] : j \in family}))
                    : family \in {F \in SUBSET Present(pvalues) : i \in F}})]
=============================================================================

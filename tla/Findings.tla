------------------------------- MODULE Findings -------------------------------
(***************************************************************************)
(* analysis/summarise.py from the loaded observations to findings.json:    *)
(* batch summaries, paired differences, the confirmatory and the primary   *)
(* analysis, the pooled tail, and the claims compute_findings derives from *)
(* them.  Prose is represented by which of its alternatives is chosen.     *)
(*                                                                         *)
(* Bootstrap intervals are random: what a finding asks of one (does it     *)
(* exclude zero, do two overlap) is any answer that intervals within the   *)
(* range of the resampled data can give.                                   *)
(***************************************************************************)
EXTENDS Statistics

CONSTANTS
    Groups,        \* the names of the groups, in alphabetical order
    Grid,          \* the conditions in order: records of an rtt and a loss
    BatchOutcomes, \* what a batch may measure: latencies or Failed per cell
    MaxBatches,    \* bound: number of batches
    Margins,       \* the positive acceptance_thresholds_ms, none listed twice
    PercentScale,  \* a multiple of every median: the whole of a percentage
    PrimaryOptions,\* the analysis.primary_comparison there may be, or None
    Failed,        \* an attempt without success
    NaN            \* the median of no values

Names == {Groups[i] : i \in DOMAIN Groups}
Conditions == ToSet(Grid)
Cells == Conditions \X Names
Pairs == {<<Groups[p[1]], Groups[p[2]]>> : p \in
             {q \in (DOMAIN Groups) \X (DOMAIN Groups) : q[1] < q[2]}}
AllContrasts == SetToSeq(Conditions \X Pairs)

ASSUME FindingsAssumption ==
    /\ Groups \in Seq(STRING) /\ IsInjective(Groups)
    /\ Grid \in Seq([rtt : Nat, loss : Nat])
    /\ \A o \in BatchOutcomes :
          /\ DOMAIN o = Cells /\ \E cell \in Cells : o[cell] # <<>>
          /\ \A cell \in Cells : o[cell] \in Seq({Failed} \cup Nat)
    /\ MaxBatches \in Nat /\ (ExactLimit + 1)..MaxBatches \subseteq DOMAIN Drawn
    /\ Margins \subseteq Nat \ {0}
    /\ NaN \notin Int /\ Failed \notin Nat /\ None \notin BOOLEAN

VARIABLES
    batches,      \* the observations of each batch
    stage,        \* what main does next
    differences,  \* pairwise_deltas: what is known of each pair and batch
    deltas,       \* primary_deltas by condition and batch
    tails,        \* pooled_tail_summary by group and condition
    contrasts,    \* confirmatory_analysis by condition and pair
    primary,      \* primary_contrast_analysis
    findings      \* the claims of findings.json

vars == <<batches, stage, differences, deltas, tails, contrasts, primary,
          findings>>

NoRows == [x \in {} |-> None]
Finite(x) == x # NaN

Init ==
    /\ batches = <<>> /\ stage = "collect"
    /\ differences = NoRows /\ deltas = NoRows /\ tails = NoRows
    /\ contrasts = NoRows /\ primary = None /\ findings = None

\* One more batch lies in raw/; the analysis may be run after any of them.
Measure(outcome) ==
    /\ stage = "collect" /\ Len(batches) < MaxBatches
    /\ batches' = Append(batches, outcome)
    /\ UNCHANGED <<stage, differences, deltas, tails, contrasts, primary, findings>>

\* load_observations: ValueError without any observation.
NothingObserved ==
    /\ stage = "collect" /\ batches = <<>>
    /\ stage' = "error"
    /\ UNCHANGED <<batches, differences, deltas, tails, contrasts, primary, findings>>
-----------------------------------------------------------------------------
(* Summaries and differences.                                              *)

Successes(cell) == [i \in {a \in DOMAIN cell : cell[a] # Failed} |-> cell[i]]
Measured(b, c, g) == batches[b][c, g] # <<>>

\* grouped_summary's median of a batch's cell.
BatchMedian(b, c, g) ==
    LET latencies == Successes(batches[b][c, g])
    IN  IF DOMAIN latencies = {} THEN NaN ELSE Median(latencies)

Minus(x, y) == IF Finite(x) /\ Finite(y) THEN x - y ELSE NaN

PrimaryDelta(b, c) ==
    LET classical == BatchMedian(b, c, "X25519")
        absolute == Minus(BatchMedian(b, c, "X25519MLKEM768"), classical)
    IN  [absolute |-> absolute,
         percent |-> IF Finite(absolute) /\ classical > 0
                       THEN (absolute * PercentScale) \div classical ELSE NaN]

\* Both groups of the pair have a row, and both medians are finite.
HasDifference(b, c, pair) ==
    \A i \in {1, 2} : /\ Measured(b, c, pair[i])
                      /\ Finite(BatchMedian(b, c, pair[i]))

\* Mutant: the hybrid is the baseline of the primary differences.
DeltasReversed ==
    [row \in {r \in (DOMAIN batches) \X Conditions :
                \A g \in {"X25519", "X25519MLKEM768"} :
                    Measured(r[1], r[2], g)} |->
        [PrimaryDelta(row[1], row[2]) EXCEPT
            !.absolute = IF Finite(@) THEN -@ ELSE NaN]]

PrimaryDeltas ==
    [row \in {r \in (DOMAIN batches) \X Conditions :
                \A g \in {"X25519", "X25519MLKEM768"} :
                    Measured(r[1], r[2], g)} |-> PrimaryDelta(row[1], row[2])]

PairwiseDeltas ==
    [row \in {r \in (DOMAIN batches) \X Conditions \X Pairs :
                HasDifference(r[1], r[2], r[3])} |->
        Minus(BatchMedian(row[1], row[2], row[3][2]),
              BatchMedian(row[1], row[2], row[3][1]))]

\* pooled_tail_summary: the latencies a group measured under a condition, in
\* how many batches.
TailSummary ==
    LET latencies == [b \in DOMAIN batches, c \in Conditions, g \in Names |->
                         ToSet(Successes(batches[b][c, g]))]
        within(row) == {b \in DOMAIN batches : latencies[b, row[2], row[1]] # {}}
    IN  [row \in {r \in Names \X Conditions : within(r) # {}} |->
            [batches |-> Cardinality(within(row)),
             latencies |-> UNION {latencies[b, row[2], row[1]] : b \in within(row)}]]

\* The summaries are functions of the observations: their order is immaterial.
Summarise ==
    /\ stage = "collect" /\ batches # <<>>
    /\ differences' = PairwiseDeltas /\ deltas' = PrimaryDeltas
    /\ tails' = TailSummary
    /\ stage' = "confirm"
    /\ UNCHANGED <<batches, contrasts, primary, findings>>
-----------------------------------------------------------------------------
(* The tests.                                                              *)

\* The differences of one contrast, batch after batch.
Values(c, pair) ==
    LET upTo[b \in 0..Len(batches)] ==
            IF b = 0 THEN <<>>
            ELSE IF <<b, c, pair>> \in DOMAIN differences
            THEN Append(upTo[b - 1], differences[b, c, pair])
            ELSE upTo[b - 1]
    IN  upTo[Len(batches)]

Tests(values) ==
    [p |-> SignPermutation(values), values |-> values,
     tost |-> [m \in Margins |->
                  IF values = <<>> THEN None ELSE TostEquivalence(values, m)]]

\* confirmatory_analysis up to its first use of holm_adjust.
Confirm ==
    /\ stage = "confirm"
    /\ contrasts' = [k \in {<<row[2], row[3]>> : row \in DOMAIN differences} |->
                        [tests |-> Tests(Values(k[1], k[2])), adjusted |-> None,
                         tost |-> [m \in Margins |-> None]]]
    /\ stage' = "adjust"
    /\ UNCHANGED <<batches, differences, deltas, tails, primary, findings>>

\* The places of the contrasts that there are, in the order of all: a family of
\* p-values has gaps where a pair was never measured.
Family == {i \in DOMAIN AllContrasts : AllContrasts[i] \in DOMAIN contrasts}
Differ == [i \in Family |-> contrasts[AllContrasts[i]].tests.p]
Equivalent(m) == [i \in Family |-> contrasts[AllContrasts[i]].tests.tost[m].p]

\* Every margin is a family of its own.
Adjust ==
    /\ stage = "adjust"
    /\ LET Place(k) == CHOOSE i \in Family : AllContrasts[i] = k
           holm == HolmAdjust(Differ)
           tost == [m \in Margins |-> HolmAdjust(Equivalent(m))]
       IN  contrasts' = [k \in DOMAIN contrasts |->
              [contrasts[k] EXCEPT
                  !.adjusted = holm[Place(k)],
                  !.tost = [m \in Margins |-> tost[m][Place(k)]]]]
    /\ stage' = "primary"
    /\ UNCHANGED <<batches, differences, deltas, tails, primary, findings>>

\* Mutant: the condition of the primary comparison is not looked at.
AnyCondition(configured) ==
    /\ stage = "primary"
    /\ primary' = IF configured = None THEN None
                  ELSE [of |-> configured,
                        tests |-> Tests(Values(Grid[1], configured.pair))]
    /\ stage' = "report"
    /\ UNCHANGED <<batches, differences, deltas, tails, contrasts, findings>>

\* The rows whose baseline, comparison and condition are the configured ones:
\* none if the configuration names the pair the other way round.
AnalysePrimary(configured) ==
    /\ stage = "primary"
    /\ primary' = IF configured = None THEN None
                  ELSE [of |-> configured,
                        tests |-> Tests(Values(configured.condition,
                                               configured.pair))]
    /\ stage' = "report"
    /\ UNCHANGED <<batches, differences, deltas, tails, contrasts, findings>>
-----------------------------------------------------------------------------
(* compute_findings.                                                       *)

HasPrimary == primary # None /\ primary.tests.values # <<>>

\* What the interval of the mean can say of zero.
ExcludesZero ==
    IF \E sign \in {-1, 1} : \A i \in DOMAIN primary.tests.values :
          sign * primary.tests.values[i] > 0 THEN {TRUE}
    ELSE IF \A i \in DOMAIN primary.tests.values : primary.tests.values[i] = 0 THEN {FALSE}
    ELSE BOOLEAN

Tightest == Min(Margins)

PrimaryFinding(excludes) ==
    [available |-> HasPrimary,
     verdict |-> IF ~HasPrimary THEN "none"
                 ELSE IF excludes THEN "significant" ELSE "not significant",
     equivalence |-> IF HasPrimary /\ Margins # {}
                       THEN primary.tests.tost[Tightest].equivalent ELSE None]

SignificantContrasts ==
    {k \in DOMAIN contrasts : Significant(contrasts[k].adjusted)}

\* The smallest p-value the planned number of batches allows, against the one
\* that Holm's adjustment asks of the smallest: of the drawn signs only if the
\* observed sums are among theirs.
FloorTooHigh(planned) ==
    LET floor == IF planned <= ExactLimit THEN (2 * Unit) \div Signings(planned)
                 ELSE Unit \div Len(Drawn[planned])
    IN  floor * Level * Cardinality(DOMAIN contrasts) > Unit

MultiplicityFinding(planned) ==
    [contrasts |-> Cardinality(DOMAIN contrasts),
     significant |-> Cardinality(SignificantContrasts),
     note |-> IF DOMAIN contrasts = {} \/ planned = 0 THEN "none"
              ELSE IF planned <= ExactLimit THEN "exact" ELSE "drawn",
     floor |-> DOMAIN contrasts # {} /\ planned > 0 /\ FloorTooHigh(planned)]

\* Mutant: the last of the sorted margins is taken for the tightest.
WidestMargin ==
    IF Margins = {} \/ DOMAIN contrasts = {} THEN [tested |-> 0, confirmed |-> 0]
    ELSE [tested |-> Cardinality(DOMAIN contrasts),
          confirmed |-> Cardinality({k \in DOMAIN contrasts :
                            Significant(contrasts[k].tost[Max(Margins)])})]

ExploratoryFinding ==
    IF Margins = {} \/ DOMAIN contrasts = {} THEN [tested |-> 0, confirmed |-> 0]
    ELSE [tested |-> Cardinality(DOMAIN contrasts),
          confirmed |-> Cardinality({k \in DOMAIN contrasts :
                            Significant(contrasts[k].tost[Tightest])})]

Percents == [row \in {r \in DOMAIN deltas : Finite(deltas[r].percent)} |->
                deltas[row].percent]

\* The groups at the highest loss and, there, the highest RTT.
Worst ==
    LET loss == Max({row[2].loss : row \in DOMAIN tails})
        rtt == Max({row[2].rtt : row \in {r \in DOMAIN tails : r[2].loss = loss}})
    IN  IF tails = NoRows THEN {}
        ELSE {row \in DOMAIN tails : row[2].loss = loss /\ row[2].rtt = rtt}
Baseline == {row \in DOMAIN tails : /\ row[2].loss = 0
                                    /\ \E w \in Worst : w[2].rtt = row[2].rtt}

\* What the block intervals of the worst condition can say: those of a group
\* with one batch are NaN, which overlaps with nothing, itself included.
Overlapping ==
    LET rows == Worst
        Hull(row) == tails[row].latencies
        single == \E row \in rows : tails[row].batches < 2
        meet == \A a, b \in rows : Min(Hull(a)) <= Max(Hull(b))
        part == \E a, b \in rows : Min(Hull(a)) < Max(Hull(b)) /\ a # b
    IN  IF single THEN {FALSE}
        ELSE {b \in BOOLEAN : IF b THEN meet ELSE part}

TailFinding(overlap) ==
    IF Worst = {} \/ Baseline = {} THEN [available |-> FALSE, specific |-> FALSE]
    ELSE [available |-> TRUE, specific |-> ~overlap]

\* _plain_language_summary: its sentences about the size of the overhead, the
\* equivalence test, the losses, and its conclusion.
Plain(found, tail, explored) ==
    LET size == IF DOMAIN Percents = {} THEN "unknown"
                ELSE IF Abs(TwiceMedian(Percents)) * 10 < PercentScale
                THEN "small" ELSE "noticeable"
        tests == found.equivalence
        formal == IF tests # None THEN tests
                  ELSE explored.tested > 0 /\ explored.confirmed = explored.tested
    IN  [overhead |-> size,
         equivalence |-> IF tests # None
                           THEN IF tests THEN "confirmed" ELSE "unconfirmed"
                         ELSE IF explored.tested > 0 THEN "counted" ELSE "none",
         loss |-> IF ~tail.available THEN "none"
                  ELSE IF tail.specific THEN "group" ELSE "network",
         conclusion |-> IF size = "unknown" THEN "unknown"
                        ELSE IF size = "noticeable" THEN "cost"
                        ELSE IF tail.specific THEN "investigate"
                        ELSE IF formal THEN "formal" ELSE "supported"]

ComputeFindings(planned, excludes, overlap) ==
    /\ stage = "report"
    /\ LET found == PrimaryFinding(excludes)
           tail == TailFinding(overlap)
           explored == ExploratoryFinding
       IN  findings' = [primary |-> found, tail |-> tail,
                        exploratory |-> explored,
                        multiplicity |-> MultiplicityFinding(planned),
                        plain |-> Plain(found, tail, explored)]
    /\ stage' = "done"
    /\ UNCHANGED <<batches, differences, deltas, tails, contrasts, primary>>

\* The configuration is free to have planned more batches than there are yet.
Report ==
    \E planned \in Len(batches)..MaxBatches,
       excludes \in IF HasPrimary THEN ExcludesZero ELSE {FALSE},
       overlap \in IF Worst # {} THEN Overlapping ELSE {TRUE} :
          ComputeFindings(planned, excludes, overlap)

Exited == stage \in {"done", "error"} /\ UNCHANGED vars

Next == \/ \E outcome \in BatchOutcomes : Measure(outcome)
        \/ NothingObserved \/ Summarise \/ Confirm \/ Adjust
        \/ \E configured \in PrimaryOptions : AnalysePrimary(configured)
        \/ Report \/ Exited

Spec == Init /\ [][Next]_vars
-----------------------------------------------------------------------------
TestResults == [p : (0..Unit) \cup {None}, values : Seq(Int),
                tost : [Margins -> {None} \cup [p : 0..Unit, equivalent : BOOLEAN]]]

TypeOK ==
    /\ batches \in Seq(BatchOutcomes) /\ Len(batches) <= MaxBatches
    /\ stage \in {"collect", "confirm", "adjust", "primary", "report", "done", "error"}
    /\ \A row \in DOMAIN differences : differences[row] \in Int
    /\ \A k \in DOMAIN contrasts :
          /\ contrasts[k].tests \in TestResults
          /\ stage # "adjust" => contrasts[k].adjusted \in 0..Unit
    /\ primary \in {None} \cup [of : PrimaryOptions, tests : TestResults]

\* Two functions of the script compute the cost of the hybrid, and three pairs
\* of groups are compared: in every batch and condition the differences of two
\* of them add up to the third, and the primary difference is the finite
\* pairwise one, whichever cells failed or were not measured.
ContrastsAgree ==
    stage = "confirm" =>
        /\ \A r \in DOMAIN differences, pair \in Pairs :
              LET other == <<r[1], r[2], pair>>
                  whole == <<r[1], r[2], <<r[3][1], pair[2]>>>>
              IN  r[3][2] = pair[1] /\ other \in DOMAIN differences =>
                    /\ whole \in DOMAIN differences
                    /\ differences[whole] = differences[r] + differences[other]
        /\ {<<r[1], r[2], deltas[r].absolute>> :
                r \in {d \in DOMAIN deltas : Finite(deltas[d].absolute)}}
             = {<<r[1], r[2], differences[r]>> : r \in
                 {d \in DOMAIN differences :
                     d[3] = <<"X25519", "X25519MLKEM768">>}}

\* The Holm adjustment, of the difference tests and of each margin's own
\* family, controls the family-wise error as the closed test does: ties,
\* p-values of 0 and the cap at 1 included.
HolmIsClosedTest ==
    stage = "primary" =>
        /\ [i \in Family |-> contrasts[AllContrasts[i]].adjusted]
              = ClosedTest(Differ)
        /\ \A m \in Margins :
              [i \in Family |-> contrasts[AllContrasts[i]].tost[m]]
                 = ClosedTest(Equivalent(m))

\* "Equivalence (mean within +/- margin) is concluded only when BOTH one-sided
\* tests reject": by the exact test, a contrast is only ever called equivalent
\* within a margin that its own mean lies in.
WithinMargin(values, m) == Abs(Total(values)) < m * Len(values)
EquivalenceIsSound ==
    \A k \in DOMAIN contrasts, m \in Margins :
        LET tests == contrasts[k].tests
        IN  Len(tests.values) <= ExactLimit /\ tests.tost[m].equivalent
                => WithinMargin(tests.values, m)

\* A contrast that is equivalent within one margin is equivalent within every
\* wider one, before and after the adjustment: also when the signs are drawn,
\* because every test draws the same ones.
WiderMarginsHold ==
    \A k \in DOMAIN contrasts, m, wider \in Margins :
        m < wider =>
            /\ contrasts[k].tests.tost[wider].p <= contrasts[k].tests.tost[m].p
            /\ stage # "adjust" =>
                  contrasts[k].tost[wider] <= contrasts[k].tost[m]

\* When the findings say that the p-value floor of the exact test exceeds what
\* the adjustment asks for, no contrast is reported as significant, also before
\* all planned batches are collected.  The note on the drawn signs claims as
\* much and is not always right: fewer batches may be there, and tested exactly.
FloorNoteIsRight ==
    findings # None /\ findings.multiplicity.note = "exact"
                    /\ findings.multiplicity.floor
        => findings.multiplicity.significant = 0

\* The primary contrast is tested on exactly the differences that the
\* exploratory contrast of its pair and condition is, and it is reported
\* exactly when that contrast is.
PrimaryAgrees ==
    stage = "report" /\ primary # None =>
        LET key == <<primary.of.condition, primary.of.pair>>
        IN  /\ HasPrimary <=> key \in DOMAIN contrasts
            /\ HasPrimary => primary.tests = contrasts[key].tests

\* When the plain summary says that the results formally support viability,
\* the mean of the primary contrast, or without one the mean of every
\* exploratory contrast, lies within the margin it names.
FormalConclusionHolds ==
    findings # None /\ findings.plain.conclusion = "formal" =>
        LET tested == IF HasPrimary THEN {primary.tests.values}
                      ELSE {contrasts[k].tests.values : k \in DOMAIN contrasts}
        IN  /\ tested # {}
            /\ \A values \in tested : Len(values) <= ExactLimit =>
                  WithinMargin(values, Tightest)
=============================================================================

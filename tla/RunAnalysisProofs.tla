--------------------------- MODULE RunAnalysisProofs ---------------------------
(***************************************************************************)
(* Machine-checked proofs about RunAnalysis: what a verdict of             *)
(* summarise.py is worth while the runner is at work on the directory, for *)
(* every value of the constants.                                           *)
(***************************************************************************)
EXTENDS RunAnalysis, RunHistoryProofs

\* The invariants of the run hold under the analysis, which writes nothing.
RunInv == EvidenceInv /\ SessionInv

\* They hold at first.
LEMMA InitRunInv == AnalysisInit => RunInv
  BY InitEvidenceInv, InitSessionInv DEF AnalysisInit, RunInv

\* A step of the composition is a step of the run or leaves the run alone.
LEMMA StepRunInv ==
    ASSUME DistinctKeys PROVE RunInv /\ [AnalysisNext]_analysisVars => RunInv'
  <1> SUFFICES ASSUME RunInv, [AnalysisNext]_analysisVars PROVE RunInv'
    OBVIOUS
  <1>1. [Next]_vars
    BY DEF AnalysisNext, analysisVars, LoadObservations, CheckIntegrity,
           Validate
  <1> QED
    BY <1>1, StepEvidenceInv, StepSessionInv DEF RunInv

-----------------------------------------------------------------------------
(* What was loaded stays true: raw files are create-only, completed rows   *)
(* stay completed, and the number of frozen rows is settled.               *)

\* Nothing is loaded or reported at first.
LEMMA InitAnalysisInv == AnalysisInit => AnalysisInv
  BY AnalysisAssumption DEF AnalysisInit, AnalysisInv, Init

\* The snapshot is written before the schedule is frozen and kept.
LEMMA SnapshotStays ==
    ASSUME ControlInv, [Next]_vars,
           pc \in {"manifest", "freeze"} \/ frozen > 0 => snapshot # None
    PROVE  (pc \in {"manifest", "freeze"} \/ frozen > 0 => snapshot # None)'
  <1>1. loaded # None /\ frozen \in Nat
    BY OrchestratorAssumption, ControlTypes
    DEF ControlInv, TypeInv, TypeOK, RunnerTypeOK
  <1> QED
    BY <1>1
    DEF ControlInv, NothingBeforeFreeze, Stop, GoTo,
        Next, RunnerStep, ClientStep, Fault, Operator, vars, directory, runner,
        StartFresh, FreshRefused, WriteSnapshot, WriteManifest, FreezeSchedule,
        Resume, ResumeFrom, ResumeRefused, SkipCompleted, BeginCell, StartCell,
        PersistResult, SaveInterrupt, ApplyNetem, VerifyNetem,
        LabFails, OpenPartial, PartialExists, PublishRaw, RecordResult,
        RecordAs, WriteIntegrity, FailRun, SealRun, LeaveLoop, Interrupt,
        InterruptUnrecorded, InterruptIntegrity, Crash, ClientAttempt,
        ClientFinishes, ClientDies, EditConfig, Rebuild, Reshape

\* A verdict of "valid" stays true of whatever the runner does next.
LEMMA VerdictStays ==
    ASSUME RunInv, [Next]_vars, frozen > 0,
           \A i \in 1..frozen :
              Completed(sched, i) /\ raw[Key(i)].lines = Attempts
    PROVE  /\ frozen' = frozen
           /\ \A i \in 1..frozen :
                 Completed(sched', i) /\ raw'[Key(i)].lines = Attempts
  <1>1. frozen' = frozen /\ 1..frozen \subseteq Ordinals
    BY FrozenStays, ControlTypes DEF RunInv, EvidenceInv, ControlInv
  <1>2. ASSUME NEW i \in 1..frozen
        PROVE  Completed(sched', i) /\ raw'[Key(i)] = raw[Key(i)]
    <2>1. i \in Ordinals /\ Completed(sched, i)
      BY <1>1
    <2>2. raw[Key(i)] # None
      BY <2>1 DEF RunInv, EvidenceInv, RecordedEvidence
    <2>3. raw'[Key(i)] = raw[Key(i)]
      BY <2>1, <2>2, StepKeepsRaw, KeysAndProfiles DEF RunInv
    <2> QED
      BY <2>1, <2>3, RowsChange DEF RunInv, EvidenceInv
  <1> QED
    BY <1>1, <1>2

\* Runner, operator and analysis keep what was loaded and reported true.
LEMMA StepAnalysisInv ==
    RunInv /\ AnalysisInv /\ [AnalysisNext]_analysisVars => AnalysisInv'
  <1> SUFFICES ASSUME RunInv, AnalysisInv, [AnalysisNext]_analysisVars
               PROVE  AnalysisInv'
    OBVIOUS
  <1>C. ControlInv /\ frozen \in Nat /\ 1..frozen \subseteq Ordinals
    BY ControlTypes DEF RunInv, EvidenceInv, ControlInv
  <1>1. CASE [Next]_vars /\ UNCHANGED analysis
    <2>1. (pc \in {"manifest", "freeze"} \/ frozen > 0 => snapshot # None)'
      BY <1>1, <1>C, SnapshotStays DEF AnalysisInv
    <2>2. observations # None =>
             /\ frozen' > 0
             /\ \A k \in Keys : observations[k] \in {raw'[k], None}
      <3>1. frozen > 0 => frozen' > 0
        BY <1>1, <1>C, FrozenStays
      <3>2. \A k \in Keys : raw[k] # None => raw'[k] = raw[k]
        BY <1>1, StepKeepsRaw DEF RunInv
      <3> QED
        BY <3>1, <3>2 DEF AnalysisInv
    <2>3. report = "valid" =>
             /\ frozen' > 0
             /\ \A i \in 1..frozen' :
                   Completed(sched', i) /\ raw'[Key(i)].lines = Attempts
      BY <1>1, VerdictStays DEF AnalysisInv
    <2> QED
      BY <1>1, <2>1, <2>2, <2>3 DEF AnalysisInv, analysis
  <1>2. CASE LoadObservations
    <2>1. frozen > 0
      BY <1>2, <1>C DEF LoadObservations, ControlInv, NothingBeforeFreeze
    <2> QED
      BY <1>2, <2>1 DEF LoadObservations, AnalysisInv, vars, Completed
  <1>3. CASE CheckIntegrity
    BY <1>3 DEF CheckIntegrity, IntegrityIssue, AnalysisInv, vars, Completed
  <1>4. CASE Validate
    <2>1. observations # None /\ frozen > 0 /\ snapshot # None
      BY <1>4 DEF Validate, AnalysisInv
    <2>2. report' = "valid" => ~IncompleteIssue
      BY <1>4 DEF Validate
    <2>3. ASSUME report' = "valid", NEW i \in 1..frozen
          PROVE  Completed(sched, i) /\ raw[Key(i)].lines = Attempts
      <3>1. Completed(sched, i) /\ Count(Key(i)) = Attempts
        BY <2>1, <2>2, <2>3 DEF IncompleteIssue
      <3>2. observations[Key(i)] # None
        BY <3>1, OrchestratorAssumption DEF Count
      <3>3. Key(i) \in Keys
        BY <1>C, KeysAndProfiles
      <3>4. observations[Key(i)] = raw[Key(i)]
        BY <2>1, <3>2, <3>3 DEF AnalysisInv
      <3> QED
        BY <3>1, <3>2, <3>4 DEF Count
    <2> QED
      BY <1>4, <2>1, <2>3, AnalysisAssumption
      DEF Validate, AnalysisInv, vars, Completed
  <1> QED
    BY <1>1, <1>2, <1>3, <1>4 DEF AnalysisNext, analysisVars

\* The invariants of the run and of the analysis together.
THEOREM AnalysisInvHolds ==
    ASSUME DistinctKeys PROVE AnalysisSpec => [](RunInv /\ AnalysisInv)
  BY InitRunInv, InitAnalysisInv, StepRunInv, StepAnalysisInv, PTL
  DEF AnalysisSpec

\* A report that calls a directory valid speaks of a finished experiment: every
\* frozen cell is completed and its raw file holds every attempt of that cell,
\* whenever the analysis overlapped with the runner and whatever was lost.
THEOREM ValidIsComplete ==
    ASSUME DistinctKeys PROVE AnalysisSpec => []ValidMeansComplete
  <1>1. RunInv /\ AnalysisInv => ValidMeansComplete
    <2>1. RunInv => 1..frozen \subseteq Ordinals
      BY ControlTypes DEF RunInv, EvidenceInv, ControlInv
    <2> QED
      BY <2>1 DEF RunInv, EvidenceInv, RecordedEvidence, Fits, AnalysisInv,
                  ValidMeansComplete
  <1> QED
    BY <1>1, AnalysisInvHolds, PTL

\* No false alarm: on a directory whose runner reported success and lost no
\* line, no step of an analysis that loaded all its raw files raises an issue.
THEOREM FinishedIsValid ==
    ASSUME DistinctKeys PROVE AnalysisSpec => FinishedRunIsValid
  <1> DEFINE Loaded == /\ exit = "ok" /\ observations = raw
                       /\ \A i \in 1..frozen : raw[Key(i)].lines = Attempts
             NoAlarm ==
                /\ suspect = None => suspect' # TRUE
                /\ suspect = FALSE /\ observations' = None => report' = "valid"
  <1>1. ASSUME RunInv, AnalysisInv, [AnalysisNext]_analysisVars, Loaded
        PROVE  NoAlarm
    <2>1. /\ integrity = Covered /\ 1..frozen \subseteq Ordinals
          /\ \A i \in 1..frozen : Completed(sched, i)
      BY <1>1, ControlTypes
      DEF RunInv, SessionInv, SealInv, ControlInv
    <2>2. observations # None
      BY <1>1, AnalysisAssumption
      DEF RunInv, SessionInv, ControlInv, TypeInv, TypeOK, DirectoryTypeOK
    <2>3. ~IntegrityIssue
      <3>1. resumes \in Nat
        BY <1>1 DEF RunInv, EvidenceInv, ControlInv, TypeInv, TypeOK, DirectoryTypeOK
      <3> QED
        BY <2>1, <3>1 DEF IntegrityIssue, Covered
    <2>4. ~IncompleteIssue
      <3>1. \A i \in 1..frozen : raw[Key(i)] # None
        BY <1>1, <2>1 DEF RunInv, EvidenceInv, RecordedEvidence
      <3> QED
        BY <1>1, <2>1, <3>1 DEF IncompleteIssue, Count
    <2>5. CASE UNCHANGED analysis
      BY <1>1, <2>2, <2>5, AnalysisAssumption DEF analysis
    <2>6. CASE CheckIntegrity
      BY <2>3, <2>6, <2>2 DEF CheckIntegrity
    <2>7. CASE Validate
      BY <2>4, <2>7 DEF Validate
    <2> QED
      BY <1>1, <2>2, <2>5, <2>6, <2>7
      DEF AnalysisNext, analysisVars, LoadObservations
  <1>2. RunInv /\ AnalysisInv /\ [AnalysisNext]_analysisVars =>
           [Loaded => NoAlarm]_analysisVars
    BY <1>1
  <1> QED
    BY <1>2, AnalysisInvHolds, PTL DEF AnalysisSpec, FinishedRunIsValid
=============================================================================

------------------------ MODULE RunOrchestratorProofs ------------------------
(***************************************************************************)
(* Machine-checked proofs about RunOrchestrator, for every value of its    *)
(* constants.                                                              *)
(***************************************************************************)
EXTENDS RunOrchestratorInv, TLAPS

-----------------------------------------------------------------------------
(* The data.                                                               *)

\* The ordinals of a schedule are an interval that starts at 1.
LEMMA OrdinalsAreIntervals ==
    /\ Len(Planned) \in Nat
    /\ Ordinals = 1..Len(Planned)
  BY ScheduleAssumption DEF Ordinals, IsSchedule

\* The numeric constants are natural numbers.
LEMMA Bounds == /\ Attempts \in Nat \ {0} /\ MaxResumes \in Nat
                /\ 0 \in 0..Attempts /\ 0 \in 0..MaxResumes
  BY OrchestratorAssumption

\* Every cell has a key, and a shape of its own.
LEMMA KeysAndProfiles ==
    ASSUME NEW i \in Ordinals
    PROVE  Key(i) \in Keys /\ Profile(i) \in Shapes
  BY DEF Keys, Profiles, Shapes

\* A row stays a row when its state is overwritten.
LEMMA RowState ==
    ASSUME NEW r \in Rows, NEW st \in States
    PROVE  [r EXCEPT !.state = st] \in Rows
  BY DEF Rows

\* A row stays a row when a result or an interrupt is recorded in it.
LEMMA RowOutcome ==
    ASSUME NEW r \in Rows, NEW st \in States, NEW e \in Evidence \cup {None}
    PROVE  /\ [r EXCEPT !.raw = e, !.state = st] \in Rows
           /\ [r EXCEPT !.state = st, !.partial = e] \in Rows
  BY DEF Rows

\* The rows of a new schedule are rows.
LEMMA FreshRows == NewRows \in [Ordinals -> Rows]
  BY DEF NewRows, Rows, States

\* Evidence stays evidence when a line is added.
LEMMA EvidenceLine ==
    ASSUME NEW e \in Evidence, e.lines + 1 \in 0..Attempts
    PROVE  [e EXCEPT !.lines = @ + 1] \in Evidence
  BY DEF Evidence

-----------------------------------------------------------------------------
(* Type correctness.  TypeOK alone is not inductive: a client may add a    *)
(* line only while its file exists and has room for it, and the loop body  *)
(* only indexes rows while the ordinal is within the schedule.             *)

\* The initial state is typed.
LEMMA InitTypeInv == Init => TypeInv
  <1> SUFFICES ASSUME Init PROVE TypeInv
    OBVIOUS
  <1> USE DEF Init
  <1>1. DirectoryTypeOK
    BY Bounds, FreshRows DEF DirectoryTypeOK
  <1>2. RunnerTypeOK
    <2>1. pc \in Steps /\ exit \in Outcomes
      BY DEF Steps, Outcomes
    <2> QED
      BY <2>1, OrdinalsAreIntervals, FreshRows DEF RunnerTypeOK
  <1>3. WorldTypeOK
    <2>1. netem \in [Backends -> [Sides -> Shapes]]
      BY DEF Shapes
    <2>2. NotStarted \in Clients
      BY Bounds DEF NotStarted, Clients
    <2> QED
      BY <2>1, <2>2 DEF WorldTypeOK
  <1>4. OrdInFrozen /\ WritersHaveFiles
    BY DEF OrdInFrozen, WritersHaveFiles, InCell, InHandler, NotStarted
  <1> QED
    BY <1>1, <1>2, <1>3, <1>4 DEF TypeInv, TypeOK

\* Every step, of the runner, a client, the operator or a fault, keeps the types.
LEMMA StepTypeInv == TypeInv /\ [Next]_vars => TypeInv'
  <1> SUFFICES ASSUME TypeInv, [Next]_vars PROVE TypeInv'
    OBVIOUS
  <1> USE Bounds, OrdinalsAreIntervals, FreshRows
  <1> USE DEF TypeInv, TypeOK, DirectoryTypeOK, RunnerTypeOK, WorldTypeOK,
          OrdInFrozen, WritersHaveFiles, Steps, InTry, InCell, InHandler,
          Outcomes, directory, runner, world, Stop, GoTo
  <1>1. ASSUME NEW b \in Backends, StartFresh(b) PROVE TypeInv'
    BY <1>1 DEF StartFresh
  <1>2. CASE FreshRefused
    BY <1>2 DEF FreshRefused
  <1>3. CASE WriteSnapshot
    BY <1>3 DEF WriteSnapshot
  <1>4. CASE WriteManifest
    BY <1>4 DEF WriteManifest, Manifests, Places
  <1>5. ASSUME NEW n \in Ordinals, FreezeSchedule(n) PROVE TypeInv'
    BY <1>5 DEF FreezeSchedule
  <1>6. ASSUME NEW n \in Ordinals, NEW b \in Backends, Resume(n, b)
        PROVE  TypeInv'
    BY <1>6 DEF Resume, ResumeFrom
  <1>7. ASSUME NEW n \in Ordinals, ResumeRefused(n) PROVE TypeInv'
    BY <1>7 DEF ResumeRefused
  <1>8. CASE SkipCompleted
    BY <1>8 DEF SkipCompleted
  <1>9. CASE BeginCell
    <2>1. ord \in Ordinals /\ ord <= frozen
      BY <1>9 DEF BeginCell, StartCell
    <2>2. [mem[ord] EXCEPT !.state = "running"] \in Rows
      BY <2>1, RowState DEF States
    <2>3. mem' \in [Ordinals -> Rows] /\ sched' = mem'
      BY <1>9, <2>1, <2>2 DEF BeginCell, StartCell
    <2> QED
      BY <1>9, <2>1, <2>3 DEF BeginCell, StartCell
  <1>10. CASE ApplyNetem("client", "netem_client", "netem_server")
    BY <1>10, KeysAndProfiles DEF ApplyNetem, Sides
  <1>11. CASE ApplyNetem("server", "netem_server", "verify")
    BY <1>11, KeysAndProfiles DEF ApplyNetem, Sides
  <1>12. CASE VerifyNetem
    BY <1>12 DEF VerifyNetem
  <1>13. CASE LabFails
    BY <1>13 DEF LabFails
  <1>14. CASE OpenPartial
    <2> DEFINE e == [ord |-> ord, session |-> resumes, config |-> loaded,
                     binary |-> Runs(backend), backend |-> backend,
                     shaping |-> netem[backend], lines |-> 0]
               c == [status |-> "running", done |-> 0]
    <2>1. ord \in Ordinals /\ ord <= frozen
      BY <1>14 DEF OpenPartial
    <2>2. e \in Evidence
      BY <2>1 DEF Evidence, Runs, Places
    <2>3. c \in Clients
      BY DEF Clients
    <2>4. /\ interrupted' = [interrupted EXCEPT ![ord] = e]
          /\ client' = [client EXCEPT ![ord] = c]
          /\ e # None /\ e.lines = 0 /\ c.done = 0
      BY <1>14, <2>2, OrchestratorAssumption DEF OpenPartial
    <2> HIDE DEF e, c
    <2>5. DirectoryTypeOK' /\ WorldTypeOK'
      BY <1>14, <2>1, <2>2, <2>3, <2>4 DEF OpenPartial
    <2>6. RunnerTypeOK' /\ OrdInFrozen'
      BY <1>14, <2>1 DEF OpenPartial
    <2>7. WritersHaveFiles'
      BY <1>14, <2>1, <2>4 DEF OpenPartial
    <2> QED
      BY <2>5, <2>6, <2>7
  <1>15. CASE PartialExists
    BY <1>15 DEF PartialExists
  <1>16. CASE PublishRaw
    BY <1>16, KeysAndProfiles DEF PublishRaw
  <1>17. CASE RecordResult
    <2>1. ord \in Ordinals /\ ord <= frozen
      BY <1>17 DEF RecordResult, RecordAs, ResultState
    <2> DEFINE st == IF client[ord].status = "ok"
                     THEN "completed" ELSE "client_failed"
               row == [mem[ord] EXCEPT !.raw = raw[Key(ord)], !.state = st]
    <2>2. row \in Rows
      <3>1. raw[Key(ord)] \in Evidence \cup {None} /\ st \in States
        BY <2>1, KeysAndProfiles DEF States
      <3> HIDE DEF st
      <3> QED
        BY <2>1, <3>1, RowOutcome
    <2>3. mem' = [mem EXCEPT ![ord] = row]
      BY <1>17, <2>1, Zenon DEF RecordResult, RecordAs, ResultState
    <2> HIDE DEF row
    <2> QED
      <3>1. /\ pc' = "persist"
            /\ UNCHANGED <<directory, loaded, backend, ord, exit, world>>
        BY <1>17 DEF RecordResult, RecordAs, ResultState
      <3> QED
        BY <2>1, <2>2, <2>3, <3>1
  <1>18. CASE PersistResult
    BY <1>18 DEF PersistResult
  <1>19. ASSUME NEW from, NEW outcome \in Outcomes,
                WriteIntegrity(from, outcome)
         PROVE  TypeInv'
    BY <1>19 DEF WriteIntegrity, Covered, Coverings
  <1>20. CASE LeaveLoop
    BY <1>20 DEF LeaveLoop
  <1>21. CASE Interrupt
    <2>1. ord \in Ordinals /\ ord <= frozen
      BY <1>21 DEF Interrupt
    <2> DEFINE part == IF PartialSeen THEN interrupted[ord]
                       ELSE mem[ord].partial
               row == [mem[ord] EXCEPT !.state = "interrupted",
                                       !.partial = part]
    <2>2. row \in Rows
      <3>1. part \in Evidence \cup {None} /\ "interrupted" \in States
        <4>1. mem[ord].partial \in Evidence \cup {None}
          BY <2>1 DEF Rows
        <4> QED
          BY <2>1, <4>1 DEF States
      <3> HIDE DEF part
      <3> QED
        BY <2>1, <3>1, RowOutcome
    <2>3. mem' = [mem EXCEPT ![ord] = row]
      BY <1>21, <2>1, Zenon DEF Interrupt
    <2> HIDE DEF row
    <2> QED
      <3>1. /\ pc' = "save_interrupt"
            /\ UNCHANGED <<directory, loaded, backend, ord, exit, world>>
        BY <1>21 DEF Interrupt
      <3> QED
        BY <2>1, <2>2, <2>3, <3>1
  <1>22. CASE InterruptUnrecorded
    BY <1>22 DEF InterruptUnrecorded
  <1>23. CASE SaveInterrupt
    BY <1>23 DEF SaveInterrupt
  <1>24. CASE Crash
    BY <1>24 DEF Crash
  <1>25. ASSUME NEW i \in Ordinals, NEW w \in BOOLEAN, ClientAttempt(i, w)
         PROVE  TypeInv'
    <2>1. interrupted[i] # None /\ interrupted[i] \in Evidence
      BY <1>25 DEF ClientAttempt
    <2>2. client'[i] \in Clients /\ client' = [client EXCEPT ![i] = client'[i]]
      BY <1>25 DEF ClientAttempt, Clients
    <2>3. /\ client[i].done + 1 <= Attempts
          /\ client'[i].done = client[i].done + 1
          /\ client'[i].status = "running"
      BY <1>25 DEF ClientAttempt, Clients
    <2>4. interrupted[i].lines \in Nat /\ interrupted[i].lines <= client[i].done
      BY <2>1 DEF Evidence
    <2> DEFINE e == [interrupted[i] EXCEPT !.lines = @ + 1]
    <2>5. e \in Evidence /\ e.lines = interrupted[i].lines + 1 /\ e # None
      <3>1. interrupted[i].lines + 1 \in 0..Attempts
        BY <2>3, <2>4 DEF Clients
      <3>2. e \in Evidence /\ e.lines = interrupted[i].lines + 1
        BY <2>1, <3>1, EvidenceLine DEF Evidence
      <3> QED
        BY <3>2, OrchestratorAssumption
    <2>6. interrupted' \in {interrupted, [interrupted EXCEPT ![i] = e]}
      BY <1>25 DEF ClientAttempt
    <2>7. UNCHANGED <<made, snapshot, manifest, frozen, sched, resumes, raw,
                      integrity, runner, config, binary, netem>>
      BY <1>25 DEF ClientAttempt
    <2> HIDE DEF e
    <2>8. TypeOK' /\ OrdInFrozen'
      <3>1. interrupted' \in [Ordinals -> Evidence \cup {None}]
        BY <2>5, <2>6
      <3>2. client' \in [Ordinals -> Clients]
        BY <2>2
      <3> QED
        BY <2>7, <3>1, <3>2
    <2>9. WritersHaveFiles'
      <3> SUFFICES ASSUME NEW j \in Ordinals
                   PROVE  WritersHaveFiles!(j)'
        BY DEF WritersHaveFiles
      <3>1. CASE j # i
        BY <2>2, <2>6, <2>7, <3>1
      <3>2. CASE j = i
        <4>1. client[i].done \in Nat
          <5>1. client[i] \in Clients
            OBVIOUS
          <5>2. \A c \in Clients : c.done \in Nat
            BY ONLY Bounds DEF Clients
          <5> QED
            BY ONLY <5>1, <5>2
        <4>2. interrupted'[i] \in {interrupted[i], e}
          BY <2>6
        <4>3. interrupted'[i] # None /\ interrupted'[i].lines <= client'[i].done
          BY <2>1, <2>3, <2>4, <2>5, <4>1, <4>2
        <4> QED
          BY <2>7, <3>2, <4>3
      <3> QED
        BY <3>1, <3>2
    <2> QED
      BY <2>8, <2>9
  <1>26. ASSUME NEW i \in Ordinals, ClientFinishes(i) \/ ClientDies(i)
         PROVE  TypeInv'
    <2>1. PICK st \in {"ok", "failed"} :
             client' = [client EXCEPT ![i] = [client[i] EXCEPT !.status = st]]
      BY <1>26 DEF ClientFinishes, ClientDies
    <2>2. [client[i] EXCEPT !.status = st] \in Clients
      BY DEF Clients
    <2> QED
      BY <1>26, <2>1, <2>2 DEF ClientFinishes, ClientDies
  <1>27. ASSUME NEW c \in Configs, EditConfig(c) PROVE TypeInv'
    BY <1>27 DEF EditConfig
  <1>28. ASSUME NEW where \in Places, NEW v \in Binaries,
                Rebuild(where, v)
         PROVE  TypeInv'
    BY <1>28 DEF Rebuild
  <1>29. ASSUME NEW b \in Backends, NEW side \in Sides, NEW shape \in Shapes,
                Reshape(b, side, shape)
         PROVE  TypeInv'
    BY <1>29 DEF Reshape
  <1>30. CASE UNCHANGED vars
    BY <1>30 DEF vars
  <1> QED
    BY ONLY <1>1, <1>2, <1>3, <1>4, <1>5, <1>6, <1>7, <1>8, <1>9, <1>10,
       <1>11, <1>12, <1>13, <1>14, <1>15, <1>16, <1>17, <1>18, <1>19, <1>20,
       <1>21, <1>22, <1>23, <1>24, <1>25, <1>26, <1>27, <1>28, <1>29, <1>30,
       [Next]_vars
    DEF Next, RunnerStep, ClientStep, Fault, Operator, FailRun, SealRun,
        InterruptIntegrity, Outcomes
\* The type invariant holds in every reachable state: TypeOK, with the facts
\* that make it inductive.
THEOREM TypeInvHolds == Spec => []TypeInv
  BY InitTypeInv, StepTypeInv, PTL DEF Spec

\* Every reachable state is well typed: the rows of schedule.json, the evidence
\* files and the program point, across all interrupts, crashes and resumes.
THEOREM TypeCorrect == Spec => []TypeOK
  BY TypeInvHolds, PTL DEF TypeInv
-----------------------------------------------------------------------------
(* The rows on disk and in memory.                                         *)

\* What the steps below need of the types.
LEMMA ControlTypes ==
    ASSUME TypeInv
    PROVE  /\ sched \in [Ordinals -> Rows] /\ mem \in [Ordinals -> Rows]
           /\ raw \in [Keys -> Evidence \cup {None}]
           /\ interrupted \in [Ordinals -> Evidence \cup {None}]
           /\ client \in [Ordinals -> Clients]
           /\ netem \in [Backends -> [Sides -> Shapes]] /\ backend \in Backends
           /\ pc \in InCell \cup InHandler => ord \in Ordinals /\ ord <= frozen
           /\ frozen \in Nat /\ ord \in Nat \ {0}
           /\ frozen = 0 \/ frozen \in Ordinals
           /\ 1..frozen \subseteq Ordinals
           /\ frozen = 0 => pc \notin InCell \cup InHandler
           /\ ord <= frozen => ord \in Ordinals /\ frozen # 0
           /\ \A i \in Ordinals :
                 client[i].status = "running" => interrupted[i] # None
           /\ pc = "client" => interrupted[ord] # None
  BY OrdinalsAreIntervals
  DEF TypeInv, TypeOK, DirectoryTypeOK, RunnerTypeOK, WorldTypeOK, OrdInFrozen,
      WritersHaveFiles, InCell

\* Nothing runs at first.
LEMMA InitControlInv == Init => ControlInv
  BY InitTypeInv
  DEF Init, ControlInv, NothingBeforeFreeze, MemoryAgrees, ActiveIsOpen, InTry,
      InCell, InHandler

\* The rows stay as the session left them, through any interleaving with
\* clients, operator and faults.  Distinct keys are not needed for it.
LEMMA StepControlInv == ControlInv /\ [Next]_vars => ControlInv'
  <1> SUFFICES ASSUME ControlInv, [Next]_vars PROVE ControlInv'
    OBVIOUS
  <1>T. TypeInv /\ TypeInv'
    BY StepTypeInv DEF ControlInv
  <1>Y. /\ sched \in [Ordinals -> Rows] /\ mem \in [Ordinals -> Rows]
        /\ raw \in [Keys -> Evidence \cup {None}]
        /\ interrupted \in [Ordinals -> Evidence \cup {None}]
    BY <1>T, ControlTypes
  <1>O. /\ frozen \in Nat /\ ord \in Nat \ {0}
        /\ frozen = 0 => pc \notin InCell \cup InHandler
        /\ ord <= frozen => ord \in Ordinals /\ frozen # 0
        /\ pc \in InCell \cup InHandler => ord \in Ordinals /\ ord <= frozen
        /\ \A i \in Ordinals :
              client[i].status = "running" => interrupted[i] # None
        /\ \A n \in Ordinals : n # 0
    BY <1>T, ControlTypes, OrdinalsAreIntervals
  <1> USE DEF ControlInv, NothingBeforeFreeze, MemoryAgrees, ActiveIsOpen,
          InTry, InCell, InHandler, Completed, directory, runner, world, GoTo
  <1>1. ASSUME NEW b \in Backends, StartFresh(b) PROVE ControlInv'
    BY <1>T, <1>1, <1>Y, <1>O DEF StartFresh
  <1>2. ASSUME NEW outcome, Stop(outcome), UNCHANGED <<directory, world>>
        PROVE  ControlInv'
    BY <1>T, <1>2, <1>Y, <1>O DEF Stop
  <1>3. CASE WriteSnapshot
    BY <1>T, <1>3, <1>Y, <1>O DEF WriteSnapshot
  <1>4. CASE WriteManifest
    BY <1>T, <1>4, <1>Y, <1>O DEF WriteManifest
  <1>5. ASSUME NEW n \in Ordinals, FreezeSchedule(n) PROVE ControlInv'
    BY <1>T, <1>5, <1>Y, <1>O DEF FreezeSchedule, NewRows
  <1>6. ASSUME NEW n \in Ordinals, NEW b \in Backends, Resume(n, b)
        PROVE  ControlInv'
    BY <1>T, <1>6, <1>Y, <1>O DEF Resume, ResumeFrom, ResumeAllowed
  <1>7. CASE SkipCompleted
    BY <1>T, <1>7, <1>Y, <1>O DEF SkipCompleted
  <1>8. CASE BeginCell
    BY <1>T, <1>8, <1>Y, <1>O DEF BeginCell, StartCell
  <1>9. ASSUME NEW side, NEW from, NEW to, ApplyNetem(side, from, to),
               <<from, to>> \in {<<"netem_client", "netem_server">>,
                                <<"netem_server", "verify">>}
        PROVE  ControlInv'
    BY <1>T, <1>9, <1>Y, <1>O DEF ApplyNetem
  <1>10. CASE VerifyNetem
    BY <1>T, <1>10, <1>Y, <1>O DEF VerifyNetem
  <1>11. CASE OpenPartial
    BY <1>T, <1>11, <1>Y, <1>O DEF OpenPartial
  <1>12. CASE PublishRaw
    BY <1>T, <1>12, <1>Y, <1>O DEF PublishRaw
  <1>13. CASE RecordResult
    BY <1>T, <1>13, <1>Y, <1>O DEF RecordResult, RecordAs
  <1>14. CASE PersistResult
    BY <1>T, <1>14, <1>Y, <1>O DEF PersistResult
  <1>15. ASSUME NEW from, NEW outcome, WriteIntegrity(from, outcome)
         PROVE  ControlInv'
    BY <1>T, <1>15, <1>Y, <1>O DEF WriteIntegrity, Stop
  <1>16. CASE LeaveLoop
    BY <1>T, <1>16, <1>Y, <1>O DEF LeaveLoop
  <1>17. CASE Interrupt
    BY <1>T, <1>17, <1>Y, <1>O DEF Interrupt
  <1>18. CASE SaveInterrupt
    BY <1>T, <1>18, <1>Y, <1>O DEF SaveInterrupt
  <1>19. ASSUME NEW i \in Ordinals, NEW w \in BOOLEAN, ClientAttempt(i, w)
         PROVE  ControlInv'
    BY <1>T, <1>19, <1>Y, <1>O DEF ClientAttempt
  <1>20. ASSUME NEW i \in Ordinals, ClientFinishes(i) \/ ClientDies(i)
         PROVE  ControlInv'
    BY <1>T, <1>20, <1>Y, <1>O DEF ClientFinishes, ClientDies
  <1>21. ASSUME UNCHANGED <<directory, runner>> PROVE ControlInv'
    BY <1>T, <1>21, <1>Y, <1>O
  <1> QED
    BY ONLY <1>1, <1>2, <1>3, <1>4, <1>5, <1>6, <1>7, <1>8, <1>9, <1>10,
       <1>11, <1>12, <1>13, <1>14, <1>15, <1>16, <1>17, <1>18, <1>19, <1>20,
       <1>21, [Next]_vars
    DEF Next, RunnerStep, ClientStep, Fault, Operator, FailRun, SealRun,
        InterruptIntegrity, FreshRefused, ResumeRefused, LabFails,
        PartialExists, InterruptUnrecorded, Crash, EditConfig, Rebuild,
        Reshape, vars, directory, runner

-----------------------------------------------------------------------------
(* Evidence.  EvidenceInv follows the one partial file that may become the *)
(* raw file of the active row, from open("x") to the persisted schedule.   *)

\* An empty directory holds no evidence.
LEMMA InitEvidenceInv == Init => EvidenceInv
  <1> SUFFICES ASSUME Init PROVE EvidenceInv
    OBVIOUS
  <1>1. ControlInv
    BY InitControlInv
  <1>2. \A i \in Ordinals : sched[i].state = "pending"
    BY DEF Init, NewRows
  <1> QED
    BY <1>1, <1>2, KeysAndProfiles DEF Init, EvidenceInv,
       OnlyActiveIsUnrecorded,
       NetemProgress, PartialEvidence, PublishedEvidence, RecordedEvidence,
       InTry, InCell, InHandler, Completed, NotStarted

\* A step that ends or leaves the session, or stays in it, without touching
\* rows, evidence or clients.
LEMMA QuietStep ==
    ASSUME EvidenceInv, ControlInv',
           UNCHANGED <<made, frozen, sched, raw, interrupted, client>>,
           \/ pc' = "idle" /\ mem' = NewRows
           \/ UNCHANGED <<pc, backend, mem, ord, netem>>
    PROVE  EvidenceInv'
  BY DEF EvidenceInv, ControlInv, NothingBeforeFreeze, MemoryAgrees, ActiveIsOpen,
     OnlyActiveIsUnrecorded, NetemProgress, PartialEvidence,
     PublishedEvidence, RecordedEvidence, InTry, InCell, InHandler,
     Completed, Fits, Whole

\* Every step keeps what is known of the active row's evidence and of all
\* recorded evidence; only PublishRaw needs that no two cells collide.
LEMMA StepEvidenceInv ==
    ASSUME DistinctKeys PROVE EvidenceInv /\ [Next]_vars => EvidenceInv'
  <1> SUFFICES ASSUME EvidenceInv, [Next]_vars PROVE EvidenceInv'
    OBVIOUS
  <1>C. ControlInv'
    BY StepControlInv DEF EvidenceInv
  <1>T. ControlInv' /\ TypeInv /\ TypeInv'
    BY <1>C DEF EvidenceInv, ControlInv
  <1>Y. /\ sched \in [Ordinals -> Rows] /\ mem \in [Ordinals -> Rows]
        /\ raw \in [Keys -> Evidence \cup {None}]
        /\ interrupted \in [Ordinals -> Evidence \cup {None}]
        /\ client \in [Ordinals -> Clients]
        /\ netem \in [Backends -> [Sides -> Shapes]] /\ backend \in Backends
        /\ pc \in InCell \cup InHandler => ord \in Ordinals /\ ord <= frozen
    BY <1>T DEF TypeInv, TypeOK, DirectoryTypeOK, RunnerTypeOK, WorldTypeOK,
       OrdInFrozen
  <1>O. /\ frozen \in Nat /\ ord \in Nat \ {0}
        /\ 1..frozen \subseteq Ordinals
        /\ frozen = 0 => pc \notin InCell \cup InHandler
        /\ ord <= frozen => ord \in Ordinals /\ frozen # 0
    BY <1>T, OrdinalsAreIntervals
    DEF TypeInv, TypeOK, DirectoryTypeOK, RunnerTypeOK, OrdInFrozen
  <1>W. \A i \in Ordinals :
           client[i].status = "running" => interrupted[i] # None
    BY <1>T DEF TypeInv, WritersHaveFiles
  <1> USE DEF EvidenceInv, ControlInv, NothingBeforeFreeze, MemoryAgrees,
          ActiveIsOpen, OnlyActiveIsUnrecorded, NetemProgress, PartialEvidence,
          PublishedEvidence, RecordedEvidence, InTry, InCell, InHandler,
          Completed, Fits, Whole, directory, runner, world, GoTo
  <1>1. ASSUME NEW b \in Backends, StartFresh(b) PROVE EvidenceInv'
    <2>1. OnlyActiveIsUnrecorded'
      BY <1>1, <1>Y, <1>O DEF StartFresh
    <2>2. NetemProgress'
      BY <1>1, <1>Y, <1>O DEF StartFresh
    <2>3. PartialEvidence'
      BY <1>1, <1>Y, <1>O DEF StartFresh
    <2>4. PublishedEvidence'
      BY <1>1, <1>Y, <1>O DEF StartFresh
    <2>5. RecordedEvidence'
      BY <1>1, <1>Y, <1>O DEF StartFresh
    <2> QED
      BY <1>T, <2>1, <2>2, <2>3, <2>4, <2>5
  <1>2. ASSUME NEW outcome,
               Stop(outcome), UNCHANGED <<directory, world>>
        PROVE  EvidenceInv'
    BY <1>T, <1>2, QuietStep DEF Stop
  <1>3. CASE WriteSnapshot
    BY <1>T, <1>3 DEF WriteSnapshot
  <1>4. CASE WriteManifest
    BY <1>T, <1>4 DEF WriteManifest
  <1>5. ASSUME NEW n \in Ordinals, FreezeSchedule(n) PROVE EvidenceInv'
    <2>1. OnlyActiveIsUnrecorded'
      <3>1. 1..n \subseteq Ordinals
        BY OrdinalsAreIntervals
      <3>2. \A k \in Keys : raw'[k] = None
        BY <1>5 DEF FreezeSchedule
      <3>3. frozen' = n
        BY <1>5 DEF FreezeSchedule
      <3> QED
        BY <3>1, <3>2, <3>3, KeysAndProfiles
    <2>2. NetemProgress'
      BY <1>5, <1>Y, <1>O DEF FreezeSchedule, NewRows
    <2>3. PartialEvidence'
      BY <1>5, <1>Y, <1>O DEF FreezeSchedule, NewRows
    <2>4. PublishedEvidence'
      BY <1>5, <1>Y, <1>O DEF FreezeSchedule, NewRows
    <2>5. RecordedEvidence'
      BY <1>5, <1>Y, <1>O DEF FreezeSchedule, NewRows
    <2> QED
      BY <1>T, <2>1, <2>2, <2>3, <2>4, <2>5
  <1>6. ASSUME NEW n \in Ordinals, NEW b \in Backends, Resume(n, b)
        PROVE  EvidenceInv'
    BY <1>T, <1>6 DEF Resume, ResumeFrom, ResumeAllowed, HasOrphanRaw
  <1>8. CASE SkipCompleted
    BY <1>T, <1>8 DEF SkipCompleted
  <1>9. CASE BeginCell
    <2>1. OnlyActiveIsUnrecorded'
      BY <1>9, <1>Y, <1>O DEF BeginCell, StartCell
    <2>2. NetemProgress'
      BY <1>9, <1>Y, <1>O DEF BeginCell, StartCell
    <2>3. PartialEvidence'
      BY <1>9, <1>Y, <1>O DEF BeginCell, StartCell
    <2>4. PublishedEvidence'
      BY <1>9, <1>Y, <1>O DEF BeginCell, StartCell
    <2>5. RecordedEvidence'
      BY <1>9, <1>Y, <1>O DEF BeginCell, StartCell
    <2> QED
      BY <1>T, <2>1, <2>2, <2>3, <2>4, <2>5
  <1>10. CASE ApplyNetem("client", "netem_client", "netem_server")
    <2>1. OnlyActiveIsUnrecorded'
      BY <1>10, <1>Y, <1>O DEF ApplyNetem, Sides
    <2>2. NetemProgress'
      BY <1>10, <1>Y, <1>O DEF ApplyNetem, Sides
    <2>3. PartialEvidence'
      BY <1>10, <1>Y, <1>O DEF ApplyNetem, Sides
    <2>4. PublishedEvidence'
      BY <1>10, <1>Y, <1>O DEF ApplyNetem, Sides
    <2>5. RecordedEvidence'
      BY <1>10, <1>Y, <1>O DEF ApplyNetem, Sides
    <2> QED
      BY <1>T, <2>1, <2>2, <2>3, <2>4, <2>5
  <1>11. CASE ApplyNetem("server", "netem_server", "verify")
    <2>1. OnlyActiveIsUnrecorded'
      BY <1>11, <1>Y, <1>O DEF ApplyNetem, Sides
    <2>2. NetemProgress'
      BY <1>11, <1>Y, <1>O DEF ApplyNetem, Sides
    <2>3. PartialEvidence'
      BY <1>11, <1>Y, <1>O DEF ApplyNetem, Sides
    <2>4. PublishedEvidence'
      BY <1>11, <1>Y, <1>O DEF ApplyNetem, Sides
    <2>5. RecordedEvidence'
      BY <1>11, <1>Y, <1>O DEF ApplyNetem, Sides
    <2> QED
      BY <1>T, <2>1, <2>2, <2>3, <2>4, <2>5
  <1>12. CASE VerifyNetem
    BY <1>T, <1>12 DEF VerifyNetem
  <1>14. CASE OpenPartial
    <2>1. OnlyActiveIsUnrecorded'
      BY <1>14, <1>Y, <1>O DEF OpenPartial
    <2>2. NetemProgress'
      BY <1>14, <1>Y, <1>O DEF OpenPartial
    <2>3. PartialEvidence'
      <3>1. \A i \in Ordinals : i # ord =>
               interrupted'[i] = interrupted[i] /\ client'[i] = client[i]
        BY <1>14, <1>Y DEF OpenPartial
      <3>2. /\ ord \in Ordinals /\ pc = "open"
            /\ interrupted'[ord].ord = ord
            /\ interrupted'[ord].shaping = netem[backend]
            /\ interrupted'[ord].lines = 0
            /\ client'[ord].status = "running" /\ client'[ord].done = 0
        BY <1>14, <1>Y DEF OpenPartial
      <3>3. Fits(interrupted'[ord], ord)
        BY <3>2 DEF Sides
      <3> SUFFICES ASSUME NEW i \in Ordinals
                   PROVE  PartialEvidence!(i)'
        OBVIOUS
      <3>4. CASE i = ord
        BY <3>2, <3>3, <3>4
      <3>5. CASE i # ord
        BY <3>1, <3>5
      <3> QED
        BY <3>4, <3>5
    <2>4. PublishedEvidence'
      BY <1>14, <1>Y, <1>O DEF OpenPartial
    <2>5. RecordedEvidence'
      BY <1>14, <1>Y, <1>O DEF OpenPartial
    <2> QED
      BY <1>T, <2>1, <2>2, <2>3, <2>4, <2>5
  <1>16. CASE PublishRaw
    <2>1. OnlyActiveIsUnrecorded'
      BY <1>16, <1>Y, <1>O DEF PublishRaw, DistinctKeys
    <2>2. NetemProgress'
      BY <1>16, <1>Y, <1>O DEF PublishRaw, DistinctKeys
    <2>3. PartialEvidence'
      BY <1>16, <1>Y, <1>O DEF PublishRaw, DistinctKeys
    <2>4. PublishedEvidence'
      <3>1. /\ pc' = "record" /\ pc = "client" /\ ord' = ord
            /\ ord \in Ordinals /\ client' = client
            /\ client[ord].status \in {"ok", "failed"}
        BY <1>16, <1>Y DEF PublishRaw
      <3>2. raw'[Key(ord)] = interrupted[ord]
        BY <1>16, <1>Y, <3>1, KeysAndProfiles DEF PublishRaw
      <3>3. interrupted[ord] # None
        BY <1>T, <3>1 DEF TypeInv, WritersHaveFiles
      <3>4. /\ Fits(interrupted[ord], ord)
            /\ client[ord].status = "ok" => Whole(interrupted[ord])
        BY <3>1, <3>3
      <3> QED
        BY <3>1, <3>2, <3>3, <3>4
    <2>5. RecordedEvidence'
      BY <1>16, <1>Y, <1>O DEF PublishRaw, DistinctKeys
    <2> QED
      BY <1>T, <2>1, <2>2, <2>3, <2>4, <2>5
  <1>17. CASE RecordResult
    <2>1. OnlyActiveIsUnrecorded'
      BY <1>17, <1>Y, <1>O DEF RecordResult, RecordAs, ResultState
    <2>2. NetemProgress'
      BY <1>17, <1>Y, <1>O DEF RecordResult, RecordAs, ResultState
    <2>3. PartialEvidence'
      BY <1>17, <1>Y, <1>O DEF RecordResult, RecordAs, ResultState
    <2>4. PublishedEvidence'
      BY <1>17, <1>Y, <1>O DEF RecordResult, RecordAs, ResultState
    <2>5. RecordedEvidence'
      BY <1>17, <1>Y, <1>O DEF RecordResult, RecordAs, ResultState
    <2> QED
      BY <1>T, <2>1, <2>2, <2>3, <2>4, <2>5
  <1>18. CASE PersistResult
    <2>1. OnlyActiveIsUnrecorded'
      BY <1>18, <1>Y, <1>O DEF PersistResult
    <2>2. NetemProgress'
      BY <1>18, <1>Y, <1>O DEF PersistResult
    <2>3. PartialEvidence'
      BY <1>18, <1>Y, <1>O DEF PersistResult
    <2>4. PublishedEvidence'
      BY <1>18, <1>Y, <1>O DEF PersistResult
    <2>5. RecordedEvidence'
      BY <1>18, <1>Y, <1>O DEF PersistResult
    <2> QED
      BY <1>T, <2>1, <2>2, <2>3, <2>4, <2>5
  <1>19. ASSUME NEW from, NEW outcome, WriteIntegrity(from, outcome)
         PROVE  EvidenceInv'
    BY <1>T, <1>19, QuietStep DEF WriteIntegrity, Stop
  <1>20. CASE LeaveLoop
    BY <1>T, <1>20 DEF LeaveLoop
  <1>21. CASE Interrupt
    <2>1. OnlyActiveIsUnrecorded'
      BY <1>21, <1>Y, <1>O DEF Interrupt
    <2>2. NetemProgress'
      BY <1>21, <1>Y, <1>O DEF Interrupt
    <2>3. PartialEvidence'
      BY <1>21, <1>Y, <1>O DEF Interrupt
    <2>4. PublishedEvidence'
      BY <1>21, <1>Y, <1>O DEF Interrupt
    <2>5. RecordedEvidence'
      BY <1>21, <1>Y, <1>O DEF Interrupt
    <2> QED
      BY <1>T, <2>1, <2>2, <2>3, <2>4, <2>5
  <1>23. CASE SaveInterrupt
    <2>1. OnlyActiveIsUnrecorded'
      BY <1>23, <1>Y, <1>O DEF SaveInterrupt
    <2>2. NetemProgress'
      BY <1>23, <1>Y, <1>O DEF SaveInterrupt
    <2>3. PartialEvidence'
      BY <1>23, <1>Y, <1>O DEF SaveInterrupt
    <2>4. PublishedEvidence'
      BY <1>23, <1>Y, <1>O DEF SaveInterrupt
    <2>5. RecordedEvidence'
      BY <1>23, <1>Y, <1>O DEF SaveInterrupt
    <2> QED
      BY <1>T, <2>1, <2>2, <2>3, <2>4, <2>5
  <1>25. ASSUME NEW i \in Ordinals, NEW w \in BOOLEAN, ClientAttempt(i, w)
         PROVE  EvidenceInv'
    <2>1. OnlyActiveIsUnrecorded'
      BY <1>25, <1>Y, <1>W DEF ClientAttempt
    <2>2. NetemProgress'
      BY <1>25, <1>Y, <1>W DEF ClientAttempt
    <2>3. PartialEvidence'
      BY <1>25, <1>Y, <1>W DEF ClientAttempt
    <2>4. PublishedEvidence'
      BY <1>25, <1>Y, <1>W DEF ClientAttempt
    <2>5. RecordedEvidence'
      BY <1>25, <1>Y, <1>W DEF ClientAttempt
    <2> QED
      BY <1>T, <2>1, <2>2, <2>3, <2>4, <2>5
  <1>26. ASSUME NEW i \in Ordinals, ClientFinishes(i) \/ ClientDies(i)
         PROVE  EvidenceInv'
    <2>1. OnlyActiveIsUnrecorded'
      BY <1>26, <1>Y DEF ClientFinishes, ClientDies
    <2>2. NetemProgress'
      BY <1>26, <1>Y DEF ClientFinishes, ClientDies
    <2>3. PartialEvidence'
      <3>1. interrupted' = interrupted
        BY <1>26 DEF ClientFinishes, ClientDies
      <3>2. \A j \in Ordinals : j # i => client'[j] = client[j]
        BY <1>26, <1>Y DEF ClientFinishes, ClientDies
      <3>3. /\ client'[i].done = client[i].done
            /\ client'[i].status = "ok" => client[i].done = Attempts
        BY <1>26, <1>Y DEF ClientFinishes, ClientDies, Clients
      <3> SUFFICES ASSUME NEW j \in Ordinals
                   PROVE  PartialEvidence!(j)'
        OBVIOUS
      <3>4. CASE j = i
        BY <3>1, <3>3, <3>4
      <3>5. CASE j # i
        BY <3>1, <3>2, <3>5
      <3> QED
        BY <3>4, <3>5
    <2>4. PublishedEvidence'
      BY <1>26, <1>Y DEF ClientFinishes, ClientDies
    <2>5. RecordedEvidence'
      BY <1>26, <1>Y DEF ClientFinishes, ClientDies
    <2> QED
      BY <1>T, <2>1, <2>2, <2>3, <2>4, <2>5
  <1>27. ASSUME NEW c \in Configs, EditConfig(c) PROVE EvidenceInv'
    BY <1>T, <1>27, QuietStep DEF EditConfig
  <1>28. ASSUME NEW where \in Places, NEW v \in Binaries,
                Rebuild(where, v)
         PROVE  EvidenceInv'
    BY <1>T, <1>28, QuietStep DEF Rebuild
  <1>29. ASSUME NEW b \in Backends, NEW side \in Sides, NEW shape \in Shapes,
                Reshape(b, side, shape)
         PROVE  EvidenceInv'
    BY <1>T, <1>29 DEF Reshape, MayEdit
  <1>30. CASE UNCHANGED vars
    BY <1>T, <1>30, QuietStep DEF vars
  <1> QED
    BY ONLY <1>1, <1>2, <1>3, <1>4, <1>5, <1>6, <1>8, <1>9, <1>10, <1>11,
       <1>12, <1>14, <1>16, <1>17, <1>18, <1>19, <1>20, <1>21, <1>23, <1>25,
       <1>26, <1>27, <1>28, <1>29, <1>30, [Next]_vars
    DEF Next, RunnerStep, ClientStep, Fault, Operator, FailRun, SealRun,
        InterruptIntegrity, FreshRefused, ResumeRefused, LabFails,
        PartialExists, InterruptUnrecorded, Crash
\* EvidenceInv is an invariant of every experiment without colliding cells.
THEOREM EvidenceInvHolds == ASSUME DistinctKeys PROVE Spec => []EvidenceInv
  BY InitEvidenceInv, StepEvidenceInv, PTL DEF Spec

\* Every row that schedule.json calls completed names, by its hash, the raw file
\* of that very cell, through any interrupts, crashes and resumes.
THEOREM EvidenceMatches ==
    ASSUME DistinctKeys PROVE Spec => []EvidenceMatchesSchedule
  <1>1. EvidenceInv => EvidenceMatchesSchedule
    BY DEF EvidenceInv, RecordedEvidence, EvidenceMatchesSchedule, Fits
  <1> QED
    BY <1>1, EvidenceInvHolds, PTL

\* If nobody reshapes the network under a running session, every completed cell
\* was measured under its own profile in both directions.
THEOREM MeasuredUnderProfile ==
    ASSUME DistinctKeys, EditsWhileRunning = FALSE
    PROVE  Spec => []MeasuredUnderCellProfile
  <1>1. EvidenceInv => MeasuredUnderCellProfile
    BY DEF EvidenceInv, RecordedEvidence, MeasuredUnderCellProfile, Fits
  <1> QED
    BY <1>1, EvidenceInvHolds, PTL

\* If the file system loses no line, every completed cell has all its recorded
\* attempts.
THEOREM CompletedAreWhole ==
    ASSUME DistinctKeys, WritesMayFail = FALSE
    PROVE  Spec => []CompletedIsWhole
  <1>1. EvidenceInv => CompletedIsWhole
    BY DEF EvidenceInv, RecordedEvidence, CompletedIsWhole, Whole
  <1> QED
    BY <1>1, EvidenceInvHolds, PTL

\* Only PublishRaw writes to raw/, and the file it writes did not exist.
LEMMA StepKeepsRaw ==
    ASSUME EvidenceInv, [Next]_vars
    PROVE  \A k \in Keys : raw[k] # None => raw'[k] = raw[k]
  <1>1. CASE PublishRaw
    <2>1. ord \in Ordinals /\ ord \in 1..frozen /\ pc = "client"
      BY <1>1, OrdinalsAreIntervals
      DEF PublishRaw, EvidenceInv, ControlInv, TypeInv, TypeOK, DirectoryTypeOK,
          OrdInFrozen, InCell
    <2>2. raw[Key(ord)] = None
      BY <2>1
      DEF EvidenceInv, ControlInv, OnlyActiveIsUnrecorded, ActiveIsOpen,
          InTry, InCell
    <2>3. raw' = [raw EXCEPT ![Key(ord)] = interrupted[ord]]
      BY <1>1 DEF PublishRaw
    <2>4. raw \in [Keys -> Evidence \cup {None}]
      BY DEF EvidenceInv, ControlInv, TypeInv, TypeOK, DirectoryTypeOK
    <2> QED
      BY <2>2, <2>3, <2>4
  <1>2. CASE ~PublishRaw
    <2>1. raw' = raw
      BY <1>2
      DEF Next, RunnerStep, ClientStep, Fault, Operator, vars, directory,
          StartFresh, FreshRefused, WriteSnapshot, WriteManifest,
          FreezeSchedule, Resume, ResumeFrom, ResumeRefused, SkipCompleted,
          BeginCell, StartCell,
          ApplyNetem, VerifyNetem, LabFails, OpenPartial, PartialExists,
          RecordResult, RecordAs, ResultState, PersistResult,
          WriteIntegrity, FailRun, SealRun,
          LeaveLoop, Interrupt, InterruptUnrecorded, SaveInterrupt,
          InterruptIntegrity, Crash, ClientAttempt, ClientFinishes,
          ClientDies, EditConfig, Rebuild, Reshape
    <2> QED
      BY <2>1
  <1> QED
    BY <1>1, <1>2

\* No step of the runner, of a client or of the operator changes or removes a
\* file that is in raw/.
THEOREM RawIsCreateOnly == ASSUME DistinctKeys PROVE Spec => RawCreateOnly
  <1>1. EvidenceInv /\ [Next]_vars =>
           [\A k \in Keys : raw[k] # None => raw'[k] = raw[k]]_vars
    BY StepKeepsRaw
  <1> QED
    BY <1>1, EvidenceInvHolds, PTL DEF Spec, RawCreateOnly

\* The hypothesis of these theorems holds of every configuration whose RTTs stay
\* distinct when they are truncated to milliseconds and whose losses are
\* distinct, as those of config/experiment.json are.
THEOREM DistinctFactorsGiveDistinctKeys ==
    ASSUME \A j, k \in DOMAIN RttHalfMs :
              RttHalfMs[j] \div 2 = RttHalfMs[k] \div 2 => j = k,
           \A j, k \in DOMAIN LossPercent :
              LossPercent[j] = LossPercent[k] => j = k
    PROVE  DistinctKeys
  <1> SUFFICES ASSUME NEW i \in Ordinals, NEW j \in Ordinals, Key(i) = Key(j)
               PROVE  i = j
    BY DEF DistinctKeys
  <1>1. /\ Planned[i] \in [batch : 1..Batches, setting : Settings]
        /\ Planned[j] \in [batch : 1..Batches, setting : Settings]
    <2> DEFINE S == [batch : 1..Batches, setting : Settings]
    <2>1. Planned \in Seq(S)
      BY ScheduleAssumption DEF IsSchedule
    <2> HIDE DEF S
    <2>2. Planned[i] \in S /\ Planned[j] \in S
      BY <2>1 DEF Ordinals
    <2> QED
      BY <2>2 DEF S
  <1>2. Planned[i].batch = Planned[j].batch
    BY DEF Key
  <1>3. Planned[i].setting = Planned[j].setting
    <2>1. Cell(Planned[i].setting) = Cell(Planned[j].setting)
      BY DEF Key
    <2> QED
      BY <1>1, <2>1 DEF Cell, Settings
  <1>4. Planned[i] = Planned[j]
    BY <1>1, <1>2, <1>3
  <1> QED
    BY <1>4, OrdinalsAreIntervals, ScheduleAssumption DEF IsSchedule, Ordinals
=============================================================================

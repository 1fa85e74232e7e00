--------------------------- MODULE RunHistoryProofs ---------------------------
(***************************************************************************)
(* What a result directory is after any history of sessions: sealed when a *)
(* session ended by itself, measured with the frozen inputs, and a ledger  *)
(* that only grows.  For every value of the constants of RunOrchestrator.  *)
(***************************************************************************)
EXTENDS RunOrchestratorProofs

-----------------------------------------------------------------------------
(* Completed rows.                                                         *)

\* Only PersistResult completes a row, that of the active cell, and no step
\* takes a completed row back.
LEMMA RowsChange ==
    ASSUME ControlInv, [Next]_vars
    PROVE  \/ \A i \in Ordinals : Completed(sched', i) <=> Completed(sched, i)
           \/ /\ PersistResult /\ pc = "persist" /\ ord \in Ordinals
              /\ Completed(mem, ord) /\ ~Completed(sched, ord)
              /\ \A i \in Ordinals :
                    Completed(sched', i) <=> Completed(sched, i) \/ i = ord
  <1> DEFINE Same == \A i \in Ordinals :
                        Completed(sched', i) <=> Completed(sched, i)
  <1>Y. /\ sched \in [Ordinals -> Rows] /\ mem \in [Ordinals -> Rows]
        /\ pc \in InCell \cup InHandler => ord \in Ordinals
        /\ ord <= frozen => ord \in Ordinals
    BY ControlTypes DEF ControlInv
  <1> USE DEF ControlInv, NothingBeforeFreeze, MemoryAgrees, ActiveIsOpen,
          InTry, InCell, InHandler, Completed
  <1>1. ASSUME NEW n \in Ordinals, FreezeSchedule(n) PROVE Same
    BY <1>1 DEF FreezeSchedule
  <1>2. CASE BeginCell
    BY <1>2, <1>Y DEF BeginCell, StartCell
  <1>3. CASE PersistResult
    BY <1>3, <1>Y DEF PersistResult
  <1>4. CASE SaveInterrupt
    BY <1>4, <1>Y DEF SaveInterrupt
  <1>5. CASE sched' = sched
    BY <1>5
  <1> QED
    BY <1>1, <1>2, <1>3, <1>4, <1>5
    DEF Next, RunnerStep, ClientStep, Fault, Operator, vars, directory,
        StartFresh, FreshRefused, WriteSnapshot, WriteManifest, Resume,
        ResumeFrom, ResumeRefused, SkipCompleted, ApplyNetem, VerifyNetem,
        LabFails, OpenPartial, PartialExists, PublishRaw, RecordResult,
        RecordAs, WriteIntegrity, FailRun, SealRun, LeaveLoop, Interrupt,
        InterruptUnrecorded, InterruptIntegrity, Crash, ClientAttempt,
        ClientFinishes, ClientDies, EditConfig, Rebuild, Reshape

\* The number of frozen rows is settled once.
LEMMA FrozenStays ==
    ASSUME ControlInv, [Next]_vars
    PROVE  \/ UNCHANGED frozen
           \/ frozen = 0 /\ \E n \in Ordinals : FreezeSchedule(n)
  BY DEF ControlInv, NothingBeforeFreeze,
        Next, RunnerStep, ClientStep, Fault, Operator, vars, directory,
        StartFresh, FreshRefused, WriteSnapshot, WriteManifest, FreezeSchedule,
        Resume, ResumeFrom, ResumeRefused, SkipCompleted, BeginCell, StartCell,
        PersistResult, SaveInterrupt, ApplyNetem, VerifyNetem,
        LabFails, OpenPartial, PartialExists, PublishRaw, RecordResult,
        RecordAs, WriteIntegrity, FailRun, SealRun, LeaveLoop, Interrupt,
        InterruptUnrecorded, InterruptIntegrity, Crash, ClientAttempt,
        ClientFinishes, ClientDies, EditConfig, Rebuild, Reshape

-----------------------------------------------------------------------------
(* The order of the sessions and the seal.                                 *)

\* An empty directory has no session.
LEMMA InitSessionInv == Init => SessionInv
  BY InitControlInv
  DEF Init, SessionInv, OrderInv, OnePartial, SealInv, NewRows, Completed,
      InTry, InCell, InHandler

\* What the steps below need of the types and of the rows.
LEMMA SessionFacts ==
    ASSUME ControlInv, [Next]_vars
    PROVE  /\ sched \in [Ordinals -> Rows] /\ mem \in [Ordinals -> Rows]
           /\ interrupted \in [Ordinals -> Evidence \cup {None}]
           /\ frozen \in Nat /\ ord \in Nat \ {0}
           /\ frozen = 0 => pc \notin InCell \cup InHandler
           /\ ord <= frozen => ord \in Ordinals /\ frozen # 0
           /\ pc \in InCell \cup InHandler =>
                 ord \in Ordinals /\ ord <= frozen /\ ~Completed(sched, ord)
           /\ 1..frozen \subseteq Ordinals /\ Ordinals \subseteq Nat \ {0}
           /\ \A i \in Ordinals : 1..(i - 1) \subseteq Ordinals
           /\ \A i \in Ordinals :
                 client[i].status = "running" => interrupted[i] # None
           /\ pc = "client" => interrupted[ord] # None
           /\ pc \in {"snapshot", "manifest", "freeze"} \/ ~made => frozen = 0
           /\ pc = "loop" => mem = sched
           /\ frozen = 0 => \A i \in Ordinals :
                               interrupted[i] = None /\ ~Completed(sched, i)
  <1>1. TypeInv
    BY DEF ControlInv
  <1> QED
    BY <1>1, ControlTypes, OrdinalsAreIntervals
    DEF ControlInv, NothingBeforeFreeze, MemoryAgrees, ActiveIsOpen, InTry,
        NewRows, Completed

\* Rows are completed in the frozen order.
LEMMA StepOrderInv == SessionInv /\ [Next]_vars => OrderInv'
  <1> SUFFICES ASSUME SessionInv, [Next]_vars PROVE OrderInv'
    OBVIOUS
  <1>C. ControlInv
    BY DEF SessionInv
  <1>R. \/ \A i \in Ordinals : Completed(sched', i) <=> Completed(sched, i)
        \/ /\ pc = "persist" /\ ord \in Ordinals
           /\ Completed(mem, ord) /\ ~Completed(sched, ord)
           /\ \A i \in Ordinals :
                 Completed(sched', i) <=> Completed(sched, i) \/ i = ord
    BY <1>C, RowsChange
  <1> USE DEF SessionInv, OrderInv, InTry, InCell, InHandler, directory,
          runner, world, GoTo
  <1>1. ASSUME NEW b \in Backends, StartFresh(b) PROVE OrderInv'
    BY <1>C, <1>R, <1>1, SessionFacts DEF StartFresh
  <1>2. ASSUME NEW outcome, outcome \notin {"ok", "failed"}, Stop(outcome),
               UNCHANGED <<directory, world>>
        PROVE  OrderInv'
    BY <1>C, <1>R, <1>2, SessionFacts DEF Stop
  <1>3. CASE WriteSnapshot
    BY <1>C, <1>R, <1>3, SessionFacts DEF WriteSnapshot
  <1>4. CASE WriteManifest
    BY <1>C, <1>R, <1>4, SessionFacts DEF WriteManifest
  <1>5. ASSUME NEW n \in Ordinals, FreezeSchedule(n) PROVE OrderInv'
    BY <1>C, <1>R, <1>5, SessionFacts DEF FreezeSchedule
  <1>6. ASSUME NEW n \in Ordinals, NEW b \in Backends, Resume(n, b)
        PROVE  OrderInv'
    BY <1>C, <1>R, <1>6, SessionFacts DEF Resume, ResumeFrom, ResumeAllowed
  <1>7. CASE SkipCompleted
    BY <1>C, <1>R, <1>7, SessionFacts DEF SkipCompleted
  <1>8. CASE BeginCell
    BY <1>C, <1>R, <1>8, SessionFacts DEF BeginCell, StartCell
  <1>9. ASSUME NEW side, NEW from, NEW to, ApplyNetem(side, from, to),
               <<from, to>> \in {<<"netem_client", "netem_server">>,
                                <<"netem_server", "verify">>}
        PROVE  OrderInv'
    BY <1>C, <1>R, <1>9, SessionFacts DEF ApplyNetem
  <1>10. CASE VerifyNetem
    BY <1>C, <1>R, <1>10, SessionFacts DEF VerifyNetem
  <1>11. CASE OpenPartial
    BY <1>C, <1>R, <1>11, SessionFacts DEF OpenPartial
  <1>12. CASE PublishRaw
    BY <1>C, <1>R, <1>12, SessionFacts DEF PublishRaw
  <1>13. CASE RecordResult
    BY <1>C, <1>R, <1>13, SessionFacts DEF RecordResult, RecordAs
  <1>14. CASE PersistResult
    BY <1>C, <1>R, <1>14, SessionFacts DEF PersistResult
  <1>15. ASSUME NEW from, NEW outcome, WriteIntegrity(from, outcome),
                <<from, outcome>> \in {<<"failed_integrity", "failed">>,
                   <<"integrity", "ok">>,
                   <<"interrupt_integrity", "interrupted">>}
         PROVE  OrderInv'
    BY <1>C, <1>R, <1>15, SessionFacts DEF WriteIntegrity, Stop
  <1>16. CASE LeaveLoop
    BY <1>C, <1>R, <1>16, SessionFacts DEF LeaveLoop
  <1>17. CASE Interrupt
    BY <1>C, <1>R, <1>17, SessionFacts DEF Interrupt
  <1>18. CASE SaveInterrupt
    BY <1>C, <1>R, <1>18, SessionFacts DEF SaveInterrupt
  <1>19. ASSUME NEW i \in Ordinals, NEW w \in BOOLEAN, ClientAttempt(i, w)
         PROVE  OrderInv'
    BY <1>C, <1>R, <1>19, SessionFacts DEF ClientAttempt
  <1>20. ASSUME NEW i \in Ordinals, ClientFinishes(i) \/ ClientDies(i)
         PROVE  OrderInv'
    BY <1>C, <1>R, <1>20, SessionFacts DEF ClientFinishes, ClientDies
  <1>21. ASSUME UNCHANGED <<directory, runner>> PROVE OrderInv'
    BY <1>C, <1>R, <1>21, SessionFacts
  <1> QED
    BY ONLY <1>1, <1>2, <1>3, <1>4, <1>5, <1>6, <1>7, <1>8, <1>9, <1>10,
       <1>11, <1>12, <1>13, <1>14, <1>15, <1>16, <1>17, <1>18, <1>19, <1>20,
       <1>21, [Next]_vars
    DEF Next, RunnerStep, ClientStep, Fault, Operator, FailRun, SealRun,
        InterruptIntegrity, FreshRefused, ResumeRefused, LabFails,
        PartialExists, InterruptUnrecorded, Crash, EditConfig, Rebuild,
        Reshape, vars, directory, runner

\* Partial files are only of the first row that is not completed.
LEMMA StepOnePartial == SessionInv /\ [Next]_vars => OnePartial'
  <1> SUFFICES ASSUME SessionInv, [Next]_vars PROVE OnePartial'
    OBVIOUS
  <1>C. ControlInv
    BY DEF SessionInv
  <1>R. \/ \A i \in Ordinals : Completed(sched', i) <=> Completed(sched, i)
        \/ /\ pc = "persist" /\ ord \in Ordinals
           /\ Completed(mem, ord) /\ ~Completed(sched, ord)
           /\ \A i \in Ordinals :
                 Completed(sched', i) <=> Completed(sched, i) \/ i = ord
    BY <1>C, RowsChange
  <1> USE DEF SessionInv, OrderInv, OnePartial, InTry, InCell, InHandler, directory,
          runner, world, GoTo
  <1>1. ASSUME NEW b \in Backends, StartFresh(b) PROVE OnePartial'
    BY <1>C, <1>R, <1>1, SessionFacts DEF StartFresh
  <1>2. ASSUME NEW outcome, outcome \notin {"ok", "failed"}, Stop(outcome),
               UNCHANGED <<directory, world>>
        PROVE  OnePartial'
    BY <1>C, <1>R, <1>2, SessionFacts DEF Stop
  <1>3. CASE WriteSnapshot
    BY <1>C, <1>R, <1>3, SessionFacts DEF WriteSnapshot
  <1>4. CASE WriteManifest
    BY <1>C, <1>R, <1>4, SessionFacts DEF WriteManifest
  <1>5. ASSUME NEW n \in Ordinals, FreezeSchedule(n) PROVE OnePartial'
    BY <1>C, <1>R, <1>5, SessionFacts DEF FreezeSchedule
  <1>6. ASSUME NEW n \in Ordinals, NEW b \in Backends, Resume(n, b)
        PROVE  OnePartial'
    BY <1>C, <1>R, <1>6, SessionFacts DEF Resume, ResumeFrom, ResumeAllowed
  <1>7. CASE SkipCompleted
    BY <1>C, <1>R, <1>7, SessionFacts DEF SkipCompleted
  <1>8. CASE BeginCell
    BY <1>C, <1>R, <1>8, SessionFacts DEF BeginCell, StartCell
  <1>9. ASSUME NEW side, NEW from, NEW to, ApplyNetem(side, from, to),
               <<from, to>> \in {<<"netem_client", "netem_server">>,
                                <<"netem_server", "verify">>}
        PROVE  OnePartial'
    BY <1>C, <1>R, <1>9, SessionFacts DEF ApplyNetem
  <1>10. CASE VerifyNetem
    BY <1>C, <1>R, <1>10, SessionFacts DEF VerifyNetem
  <1>11. CASE OpenPartial
    BY <1>C, <1>R, <1>11, SessionFacts DEF OpenPartial
  <1>12. CASE PublishRaw
    BY <1>C, <1>R, <1>12, SessionFacts DEF PublishRaw
  <1>13. CASE RecordResult
    BY <1>C, <1>R, <1>13, SessionFacts DEF RecordResult, RecordAs
  <1>14. CASE PersistResult
    BY <1>C, <1>R, <1>14, SessionFacts DEF PersistResult
  <1>15. ASSUME NEW from, NEW outcome, WriteIntegrity(from, outcome),
                <<from, outcome>> \in {<<"failed_integrity", "failed">>,
                   <<"integrity", "ok">>,
                   <<"interrupt_integrity", "interrupted">>}
         PROVE  OnePartial'
    BY <1>C, <1>R, <1>15, SessionFacts DEF WriteIntegrity, Stop
  <1>16. CASE LeaveLoop
    BY <1>C, <1>R, <1>16, SessionFacts DEF LeaveLoop
  <1>17. CASE Interrupt
    BY <1>C, <1>R, <1>17, SessionFacts DEF Interrupt
  <1>18. CASE SaveInterrupt
    BY <1>C, <1>R, <1>18, SessionFacts DEF SaveInterrupt
  <1>19. ASSUME NEW i \in Ordinals, NEW w \in BOOLEAN, ClientAttempt(i, w)
         PROVE  OnePartial'
    BY <1>C, <1>R, <1>19, SessionFacts DEF ClientAttempt
  <1>20. ASSUME NEW i \in Ordinals, ClientFinishes(i) \/ ClientDies(i)
         PROVE  OnePartial'
    BY <1>C, <1>R, <1>20, SessionFacts DEF ClientFinishes, ClientDies
  <1>21. ASSUME UNCHANGED <<directory, runner>> PROVE OnePartial'
    BY <1>C, <1>R, <1>21, SessionFacts
  <1> QED
    BY ONLY <1>1, <1>2, <1>3, <1>4, <1>5, <1>6, <1>7, <1>8, <1>9, <1>10,
       <1>11, <1>12, <1>13, <1>14, <1>15, <1>16, <1>17, <1>18, <1>19, <1>20,
       <1>21, [Next]_vars
    DEF Next, RunnerStep, ClientStep, Fault, Operator, FailRun, SealRun,
        InterruptIntegrity, FreshRefused, ResumeRefused, LabFails,
        PartialExists, InterruptUnrecorded, Crash, EditConfig, Rebuild,
        Reshape, vars, directory, runner

\* What integrity.json covers stays completed, and nothing changes after a
\* session that ended by itself.
LEMMA StepSealInv == SessionInv /\ [Next]_vars => SealInv'
  <1> SUFFICES ASSUME SessionInv, [Next]_vars PROVE SealInv'
    OBVIOUS
  <1>C. ControlInv
    BY DEF SessionInv
  <1>R. \/ \A i \in Ordinals : Completed(sched', i) <=> Completed(sched, i)
        \/ /\ pc = "persist" /\ ord \in Ordinals
           /\ Completed(mem, ord) /\ ~Completed(sched, ord)
           /\ \A i \in Ordinals :
                 Completed(sched', i) <=> Completed(sched, i) \/ i = ord
    BY <1>C, RowsChange
  <1> USE DEF SessionInv, OrderInv, OnePartial, SealInv, Covered, InTry, InCell, InHandler, directory,
          runner, world, GoTo
  <1>1. ASSUME NEW b \in Backends, StartFresh(b) PROVE SealInv'
    BY <1>C, <1>R, <1>1, SessionFacts DEF StartFresh
  <1>2. ASSUME NEW outcome, outcome \notin {"ok", "failed"}, Stop(outcome),
               UNCHANGED <<directory, world>>
        PROVE  SealInv'
    BY <1>C, <1>R, <1>2, SessionFacts DEF Stop
  <1>3. CASE WriteSnapshot
    BY <1>C, <1>R, <1>3, SessionFacts DEF WriteSnapshot
  <1>4. CASE WriteManifest
    BY <1>C, <1>R, <1>4, SessionFacts DEF WriteManifest
  <1>5. ASSUME NEW n \in Ordinals, FreezeSchedule(n) PROVE SealInv'
    BY <1>C, <1>R, <1>5, SessionFacts DEF FreezeSchedule
  <1>6. ASSUME NEW n \in Ordinals, NEW b \in Backends, Resume(n, b)
        PROVE  SealInv'
    BY <1>C, <1>R, <1>6, SessionFacts DEF Resume, ResumeFrom, ResumeAllowed
  <1>7. CASE SkipCompleted
    BY <1>C, <1>R, <1>7, SessionFacts DEF SkipCompleted
  <1>8. CASE BeginCell
    BY <1>C, <1>R, <1>8, SessionFacts DEF BeginCell, StartCell
  <1>9. ASSUME NEW side, NEW from, NEW to, ApplyNetem(side, from, to),
               <<from, to>> \in {<<"netem_client", "netem_server">>,
                                <<"netem_server", "verify">>}
        PROVE  SealInv'
    BY <1>C, <1>R, <1>9, SessionFacts DEF ApplyNetem
  <1>10. CASE VerifyNetem
    BY <1>C, <1>R, <1>10, SessionFacts DEF VerifyNetem
  <1>11. CASE OpenPartial
    BY <1>C, <1>R, <1>11, SessionFacts DEF OpenPartial
  <1>12. CASE PublishRaw
    BY <1>C, <1>R, <1>12, SessionFacts DEF PublishRaw
  <1>13. CASE RecordResult
    BY <1>C, <1>R, <1>13, SessionFacts DEF RecordResult, RecordAs
  <1>14. CASE PersistResult
    BY <1>C, <1>R, <1>14, SessionFacts DEF PersistResult
  <1>15. ASSUME NEW from, NEW outcome, WriteIntegrity(from, outcome),
                <<from, outcome>> \in {<<"failed_integrity", "failed">>,
                   <<"integrity", "ok">>,
                   <<"interrupt_integrity", "interrupted">>}
         PROVE  SealInv'
    BY <1>C, <1>R, <1>15, SessionFacts DEF WriteIntegrity, Stop
  <1>16. CASE LeaveLoop
    BY <1>C, <1>R, <1>16, SessionFacts DEF LeaveLoop
  <1>17. CASE Interrupt
    BY <1>C, <1>R, <1>17, SessionFacts DEF Interrupt
  <1>18. CASE SaveInterrupt
    BY <1>C, <1>R, <1>18, SessionFacts DEF SaveInterrupt
  <1>19. ASSUME NEW i \in Ordinals, NEW w \in BOOLEAN, ClientAttempt(i, w)
         PROVE  SealInv'
    BY <1>C, <1>R, <1>19, SessionFacts DEF ClientAttempt
  <1>20. ASSUME NEW i \in Ordinals, ClientFinishes(i) \/ ClientDies(i)
         PROVE  SealInv'
    BY <1>C, <1>R, <1>20, SessionFacts DEF ClientFinishes, ClientDies
  <1>21. ASSUME UNCHANGED <<directory, runner>> PROVE SealInv'
    BY <1>C, <1>R, <1>21, SessionFacts
  <1> QED
    BY ONLY <1>1, <1>2, <1>3, <1>4, <1>5, <1>6, <1>7, <1>8, <1>9, <1>10,
       <1>11, <1>12, <1>13, <1>14, <1>15, <1>16, <1>17, <1>18, <1>19, <1>20,
       <1>21, [Next]_vars
    DEF Next, RunnerStep, ClientStep, Fault, Operator, FailRun, SealRun,
        InterruptIntegrity, FreshRefused, ResumeRefused, LabFails,
        PartialExists, InterruptUnrecorded, Crash, EditConfig, Rebuild,
        Reshape, vars, directory, runner

-----------------------------------------------------------------------------
(* The frozen inputs.  Two things are assumed, and neither can be dropped: *)
(* the containers' client is not the one that is hashed (the run           *)
(* container_client shows it), and the manifest is written from the files  *)
(* as they are then, not from those the session has loaded.                *)

\* A session's own configuration and client.
LEMMA InputTypes ==
    ASSUME TypeInv
    PROVE  /\ interrupted \in [Ordinals -> Evidence \cup {None}]
           /\ raw \in [Keys -> Evidence \cup {None}]
           /\ config \in Configs /\ binary["host"] \in Binaries
           /\ [config |-> config, client |-> binary["host"]] # None
           /\ backend \in Backends /\ Ordinals \subseteq Nat \ {0}
  <1>1. config \in Configs /\ binary["host"] \in Binaries
    BY DEF TypeInv, TypeOK, WorldTypeOK, Places
  <1>2. [config |-> config, client |-> binary["host"]] # None
    BY <1>1, OrchestratorAssumption DEF Manifests
  <1> QED
    BY <1>1, <1>2, OrdinalsAreIntervals
    DEF TypeInv, TypeOK, DirectoryTypeOK, RunnerTypeOK

\* Adding a line to evidence changes nothing else of it.
LEMMA LineKeepsInputs ==
    ASSUME NEW e \in Evidence
    PROVE  LET f == [e EXCEPT !.lines = @ + 1]
           IN  f.config = e.config /\ f.binary = e.binary
  BY DEF Evidence

\* Without evidence there are no inputs to compare.
LEMMA InitInputsInv == Init => InputsInv
  BY DEF Init, InputsInv, InTry, InCell

\* Evidence only ever takes the inputs of the session that measures it, which
\* a resume has compared with the frozen ones.
LEMMA StepInputsInv ==
    ASSUME "container" \notin Backends, EditsWhileRunning = FALSE
    PROVE  ControlInv /\ InputsInv /\ [Next]_vars => InputsInv'
  <1> SUFFICES ASSUME ControlInv, InputsInv, [Next]_vars PROVE InputsInv'
    OBVIOUS
  <1>T. TypeInv
    BY DEF ControlInv
  <1>B. Runs(backend) = binary["host"]
    BY <1>T, InputTypes DEF Runs
  <1>M. /\ ~made => pc = "idle" /\ frozen = 0
        /\ pc \in {"snapshot", "manifest", "freeze"} => frozen = 0
        /\ pc \in InCell => frozen > 0
        /\ frozen = 0 => /\ \A i \in Ordinals : interrupted[i] = None
                         /\ \A k \in Keys : raw[k] = None
        /\ pc = "client" => ord \in Ordinals
        /\ pc = "open" => ord \in Ordinals
    BY <1>T, ControlTypes DEF ControlInv, NothingBeforeFreeze, TypeInv,
       OrdInFrozen, InTry, InCell
  <1> USE DEF InputsInv, WithFrozenInputs, InTry, InCell, InHandler, directory,
          runner, world, GoTo
  <1>1. ASSUME NEW b \in Backends, StartFresh(b) PROVE InputsInv'
    BY <1>1, <1>M, <1>T, InputTypes DEF StartFresh
  <1>2. ASSUME NEW outcome, outcome \notin {"ok", "failed"}, Stop(outcome),
               UNCHANGED <<directory, world>>
        PROVE  InputsInv'
    BY <1>2, <1>M, <1>T, InputTypes DEF Stop
  <1>3. CASE WriteSnapshot
    BY <1>3, <1>M, <1>T, InputTypes DEF WriteSnapshot
  <1>4. CASE WriteManifest
    BY <1>4, <1>T, <1>M, InputTypes DEF WriteManifest
  <1>5. ASSUME NEW n \in Ordinals, FreezeSchedule(n) PROVE InputsInv'
    BY <1>5, <1>M, <1>T, InputTypes DEF FreezeSchedule
  <1>6. ASSUME NEW n \in Ordinals, NEW b \in Backends, Resume(n, b)
        PROVE  InputsInv'
    BY <1>6, <1>M, <1>T, InputTypes DEF Resume, ResumeFrom, ResumeAllowed
  <1>7. CASE SkipCompleted
    BY <1>7, <1>M, <1>T, InputTypes DEF SkipCompleted
  <1>8. CASE BeginCell
    BY <1>8, <1>M, <1>T, InputTypes DEF BeginCell, StartCell
  <1>9. ASSUME NEW side, NEW from, NEW to, ApplyNetem(side, from, to),
               <<from, to>> \in {<<"netem_client", "netem_server">>,
                                <<"netem_server", "verify">>}
        PROVE  InputsInv'
    BY <1>9, <1>M, <1>T, InputTypes DEF ApplyNetem
  <1>10. CASE VerifyNetem
    BY <1>10, <1>M, <1>T, InputTypes DEF VerifyNetem
  <1>11. CASE OpenPartial
    <2>1. /\ interrupted'[ord].config = loaded
          /\ interrupted'[ord].binary = binary["host"]
          /\ \A i \in Ordinals : i # ord => interrupted'[i] = interrupted[i]
      BY <1>11, <1>B, <1>T, <1>M, InputTypes DEF OpenPartial
    <2> QED
      BY <1>11, <2>1 DEF OpenPartial
  <1>12. CASE PublishRaw
    <2>1. /\ raw' = [raw EXCEPT ![Key(ord)] = interrupted[ord]]
          /\ \A i \in Ordinals : interrupted'[i] \in {interrupted[i], None}
      BY <1>12, <1>T, <1>M, InputTypes DEF PublishRaw
    <2>2. \A k \in Keys : raw'[k] \in {raw[k], interrupted[ord]}
      BY <2>1, <1>T, InputTypes
    <2> QED
      BY <1>12, <1>M, <2>1, <2>2 DEF PublishRaw
  <1>13. CASE RecordResult
    BY <1>13, <1>M, <1>T, InputTypes DEF RecordResult, RecordAs
  <1>14. CASE PersistResult
    BY <1>14, <1>M, <1>T, InputTypes DEF PersistResult
  <1>15. ASSUME NEW from, NEW outcome, WriteIntegrity(from, outcome),
                <<from, outcome>> \in {<<"failed_integrity", "failed">>,
                   <<"integrity", "ok">>,
                   <<"interrupt_integrity", "interrupted">>}
         PROVE  InputsInv'
    BY <1>15, <1>M, <1>T, InputTypes DEF WriteIntegrity, Stop
  <1>16. CASE LeaveLoop
    BY <1>16, <1>M, <1>T, InputTypes DEF LeaveLoop
  <1>17. CASE Interrupt
    BY <1>17, <1>M, <1>T, InputTypes DEF Interrupt
  <1>18. CASE SaveInterrupt
    BY <1>18, <1>M, <1>T, InputTypes DEF SaveInterrupt
  <1>19. ASSUME NEW i \in Ordinals, NEW w \in BOOLEAN, ClientAttempt(i, w)
         PROVE  InputsInv'
    <2>1. interrupted[i] # None /\ interrupted[i] \in Evidence
      BY <1>19, <1>T, InputTypes, ControlTypes DEF ClientAttempt
    <2>2. \A j \in Ordinals :
             /\ interrupted'[j] # None => interrupted[j] # None
             /\ interrupted[j] # None =>
                   /\ interrupted'[j].config = interrupted[j].config
                   /\ interrupted'[j].binary = interrupted[j].binary
      BY <1>19, <1>T, <2>1, InputTypes, LineKeepsInputs DEF ClientAttempt
    <2> QED
      BY <1>19, <2>2 DEF ClientAttempt
  <1>20. ASSUME NEW i \in Ordinals, ClientFinishes(i) \/ ClientDies(i)
         PROVE  InputsInv'
    BY <1>20, <1>M, <1>T, InputTypes DEF ClientFinishes, ClientDies
  <1>21. ASSUME UNCHANGED <<directory, runner, config, binary>> PROVE InputsInv'
    BY <1>21, <1>M, <1>T, InputTypes
  <1>22. ASSUME NEW c \in Configs, EditConfig(c) PROVE InputsInv'
    BY <1>22, <1>M, <1>T, InputTypes DEF EditConfig, MayEdit
  <1>23. ASSUME NEW where \in Places, NEW v \in Binaries,
                Rebuild(where, v)
         PROVE  InputsInv'
    BY <1>23, <1>M, <1>T, InputTypes DEF Rebuild, MayEdit
  <1> QED
    BY ONLY <1>1, <1>2, <1>3, <1>4, <1>5, <1>6, <1>7, <1>8, <1>9, <1>10,
       <1>11, <1>12, <1>13, <1>14, <1>15, <1>16, <1>17, <1>18, <1>19, <1>20,
       <1>21, <1>22, <1>23, [Next]_vars
    DEF Next, RunnerStep, ClientStep, Fault, Operator, FailRun, SealRun,
        InterruptIntegrity, FreshRefused, ResumeRefused, LabFails,
        PartialExists, InterruptUnrecorded, Crash, Reshape, vars, directory, runner

\* The three parts and the rows.
LEMMA StepSessionInv == SessionInv /\ [Next]_vars => SessionInv'
  BY StepControlInv, StepOrderInv, StepOnePartial, StepSealInv DEF SessionInv

\* The order of the sessions holds in every reachable state, for every
\* experiment: with colliding cells, lost writes and edits at any time.
THEOREM SessionInvHolds == Spec => []SessionInv
  BY InitSessionInv, StepSessionInv, PTL DEF Spec

\* When the runner reports success or a failed client, integrity.json vouches
\* for the files as they are, and after a success every frozen row is completed:
\* no client that a crash has left behind is still writing.
THEOREM StoppedIsSealed == Spec => []StoppedRunIsSealed
  <1>1. SessionInv => StoppedRunIsSealed
    BY DEF SessionInv, SealInv, StoppedRunIsSealed
  <1> QED
    BY <1>1, SessionInvHolds, PTL

\* The frozen inputs stay those of the manifest in every session.
THEOREM InputsInvHolds ==
    ASSUME "container" \notin Backends, EditsWhileRunning = FALSE
    PROVE  Spec => [](SessionInv /\ InputsInv)
  <1>1. Init => SessionInv /\ InputsInv
    BY InitSessionInv, InitInputsInv
  <1>2. SessionInv /\ InputsInv /\ [Next]_vars => (SessionInv /\ InputsInv)'
    BY StepSessionInv, StepInputsInv DEF SessionInv
  <1> QED
    BY <1>1, <1>2, PTL DEF Spec

\* All raw files of a directory were measured with the configuration and the
\* client that its manifest froze, across any number of resumes.
THEOREM FrozenInputsMeasured ==
    ASSUME "container" \notin Backends, EditsWhileRunning = FALSE
    PROVE  Spec => []MeasuredByFrozenInputs
  <1>1. InputsInv => MeasuredByFrozenInputs
    BY DEF InputsInv, WithFrozenInputs, MeasuredByFrozenInputs
  <1> QED
    BY <1>1, InputsInvHolds, PTL

\* Both together, as they are needed for the ledger.
THEOREM HistoryInvHolds ==
    ASSUME "container" \notin Backends, EditsWhileRunning = FALSE
    PROVE  Spec => []HistoryInv
  BY InputsInvHolds, PTL DEF HistoryInv

-----------------------------------------------------------------------------
(* The ledger.  The abstract entries are the raw files of completed rows;  *)
(* PersistResult enters one, FreezeSchedule freezes the plan, the last     *)
(* integrity file of a complete run seals it, and every other step of any  *)
(* process leaves the ledger as it is.                                     *)

LedgerInv == EvidenceInv /\ HistoryInv

\* The entry of cell i.
Entry(i) == IF Completed(sched, i) THEN raw[Key(i)] ELSE None
Sealed == /\ integrity # None /\ frozen > 0
          /\ \A i \in 1..frozen : Completed(integrity.sched, i)

\* The mapped variables by shorter names.
Inputs == IF frozen > 0 THEN manifest ELSE None
Entries == [i \in Ordinals |-> Entry(i)]

\* The ledger's definitions under these names.
LEMMA LedgerDefinitions ==
    /\ Ledger!ledger = <<frozen, Inputs, Entries, Sealed>>
    /\ Ledger!Init <=>
          /\ frozen = 0 /\ Inputs = None
          /\ Entries = [i \in Ordinals |-> None] /\ Sealed = FALSE
    /\ \A n : Ledger!Freeze(n) <=>
          /\ frozen = 0 /\ frozen' = n
          /\ Inputs' \in [config : Configs, client : Binaries]
          /\ Entries' = Entries /\ Sealed' = Sealed
    /\ \A i : Ledger!Enter(i) <=>
          /\ i <= frozen /\ Entries[i] = None
          /\ \A j \in 1..(i - 1) : Entries[j] # None
          /\ \E e \in [ord : {i}, session : 0..MaxResumes,
                       config : {Inputs.config}, binary : {Inputs.client},
                       backend : Backends,
                       shaping : [{"client", "server"} -> {Profile(i)}],
                       lines : {Attempts}] :
                Entries' = [Entries EXCEPT ![i] = e]
          /\ frozen' = frozen /\ Inputs' = Inputs /\ Sealed' = Sealed
    /\ Ledger!Seal <=>
          /\ frozen > 0 /\ \A i \in 1..frozen : Entries[i] # None
          /\ Sealed' = TRUE
          /\ frozen' = frozen /\ Inputs' = Inputs /\ Entries' = Entries
  BY DEF Ledger!ledger, Ledger!Init, Ledger!Freeze, Ledger!Enter, Ledger!Seal,
         Ledger!Acceptable, Ledger!Profile, Profile, Ledger!Cell, Cell,
         Ledger!Ordinals, Ordinals, Entry, Entries, Inputs, Sealed

\* An empty directory is an empty ledger.
LEMMA InitLedger == Init => Ledger!Init
  <1> SUFFICES ASSUME Init PROVE Ledger!Init
    OBVIOUS
  <1>1. \A i \in Ordinals : Entry(i) = None
    BY DEF Init, Entry, NewRows, Completed
  <1>2. frozen = 0 /\ Sealed = FALSE
    BY DEF Init, Sealed
  <1> QED
    BY <1>1, <1>2, LedgerDefinitions DEF Init, Entries, Inputs

\* The other files of the directory: the manifest is not touched once the plan
\* is frozen, and an integrity file is written of the files as they are.
LEMMA FilesChange ==
    ASSUME ControlInv, [Next]_vars
    PROVE  /\ frozen > 0 => UNCHANGED manifest
           /\ \/ UNCHANGED integrity
              \/ integrity' = Covered /\ UNCHANGED <<frozen, sched, raw>>
  <1>1. frozen \in Nat
    BY ControlTypes DEF ControlInv
  <1> QED
    BY <1>1
    DEF ControlInv, NothingBeforeFreeze,
        Next, RunnerStep, ClientStep, Fault, Operator, vars, directory,
        StartFresh, FreshRefused, WriteSnapshot, WriteManifest, FreezeSchedule,
        Resume, ResumeFrom, ResumeRefused, SkipCompleted, BeginCell, StartCell,
        PersistResult, SaveInterrupt, ApplyNetem, VerifyNetem,
        LabFails, OpenPartial, PartialExists, PublishRaw, RecordResult,
        RecordAs, WriteIntegrity, FailRun, SealRun, LeaveLoop, Interrupt,
        InterruptUnrecorded, InterruptIntegrity, Crash, ClientAttempt,
        ClientFinishes, ClientDies, EditConfig, Rebuild, Reshape

\* An entry that has been made is never revised.
LEMMA EntriesStay ==
    ASSUME LedgerInv, [Next]_vars, NEW i \in Ordinals, Completed(sched, i)
    PROVE  Entry(i) # None /\ Entry(i)' = Entry(i)
  <1>1. raw[Key(i)] # None
    BY DEF LedgerInv, EvidenceInv, RecordedEvidence
  <1>2. raw'[Key(i)] = raw[Key(i)]
    BY <1>1, StepKeepsRaw, KeysAndProfiles DEF LedgerInv
  <1>3. Completed(sched', i)
    BY RowsChange DEF LedgerInv, EvidenceInv
  <1> QED
    BY <1>1, <1>2, <1>3 DEF Entry

\* What has been recorded of a completed cell is acceptable.
LEMMA EntriesAreAcceptable ==
    ASSUME EditsWhileRunning = FALSE, WritesMayFail = FALSE,
           LedgerInv', NEW i \in Ordinals, Completed(sched', i)
    PROVE  Entry(i)' \in [ord : {i}, session : 0..MaxResumes,
                          config : {manifest'.config},
                          binary : {manifest'.client},
                          backend : Backends,
                          shaping : [{"client", "server"} -> {Profile(i)}],
                          lines : {Attempts}]
  <1> DEFINE e == raw'[Key(i)]
  <1>1. e \in Evidence /\ e # None
    BY KeysAndProfiles
    DEF LedgerInv, EvidenceInv, ControlInv, TypeInv, TypeOK, DirectoryTypeOK,
        RecordedEvidence
  <1>2. /\ e.ord = i /\ e.lines = Attempts
        /\ \A side \in Sides : e.shaping[side] = Profile(i)
    BY DEF LedgerInv, EvidenceInv, RecordedEvidence, Fits, Whole
  <1>3. e.config = manifest'.config /\ e.binary = manifest'.client
    BY <1>1, KeysAndProfiles
    DEF LedgerInv, HistoryInv, InputsInv, WithFrozenInputs
  <1>4. Entry(i)' = e
    BY DEF Entry
  <1> HIDE DEF e
  <1>5. e.shaping \in [{"client", "server"} -> {Profile(i)}]
    <2>1. e.shaping \in [Sides -> Shapes]
      BY <1>1 DEF Evidence
    <2> QED
      BY <1>2, <2>1 DEF Sides
  <1> QED
    BY <1>1, <1>2, <1>3, <1>4, <1>5 DEF Evidence

\* An integrity file is a file.
LEMMA CoveredExists == TypeInv => Covered # None
  BY OrchestratorAssumption
  DEF Covered, TypeInv, TypeOK, DirectoryTypeOK

\* A step that changes none of the mapped variables.
LEMMA LedgerStutters ==
    ASSUME UNCHANGED <<frozen, Inputs, Entries, Sealed>>
    PROVE  UNCHANGED Ledger!ledger
  BY DEF Ledger!ledger, Ledger!Ordinals, Ordinals, Entry, Entries, Inputs, Sealed

\* Every step of the run is a step of the ledger or a stutter.
LEMMA StepLedger ==
    ASSUME DistinctKeys, "container" \notin Backends,
           EditsWhileRunning = FALSE, WritesMayFail = FALSE,
           LedgerInv, LedgerInv', [Next]_vars
    PROVE  [Ledger!Next]_(Ledger!ledger)
  <1>C. ControlInv /\ SessionInv
    BY DEF LedgerInv, HistoryInv, SessionInv
  <1>N. /\ frozen \in Nat /\ 1..frozen \subseteq Ordinals
        /\ Ordinals \subseteq Nat \ {0}
        /\ \A i \in Ordinals : 1..(i - 1) \subseteq Ordinals
    BY <1>C, SessionFacts
  <1>1. ASSUME NEW n \in Ordinals, FreezeSchedule(n)
        PROVE  Ledger!Freeze(n)
    <2>1. /\ frozen = 0 /\ frozen' = n /\ n > 0
          /\ manifest' = manifest /\ integrity' = integrity
          /\ raw' = raw
      BY <1>1, <1>C, <1>N, SessionFacts DEF FreezeSchedule
    <2>2. Inputs' \in [config : Configs, client : Binaries]
      <3>1. manifest # None
        BY <1>1 DEF FreezeSchedule, LedgerInv, HistoryInv, InputsInv
      <3>2. manifest \in Manifests
        BY <1>C, <3>1 DEF ControlInv, TypeInv, TypeOK, DirectoryTypeOK
      <3> QED
        BY <2>1, <3>2 DEF Manifests, Inputs
    <2>3. Entries' = Entries
      <3>1. \A i \in Ordinals : ~Completed(sched, i) /\ ~Completed(sched', i)
        BY <1>1, <1>C, <2>1, SessionFacts, RowsChange
        DEF FreezeSchedule
      <3> QED
        BY <3>1 DEF Entries, Entry
    <2>4. Sealed' = Sealed
      BY <2>1, <1>C DEF SessionInv, SealInv, Sealed
    <2> QED
      BY <2>1, <2>2, <2>3, <2>4, LedgerDefinitions
  <1>S. CASE UNCHANGED frozen
    <2>1. Inputs' = Inputs
      BY <1>S, <1>C, <1>N, FilesChange DEF Inputs
    <2>2. CASE \E i \in Ordinals : ~Completed(sched, i) /\ Completed(sched', i)
      <3>1. PICK c \in Ordinals :
               /\ c = ord /\ pc = "persist" /\ PersistResult
               /\ ~Completed(sched, c) /\ Completed(sched', c)
               /\ \A i \in Ordinals : i # c =>
                     (Completed(sched', i) <=> Completed(sched, i))
        BY <2>2, <1>C, RowsChange
      <3>2. /\ c <= frozen /\ frozen > 0
            /\ \A j \in 1..(c - 1) : Completed(sched, j)
        BY <3>1, <1>C, SessionFacts
        DEF SessionInv, OrderInv, InTry, InCell
      <3>3. Entries[c] = None /\ \A j \in 1..(c - 1) : Entries[j] # None
        BY <3>1, <3>2, <1>N, EntriesStay DEF Entries, Entry
      <3>4. Entry(c)' \in [ord : {c}, session : 0..MaxResumes,
                 config : {Inputs.config}, binary : {Inputs.client},
                 backend : Backends,
                 shaping : [{"client", "server"} -> {Profile(c)}],
                 lines : {Attempts}]
        <4>1. manifest' = manifest
          BY <1>C, <3>2, FilesChange
        <4> QED
          BY <3>1, <3>2, <4>1, EntriesAreAcceptable DEF Inputs
      <3>5. Entries' = [Entries EXCEPT ![c] = Entry(c)']
        <4>1. \A i \in Ordinals : i # c => Entry(i)' = Entry(i)
          BY <3>1, EntriesStay DEF Entry
        <4>2. /\ Entries' = [i \in Ordinals |-> Entry(i)']
              /\ Entries = [i \in Ordinals |-> Entry(i)]
          BY DEF Entries
        <4> QED
          BY <4>1, <4>2
      <3>6. Sealed' = Sealed
        BY <1>S, <3>1 DEF PersistResult, Sealed
      <3>7. Ledger!Enter(c)
        BY <1>S, <2>1, <3>2, <3>3, <3>4, <3>5, <3>6, LedgerDefinitions
      <3> QED
        BY <3>7 DEF Ledger!Next, Ledger!Ordinals, Ordinals
    <2>3. CASE \A i \in Ordinals : Completed(sched', i) => Completed(sched, i)
      <3>1. Entries' = Entries
        <4>1. \A i \in Ordinals : Entry(i)' = Entry(i)
          BY <2>3, <1>C, EntriesStay, RowsChange DEF Entry
        <4> QED
          BY <4>1 DEF Entries
      <3>2. CASE UNCHANGED integrity
        <4>1. Sealed' = Sealed
          BY <1>S, <3>2 DEF Sealed
        <4> QED
          BY <1>S, <2>1, <3>1, <4>1, LedgerStutters
      <3>3. CASE integrity' = Covered /\ ~Sealed /\ Sealed'
        <4>1. \A i \in 1..frozen : Completed(sched, i)
          BY <1>S, <3>3, <1>C, FilesChange
          DEF Sealed, Covered, Completed
        <4>2. frozen > 0 /\ \A i \in 1..frozen : Entries[i] # None
          BY <1>S, <3>3, <4>1, <1>N, EntriesStay DEF Sealed, Entries
        <4>3. Ledger!Seal
          BY <1>S, <2>1, <3>1, <3>3, <4>2, LedgerDefinitions
        <4> QED
          BY <4>3 DEF Ledger!Next
      <3>4. CASE integrity' = Covered /\ Sealed
        <4>1. \A i \in 1..frozen : Completed(sched, i)
          BY <3>4, <1>C, <1>N DEF Sealed, SessionInv, SealInv
        <4>2. Sealed'
          BY <1>S, <3>4, <4>1, <1>C, CoveredExists
          DEF Sealed, Covered, Completed, ControlInv
        <4>3. Sealed' = Sealed
          BY <3>4, <4>2 DEF Sealed
        <4> QED
          BY <1>S, <2>1, <3>1, <4>3, LedgerStutters
      <3>5. CASE integrity' = Covered /\ ~Sealed /\ ~Sealed'
        <4>1. Sealed' = Sealed
          BY <3>5 DEF Sealed
        <4> QED
          BY <1>S, <2>1, <3>1, <4>1, LedgerStutters
      <3> QED
        BY <1>C, <3>2, <3>3, <3>4, <3>5, FilesChange
    <2> QED
      BY <2>2, <2>3
  <1> QED
    BY <1>1, <1>S, <1>C, FrozenStays DEF Ledger!Next, Ledger!Ordinals, Ordinals

\* Behind every interrupt, crash and resume the completed cells of a directory
\* grow in the planned order and are never revised, and an integrity file that
\* covers a complete run seals it for good: every step of the runner, of its
\* clients, of a fault and of the operator is a step of RunLedger or leaves the
\* ledger as it is.
THEOREM LedgerIsImplemented ==
    ASSUME DistinctKeys, "container" \notin Backends,
           EditsWhileRunning = FALSE, WritesMayFail = FALSE
    PROVE  Spec => ImplementsLedger
  <1>1. LedgerInv /\ LedgerInv' /\ [Next]_vars =>
           [Ledger!Next]_(Ledger!ledger)
    BY StepLedger
  <1>2. Spec => []LedgerInv
    BY EvidenceInvHolds, HistoryInvHolds, PTL DEF LedgerInv
  <1> QED
    BY <1>1, <1>2, InitLedger, PTL DEF Spec, ImplementsLedger, Ledger!Spec
=============================================================================

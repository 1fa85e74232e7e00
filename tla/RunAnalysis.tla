----------------------------- MODULE RunAnalysis -----------------------------
(***************************************************************************)
(* analysis/summarise.py reading a result directory while the runner of    *)
(* RunOrchestrator may still be at work on it.  The script takes no lock:  *)
(* it loads every file of raw/ and, after some computing, compares the     *)
(* directory with integrity.json and then what it loaded with the          *)
(* schedule.json of yet another moment.                                    *)
(***************************************************************************)
EXTENDS RunOrchestrator

VARIABLES
    observations,  \* the raw files as they were when they were loaded
    suspect,       \* an issue with integrity.json, None while not looked at
    report         \* the verdict of the last validation.json

\* No value is a value of its own.
ASSUME AnalysisAssumption ==
    /\ None \notin {"issues", "valid"} /\ None \notin BOOLEAN
    /\ None \notin [Keys -> Evidence \cup {None}]

analysis == <<observations, suspect, report>>
analysisVars == <<vars, analysis>>

\* load_observations: every raw/*.jsonl there is.  With no line to be found in
\* any of them it raises ValueError and the script ends.
LoadObservations ==
    /\ observations = None
    /\ \E k \in Keys : raw[k] # None /\ raw[k].lines > 0
    /\ observations' = raw
    /\ UNCHANGED <<vars, suspect, report>>

\* The rows counted for one (batch_id, cell_id).
Count(k) == IF observations[k] = None THEN 0 ELSE observations[k].lines

\* A file that integrity.json lists has changed or is gone; files that are new
\* since raise no issue, and without integrity.json nothing is compared.
IntegrityIssue ==
    /\ integrity # None
    /\ \/ integrity.sched # sched
       \/ integrity.resumes > resumes
       \/ \E k \in Keys : integrity.raw[k] \notin {None, raw[k]}
       \/ \E i \in Ordinals :
             integrity.interrupted[i] \notin {None, interrupted[i]}

CheckIntegrity ==
    /\ observations # None /\ suspect = None
    /\ suspect' = IntegrityIssue
    /\ UNCHANGED <<vars, observations, report>>

\* Mutant: the counts of completed cells are compared, nothing else is.
CountsOnly ==
    /\ frozen > 0 /\ snapshot # None
    /\ \E i \in 1..frozen : Completed(sched, i) /\ Count(Key(i)) # Attempts

\* The comparison needs schedule.json and the snapshot; without either of them
\* neither the counts nor the unfinished cells are looked at.
IncompleteIssue ==
    /\ frozen > 0 /\ snapshot # None
    /\ \E i \in 1..frozen :
          ~Completed(sched, i) \/ Count(Key(i)) # Attempts

\* The end of validate_dataset and validation.json.
Validate ==
    /\ suspect # None
    /\ report' = IF suspect \/ IncompleteIssue THEN "issues" ELSE "valid"
    /\ observations' = None /\ suspect' = None
    /\ UNCHANGED vars

AnalysisInit == Init /\ observations = None /\ suspect = None /\ report = None

AnalysisNext == \/ Next /\ UNCHANGED analysis
                \/ LoadObservations
                \/ CheckIntegrity
                \/ Validate

AnalysisSpec ==
    /\ AnalysisInit /\ [][AnalysisNext]_analysisVars
    /\ WF_analysisVars(RunnerStep /\ UNCHANGED analysis)
    /\ \A i \in Ordinals : WF_analysisVars(ClientStep(i) /\ UNCHANGED analysis)

-----------------------------------------------------------------------------
\* A report that calls a directory valid speaks of a finished experiment: every
\* frozen cell is completed and its raw file holds every attempt of that cell,
\* even when the analysis overlapped with the runner, or when a client exited
\* with success although the file system had dropped some of its lines.
ValidMeansComplete ==
    report = "valid" =>
        \A i \in 1..frozen :
            /\ Completed(sched, i)
            /\ raw[Key(i)] # None /\ raw[Key(i)].ord = i
            /\ raw[Key(i)].lines = Attempts

\* No false alarm: on a directory whose runner reported success and lost no
\* line to the file system, no step of an analysis that loaded all its raw files
\* raises an issue, however often the run was interrupted, failed and resumed.
FinishedRunIsValid ==
    [][/\ exit = "ok" /\ observations = raw
       /\ \A i \in 1..frozen : raw[Key(i)].lines = Attempts
       => /\ suspect = None => suspect' # TRUE
          /\ suspect = FALSE /\ observations' = None => report' = "valid"
      ]_analysisVars

\* The inductive invariant behind both, on top of those of the run: what was
\* loaded is still in raw/, and a verdict of "valid" stays true.
AnalysisInv ==
    /\ pc \in {"manifest", "freeze"} \/ frozen > 0 => snapshot # None
    /\ observations # None =>
          /\ frozen > 0
          /\ \A k \in Keys : observations[k] \in {raw[k], None}
    /\ suspect \in BOOLEAN \cup {None}
    /\ suspect # None => observations # None
    /\ report = "valid" =>
          /\ frozen > 0
          /\ \A i \in 1..frozen :
                Completed(sched, i) /\ raw[Key(i)].lines = Attempts

\* The session ends under the analysis as it does without it.
RunEnds == pc # "idle" ~> pc = "idle"
=============================================================================

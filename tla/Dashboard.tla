------------------------------ MODULE Dashboard ------------------------------
(***************************************************************************)
(* analysis/dashboard_server.py on one servable result directory: every    *)
(* request is a thread of its own, regenerates the analysis in a           *)
(* summarise.py subprocess if the evidence looks newer, loads the files of *)
(* analysis/ one by one and serves the page.  Nothing locks the directory, *)
(* and the runner may be resuming the experiment meanwhile.                *)
(*                                                                         *)
(* What a file of analysis/ was computed from is the number of writes the  *)
(* runner had made when its inputs were read.  Instead of time stamps the  *)
(* model keeps the one fact that is asked of them: whether an output is at *)
(* least as new as every watched source.                                   *)
(***************************************************************************)
EXTENDS Naturals, Sequences

CONSTANTS
    Threads,      \* bound: requests in progress at the same time
    MaxSessions,  \* bound: sessions of the runner while the server is up
    LiveRun,      \* TRUE: pages are requested while a session is at work
    Timeouts      \* TRUE: summarise.py may take longer than 120 seconds

ASSUME DashboardAssumption ==
    /\ Threads # {} /\ MaxSessions \in Nat
    /\ LiveRun \in BOOLEAN /\ Timeouts \in BOOLEAN

\* What a session that measures one cell writes.
Session == <<"schedule", "raw", "schedule", "integrity">>

\* The files of analysis/ in the order main of summarise.py writes them; the
\* other tables are written next to "summary".
Outputs == <<"batch_cell_summary", "validation", "confirmatory_analysis",
             "findings">>
ANALYSIS_OUTPUTS == {"batch_cell_summary", "validation",
                     "confirmatory_analysis"}

\* The order in which dashboard_data loads them.
Loads == <<"confirmatory_analysis", "validation", "batch_cell_summary",
           "findings">>
Files == {Outputs[i] : i \in DOMAIN Outputs}

VARIABLES
    written,  \* the writes of the runner so far
    kept,     \* raw/, schedule.json and the snapshot have not been cleaned up
    output,   \* the files of analysis/
    thread,   \* the requests
    page      \* what each request has loaded

vars == <<written, kept, output, thread, page>>

MaxWritten == MaxSessions * Len(Session)
Between == written % Len(Session) = 0
Readings == [raw : 0..MaxWritten, rest : 0..MaxWritten]
Contents == [seen : Readings, whole : BOOLEAN]
Blank == [seen |-> [raw |-> 0, rest |-> 0], whole |-> TRUE]
Step(t) == thread[t].pc
Idle == \A t \in Threads : Step(t) = "idle"

\* The runner's last write to a source, among its first n writes.
Last(sources, n) ==
    LET writes == {i \in 1..n :
                      Session[((i - 1) % Len(Session)) + 1] \in sources}
    IN  IF writes = {} THEN 0
        ELSE CHOOSE i \in writes : \A j \in writes : j <= i

\* An output computed from this reading is what summarise.py would compute of
\* the files as they are.
Fresh(seen) ==
    /\ Last({"raw"}, seen.raw) = Last({"raw"}, written)
    /\ Last({"schedule", "integrity"}, seen.rest)
          = Last({"schedule", "integrity"}, written)

\* The directory was analysed before the server started.
Init ==
    /\ written = 0 /\ kept = TRUE
    /\ output = [f \in Files |-> [file |-> Blank, newer |-> TRUE]]
    /\ thread = [t \in Threads |-> [pc |-> "idle", seen |-> Blank.seen,
                                    next |-> 1, notice |-> FALSE]]
    /\ page = [t \in Threads |-> [f \in Files |-> Blank]]
-----------------------------------------------------------------------------
(* The runner, and whoever cleans up after it.                             *)

Outdate == output' = [f \in Files |-> [output[f] EXCEPT !.newer = FALSE]]

\* schedule.json is watched, integrity.json is not.  The raw file is moved
\* into raw/ and keeps the time of the client's last write: an analysis made
\* since then stays newer.
RunnerWrites ==
    /\ written < MaxWritten /\ kept
    /\ LiveRun \/ Idle
    /\ written' = written + 1
    /\ LET source == Session[(written % Len(Session)) + 1]
       IN  \/ source \in {"schedule", "raw"} /\ Outdate
           \/ source \in {"integrity", "raw"} /\ UNCHANGED output
    /\ UNCHANGED <<kept, thread, page>>

\* The evidence is git-ignored and may be removed; the analysis stays.
CleanUp ==
    /\ kept /\ Between /\ Idle
    /\ kept' = FALSE
    /\ UNCHANGED <<written, output, thread, page>>
-----------------------------------------------------------------------------
(* A request.                                                              *)

\* Mutant: max instead of min over the outputs.
NewestIsStale == kept /\ \A f \in ANALYSIS_OUTPUTS : ~output[f].newer

\* analysis_needs_refresh: a source is newer than the oldest listed output.
NeedsRefresh == kept /\ \E f \in ANALYSIS_OUTPUTS : ~output[f].newer

GoTo(t, step) == thread' = [thread EXCEPT ![t].pc = step]

Request(t) ==
    /\ Step(t) = "idle"
    /\ LiveRun \/ Between
    /\ thread' = [thread EXCEPT
          ![t] = [pc |-> IF NeedsRefresh THEN "observe" ELSE "load",
                  seen |-> Blank.seen, next |-> 1, notice |-> FALSE]]
    /\ page' = [page EXCEPT ![t] = [f \in Files |-> Blank]]
    /\ UNCHANGED <<written, kept, output>>

\* The subprocess: load_observations, then the snapshot, integrity.json and
\* schedule.json.
Observe(t) ==
    /\ Step(t) = "observe" /\ kept
    /\ thread' = [thread EXCEPT ![t].pc = "validate", ![t].seen.raw = written]
    /\ UNCHANGED <<written, kept, output, page>>

ValidateDataset(t) ==
    /\ Step(t) = "validate"
    /\ thread' = [thread EXCEPT ![t].pc = "open", ![t].seen.rest = written]
    /\ UNCHANGED <<written, kept, output, page>>

\* open("w") and write_text empty the file before its text is there.
Truncate(t) ==
    /\ Step(t) = "open"
    /\ output' = [output EXCEPT ![Outputs[thread[t].next]] =
          [file |-> [seen |-> thread[t].seen, whole |-> FALSE], newer |-> TRUE]]
    /\ GoTo(t, "fill")
    /\ UNCHANGED <<written, kept, page>>

\* After the last file the process exits, with status 1 if the validation
\* found issues: that is a notice on the page too.
FillUpTo(t, last) ==
    /\ Step(t) = "fill"
    /\ output' = [output EXCEPT ![Outputs[thread[t].next]] =
          [file |-> [seen |-> thread[t].seen, whole |-> TRUE], newer |-> TRUE]]
    /\ IF thread[t].next < last
         THEN thread' = [thread EXCEPT ![t].pc = "open", ![t].next = @ + 1]
         ELSE \E issues \in BOOLEAN :
                thread' = [thread EXCEPT ![t].pc = "load", ![t].next = 1,
                                         ![t].notice = issues]
    /\ UNCHANGED <<written, kept, page>>

\* Mutant: one file too many.
FillsTooMany(t) == FillUpTo(t, Len(Outputs) + 1)

Fill(t) == FillUpTo(t, Len(Outputs))

GiveUp(t) == thread' = [thread EXCEPT ![t].pc = "load", ![t].next = 1,
                                      ![t].notice = TRUE]

\* The script raises before it writes: unreadable or missing observations.
SummariseRaises(t) ==
    /\ Step(t) \in {"observe", "validate"}
    /\ GiveUp(t)
    /\ UNCHANGED <<written, kept, output, page>>

\* Mutant: a refresh that took too long is tried again.
RefreshRetries(t) ==
    /\ Timeouts /\ Step(t) \in {"observe", "validate", "open", "fill"}
    /\ thread' = [thread EXCEPT ![t].pc = "observe", ![t].next = 1]
    /\ UNCHANGED <<written, kept, output, page>>

\* subprocess.run kills the script wherever it is.
RefreshTimesOut(t) ==
    /\ Timeouts /\ Step(t) \in {"observe", "validate", "open", "fill"}
    /\ GiveUp(t)
    /\ UNCHANGED <<written, kept, output, page>>

\* dashboard_data.  An emptied JSON file raises, which the handler turns into
\* an error page; an emptied table has no rows.
LoadStrict(t, strict) ==
    /\ Step(t) = "load"
    /\ LET f == Loads[thread[t].next] IN
          /\ page' = [page EXCEPT ![t][f] = output[f].file]
          /\ IF ~output[f].file.whole /\ f \in strict
               THEN GoTo(t, "error")
               ELSE IF thread[t].next = Len(Loads) THEN GoTo(t, "serve")
               ELSE thread' = [thread EXCEPT ![t].next = @ + 1]
    /\ UNCHANGED <<written, kept, output>>

\* Mutant: an emptied file is read like a missing one.
LoadsAnything(t) == LoadStrict(t, {})

Load(t) == LoadStrict(t, Files \ {"batch_cell_summary"})

Serve(t) ==
    /\ Step(t) \in {"serve", "error"}
    /\ thread' = [thread EXCEPT ![t].pc = "idle"]
    /\ UNCHANGED <<written, kept, output, page>>
-----------------------------------------------------------------------------
RequestStep(t) ==
    \/ Observe(t) \/ ValidateDataset(t) \/ Truncate(t) \/ Fill(t)
    \/ SummariseRaises(t) \/ Load(t) \/ Serve(t)

Next == \/ RunnerWrites \/ CleanUp
        \/ \E t \in Threads : Request(t) \/ RequestStep(t) \/ RefreshTimesOut(t)

\* A thread and its subprocess are scheduled; nobody has to ask for a page.
Spec == Init /\ [][Next]_vars /\ \A t \in Threads : WF_vars(RequestStep(t))
-----------------------------------------------------------------------------
TypeOK ==
    /\ written \in 0..MaxWritten /\ kept \in BOOLEAN
    /\ output \in [Files -> [file : Contents, newer : BOOLEAN]]
    /\ thread \in [Threads ->
          [pc : {"idle", "observe", "validate", "open", "fill", "load",
                 "serve", "error"},
           seen : Readings, next : DOMAIN Outputs, notice : BOOLEAN]]
    /\ page \in [Threads -> [Files -> Contents]]

\* "Refresh only when source evidence is newer than generated analysis" is
\* enough: when no session and no request is under way and the next request
\* would not refresh, what the listed outputs say is what summarise.py would say
\* of the evidence there is, whichever refreshes overlapped, raised or were
\* killed before.
StaleIsNoticed ==
    Between /\ Idle /\ kept /\ ~NeedsRefresh =>
        \A f \in ANALYSIS_OUTPUTS : output[f].file.whole
                                       => Fresh(output[f].file.seen)

\* A page without a notice shows the verdict and the contrasts of the current
\* evidence, also when another request was rewriting the files it loaded.
UnnoticedPageIsCurrent ==
    \A t \in Threads : Step(t) = "serve" /\ ~thread[t].notice /\ kept =>
        \A f \in {"validation", "confirmatory_analysis"} :
            page[t][f].whole /\ Fresh(page[t][f].seen)

\* Every request is answered: no request waits for another one's refresh.
RequestsEnd == \A t \in Threads : Step(t) # "idle" ~> Step(t) = "idle"
=============================================================================

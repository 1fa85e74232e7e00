--------------------------- MODULE RunOrchestrator ---------------------------
(***************************************************************************)
(* scripts/run-experiment.py working on one result directory: a fresh run, *)
(* the interrupts, failures and crashes that stop it, and the resumes that *)
(* take it up again.  One runner process at a time; the measuring client   *)
(* is a process of its own that can outlive the runner, and the operator   *)
(* may edit the configuration, rebuild the client or reshape the network   *)
(* between sessions.                                                       *)
(*                                                                         *)
(* A hash is modelled by the content it is taken of.  Time stamps, metrics *)
(* and messages are left out.                                              *)
(***************************************************************************)
EXTENDS ExperimentMatrix

CONSTANTS
    Configs,        \* versions of the config file that plan the same cells
    Binaries,       \* builds of tls_bench_client
    Backends,       \* the backends used: a subset of {"netns", "container"}
    Attempts,       \* execution.recorded_handshakes_per_cell
    MaxResumes,     \* bound: later resume events are counted as MaxResumes
    WritesMayFail,  \* TRUE: the file system may drop a line the client prints
    EditsWhileRunning, \* TRUE: the operator edits while a runner is active
    Unshaped,       \* an interface without netem
    None            \* no file, no value

Sides == {"client", "server"}
Shapes == Profiles \cup {Unshaped}

\* One raw file, complete or partial: what was measured, by whom, under what.
Evidence == [ord : Ordinals, session : 0..MaxResumes, config : Configs,
             binary : Binaries, backend : Backends,
             shaping : [Sides -> Shapes], lines : 0..Attempts]

States == {"pending", "running", "completed", "client_failed", "interrupted"}
Rows == [state : States, raw : Evidence \cup {None},
         partial : Evidence \cup {None}]
Manifests == [config : Configs, client : Binaries]

ASSUME OrchestratorAssumption ==
    /\ Backends \subseteq {"netns", "container"}
    /\ Attempts \in Nat \ {0} /\ MaxResumes \in Nat
    /\ WritesMayFail \in BOOLEAN /\ EditsWhileRunning \in BOOLEAN
    /\ None \notin Configs \cup Binaries \cup Manifests \cup Evidence
    /\ None \notin [sched : [Ordinals -> Rows], resumes : 0..MaxResumes,
                    raw : [Keys -> Evidence \cup {None}],
                    interrupted : [Ordinals -> Evidence \cup {None}]]

VARIABLES
    \* ---- the result directory -------------------------------------------
    made,         \* the directory and its raw/ exist
    snapshot,     \* config.snapshot.json
    manifest,     \* manifest.json: hashes of the config and of the client
    frozen,       \* number of rows in schedule.json, 0 while it is missing
    sched,        \* the rows of schedule.json on disk
    resumes,      \* number of events in resume.json
    raw,          \* raw/<stem>.jsonl by stem
    interrupted,  \* interrupted/<stem>__attempt-<ordinal>.jsonl by ordinal
    integrity,    \* integrity.json: what it vouches for
    \* ---- the runner process ---------------------------------------------
    pc,           \* what it does next, "idle" when there is no runner
    loaded,       \* the configuration it parsed
    backend,      \* the network backend of this session
    mem,          \* schedule_records, its copy of the rows
    ord,          \* the loop's ordinal
    exit,         \* how the last session ended
    \* ---- its surroundings -----------------------------------------------
    config,       \* the config file
    binary,       \* the client: of the checkout, and in the container image
    netem,        \* the shaping of each backend's two interfaces
    client        \* the client process started for each cell

directory == <<made, snapshot, manifest, frozen, sched, resumes, raw,
               interrupted, integrity>>
runner == <<pc, loaded, backend, mem, ord, exit>>
world == <<config, binary, netem, client>>
vars == <<made, snapshot, manifest, frozen, sched, resumes, raw, interrupted,
          integrity, pc, loaded, backend, mem, ord, exit, config, binary,
          netem, client>>

\* What integrity_manifest hashes.  The snapshot and the manifest are covered
\* too; they are written once, before any integrity file, and left out here.
Covered == [sched |-> sched, resumes |-> resumes, raw |-> raw,
            interrupted |-> interrupted]
Coverings == [sched : [Ordinals -> Rows], resumes : 0..MaxResumes,
              raw : [Keys -> Evidence \cup {None}],
              interrupted : [Ordinals -> Evidence \cup {None}]]

\* The steps of the loop body, where active_record is set.
InCell == {"netem_client", "netem_server", "verify", "open", "client",
           "record", "persist", "failed_integrity"}
\* The steps inside main's try block.
InTry == InCell \cup {"loop"}
InHandler == {"save_interrupt", "interrupt_integrity"}
Steps == InTry \cup InHandler
         \cup {"idle", "snapshot", "manifest", "freeze", "integrity"}
Outcomes == {"none", "ok", "interrupted", "failed", "died", "killed", "refused"}

NewRows == [i \in Ordinals |->
              [state |-> "pending", raw |-> None, partial |-> None]]
NotStarted == [status |-> "none", done |-> 0]
Completed(rows, i) == rows[i].state = "completed"

\* An image matters only where containers are used.
Places == {"host"} \cup (IF "container" \in Backends THEN {"image"} ELSE {})

\* sudo ip netns exec runs the client of the checkout; docker compose exec
\* runs the one baked into the image.
Runs(b) == binary[IF b = "container" THEN "image" ELSE "host"]

Init ==
    /\ made = FALSE /\ snapshot = None /\ manifest = None
    /\ frozen = 0 /\ sched = NewRows /\ resumes = 0
    /\ raw = [k \in Keys |-> None]
    /\ interrupted = [i \in Ordinals |-> None]
    /\ integrity = None
    /\ pc = "idle" /\ loaded \in Configs /\ backend \in Backends
    /\ mem = NewRows /\ ord = 1 /\ exit = "none"
    /\ config = loaded
    /\ binary \in [Places -> Binaries]
    /\ netem = [b \in Backends |-> [s \in Sides |-> Unshaped]]
    /\ client = [i \in Ordinals |-> NotStarted]

\* The process ends: nothing of its memory survives.
Stop(outcome) ==
    /\ pc' = "idle" /\ exit' = outcome
    /\ mem' = NewRows /\ ord' = 1
    /\ UNCHANGED <<loaded, backend>>

GoTo(step) == pc' = step /\ UNCHANGED <<loaded, backend, mem, ord, exit>>
-----------------------------------------------------------------------------
(* A fresh run: the directory, the snapshot, the manifest, the schedule.   *)

StartFresh(b) ==
    /\ pc = "idle" /\ ~made
    /\ made' = TRUE
    /\ pc' = "snapshot" /\ loaded' = config /\ backend' = b /\ exit' = "none"
    /\ UNCHANGED <<snapshot, manifest, frozen, sched, resumes, raw,
                   interrupted, integrity, mem, ord, world>>

\* raw_dir.mkdir(exist_ok=False) on a directory that is already there.
FreshRefused ==
    /\ pc = "idle" /\ made
    /\ Stop("died") /\ UNCHANGED <<directory, world>>

WriteSnapshot ==
    /\ pc = "snapshot"
    /\ snapshot' = loaded
    /\ GoTo("manifest")
    /\ UNCHANGED <<made, manifest, frozen, sched, resumes, raw, interrupted,
                   integrity, world>>

\* environment_manifest reads the config file again, and hashes args.client
\* whichever backend is in use.
WriteManifest ==
    /\ pc = "manifest"
    /\ manifest' = [config |-> config, client |-> binary["host"]]
    /\ GoTo("freeze")
    /\ UNCHANGED <<made, snapshot, frozen, sched, resumes, raw, interrupted,
                   integrity, world>>

\* The whole plan, or with --max-cells its first n cells.
FreezeSchedule(n) ==
    /\ pc = "freeze"
    /\ frozen' = n /\ sched' = mem
    /\ GoTo("loop")
    /\ UNCHANGED <<made, snapshot, manifest, resumes, raw, interrupted,
                   integrity, world>>
-----------------------------------------------------------------------------
(* A resume and its guards.                                                *)

\* Mutant: only a row left running counts as unfinished.
RunningHasRaw(rows, n) ==
    \E i \in 1..n : rows[i].state = "running" /\ raw[Key(i)] # None

\* A row that is not completed although its raw file exists.
HasOrphanRaw(rows, n) ==
    \E i \in 1..n : ~Completed(rows, i) /\ raw[Key(i)] # None

\* Mutant: a rebuilt client is let through.
ClientUnchecked(n) ==
    /\ frozen > 0 /\ manifest # None
    /\ manifest.config = config
    /\ n = frozen
    /\ ~HasOrphanRaw(sched, frozen)

ResumeAllowed(n) ==
    /\ frozen > 0 /\ manifest # None
    /\ manifest.config = config
    /\ manifest.client = binary["host"]
    /\ n = frozen
    /\ ~HasOrphanRaw(sched, frozen)

ResumeFrom(rows, n, b) ==
    /\ pc = "idle" /\ made
    /\ ResumeAllowed(n)
    /\ resumes' = IF resumes < MaxResumes THEN resumes + 1 ELSE MaxResumes
    /\ pc' = "loop" /\ loaded' = config /\ backend' = b
    /\ mem' = rows /\ ord' = 1 /\ exit' = "none"
    /\ UNCHANGED <<made, snapshot, manifest, frozen, sched, raw, interrupted,
                   integrity, world>>

\* Mutant: the loop goes over the regenerated rows, not over the frozen ones.
ForgetsProgress(n, b) == ResumeFrom(NewRows, n, b)

Resume(n, b) == ResumeFrom(sched, n, b)

ResumeRefused(n) ==
    /\ pc = "idle" /\ ~(made /\ ResumeAllowed(n))
    /\ Stop("refused") /\ UNCHANGED <<directory, world>>
-----------------------------------------------------------------------------
(* The loop over the frozen cells.                                         *)

\* Only a resumed session meets a completed row.
SkipCompleted ==
    /\ pc = "loop" /\ ord <= frozen /\ Completed(mem, ord)
    /\ ord' = ord + 1
    /\ UNCHANGED <<pc, loaded, backend, mem, exit, directory, world>>

StartCell ==
    /\ pc = "loop" /\ ord <= frozen
    /\ mem' = [mem EXCEPT ![ord].state = "running"]
    /\ sched' = mem'
    /\ pc' = "netem_client"
    /\ UNCHANGED <<made, snapshot, manifest, frozen, resumes, raw,
                   interrupted, integrity, loaded, backend, ord, exit, world>>

\* Mutant: a completed cell is measured again.
RerunsCompleted == StartCell

BeginCell == StartCell /\ ~Completed(mem, ord)

\* Mutant: only the client's egress is shaped.
ShapesClientOnly(side, from, to) ==
    /\ pc = from
    /\ netem' = IF side = "client"
                  THEN [netem EXCEPT ![backend][side] = Profile(ord)]
                  ELSE netem
    /\ GoTo(to)
    /\ UNCHANGED <<directory, config, binary, client>>

\* tc qdisc replace on the client's interface, then on the server's.
ApplyNetem(side, from, to) ==
    /\ pc = from
    /\ netem' = [netem EXCEPT ![backend][side] = Profile(ord)]
    /\ GoTo(to)
    /\ UNCHANGED <<directory, config, binary, client>>

\* tc qdisc show is recorded, never compared with what was asked for.
VerifyNetem == pc = "verify" /\ GoTo("open") /\ UNCHANGED <<directory, world>>

\* A tc command fails: check=True raises CalledProcessError, which nothing
\* catches.
LabFails ==
    /\ pc \in {"netem_client", "netem_server", "verify"}
    /\ Stop("died") /\ UNCHANGED <<directory, world>>

\* open("x") creates the partial file and Popen starts the client on it.
OpenPartial ==
    /\ pc = "open" /\ interrupted[ord] = None
    /\ interrupted' = [interrupted EXCEPT ![ord] =
          [ord |-> ord, session |-> resumes, config |-> loaded,
           binary |-> Runs(backend), backend |-> backend,
           shaping |-> netem[backend], lines |-> 0]]
    /\ client' = [client EXCEPT ![ord] = [status |-> "running", done |-> 0]]
    /\ GoTo("client")
    /\ UNCHANGED <<made, snapshot, manifest, frozen, sched, resumes, raw,
                   integrity, config, binary, netem>>

\* open("x") finds the file there: FileExistsError, which nothing catches.
PartialExists ==
    /\ pc = "open" /\ interrupted[ord] # None
    /\ Stop("died") /\ UNCHANGED <<directory, world>>

\* Mutant: the partial file is copied into raw/.
CopiesRaw ==
    /\ pc = "client" /\ client[ord].status \in {"ok", "failed"}
    /\ raw' = [raw EXCEPT ![Key(ord)] = interrupted[ord]]
    /\ GoTo("record")
    /\ UNCHANGED <<made, snapshot, manifest, frozen, sched, resumes,
                   interrupted, integrity, world>>

\* run_monitored sees the client gone; the partial file moves into raw/.
PublishRaw ==
    /\ pc = "client" /\ client[ord].status \in {"ok", "failed"}
    /\ raw' = [raw EXCEPT ![Key(ord)] = interrupted[ord]]
    /\ interrupted' = [interrupted EXCEPT ![ord] = None]
    /\ GoTo("record")
    /\ UNCHANGED <<made, snapshot, manifest, frozen, sched, resumes,
                   integrity, world>>

RecordAs(state, evidence) ==
    /\ pc = "record"
    /\ mem' = [mem EXCEPT ![ord].raw = evidence, ![ord].state = state]
    /\ pc' = "persist"
    /\ UNCHANGED <<directory, loaded, backend, ord, exit, world>>

ResultState ==
    IF client[ord].status = "ok" THEN "completed" ELSE "client_failed"

\* Mutant: the row takes over the client's own status.
RecordsStatus == RecordAs(client[ord].status, raw[Key(ord)])
\* Mutant: the file is hashed at its path of before the rename.
HashesOldPath == RecordAs(ResultState, interrupted[ord])
\* Mutant: the client's exit status is not looked at.
IgnoresExitStatus == RecordAs("completed", raw[Key(ord)])

RecordResult == RecordAs(ResultState, raw[Key(ord)])

PersistResult ==
    /\ pc = "persist"
    /\ sched' = mem
    /\ IF Completed(mem, ord)
         THEN pc' = "loop" /\ ord' = ord + 1
         ELSE pc' = "failed_integrity" /\ ord' = ord
    /\ UNCHANGED <<made, snapshot, manifest, frozen, resumes, raw,
                   interrupted, integrity, loaded, backend, mem, exit, world>>

\* Mutant: an integrity file that is there already is left alone.
KeepsIntegrity(from, outcome) ==
    /\ pc = from
    /\ integrity' = IF integrity = None THEN Covered ELSE integrity
    /\ Stop(outcome)
    /\ UNCHANGED <<made, snapshot, manifest, frozen, sched, resumes, raw,
                   interrupted, world>>

WriteIntegrity(from, outcome) ==
    /\ pc = from
    /\ integrity' = Covered
    /\ Stop(outcome)
    /\ UNCHANGED <<made, snapshot, manifest, frozen, sched, resumes, raw,
                   interrupted, world>>

FailRun == WriteIntegrity("failed_integrity", "failed")

\* Mutant: one ordinal too many.
LeavesLate ==
    /\ pc = "loop" /\ ord > frozen + 1
    /\ GoTo("integrity") /\ UNCHANGED <<directory, world>>

LeaveLoop ==
    /\ pc = "loop" /\ ord > frozen
    /\ GoTo("integrity") /\ UNCHANGED <<directory, world>>

SealRun == WriteIntegrity("integrity", "ok")
-----------------------------------------------------------------------------
(* KeyboardInterrupt and what cannot be caught.                            *)

\* active_partial names the file between its assignment and the rename.
PartialSeen == pc \in {"open", "client"} /\ interrupted[ord] # None

\* The handler with an active record that is not completed.
Interrupt ==
    /\ pc \in InCell /\ ~Completed(mem, ord)
    /\ mem' = [mem EXCEPT ![ord].state = "interrupted",
                          ![ord].partial = IF PartialSeen THEN interrupted[ord]
                                           ELSE @]
    /\ pc' = "save_interrupt"
    /\ UNCHANGED <<directory, loaded, backend, ord, exit, world>>

\* Between cells, or when the record in memory already says completed, the
\* handler writes nothing.
InterruptUnrecorded ==
    /\ \/ pc = "loop"
       \/ pc \in InCell /\ Completed(mem, ord)
    /\ Stop("interrupted") /\ UNCHANGED <<directory, world>>

SaveInterrupt ==
    /\ pc = "save_interrupt"
    /\ sched' = mem
    /\ GoTo("interrupt_integrity")
    /\ UNCHANGED <<made, snapshot, manifest, frozen, resumes, raw,
                   interrupted, integrity, world>>

InterruptIntegrity == WriteIntegrity("interrupt_integrity", "interrupted")

\* A kill, a power cut, an interrupt outside the try block.
Crash ==
    /\ pc # "idle"
    /\ Stop("killed") /\ UNCHANGED <<directory, world>>
-----------------------------------------------------------------------------
(* The client of cell i: it writes through its own descriptor, whether or  *)
(* not the runner that started it is still there.                          *)

ClientAttempt(i, written) ==
    /\ client[i].status = "running" /\ client[i].done < Attempts
    /\ written \/ WritesMayFail
    /\ client' = [client EXCEPT ![i].done = @ + 1]
    /\ interrupted' = IF written
                        THEN [interrupted EXCEPT ![i].lines = @ + 1]
                        ELSE interrupted
    /\ UNCHANGED <<made, snapshot, manifest, frozen, sched, resumes, raw,
                   integrity, runner, config, binary, netem>>

ClientFinishes(i) ==
    /\ client[i].status = "running" /\ client[i].done = Attempts
    /\ client' = [client EXCEPT ![i].status = "ok"]
    /\ UNCHANGED <<directory, runner, config, binary, netem>>

ClientDies(i) ==
    /\ client[i].status = "running"
    /\ client' = [client EXCEPT ![i].status = "failed"]
    /\ UNCHANGED <<directory, runner, config, binary, netem>>
-----------------------------------------------------------------------------
(* The operator.                                                           *)

MayEdit == pc = "idle" \/ EditsWhileRunning

EditConfig(c) ==
    /\ MayEdit /\ config' = c
    /\ UNCHANGED <<directory, runner, binary, netem, client>>

\* make, or docker compose build.
Rebuild(where, v) ==
    /\ MayEdit /\ binary' = [binary EXCEPT ![where] = v]
    /\ UNCHANGED <<directory, runner, config, netem, client>>

\* container-apply-netem.sh does one side at a time and may stop in between;
\* lab-up.sh and container-lab-up.sh leave both interfaces unshaped.
Reshape(b, side, shape) ==
    /\ MayEdit /\ netem' = [netem EXCEPT ![b][side] = shape]
    /\ UNCHANGED <<directory, runner, config, binary, client>>
-----------------------------------------------------------------------------
RunnerStep ==
    \/ WriteSnapshot \/ WriteManifest
    \/ \E n \in Ordinals : FreezeSchedule(n)
    \/ SkipCompleted \/ BeginCell
    \/ ApplyNetem("client", "netem_client", "netem_server")
    \/ ApplyNetem("server", "netem_server", "verify")
    \/ VerifyNetem \/ OpenPartial \/ PartialExists
    \/ PublishRaw \/ RecordResult \/ PersistResult \/ FailRun
    \/ LeaveLoop \/ SealRun
    \/ SaveInterrupt \/ InterruptIntegrity

ClientStep(i) == (\E written \in BOOLEAN : ClientAttempt(i, written))
                 \/ ClientFinishes(i)

Fault == \/ LabFails \/ Interrupt \/ InterruptUnrecorded \/ Crash
         \/ \E i \in Ordinals : ClientDies(i)

Operator ==
    \/ \E b \in Backends : StartFresh(b)
    \/ \E n \in Ordinals, b \in Backends : Resume(n, b)
    \/ FreshRefused
    \/ \E n \in Ordinals : ResumeRefused(n)
    \/ \E c \in Configs : EditConfig(c)
    \/ \E where \in Places, v \in Binaries : Rebuild(where, v)
    \/ \E b \in Backends, side \in Sides, shape \in Shapes :
          Reshape(b, side, shape)

Next == RunnerStep \/ (\E i \in Ordinals : ClientStep(i)) \/ Fault \/ Operator

Spec == Init /\ [][Next]_vars

\* The runner keeps stepping while it is scheduled, and every attempt of the
\* client ends within its timeout.  Nothing forces faults or the operator.
FairSpec == /\ Spec
            /\ WF_vars(RunnerStep)
            /\ \A i \in Ordinals : WF_vars(ClientStep(i))
-----------------------------------------------------------------------------
(* Safety.                                                                 *)

DirectoryTypeOK ==
    /\ made \in BOOLEAN
    /\ snapshot \in Configs \cup {None}
    /\ manifest \in Manifests \cup {None}
    /\ frozen \in Ordinals \cup {0}
    /\ sched \in [Ordinals -> Rows]
    /\ resumes \in 0..MaxResumes
    /\ raw \in [Keys -> Evidence \cup {None}]
    /\ interrupted \in [Ordinals -> Evidence \cup {None}]
    /\ integrity \in Coverings \cup {None}

RunnerTypeOK ==
    /\ pc \in Steps /\ exit \in Outcomes
    /\ loaded \in Configs /\ backend \in Backends
    /\ mem \in [Ordinals -> Rows]
    /\ ord \in 1..(Len(Planned) + 1)

Clients == [status : {"none", "running", "ok", "failed"}, done : 0..Attempts]

WorldTypeOK ==
    /\ config \in Configs
    /\ binary \in [Places -> Binaries]
    /\ netem \in [Backends -> [Sides -> Shapes]]
    /\ client \in [Ordinals -> Clients]

\* Every variable stays within its type: the row states of schedule.json,
\* well-formed evidence files, a known program point.
TypeOK == DirectoryTypeOK /\ RunnerTypeOK /\ WorldTypeOK

\* A row that schedule.json calls completed names the raw file of that very
\* cell by its hash: the rename, the hash and the persisted row agree across
\* interrupts, crashes and resumes.
EvidenceMatchesSchedule ==
    \A i \in Ordinals : Completed(sched, i) =>
        /\ raw[Key(i)] # None
        /\ raw[Key(i)] = sched[i].raw
        /\ raw[Key(i)].ord = i

\* The client of a completed cell ran with both directions shaped as that cell
\* asks, whatever earlier cells, failed tc commands or the operator had left.
MeasuredUnderCellProfile ==
    \A i \in Ordinals : Completed(sched, i) =>
        \A side \in Sides : raw[Key(i)].shaping[side] = Profile(i)

\* A completed cell has all its recorded attempts (while writes succeed): no
\* interrupted or failed client is ever promoted to completed.
CompletedIsWhole ==
    \A i \in Ordinals : Completed(sched, i) => raw[Key(i)].lines = Attempts

\* All raw files of a directory were measured with the configuration and the
\* client that its manifest froze, across any number of resumes.
MeasuredByFrozenInputs ==
    \A k \in Keys : raw[k] # None =>
        /\ manifest # None
        /\ raw[k].config = snapshot /\ snapshot = manifest.config
        /\ raw[k].binary = manifest.client

\* When the runner reports success or a failed client, integrity.json vouches
\* for the files as they are; success also means that every frozen row is
\* completed.
StoppedRunIsSealed ==
    /\ exit \in {"ok", "failed"} => integrity = Covered
    /\ exit = "ok" => \A i \in 1..frozen : Completed(sched, i)

\* "raw observations remain create-only": no step changes or removes a file
\* that is in raw/.
RawCreateOnly ==
    [][\A k \in Keys : raw[k] # None => raw'[k] = raw[k]]_vars

-----------------------------------------------------------------------------
(* What the directory promises.                                            *)

Ledger == INSTANCE RunLedger WITH
    planned <- frozen,
    inputs <- IF frozen > 0 THEN manifest ELSE None,
    evidence <- [i \in Ordinals |->
                    IF Completed(sched, i) THEN raw[Key(i)] ELSE None],
    sealed <- /\ integrity # None /\ frozen > 0
              /\ \A i \in 1..frozen : Completed(integrity.sched, i)

\* Behind every interrupt, crash and resume the completed cells of the
\* directory grow in the planned order and are never revised, and an integrity
\* file that covers a complete run seals it for good.
ImplementsLedger == Ledger!Spec

-----------------------------------------------------------------------------
(* Liveness.                                                               *)

\* Every session ends: the loop is finite and the client's timeouts bound
\* each cell, whatever fails on the way.
RunTerminates == pc # "idle" ~> pc = "idle"
\* The operator answers an interrupted run with --resume, again and again.
ResumingSpec ==
    FairSpec /\ SF_vars(\E n \in Ordinals, b \in Backends : Resume(n, b))

-----------------------------------------------------------------------------
(* What the documents say and the code does not do: each of these is       *)
(* violated, see README.md.                                                *)

\* "Interrupted; schedule and partial evidence were preserved.  Resume with
\* --output RESULT_DIRECTORY --resume": the message main prints when it is
\* interrupted, read as a promise that such a directory passes the guard on
\* unfinished cells with raw data.
InterruptedIsResumable ==
    exit = "interrupted" => ~HasOrphanRaw(sched, frozen)

\* The same message as a liveness property: when faults stop and the guard on
\* raw data is never what stands in the way, an interrupted run that the
\* operator keeps resuming completes.
ResumeRecovers ==
    (<>[][~Fault]_vars /\ []<>(pc = "idle" /\ ~HasOrphanRaw(sched, frozen)))
        => ((exit = "interrupted" /\ frozen > 0) ~> exit = "ok")

\* "Completed-cell JSONL files appear only in raw/.  Partial output remains in
\* interrupted/": what lies in raw/ between sessions has all its attempts.
PartialStaysOutOfRaw ==
    pc = "idle" => \A k \in Keys : raw[k] # None => raw[k].lines = Attempts
=============================================================================

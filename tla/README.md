# A TLA+ model of pqc-tls-benchmark

The benchmark measures TLS 1.3 handshakes with classical, post-quantum and hybrid
key exchange in an emulated network. What it sells is evidence: raw files whose
origin, completeness and hashes can be trusted after days of collection, with
interrupts and resumes in between. This project models the code that produces,
checks and shows that evidence, and asks what can go wrong on the way.

Paths below are relative to the repository (`src/` here stands for its root).

## 1. Inventory

| Part | State | Operations | Interacts with |
| --- | --- | --- | --- |
| Experiment matrix (`scripts/run-experiment.py` 25-101) | none | `load_config`, `cells_from_config`, `schedule` | feeds the orchestrator |
| Run orchestrator (`scripts/run-experiment.py` 104-519) | the result directory: `config.snapshot.json`, `manifest.json`, `schedule.json`, `resume.json`, `raw/`, `interrupted/`, `integrity.json`; in memory the schedule rows, `active_record`, `active_partial` | fresh run, resume with its guards, the loop over the cells, interrupt handler | `tc` on two interfaces, the client process, the operator |
| TLS client (`src/tls_bench_client.c`) | one socket, one `SSL`, byte counters, the loop index | connect, handshake, record, release | writes its records to the orchestrator's partial file |
| Dataset validation (`analysis/summarise.py` 45-64, 266-307, 797-857) | the rows it loaded | load, compare with `integrity.json`, then with `schedule.json` | reads the result directory, at any time |
| Statistics (`analysis/summarise.py` 32-42, 68-265, 310-795) | none | bootstrap, sign permutation, equivalence, Holm, findings | feeds `analysis/` |
| Dashboard server (`analysis/dashboard.py`, `analysis/dashboard_server.py`) | the files of `analysis/`, one thread per request, one subprocess per refresh | refresh decision, refresh, load, serve | runs `summarise.py`; shares the directory with the orchestrator |
| Namespace lab (`scripts/lab-up.sh`, `scripts/lab-down.sh`) | two namespaces, the veth pair, the server's process | up with a readiness loop and a handshake per group, down | everything that measures runs in it |
| Container lab (`scripts/container-*.sh`) | containers, a certificate volume | up, down, shape | the orchestrator's `docker exec` calls |
| Throughput workload (`scripts/run-throughput.py`) | its workers' outputs | fan out, wait for all, report | several clients in the client namespace |
| Calibration (`scripts/calibrate-network.py`, `scripts/calibrate-noise-floor.py`) | the ping's output; each batch's latencies | ping and check; run, split into arms, test | a ping, or one client after the other, in the client namespace |
| Dashboard supervisor (`.devcontainer/post-start.sh`) | a pid file, the server's pid | replace the old supervisor, start, restart, reload | the dashboard server |
| Microbenchmark, capture parser, installation scripts | none kept | straight-line scripts | |

What is hard, and where a test would hardly reach (the complete list, line by
line, is `hazards` in `PROJECT.json`):

* **Interrupts and crashes between two files.** A result is a rename, a hash, a
  row in memory and an atomic replacement of `schedule.json`; an interrupt may
  fall between any two of them, in a process whose handler looks at variables of
  the step it interrupted.
* **Long legal sequences.** Interrupt, resume, failing client, resume again: each
  session starts from whatever rows, raw files, partial files, integrity file and
  interface shaping earlier ones left.
* **Processes that outlive each other.** The client writes through its own
  descriptor and may go on after the runner is gone.
* **The operator.** Configuration, client build, image and shaping change between
  sessions; the resume guards have to notice what matters.
* **Readers without locks.** The analysis and the dashboard read a directory that
  a runner may be writing, file after file; requests overlap with each other.
* **Shell scripts without a clean-up.** `lab-up.sh` ends at the first command that
  fails and leaves what it has made; its server runs in the background and may
  arrive in the next lab; `lab-down.sh` takes the lab from under whatever measures.
* **Claims.** Failed and missing cells, ties, one batch, drawn signs: each sentence
  of `findings.json` has to be covered by the tests it is derived from.
* **One C function with four exits**, each with its own record and clean-up.

What makes each part correct: a completed row names its own whole evidence,
measured in its own network with the frozen inputs, and it never changes again
(orchestrator); one truthful record per attempt unless it cannot be written, nothing
left between connections, an end (client); "valid" means complete and a finished run is valid
(validation); stale analysis is noticed and a page without a notice is current
(dashboard); no sentence says more than its tests (findings); "ready" and
"stopped" are true, and a measurement that lost its lab says so (lab, throughput,
calibration).

## 2. Modules

| Module | Models | State |
| --- | --- | --- |
| `ExperimentMatrix` | the factorial design: settings, cells with `int(rtt)`, identifiers, a schedule as *any* permutation within each batch | constants only; RTTs are in half-milliseconds so that the truncation is there |
| `RunOrchestrator` | one result directory, one runner process at a time, its client processes, the operator | `directory` (files), `runner` (process), `world` (surroundings) |
| `RunLedger` | the abstract promise of a result directory: freeze once, enter whole evidence in order, never revise, seal when full | what `ImplementsLedger` maps the directory to |
| `RunOrchestratorInv` | the inductive invariants `EvidenceInv` (a row's evidence) and `HistoryInv` (a directory's sessions and inputs), in named parts | |
| `RunOrchestratorProofs` | theorems: types, evidence, create-only | |
| `RunHistoryProofs` | theorems: the seal, the frozen inputs, the refinement of `RunLedger` | |
| `RunAnalysis` | `summarise.py` reading the directory of `RunOrchestrator`, composed with it | `observations`, `suspect`, `report` |
| `RunAnalysisProofs` | theorems: what a verdict is worth during a run | |
| `TlsClient` | `tls_bench_client.c` | program point, loop, address, socket, `SSL`, counters, output |
| `TlsClientProofs` | the inductive invariant `ClientInv` and its theorems | |
| `Dashboard` | the server's requests on one result directory | outputs of the analysis, requests, pages |
| `DashboardProofs` | the inductive invariant `DashboardInv` and its theorems | |
| `Statistics` | the tests and the adjustment of `summarise.py` as operators, with the closed test as reference definition | constants only |
| `Findings` | `summarise.py` from the observations of any number of batches to the claims of `findings.json` | `batches`, then one variable per intermediate result, `stage` |
| `StatisticsProofs` | theorems about the tests and the adjustment, for any values | |
| `FindingsProofs` | the inductive invariant `StagesInv` and its theorems | |
| `Lab` | `lab-up.sh`, `lab-down.sh`, the servers they start and stop | `script`, the namespaces' names, the link, servers, where each process is |
| `LabWorkloads` | the three measuring scripts and their processes, composed with `Lab` | `task`, `job`, the link's shaping |
| `LabProofs` | theorems about both: labs, throughput, calibration, the noise floor's arms | |
| `MCRunOrchestrator`, `MCRunAnalysis`, `MCFindings`, `MCLab` | values of the constants for TLC | |

### How the model corresponds to the code

**Orchestrator.** A file is a variable: `None` while it is missing, otherwise what
a reader needs of its content. A hash is modelled by the content it is taken of,
so "the hash still matches" is equality. Evidence (a raw or partial file) is a
record of the cell it measures, the session, configuration, client build and
backend it was taken with, how both interfaces were shaped when its client
started, and its number of lines. `pc` names the next effect of the runner;
everything the code does to one file is one action, so an interrupt or a crash can
fall between any two effects and nowhere else:

| Code | Actions |
| --- | --- |
| 366-369 `mkdir`, snapshot, manifest | `StartFresh`, `FreshRefused`, `WriteSnapshot`, `WriteManifest` |
| 418-420 freeze, with `--max-cells` | `FreezeSchedule(n)` |
| 353-365, 389-415 guards and `resume.json` | `Resume`, `ResumeRefused`, `HasOrphanRaw` |
| 425-436 the loop, "running" | `SkipCompleted`, `BeginCell` |
| 437-444 `tc` for the client's side, for the server's, `show` | `ApplyNetem` (twice), `VerifyNetem`, `LabFails` |
| 470-476 `open("x")`, client, poll | `OpenPartial`, `PartialExists`, then `ClientAttempt` ... |
| 477 `replace` | `PublishRaw` |
| 479-486 hash and state in memory | `RecordResult` |
| 487-493, 488-490 | `PersistResult`, `FailRun` |
| 494-504 the handler | `Interrupt`, `InterruptUnrecorded`, `SaveInterrupt`, `InterruptIntegrity` |
| 506-511 | `LeaveLoop`, `SealRun` |
| a kill, a power cut, an exception nobody catches | `Crash`, and `Stop("died")` of the failing step |

The write of a provenance file is atomic in the code (`write_json`: temporary
file, `fsync`, `replace`) and one step here. A resume parses, checks and logs in
one step, because nothing it reads changes meanwhile unless the operator edits
while a runner is active. The two backends differ in which binary runs
(`Runs`), in which interfaces are shaped (`netem[backend]`) and in nothing else
the properties can tell.

**Analysis.** `LoadObservations`, `CheckIntegrity` and `Validate` are three reads
at three moments; the runner, the client, faults and the operator may act between
them. The two rows checks of `validate_dataset` that concern single records
(duplicates, latency and byte ranges) are not modelled. `IntegrityIssue` looks at the
files that `integrity.json` lists and at no other: a file that is new since raises no
issue there.

**Client.** One action per system call outcome that changes control. `wire` is
what crossed the socket BIO and exists only to state what `counts` should be. An
`unsigned` above `INT_MAX` wraps in `(int)opts->timeout_ms`; the widths are scaled
down (`IntMax = 7`). Nobody looks at what `printf` and `fflush` return (275): a record
whose write fails is lost, the client goes on and exits with 0 all the same. `output`
has the records that arrived whole and the history variable `lost` the attempts whose
record did not. A clock that cannot be read ends the process at once (`ClockFails`).

**Dashboard.** What an output file says is represented by *when* its inputs were
read, counted in writes of the runner: `seen.raw` for the observations,
`seen.rest` for `integrity.json` and `schedule.json`. `Fresh` says that reading
again would give the same. Modification times are only ever used to ask whether
some watched source is newer than some listed output, so each output carries that
answer (`newer`). A file of `analysis/` is truncated and then filled; a reader in
between sees it empty. Two writes that fall on the same tick of the file system's
clock are not modelled.

**Statistics and findings.** Latencies are even integers and a p-value is a number
of `Unit`s, a multiple of every number of sign vectors, so every median, mean
comparison and p-value is exact. A mean is represented by its sum: the code only
compares means of equally many values. The tolerance of 1e-12 in the code stands
for exact comparison of rounded means, which is what the model has. Beyond
`ExactLimit` values (16 in the code) the signs are those of `random.Random(0)`: a
constant, because the generator is created anew with the same seed for every test.
`Signings(n)`, the number of sign vectors, stands for `2**n`, and `Ordered(values, k)`
for the place *k* of the sorted list: both say what the code's sorting and
exponentiation give without computing it step by step, which is also what makes them
open to proof. A family of p-values (`Family`) is indexed by the place of its
contrasts in the order of all, with gaps where a pair was never measured.
The bootstrap is represented by what its interval *can* say: of zero, only what
signs of the values allow; of two groups' tail intervals, only what the ranges of
their latencies allow; that of a single batch is NaN, which overlaps with nothing.
`Summarise`, `Confirm`, `Adjust`, `AnalysePrimary` and `Report` are the calls of
`main`, in its order; prose is the choice between its alternatives (`Plain`).

**Lab.** A namespace's *name* refers to an instance, numbered by the lab-up that
created it: a process stays in its instance when the name is deleted, and a later
lab-up gives the name to another one. One action per command of the two scripts,
but for the six of `Configure`; every command may fail (`CommandFails`), a signal
may come between any two (`Interrupted`), and either leaves everything as it is. In
`lab-down.sh` three failures are not looked at, and the script goes on: that of
`ip netns list`, which stands in a condition (`DownMiss`: the namespace passes for one
that is not there), that of `ip netns pids` in a process substitution (an empty list),
and that of `kill` before `|| true` (any part of the list survives).
Each lab-up has its own pair: its ends are in the host, one in the client's instance
(`"split"`), or in both (`"joined"`); the pair goes with the instance that holds an
end, which lasts while it has its name or a process in it (`ClientThere`,
`ServerThere`). The server of lab-up *k* is a process: it enters the namespace that has
the name *when it gets there*, listens if the address exists and the port is free there, and may
die at any point. Who answers a client is found through the instance its client
instance was connected to (`Reached`).

| Code | Actions |
| --- | --- |
| `lab-up.sh` 28-38, 41-45 | `UpStart`, `UpRefused`, `AddClient`, `AddServer`, `AddLink`, `MoveClient`, `MoveServer` |
| `lab-up.sh` 46-51, 53-65 | `Configure`, `Launch`, then `ServerEnters`, `ServerListens`, `ServerDies` |
| `lab-up.sh` 67-97 | `Probe`, `Verify` |
| `lab-down.sh` 4-13, per namespace | `DownStart`, `DownSkip` or `DownMiss`, or `DownList`, `DownKill`, `DownDelete` |
| the processes of the measuring scripts | `CannotEnter`, `Enter`, `Attempt`, `Leave`, `Killed` |
| `run-throughput.py` 57-83 | `WorkersReturned`, `ThroughputReport`, `ReportThroughput` |
| `calibrate-noise-floor.py` 62-75, 107-122 | `BatchSucceeded`, `Split`, `NextBatch`, `NoiseFloorFails` |
| `calibrate-network.py` 14-39, 79-91 | `Parsed`, `Checks`, `Calibrated`, `ReportCalibration` |

## 3. Runs

`tlc -config X.cfg M` with the module and configuration listed in `PROJECT.json`.

| Run | Bounds | Shows |
| --- | --- | --- |
| `run_main` | 2 cells of 1 batch with different RTTs, 2 configurations, 2 client builds, 1 recorded attempt, network namespaces, operator acts between sessions | the safety of the orchestrator, its two inductive invariants, and that it implements `RunLedger` |
| `run_analysis` | 2 batches of 1 cell, lines may be lost | validation against a live runner; sessions end |
| `tls_client` | 1 warm-up, 2 attempts, 2 addresses, 2 chunks per connection | the client's records, resources and termination |
| `dashboard` | 2 requests at a time, 2 sessions that finish between requests, refreshes that raise or are killed | freshness of what is served, every request answered |
| `findings` | 3 groups, 1 RTT with and without loss, any sequence of up to 5 batches of 6 kinds, exact tests up to 4 values and 4 drawn signs for 5, significance below 1/2, 2 margins, 3 primary comparisons or none | the differences, the adjustment, and every claim against its tests |
| `lab` | 2 lab-ups, 3 calls of lab scripts in all, 2 probes, 2 groups, 2 clients of 2 handshakes, 2 batches of 2 attempts per arm, a ping of 2, one change of the shaping | what "ready", "stopped", a throughput report, a noise floor and an ok calibration mean; all scripts end |

Why these bounds are enough to be interesting: two cells are needed for evidence
to be filed under the wrong cell, for a network profile to be left over from the
cell before and for a completed cell to be met by a resume; two batches, for a
missing batch in the file name to matter; two builds and two configurations, for
a guard that forgets one. For the findings, the limit of the
exact test and the level are scaled together, so that 5 batches meet both kinds of
tests, p-values above, at and below the level, ties, and a floor that is too high;
the drawn signs are so few that one of them weighs more than the smallest exact p-value
(1/4 and 2/16), as in the code (1/20000 and 2/65536);
the kinds of batches differ in who is faster, by less and by more than a margin, in
failed and in missing cells; any number of batches is analysed, as while a run is
still going on. For the lab, two lab-ups are what it takes for a server, a
namespace or a link to be of another lab than the client, and three calls, for an
interrupted lab-down between them; two clients, for one to be killed and not the
other, two attempts per arm, for a change of the shaping at an odd and at an even
place. One lab script runs at a time, one measuring script is called in a behaviour,
when a lab is ready, and the shaping changes only while a script runs that could
tell. One attempt gives a complete file, an empty one, and
with `WritesMayFail` an empty one whose client exits with success. `MaxResumes`
only bounds the counter in `resume.json`; the number of sessions is unbounded.
Symmetry is used for configurations and builds, which are only compared, and only
in `run_main`, which checks no liveness. `CHECK_DEADLOCK` stays on everywhere:
the runner's operator, the exited client and analysis (`Exited`), the dashboard's
next request and an idle lab (`Rest`) always have a step.

Every property of a passing run has a mutant of the code that violates it
(`mutants` in `PROJECT.json`); the mutated operators stand next to the
definitions they vary, under "Mutant:".

### Runs that fail, and what they say about the code

| Run | Property | What happens |
| --- | --- | --- |
| `interrupt_race` | `InterruptedIsResumable` | an interrupt between line 477 and line 487 leaves an unfinished row with raw data; every later `--resume` refuses the directory the message has just offered for resuming |
| `resume_recovers` | `ResumeRecovers` | the partial file is named after the ordinal, not the attempt: the resumed cell's `open("x")` fails, and the row stays running or interrupted for ever, although no fault occurs and no guard objects |
| `client_failed` | `PartialStaysOutOfRaw` | the output of a failed client is renamed into `raw/` before its return code is looked at |
| `colliding_cells` | `RawCreateOnly` | RTTs of 20 and 20.5 ms are accepted and truncated to one identifier; the second cell's `replace` overwrites the first one's raw file |
| `container_client` | `MeasuredByFrozenInputs` | with `--backend container`, in a fresh session, the client whose hash the manifest freezes is the host's build and the one that measures is the image's |
| `dashboard_stale` | `StaleIsNoticed` | evidence that arrives while `summarise.py` computes is older than the outputs that miss it, and is never picked up; `integrity.json` is not watched |

`ResumeRecovers` is stated for the fair operator of `ResumingSpec`, who answers
every interrupt with a resume; its premise sets aside the defect of
`interrupt_race` and all faults after some moment. The last run uses the same
property as the passing `dashboard` run: the refresh decision is right for a
directory whose sessions are over when pages are requested and wrong for a live
one, which is what its constant `LiveRun` switches.

## 4. Fairness

* `RunOrchestrator!FairSpec`: weak fairness of the runner's own steps as a whole
  and of each client's steps. The code justifies it: the runner is a sequential
  process and every wait of the client is bounded (`TlsClient!Terminates` checks
  that for its own loop). Nothing forces a fault, an interrupt or the operator.
* `RunAnalysis!AnalysisSpec`: the same; the analysis itself need not take place.
* `TlsClient!Spec`: weak fairness of `Bounded`, the steps that need nothing but
  the process or one of its timeouts. Answers of the peer are not fair: the client
  must end without them.
* `LabWorkloads!Spec`: weak fairness of the lab script's own steps and of the
  measuring script with its processes, each as a whole: commands return, probes
  and attempts are counted, and clients have timeouts (`TlsClient!Terminates`).
  Nothing forces the server to enter, listen or answer, nor anybody to call or to
  interrupt a script.
* `Findings!Spec`: none; it has no liveness property.
* `Dashboard!Spec`: weak fairness of each request's thread, not of the arrival of
  requests, of the runner or of the 120-second timeout.

## 5. Proofs

Eight modules hold theorems. Each is proved by `tlapm M.tla` for all values of the
constants that satisfy the named assumptions of the modules it extends; TLC
evaluates those assumptions in every run. Every safety invariant and action property
that a passing run checks is stated by a theorem; the inductive invariants were
checked by TLC before they were proved. Hypotheses beyond the assumptions are in the
column "Needs": they are conditions on the experiment that the code does not enforce,
and where a run violates the property without one, it is named.

### The run (`RunOrchestratorProofs`, `RunHistoryProofs`)

| Theorem | Needs | Says |
| --- | --- | --- |
| `TypeCorrect` | | `Spec => []TypeOK` |
| `EvidenceInvHolds` | `DistinctKeys` | `Spec => []EvidenceInv` |
| `EvidenceMatches` | `DistinctKeys` | a completed row names, by hash, the raw file of its own cell |
| `MeasuredUnderProfile` | `DistinctKeys`, no edits while a runner is active | completed evidence was measured under its cell's profile, in both directions |
| `CompletedAreWhole` | `DistinctKeys`, no lost writes | a completed cell has all its attempts |
| `RawIsCreateOnly` | `DistinctKeys` (`colliding_cells`) | no step changes or removes a raw file |
| `DistinctFactorsGiveDistinctKeys` | factor lists without repetition after truncation | `DistinctKeys` |
| `SessionInvHolds` | | the order of the sessions, the one partial file, the seal |
| `StoppedIsSealed` | | after an end by itself `integrity.json` covers the files as they are, and after a success every row is completed |
| `InputsInvHolds`, `FrozenInputsMeasured` | no container backend (`container_client`), no edits while a runner is active | all raw files of a directory come from the frozen configuration and client |
| `HistoryInvHolds` | the same | `Spec => []HistoryInv` |
| `LedgerIsImplemented` | the same, `DistinctKeys`, no lost writes | `Spec => ImplementsLedger` |

*Types.* `TypeOK` is not inductive: that `ord` is the ordinal of a frozen row
inside a cell (`OrdInFrozen`) and that a running client has a file with no more
lines than attempts (`WritersHaveFiles`) are needed, for the `EXCEPT`s of the cell
loop and of `ClientAttempt`. `TypeInv` adds them.

*Evidence.* None of the safety properties is inductive either: what makes a
completed row right was established several steps before, in other variables.
`EvidenceInv` follows the one file that may become the active row's raw file:
the shaping applied so far (`NetemProgress`), the partial file and its client
(`PartialEvidence`), the published file before its row says so
(`PublishedEvidence`), the recorded file (`RecordedEvidence`). Around it,
`NothingBeforeFreeze` says a fresh directory is empty, `MemoryAgrees` that the
rows in memory are those on disk but for the active one about to be saved, and
`OnlyActiveIsUnrecorded` that while the runner works no unfinished row but the
active one has a raw file. This last one is what the guard of `--resume`
establishes and what makes `RawIsCreateOnly` true: `PublishRaw` finds its target
absent. It is also where `DistinctKeys` is needed.

*History.* `StoppedRunIsSealed` looks like the assignment of the last step and is
not: a client that a crash left behind may still be writing when a later session
ends. `OrderInv` (completed rows are a prefix of the schedule that the loop has
behind it) and `OnePartial` (a partial file is that of the first row that is not
completed) rule it out: such a file makes the resumed cell fail, so a session with
one cannot end by itself. `SealInv` carries the conclusion. `InputsInv` adds that
whatever is written while the runner is in a session is written with what the
manifest says, and that a resume compares before it goes on. All of this holds with
colliding cells and lost writes.

*Refinement.* `ImplementsLedger` is the abstract specification under a mapping that
only looks at the directory. `LedgerIsImplemented` rests on `EvidenceInv` and
`HistoryInv` in both states of a step: the freeze of the schedule is the ledger's
freeze, `PersistResult` of a completed row enters its evidence (it is the next one
by `OrderInv`), the integrity file of a complete run seals, and every other step of
the runner, of its clients, of faults and of the operator is a stutter, because it
leaves completed rows and their files alone.

### The analysis of a live run (`RunAnalysisProofs`)

| Theorem | Needs | Says |
| --- | --- | --- |
| `AnalysisInvHolds` | `DistinctKeys` | what was loaded and found stays true while the runner goes on |
| `ValidIsComplete` | `DistinctKeys` | "valid" speaks of a finished experiment with every attempt |
| `FinishedIsValid` | `DistinctKeys` | no step of an analysis of a finished run that lost no line raises an issue |

The analysis reads three times and the run goes on in between; the invariants of the
run are carried over (the analysis writes nothing), and what it has seen is stable:
raw files are create-only, completed rows stay completed, the number of rows is
frozen.

### The client (`TlsClientProofs`)

`ClientInvHolds`, `ClientTyped`, `AttemptsAreRecorded`, `LatencyIsOfHandshakes`,
`CountsAreExact`, `NothingIsLeaked` need no hypothesis: they hold for any number of
warm-ups, attempts, addresses and chunks, any timeout and any traffic. `ClientInv`
says at each step what is open (`HoldsInv`; after an early return that depends on
the phase the record names), what the record in the making says (`VerdictInv`), that
the counters agree with the socket (`CountInv`), how far the loops are
(`ProgressInv`) and what has been printed or lost (`RecordsInv`): an attempt that is
over is in exactly one of the two (`Accounted`). The four exits of
`run_handshake` meet in one clean-up, and which of its branches run is what
`HoldsInv` relates to `VerdictInv`.

### The dashboard (`DashboardProofs`)

| Theorem | Needs | Says |
| --- | --- | --- |
| `DashboardTyped` | | `Spec => []TypeOK`, under a live run too |
| `DashboardInvHolds` | no request during a session (`dashboard_stale`) | `Spec => []DashboardInv` |
| `StaleAnalysisIsNoticed` | the same | stale analysis is noticed, for any number of requests at a time |
| `UnnoticedPagesAreCurrent` | the same | a page without a notice is current and whole |

`OutputsInv`: what is newer than its sources was computed from all of them, because
the runner's first write outdates every output and nobody writes one before the
session is over. `RequestsInv`: a refresh leaves every file it has passed newer,
whatever other refreshes do, and a request without a notice has found all of them
so; a JSON file that another request has emptied at that moment raises, which makes an
error page of it, and what that request fills it with is as current.

### The statistics and the findings (`StatisticsProofs`, `FindingsProofs`)

| Theorem | Needs | Says |
| --- | --- | --- |
| `ExactTestsAreSound` | | an exact one-sided test rejects only values whose mean is on its side of zero |
| `WiderIsEasier` | | a wider margin has no larger equivalence p-value, also with drawn signs |
| `HolmClosed` | | Holm's adjustment is the closed test with Bonferroni's tests, for any family |
| `StagesInvHolds` | | every stage has computed what the loaded batches imply |
| `AnalysisTyped` | | `TypeOK`: reported contrasts were tested, adjusted p-values are between 0 and 1 |
| `DifferencesAgree` | the hybrid pair is among the compared ones | differences of three groups add up; both computations of the hybrid's cost agree |
| `EquivalenceHolds` | | equivalence by exact tests only within a margin the mean lies in |
| `WiderMargins` | | equivalence extends to wider margins, before and after the adjustment |
| `AdjustmentIsClosed` | | the adjusted values of every family are those of the closed test |
| `PrimaryIsExploratory` | | the primary contrast is the exploratory one of its pair and condition |
| `FormalConclusion` | | "formally supports" is only said of means within the narrowest margin |
| `FloorNote` | | when the floor of the exact test is said to be too high, nothing is significant |

They hold for any groups, conditions, latencies, margins and number of batches; the
only facts about the constants are that signs are signs, that p-values are exact in
`Unit`s and that 1/`Level` is at most a half.

*Tests.* A change of all signs maps the exact sign vectors onto themselves and a sum
to its opposite; so, if the total is not positive, at least half of the vectors give
a sum no smaller, and the test does not reject (`HalfOfSigns`). Equivalence asks both
sides of the values shifted by the margin, and a shift moves the total by as much for
each value (`TotalShifted`), so the mean is within it (`EquivalenceWithin`). For wider
margins the argument must not count, because drawn signs are not closed under
anything: what a sign vector takes from the total only grows with the shift
(`ShiftsApart`), so fewer vectors pass of the same ones, which is where the code's
fixed seed is used.

*Adjustment.* A contrast's p-value in the closed test is the largest over the
families it belongs to. Of all families the one that is not ranked before a
contrast *j* has the scaled p-value of *j* (`ScaledIsOfFamily`), and every family is
below that of its first member (`FamilyBelowScaled`); so the running maximum is the
largest (`HolmClosed`). That form gives the bounds of adjusted values and their
monotony (`HolmBounds`, `HolmMonotone`), which `TypeOK`, `WiderMarginsHold`,
`FormalConclusionHolds` and `FloorNoteIsRight` need.

*Stages.* `StagesInv` gives each variable as the function of `batches` that the stage
has computed, so that a claim can be followed back to the values of its contrast.

*Induction.* The library's induction theorems take an operator as a parameter, which
the provers here cannot instantiate. Sums and sequences of differences are recursive
functions, and what is shown of them for every length is shown through a *set* of
numbers: one that holds 0 and is closed under successors is all of them
(`Inductive`, from the library's well-foundedness of the numbers); sums of any
length, their negation, shift and difference are proved with it.

### The lab (`LabProofs`)

| Theorem | Says |
| --- | --- |
| `LabInvariant` | `LabInv`, the inductive invariant of the lab |
| `ReadyLabIsItsOwn` | a lab that is called ready was verified with its own server or with a late one |
| `StoppedLabIsGone` | a lab that is called stopped has left no namespace but one whose `ip netns list` failed |
| `LabTyped` | `TypeOK` |
| `ThroughputIsAccounted` | a throughput report counts what was asked for, all of it without worker errors |
| `CalibrationMeasures` | an ok calibration has measured the link |
| `ArmsAreBalanced` | the two arms of a noise-floor batch differ by at most one attempt per change of the shaping |

`LabInv` says why a server that answers is right. `InstancesInv`: from the moment
a lab-up has made both namespaces, both names refer to instances of its number, and
its client instance is connected to its server instance. `ServersInv`: a server
that has entered did so in an instance no older than its own lab-up, because a name
is only ever given to a newer one. So who answers in the pair of lab-up *n* is in
instance *n*, and is server *n* or an older one that came late, which is what
`VerifiedInv` collects over the groups. `PassedInv` says that a lab-down at its second
namespace is done with the first, or has missed it because its listing failed;
`StoppedMeansGone` follows from it at the second one. There is one lemma per
action, with one step per part of the invariant. `WorkInv` says of a worker that
ended well that it printed a row for each handshake; the count of a report's rows
then is that of a product of finite sets.

`ArmsBalanced` counts rows of one shaping and needs no induction: a row of that
shaping follows one of the other arm, or it begins a run of such rows. Mapping the
former to the row before shows that neither arm has more of them than the other and
the number of runs together (`ArmsTakeTurns`). That is all the arms promise: a change of
the link in the middle of a batch may still show as a difference of their medians
(`calibrate-noise-floor.py` 114-115), as with two attempts per arm and a change before
the fourth. `NoiseInv` adds that a client prints no more rows than it was asked for, so
that a batch that succeeded has all of them.

### Only model-checked

* All liveness (`RunEnds`, `ResumeRecovers`, `Terminates`, `RequestsEnd`,
  `ScriptsEnd`, `WorkloadsEnd`): fairness is out of the prover's reach.
* The note on the drawn signs of more than `ExactLimit` planned batches is not claimed
  to be right, and is not always: its floor is one draw of 20,000, which is above the
  smallest exact p-value of 16 batches (2 of 65,536). So with more than a thousand
  contrasts, before the other batches are there, the findings may say that nothing can
  be significant beside a contrast that is. `FloorNoteIsRight` with the note left out
  of its premise is violated in the instance of `findings`, whose constants have the
  same order.
* The correctness of a median as the middle of the sorted values: `Ordered` states
  it, and the proofs use no more of it than that it is a number.

## 6. Not modelled

`PROJECT.json` lists every part with its status. Left out of modelled parts:
`--dry-run` (writes nothing), time stamps, metrics and messages; the text of
records and pages; per-row checks of `validate_dataset`; the choice among several
result directories; the page that `dashboard.py` writes when it is run by hand.
In the statistics: percentiles, standard deviations, autocorrelation, the numbers a
bootstrap draws, the threshold counts, the hybrid's range and all wording; in the
lab, CPU pinning and certificates; in the calibration, the container's ping and the
tests on the arms' medians, which are those of `Statistics`. Left out altogether:
the container lab's scripts and the supervisor (calls of `docker` and of a process
manager), installation scripts, environment check, microbenchmark, capture parser
(one pass over the output of another program, no state).

What the code does and no property forbids, met while modelling it:

* the plain summary calls the hybrid "measurably slower" by the absolute value of
  its overhead, also when it is faster (`summarise.py` 705), and opens with the
  pre-registered condition although the overhead is taken over all of them (699);
* packet loss is blamed when no condition has any (736: worst and baseline are the
  same rows then);
* a primary comparison whose pair is not in alphabetical order selects no values,
  and the findings say that none is configured (366, 537);
* with one batch the tail intervals are NaN and a group-specific effect is claimed
  (635), and the bootstrap of one difference always excludes zero (510);
* `calibrate-network.py` with an expected RTT only is ok without a single reply (80);
* `run-throughput.py` exits with 0 when every handshake failed (83);
* `lab-down.sh` says that the lab is stopped, and exits with 0, when `ip netns list`
  fails and both namespaces are still there (5, 13);
* `tls_bench_client` exits with 0 when records could not be written (275);
* a threshold that `acceptance_thresholds_ms` lists twice doubles the Holm family of its
  margin (`summarise.py` 337-351), so that equivalence within it may be lost and kept
  within a narrower one: `Findings` assumes that none is (`Margins` is a set);
* `load_config` does not ask for `pause_between_cells_ms`: without it a session dies
  after its first cell (`run-experiment.py` 493), as in a crash at that point.

## 7. Plan

Done: the matrix, the orchestrator, its ledger, the analysis, the client, the
dashboard, the statistics and the findings, the namespace lab with the scripts that
measure in it; the proofs of all safety properties and of the refinement.

Next, in this order:

1. **Two runners** on one directory: resumes take no lock, which `hazards` lists
   without a property.
2. **Supervisor** (`post-start.sh`): its restart loop, in place of a question that is
   proved by now.
3. **Stronger theorems**: more state-level consequences of the closed test (the
   verdict of a single contrast against its family), and the resume guards as lemmas
   of their own.
4. **Container lab**, as far as it is more than calls of `docker`.

Liveness stays with TLC.

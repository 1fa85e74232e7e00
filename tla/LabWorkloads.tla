----------------------------- MODULE LabWorkloads -----------------------------
(***************************************************************************)
(* The scripts that measure in the namespace lab beside the experiment,    *)
(* composed with lab-up.sh and lab-down.sh in another terminal:            *)
(*   scripts/run-throughput.py          several clients at once            *)
(*   scripts/calibrate-noise-floor.py   one client per batch, in two arms  *)
(*   scripts/calibrate-network.py       a ping against expected values     *)
(* Nothing keeps the lab, or the shaping of its link, as it is meanwhile.  *)
(***************************************************************************)
EXTENDS Lab

CONSTANTS
    Attempts,      \* --handshakes-per-worker
    PerArm,        \* --attempts-per-arm
    Batches,       \* --batches
    Probes,        \* --count
    RttOf,         \* the round-trip time of each shaping of the link
    Expectations,  \* the expected rtt and loss calibrate-network is given
    RttTolerance, LossTolerance,
    MaxReshapes,   \* bound: changes of the shaping
    None

ASSUME WorkloadsAssumption ==
    /\ 1 \in Jobs /\ IsFiniteSet(Jobs)
    /\ {Attempts, PerArm, MaxReshapes} \subseteq Nat \ {0}
    /\ {0, 1} \subseteq DOMAIN RttOf
    /\ Batches \in Nat \ {0, 1} /\ Probes \in Nat \ {0, 1}
    /\ LossTolerance \in Nat
    /\ \A e \in Expectations : e.loss \in 0..100 \cup {None}

VARIABLES
    task,      \* the script that runs, its batch, what it expects
    job,       \* the processes it has started in the client namespace
    shape,     \* how the link is shaped
    reshapes,  \* changes of it so far
    reported   \* a script has come to its end

workVars == <<task, job, shape, reshapes, reported>>
vars == <<labVars, workVars>>

Off == [state |-> "off", rows |-> <<>>, exit |-> None]
Called(js) ==
    [j \in Jobs |-> IF j \in js THEN [Off EXCEPT !.state = "called"] ELSE Off]
NoTask == [kind |-> "none", batch |-> 0, expected |-> None]

Init ==
    /\ LabInit
    /\ task = NoTask
    /\ job = Called({}) /\ shape = 0 /\ reshapes = 0
    /\ reported = FALSE

\* tc in the hands of run-experiment.py, or of its operator.  Bound: only where
\* the script that runs can tell.
Reshape ==
    /\ task.kind \in {"noise", "ping"}
    /\ reshapes < MaxReshapes /\ reshapes' = reshapes + 1
    /\ shape' \in DOMAIN RttOf \ {shape}
    /\ UNCHANGED <<labVars, task, job, reported>>

\* Bound: one measuring script in a behaviour, called when a lab is ready.  By
\* the time it enters a namespace there need be none.
Begin(kind, js, expected) ==
    /\ task.kind = "none" /\ ~reported /\ script.said = "ready"
    /\ task' = [kind |-> kind, batch |-> 1, expected |-> expected]
    /\ job' = Called(js)
    /\ UNCHANGED <<labVars, shape, reshapes, reported>>

StartThroughput == Begin("throughput", Jobs, None)
StartNoiseFloor == Begin("noise", {1}, None)
StartCalibration == \E expected \in Expectations : Begin("ping", {1}, expected)

Finish ==
    /\ reported' = TRUE /\ task' = NoTask /\ job' = Called({})
    /\ UNCHANGED <<labVars, shape, reshapes>>
-----------------------------------------------------------------------------
(* sudo ip netns exec <client namespace> <tls_bench_client or ping>.       *)

Quota == [throughput |-> Attempts, noise |-> 2 * PerArm, ping |-> Probes][task.kind]

\* A ping needs the link to the server's instance, a handshake the server too.
CanSucceed(j) ==
    IF task.kind = "ping"
      THEN peer[homes[j]] # 0 /\ ServerThere(peer[homes[j]])
      ELSE Reached(homes[j]) # {}

Exit(j, status) ==
    /\ job' = [job EXCEPT ![j].state = "ended", ![j].exit = status]
    /\ UNCHANGED <<task, shape, reshapes, reported>>

\* There is no such namespace, or the program cannot be run: the status that
\* ping gives too, when nothing answers.
CannotEnter(j) ==
    /\ job[j].state = "called" /\ Exit(j, 1)
    /\ UNCHANGED labVars

Enter(j) ==
    /\ job[j].state = "called" /\ named["client"] # 0
    /\ homes' = [homes EXCEPT ![j] = named["client"]]
    /\ job' = [job EXCEPT ![j].state = "running"]
    /\ UNCHANGED <<script, counters, network, servers, task, shape, reshapes,
                   reported>>

Running(j) == job[j].state = "running" /\ homes[j] # 0

\* A row is printed and flushed whole, whatever becomes of the next one.
Attempt(j) ==
    /\ Running(j) /\ Len(job[j].rows) < Quota
    /\ \E ok \in BOOLEAN :
          /\ ok => CanSucceed(j)
          /\ job' = [job EXCEPT ![j].rows = Append(@, [ok |-> ok, shape |-> shape])]
    /\ UNCHANGED <<labVars, task, shape, reshapes, reported>>

Succeeded(rows) == {i \in DOMAIN rows : rows[i].ok}

\* The client's status does not tell whether its handshakes failed.
Leave(j) ==
    /\ Running(j) /\ Len(job[j].rows) = Quota
    /\ Exit(j, IF task.kind = "ping" /\ Succeeded(job[j].rows) = {} THEN 1 ELSE 0)
    /\ homes' = [homes EXCEPT ![j] = 0]
    /\ UNCHANGED <<script, counters, network, servers>>

\* lab-down has killed it: SIGTERM.
Killed(j) ==
    /\ job[j].state = "running" /\ homes[j] = 0 /\ Exit(j, 15)
    /\ UNCHANGED labVars
-----------------------------------------------------------------------------
(* run-throughput.py.                                                      *)

Rows == {r \in Jobs \X (1..Attempts) : r[2] \in DOMAIN job[r[1]].rows}

\* Mutant: a worker has failed if it printed nothing.
SilentWorkers == {j \in Jobs : job[j].exit # 0 /\ job[j].rows = <<>>}

FailedWorkers == {j \in Jobs : job[j].exit # 0}

\* All rows count, also those of a worker that failed, and failed handshakes
\* are no error.
ThroughputReport ==
    [requested |-> Cardinality(Jobs) * Attempts,
     observed |-> Cardinality(Rows),
     successes |-> Cardinality({r \in Rows : job[r[1]].rows[r[2]].ok}),
     errors |-> FailedWorkers]

\* executor.map returns when every worker has.
WorkersReturned == task.kind = "throughput" /\ \A j \in Jobs : job[j].state = "ended"
ReportThroughput == WorkersReturned /\ Finish
-----------------------------------------------------------------------------
(* calibrate-noise-floor.py.                                               *)

\* Mutant: the arms are the two halves of the batch.
Halves(rows) ==
    [a |-> SubSeq(rows, 1, PerArm), b |-> SubSeq(rows, PerArm + 1, 2 * PerArm)]

\* latencies[0::2] and latencies[1::2], of attempts that all succeeded.
Split(rows) ==
    [a |-> [i \in 1..PerArm |-> rows[2 * i - 1]],
     b |-> [i \in 1..PerArm |-> rows[2 * i]]]

BatchSucceeded ==
    job[1].exit = 0 /\ Cardinality(Succeeded(job[1].rows)) >= 2 * PerArm

NextBatch ==
    /\ task.kind = "noise" /\ job[1].state = "ended" /\ BatchSucceeded
    /\ IF task.batch = Batches THEN Finish
       ELSE /\ task' = [task EXCEPT !.batch = @ + 1] /\ job' = Called({1})
            /\ UNCHANGED <<labVars, shape, reshapes, reported>>

\* Mutant: the batch is tried again.
RetryBatch ==
    /\ task.kind = "noise" /\ job[1].state = "ended" /\ ~BatchSucceeded
    /\ job' = Called({1})
    /\ UNCHANGED <<labVars, task, shape, reshapes, reported>>

\* CalledProcessError, or RuntimeError for a single handshake that failed.
NoiseFloorFails ==
    /\ task.kind = "noise" /\ job[1].state = "ended" /\ ~BatchSucceeded
    /\ Finish
-----------------------------------------------------------------------------
(* calibrate-network.py.                                                   *)

\* Only a ping that comes to its end prints its statistics.
Parsed == Len(job[1].rows) = Quota /\ job[1].exit # 15
Percent(n) == (100 * n) \div Probes
LossPercent == 100 - Percent(Cardinality(Succeeded(job[1].rows)))
WithIn(value, expected, tolerance) == value - expected \in -tolerance..tolerance

\* Means of the replies are compared by their sums; shapes 0 and 1 are there.
RttWithin(expected) ==
    LET replies == Succeeded(job[1].rows)
        count == Cardinality(replies)
        slow == Cardinality({i \in replies : job[1].rows[i].shape = 1})
    IN  WithIn(slow * RttOf[1] + (count - slow) * RttOf[0],
               expected * count, RttTolerance * count)

Checks(expected) ==
    /\ job[1].exit \in {0, 1}
    /\ expected.rtt # None /\ Parsed /\ Succeeded(job[1].rows) # {} =>
          RttWithin(expected.rtt)
    /\ expected.loss # None /\ Parsed =>
          WithIn(LossPercent, expected.loss, LossTolerance)

\* Mutant: output that cannot be parsed is not an error of its own.
ChecksOnly(expected) == Checks(expected)

Calibrated(expected) == Checks(expected) /\ Parsed

PingReturned == task.kind = "ping" /\ job[1].state = "ended"
ReportCalibration == PingReturned /\ Finish
-----------------------------------------------------------------------------
JobStep(j) == CannotEnter(j) \/ Enter(j) \/ Attempt(j) \/ Leave(j) \/ Killed(j)
TaskStep == ReportThroughput \/ NextBatch \/ NoiseFloorFails \/ ReportCalibration
WorkStep == TaskStep \/ \E j \in Jobs : JobStep(j)

\* Nobody calls a script, whether one could be or not.
Rest == At("idle") /\ task.kind = "none" /\ UNCHANGED vars

Next ==
    \/ LabNext /\ UNCHANGED workVars
    \/ Reshape \/ StartThroughput \/ StartNoiseFloor \/ StartCalibration
    \/ WorkStep \/ Rest

\* Commands return and clients have time-outs; the server need not answer, and
\* nobody need call or interrupt a script.
Spec ==
    /\ Init /\ [][Next]_vars
    /\ WF_vars(ScriptStep /\ UNCHANGED workVars)
    /\ WF_vars(WorkStep)
-----------------------------------------------------------------------------
Row == [ok : BOOLEAN, shape : DOMAIN RttOf]

TypeOK ==
    /\ LabTypeOK
    /\ task.kind \in {"none", "throughput", "noise", "ping"}
    /\ task.batch \in 0..Batches /\ task.expected \in Expectations \cup {None}
    /\ job \in [Jobs -> [state : {"off", "called", "running", "ended"},
                         rows : Seq(Row), exit : {None, 0, 1, 15}]]
    /\ shape \in DOMAIN RttOf /\ reshapes \in 0..MaxReshapes
    /\ reported \in BOOLEAN

\* A throughput report without worker errors accounts for every handshake that
\* was asked for, although lab-down may have killed some of the clients half-way
\* and the rows they had printed are counted.
ThroughputAccounted ==
    WorkersReturned =>
        /\ ThroughputReport.successes <= ThroughputReport.observed
        /\ ThroughputReport.observed <= ThroughputReport.requested
        /\ ThroughputReport.errors = {} =>
              ThroughputReport.observed = ThroughputReport.requested

\* "Two interleaved arms": when the link is reshaped in the middle of a batch,
\* the arms still hold equally many attempts of each shaping, but for one at
\* each change.
ArmsBalanced ==
    task.kind = "noise" /\ job[1].state = "ended" /\ BatchSucceeded =>
        \A s \in DOMAIN RttOf :
            LET rows == job[1].rows
                arms == Split(rows)
                In(arm) == Cardinality({i \in DOMAIN arm : arm[i].shape = s})
                runs == {i \in DOMAIN rows :
                            /\ rows[i].shape = s
                            /\ i > 1 => rows[i - 1].shape # s}
            IN  /\ Len(arms.a) = PerArm /\ Len(arms.b) = PerArm
                /\ In(arms.a) - In(arms.b)
                      \in -Cardinality(runs)..Cardinality(runs)

\* An ok calibration has measured the link: the ping came to its end, and where
\* the expected loss leaves room for replies there were some to take the RTT
\* of.  Exit status 1 is no evidence: a missing namespace gives it as well.
CalibrationIsReal ==
    PingReturned /\ Calibrated(task.expected) =>
        /\ Len(job[1].rows) = Probes /\ job[1].exit # 15
        /\ task.expected.loss # None /\ task.expected.loss + LossTolerance < 100
              => Succeeded(job[1].rows) # {}

\* A measuring script ends, also when the lab is taken down under it or the
\* server never answers.
WorkloadsEnd == [](task.kind # "none" => <>(task.kind = "none"))
=============================================================================

-------------------------- MODULE RunOrchestratorInv --------------------------
(***************************************************************************)
(* The inductive invariant behind the safety properties of RunOrchestrator *)
(* in named parts.  TLC checks it on small instances (MCRunOrchestrator),  *)
(* RunOrchestratorProofs proves it for every value of the constants.       *)
(***************************************************************************)
EXTENDS RunOrchestrator

(* Type correctness needs two facts of the control flow.                   *)

\* Inside a cell the ordinal is that of a frozen row.
OrdInFrozen == pc \in InCell \cup InHandler => ord \in Ordinals /\ ord <= frozen

\* A running client has its file, whose lines are no more than its attempts.
WritersHaveFiles ==
    \A i \in Ordinals :
        /\ interrupted[i] # None => interrupted[i].lines <= client[i].done
        /\ client[i].status = "running" => interrupted[i] # None
        /\ pc = "client" /\ i = ord => interrupted[i] # None

TypeInv == TypeOK /\ OrdInFrozen /\ WritersHaveFiles

-----------------------------------------------------------------------------
(* The rows, on disk and in memory.                                        *)

\* Until the schedule is frozen there is nothing else in the directory.
NothingBeforeFreeze ==
    /\ ~made => pc = "idle"
    /\ ~made \/ pc \in {"snapshot", "manifest", "freeze"} => frozen = 0
    /\ pc \in {"idle", "snapshot", "manifest", "freeze"} => mem = NewRows
    /\ frozen = 0 => /\ sched = NewRows
                     /\ \A k \in Keys : raw[k] = None
                     /\ \A i \in Ordinals : interrupted[i] = None

\* The runner's rows are those on disk, but for the active one while a result
\* or an interrupt is about to be saved.
MemoryAgrees ==
    pc \in InTry \cup InHandler =>
        /\ \A i \in Ordinals : i # ord => mem[i] = sched[i]
        /\ pc \notin {"persist", "save_interrupt"} => mem = sched
        /\ pc = "save_interrupt" => mem[ord].state = "interrupted"

\* The active row is not completed on disk.
ActiveIsOpen == pc \in InCell \cup InHandler => ~Completed(sched, ord)

\* Together: what the runner knows of the schedule is what the disk says.
ControlInv == TypeInv /\ NothingBeforeFreeze /\ MemoryAgrees /\ ActiveIsOpen

-----------------------------------------------------------------------------
(* The evidence of a cell, wherever it is on its way into raw/.            *)

\* Evidence e belongs to cell i and was taken under its network profile.
Fits(e, i) ==
    /\ e.ord = i
    /\ EditsWhileRunning \/ \A side \in Sides : e.shaping[side] = Profile(i)

\* No recorded attempt is missing.
Whole(e) == WritesMayFail \/ e.lines = Attempts

\* While the runner is at work the only raw file of an unfinished row is the
\* one it has just published.
OnlyActiveIsUnrecorded ==
    pc \in InTry =>
        \A i \in 1..frozen :
            ~Completed(sched, i) /\ raw[Key(i)] # None
                => i = ord /\ pc \in {"record", "persist", "failed_integrity"}

\* The interfaces that have been shaped for the active cell.
NetemProgress ==
    EditsWhileRunning \/
        /\ pc \in {"netem_server", "verify", "open"} =>
              netem[backend]["client"] = Profile(ord)
        /\ pc \in {"verify", "open"} => netem[backend]["server"] = Profile(ord)

\* What the client process has written so far.
PartialEvidence ==
    \A i \in Ordinals :
        /\ interrupted[i] # None =>
              /\ interrupted[i].ord = i
              /\ Fits(interrupted[i], i)
              /\ WritesMayFail \/ interrupted[i].lines = client[i].done
        /\ client[i].status = "ok" => client[i].done = Attempts

\* What has been published and is about to be recorded.
PublishedEvidence ==
    /\ pc \in {"record", "persist"} =>
          /\ raw[Key(ord)] # None /\ Fits(raw[Key(ord)], ord)
          /\ client[ord].status \in {"ok", "failed"}
          /\ client[ord].status = "ok" => Whole(raw[Key(ord)])
    /\ pc = "persist" =>
          /\ mem[ord].raw = raw[Key(ord)]
          /\ Completed(mem, ord) => client[ord].status = "ok"

\* What schedule.json calls completed.
RecordedEvidence ==
    \A i \in Ordinals : Completed(sched, i) =>
        /\ raw[Key(i)] # None /\ raw[Key(i)] = sched[i].raw
        /\ Fits(raw[Key(i)], i) /\ Whole(raw[Key(i)])

\* Together: every completed row has its own, whole evidence, and every step
\* on the way there keeps it so.
EvidenceInv ==
    /\ ControlInv
    /\ OnlyActiveIsUnrecorded /\ NetemProgress
    /\ PartialEvidence /\ PublishedEvidence /\ RecordedEvidence
-----------------------------------------------------------------------------
(* The order of the sessions, needed to know that nothing is still being   *)
(* written when a session ends.  None of it depends on how the evidence    *)
(* was taken, nor on distinct keys.                                        *)

\* Completed rows are a prefix of the schedule, which the loop has behind it.
OrderInv ==
    /\ \A i \in Ordinals : Completed(sched, i) =>
          i <= frozen /\ \A j \in 1..(i - 1) : Completed(sched, j)
    /\ pc \in InTry \cup InHandler \cup {"integrity"} =>
          frozen > 0 /\ \A j \in 1..(ord - 1) : Completed(sched, j)
    /\ pc = "integrity" => ord > frozen
    /\ pc \in {"idle", "snapshot", "manifest", "freeze"} => ord = 1

\* A partial file is that of the first row that is not completed.
OnePartial ==
    \A i \in Ordinals : interrupted[i] # None =>
        /\ i <= frozen /\ ~Completed(sched, i)
        /\ \A j \in 1..(i - 1) : Completed(sched, j)
        /\ pc \in {"record", "persist", "failed_integrity"} => i # ord

\* integrity.json speaks of the directory of some earlier moment; after a run
\* that ended by itself there is no partial file and nothing has changed since.
SealInv ==
    /\ frozen = 0 => integrity = None
    /\ integrity # None =>
          \A i \in Ordinals : Completed(integrity.sched, i) => Completed(sched, i)
    /\ pc # "idle" => exit = "none"
    /\ exit \in {"ok", "failed"} =>
          integrity = Covered /\ \A i \in Ordinals : interrupted[i] = None
    /\ exit = "ok" => \A i \in 1..frozen : Completed(sched, i)

SessionInv == ControlInv /\ OrderInv /\ OnePartial /\ SealInv

-----------------------------------------------------------------------------
(* The frozen inputs, for network namespaces and an operator that leaves a *)
(* running session alone.                                                  *)

\* Evidence e was taken with the configuration and the client of the manifest.
WithFrozenInputs(e) == e.config = manifest.config /\ e.binary = manifest.client

InputsInv ==
    /\ pc # "idle" => config = loaded
    /\ pc = "manifest" => snapshot = loaded
    /\ pc = "freeze" \/ frozen > 0 => manifest # None /\ snapshot = manifest.config
    /\ pc \in InTry \cup {"freeze"} =>
          manifest.config = loaded /\ manifest.client = binary["host"]
    /\ \A i \in Ordinals : interrupted[i] # None => WithFrozenInputs(interrupted[i])
    /\ \A k \in Keys : raw[k] # None => frozen > 0 /\ WithFrozenInputs(raw[k])

\* Together: what a session leaves is sealed, in order and of the same inputs.
HistoryInv == SessionInv /\ InputsInv
=============================================================================

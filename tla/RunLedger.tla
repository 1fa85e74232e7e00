------------------------------ MODULE RunLedger ------------------------------
(***************************************************************************)
(* What a result directory promises to whoever analyses it, with no        *)
(* process, no interrupt and no intermediate file in sight: once the plan  *)
(* and the inputs are frozen, evidence is entered cell by cell in the      *)
(* planned order, each entry whole, measured under its own cell's network  *)
(* and with the frozen inputs, and no entry is ever touched again.  The    *)
(* ledger may be sealed once it is full.                                   *)
(***************************************************************************)
EXTENDS ExperimentMatrix

CONSTANTS Configs, Binaries, Backends, Attempts, MaxResumes, None

VARIABLES
    planned,   \* number of frozen cells, 0 before the plan is frozen
    inputs,    \* the frozen configuration and client
    evidence,  \* what has been entered for each cell
    sealed     \* the integrity file covers the full ledger

ledger == <<planned, inputs, evidence, sealed>>

\* The evidence that may be entered for cell i.
Acceptable(i) ==
    [ord : {i}, session : 0..MaxResumes, config : {inputs.config},
     binary : {inputs.client}, backend : Backends,
     shaping : [{"client", "server"} -> {Profile(i)}], lines : {Attempts}]

Init ==
    /\ planned = 0 /\ inputs = None
    /\ evidence = [i \in Ordinals |-> None]
    /\ sealed = FALSE

Freeze(n) ==
    /\ planned = 0 /\ planned' = n
    /\ inputs' \in [config : Configs, client : Binaries]
    /\ UNCHANGED <<evidence, sealed>>

Enter(i) ==
    /\ i <= planned /\ evidence[i] = None
    /\ \A j \in 1..(i - 1) : evidence[j] # None
    /\ \E e \in Acceptable(i) : evidence' = [evidence EXCEPT ![i] = e]
    /\ UNCHANGED <<planned, inputs, sealed>>

Seal ==
    /\ planned > 0 /\ \A i \in 1..planned : evidence[i] # None
    /\ sealed' = TRUE
    /\ UNCHANGED <<planned, inputs, evidence>>

Next == \/ \E i \in Ordinals : Freeze(i) \/ Enter(i)
        \/ Seal

Spec == Init /\ [][Next]_ledger
=============================================================================

-------------------------- MODULE MCRunOrchestrator --------------------------
(* Small experiments for TLC: one group, one loss, two RTTs of one batch.  *)
EXTENDS RunOrchestratorInv, TLC

\* 20 ms and 50 ms.
MCRtts == <<40, 100>>
\* 20 ms and 20.5 ms: load_config accepts both.
MCCollidingRtts == <<40, 41>>
MCLosses == <<0>>

Slot(b, r) == [batch |-> b, setting |-> [group |-> "g", rtt |-> r, loss |-> 1]]
\* The shuffle put the second RTT first.
MCPlanned == <<Slot(1, 2), Slot(1, 1)>>

\* Configurations and client builds are only ever compared for equality.
MCSymmetry == Permutations(Configs) \cup Permutations(Binaries)
=============================================================================

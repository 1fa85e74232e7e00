---------------------------- MODULE MCRunAnalysis ----------------------------
(* Two batches of one cell: the analysis may run at any point.             *)
EXTENDS RunAnalysis

MCRtts == <<40>>
MCLosses == <<0>>
Slot(b) == [batch |-> b, setting |-> [group |-> "g", rtt |-> 1, loss |-> 1]]
MCPlanned == <<Slot(1), Slot(2)>>
=============================================================================

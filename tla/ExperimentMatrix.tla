-------------------------- MODULE ExperimentMatrix --------------------------
(***************************************************************************)
(* The factorial design of an experiment: the cells a configuration        *)
(* describes, the identifier each one is filed under, and the randomised   *)
(* order in which the runner visits them.                                  *)
(*                                                                         *)
(* A configured RTT may be any non-negative number (load_config accepts    *)
(* ints and floats); it is written here in half-milliseconds so that the   *)
(* truncation int(rtt) of cells_from_config is integer division by two.    *)
(* Losses are numbers whose only relevant trait is equality.               *)
(***************************************************************************)
EXTENDS Naturals, FiniteSets, Sequences

CONSTANTS
    Groups,        \* the TLS groups, unique names
    RttHalfMs,     \* the list network.rtt_ms, each value in half-milliseconds
    LossPercent,   \* the list network.loss_percent_each_direction
    Batches,       \* execution.batches
    Planned        \* the order the seeded shuffle produced (see IsSchedule)

\* The checks of load_config that shape the matrix.  The two lists may hold
\* the same value twice: only the group names are required to be unique.
ConfigLoads ==
    /\ IsFiniteSet(Groups) /\ Groups # {}
    /\ RttHalfMs \in Seq(Nat) /\ RttHalfMs # <<>>
    /\ LossPercent \in Seq(Nat) /\ LossPercent # <<>>
    /\ Batches \in Nat \ {0}

ASSUME MatrixAssumption == ConfigLoads

\* One element of itertools.product(groups, rtt_ms, loss): a list position of
\* each factor, so that equal list entries still give two elements.
Settings == [group : Groups, rtt : DOMAIN RttHalfMs, loss : DOMAIN LossPercent]

\* The Cell built from one setting, with the RTT truncated to an int.  Its
\* identifier spells out exactly these three fields, hence the record is the
\* identifier.
Cell(s) == [group |-> s.group, rtt |-> RttHalfMs[s.rtt] \div 2,
            loss |-> LossPercent[s.loss]]

Ordinals == DOMAIN Planned

\* The schedule: batch after batch, each a permutation of all the settings.
IsSchedule(p) ==
    /\ p \in Seq([batch : 1..Batches, setting : Settings])
    /\ \A b \in 1..Batches, s \in Settings :
          \E i \in DOMAIN p : p[i] = [batch |-> b, setting |-> s]
    /\ \A i, j \in DOMAIN p :
          i < j => p[i] # p[j] /\ p[i].batch <= p[j].batch

ASSUME ScheduleAssumption == IsSchedule(Planned)

\* What the network must look like during scheduled cell i.
Profile(i) == [rtt |-> Cell(Planned[i].setting).rtt,
               loss |-> Cell(Planned[i].setting).loss]

\* Mutant: the batch is left out of the file name.
CellOnly(i) == [batch |-> 1, cell |-> Cell(Planned[i].setting)]

\* The stem of the raw file of scheduled cell i: batch id and cell id.
Key(i) == [batch |-> Planned[i].batch, cell |-> Cell(Planned[i].setting)]
Keys == {Key(i) : i \in Ordinals}
Profiles == {Profile(i) : i \in Ordinals}

\* No two scheduled cells share a file name.  Not guaranteed by load_config.
DistinctKeys == \A i, j \in Ordinals : Key(i) = Key(j) => i = j
=============================================================================

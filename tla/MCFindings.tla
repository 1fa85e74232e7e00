------------------------------ MODULE MCFindings ------------------------------
(* Three groups, one RTT with and without loss, six kinds of batches.      *)
EXTENDS Findings

MCGroups == <<"MLKEM768", "X25519", "X25519MLKEM768">>
Clean == [rtt |-> 1, loss |-> 0]
Lossy == [rtt |-> 1, loss |-> 1]
MCGrid == <<Clean, Lossy>>

Row(m, x, h) == [c \in {Clean}, g \in {"MLKEM768", "X25519", "X25519MLKEM768"} |->
    CASE g = "MLKEM768" -> m [] g = "X25519" -> x [] OTHER -> h]
Batch(clean, lossy) ==
    [cell \in Cells |-> IF cell[1] = Clean THEN clean[cell[1], cell[2]]
                                           ELSE lossy[Clean, cell[2]]]
Unmeasured == Row(<<>>, <<>>, <<>>)

MCBatchOutcomes ==
    {\* the usual cost, and a tail where packets are lost
     Batch(Row(<<40>>, <<40>>, <<42>>), Row(<<40, 80>>, <<40>>, <<42, 80>>)),
     \* the hybrid is faster
     Batch(Row(<<42>>, <<40, 44, 40>>, <<38>>), Unmeasured),
     \* the hybrid is much slower
     Batch(Row(<<40>>, <<40>>, <<60>>), Unmeasured),
     \* the hybrid fails
     Batch(Row(<<42>>, <<Failed, 40>>, <<Failed>>), Row(<<>>, <<40>>, <<Failed>>)),
     \* no difference
     Batch(Row(<<40>>, <<40>>, <<40>>), Unmeasured),
     \* a group that has not been measured yet
     Batch(Row(<<>>, <<40>>, <<42, 44>>), Unmeasured)}

MCPrimaryOptions ==
    {None,
     [condition |-> Clean, pair |-> <<"X25519", "X25519MLKEM768">>],
     [condition |-> Clean, pair |-> <<"X25519MLKEM768", "X25519">>],
     [condition |-> Lossy, pair |-> <<"MLKEM768", "X25519">>]}

\* Signs drawn for five values, the observed ones not among them: so few that
\* the floor of a drawn p-value, 1/4, is above the exact one's of four, 2/16, as
\* 1/20000 is above 2/2^16.
Draw(a, b, c, d, e) == [i \in 1..5 |-> <<a, b, c, d, e>>[i]]
MCDrawn ==
    [n \in {5} |->
        << Draw(-1, 1, 1, 1, 1), Draw(1, -1, 1, -1, 1),
           Draw(-1, 1, -1, 1, -1), Draw(-1, -1, -1, 1, -1) >>]
=============================================================================

--------------------------------- MODULE MCLab ---------------------------------
(* Two lab-ups, two lab-downs and one measuring script with two clients.   *)
EXTENDS LabWorkloads

MCGroups == <<"X25519", "MLKEM768">>
MCRttOf == [s \in {0, 1} |-> 20 * s]
Expect(rtt, loss) == [rtt |-> rtt, loss |-> loss]
MCExpectations == {Expect(20, 0), Expect(20, None), Expect(None, 50)}
=============================================================================

--------------------------- MODULE TlsClientProofs ---------------------------
(***************************************************************************)
(* What the client holds, says and has printed at each step of a           *)
(* connection, and the proofs that rest on it: for any number of warm-ups, *)
(* attempts and addresses, any timeout and any traffic.                    *)
(***************************************************************************)
EXTENDS TlsClient, TLAPS

Records == [sequence : Nat, status : Statuses, phase : Phases,
            latency : BOOLEAN, counts : [read : Nat, written : Nat]]

\* The steps of connect_tcp and of run_handshake before SSL_connect, and those
\* at which no socket is open.
Preparing == {"resolve", "socket", "connect", "poll", "unconnected",
              "ssl_new", "configure"}
WithoutSocket == {"next", "resolve", "socket", "unconnected", "exit"}
Steps == Preparing \cup {"next", "handshake", "emit", "release", "shutdown", "exit"}

TypeInv ==
    /\ pc \in Steps /\ index \in Nat /\ recorded \in BOOLEAN
    /\ address \in 0..Addresses /\ timedOut \in BOOLEAN
    /\ fd \in BOOLEAN /\ ssl \in BOOLEAN /\ counting \in BOOLEAN
    /\ wire \in [read : Nat, written : Nat] /\ chunks \in Nat
    /\ status \in Statuses /\ phase \in Phases /\ measured \in BOOLEAN
    /\ output \in Seq(Records) /\ lost \subseteq Nat
    /\ exit \in {None, "success", "failure"}

\* What is open, step by step; after an early return it depends on the phase.
HoldsInv ==
    /\ pc \in WithoutSocket => ~fd
    /\ pc \in {"connect", "poll", "ssl_new", "configure", "handshake", "shutdown"} => fd
    /\ pc \in (Preparing \ {"configure"}) \cup {"next", "exit"} => ~ssl
    /\ pc \in {"configure", "handshake", "shutdown"} => ssl
    /\ pc \in Preparing \cup {"next", "shutdown", "exit"} => ~counting
    /\ pc = "handshake" => counting
    /\ pc \in {"emit", "release"} =>
          /\ phase = "tcp_connect" => ~fd
          /\ counting => measured
          /\ measured => fd
          /\ fd <=> ssl

\* The record in the making says how far the connection came.
VerdictInv ==
    /\ pc \in Preparing => status = "failed" /\ phase = "tcp_connect"
    /\ pc \in Preparing \cup {"handshake"} => ~measured
    /\ pc \in {"emit", "release"} =>
          /\ measured <=> phase \in {None, "tls_handshake", "verification"}
          /\ phase = None <=> status = "success"
    /\ pc = "shutdown" => measured

\* The counters agree with the socket, and stay at zero without SSL_connect.
CountInv ==
    /\ counts = wire
    /\ pc \in Preparing => counts = Nothing
    /\ pc \in {"emit", "release"} /\ ~measured => counts = Nothing

\* A connection under way is one that was asked for; its record is the next
\* one until it is printed or lost, and the last one then.
ProgressInv ==
    /\ index <= Limit
    /\ pc \notin {"next", "exit"} => index < Limit
    /\ ~recorded => output = <<>> /\ lost = {}
    /\ recorded /\ pc \in {"release", "shutdown"} => Accounted(index + 1)
    /\ recorded /\ pc \notin {"release", "shutdown"} => Accounted(index)
    /\ exit = "success" => recorded /\ pc = "exit" /\ index = Attempts

RecordsInv ==
    /\ \A i, j \in 1..Len(output) :
          i < j => output[i].sequence < output[j].sequence
    /\ \A i \in 1..Len(output) :
          /\ output[i].latency <=>
                output[i].phase \in {None, "tls_handshake", "verification"}
          /\ output[i].phase = None <=> output[i].status = "success"
          /\ ~output[i].latency => output[i].counts = Nothing

ClientInv == /\ TypeInv /\ HoldsInv /\ VerdictInv
             /\ CountInv /\ ProgressInv /\ RecordsInv
-----------------------------------------------------------------------------
\* What the callback's counters may be is what the wire may carry.
LEMMA WireGrows ==
    ASSUME NEW w \in [read : Nat, written : Nat]
    PROVE  /\ [w EXCEPT !.read = @ + 1] \in [read : Nat, written : Nat]
           /\ [w EXCEPT !.written = @ + 1] \in [read : Nat, written : Nat]
OBVIOUS

\* No step takes a variable out of its type.
LEMMA StepTypeInv == ClientInv /\ [Next]_vars => TypeInv'
<1>. SUFFICES ASSUME ClientInv, [Next]_vars PROVE TypeInv'
  OBVIOUS
<1>. USE ClientAssumption DEF OptionsParse, ClientInv, TypeInv, Steps, Preparing, Statuses, Phases
<1>1. CASE StartConnection
  <2>1. pc' \in Steps /\ status' \in Statuses /\ phase' \in Phases /\ index' \in Nat /\ address' \in 0..Addresses /\ chunks' \in Nat
          /\ exit' \in {None, "success", "failure"}
    BY <1>1 DEF StartConnection, Connect, Nothing, progress, Limit
  <2>2. fd' \in BOOLEAN /\ ssl' \in BOOLEAN /\ counting' \in BOOLEAN
          /\ recorded' \in BOOLEAN /\ timedOut' \in BOOLEAN /\ measured' \in BOOLEAN
    BY <1>1 DEF StartConnection, Connect, Nothing, progress, Limit
  <2>3. /\ wire' \in [read : Nat, written : Nat] /\ output' \in Seq(Records)
        /\ lost' \subseteq Nat
    BY <1>1 DEF StartConnection, Connect, Nothing, progress, Limit
  <2>. QED  BY <2>1, <2>2, <2>3
<1>2. CASE StartRecording
  BY <1>2 DEF StartRecording, connection, verdict, Limit
<1>3. CASE Finish
  BY <1>3 DEF Finish, connection, verdict, Limit
<1>4. CASE Resolve(TRUE)
  BY <1>4 DEF Resolve, GoTo, progress, verdict
<1>5. CASE Resolve(FALSE)
  BY <1>5 DEF Resolve, GoTo, progress, verdict
<1>6. CASE OpenSocket
  BY <1>6 DEF OpenSocket, GoTo, progress, verdict
<1>7. CASE SocketFails
  <2>1. /\ UNCHANGED <<progress, verdict, timedOut, fd, ssl, counting, wire, chunks>>
        /\ pc' \in {"socket", "unconnected"} /\ address' \in 0..Addresses
    BY <1>7 DEF SocketFails, NextAddress, GoTo
  <2>. QED  BY <2>1 DEF progress, verdict
<1>8. CASE PollTimesOut
  <2>1. pc' \in Steps /\ status' \in Statuses /\ phase' \in Phases /\ index' \in Nat /\ address' \in 0..Addresses /\ chunks' \in Nat
          /\ exit' \in {None, "success", "failure"}
    BY <1>8 DEF PollTimesOut, NextAddress, GoTo, progress, verdict
  <2>2. fd' \in BOOLEAN /\ ssl' \in BOOLEAN /\ counting' \in BOOLEAN
          /\ recorded' \in BOOLEAN /\ timedOut' \in BOOLEAN /\ measured' \in BOOLEAN
    BY <1>8 DEF PollTimesOut, NextAddress, GoTo, progress, verdict
  <2>3. /\ wire' \in [read : Nat, written : Nat] /\ output' \in Seq(Records)
        /\ lost' \subseteq Nat
    BY <1>8 DEF PollTimesOut, NextAddress, GoTo, progress, verdict
  <2>. QED  BY <2>1, <2>2, <2>3
<1>9. CASE Unconnected
  BY <1>9 DEF Unconnected, progress, connection
<1>10. CASE NewSsl
  BY <1>10 DEF NewSsl, GoTo, progress, verdict
<1>11. CASE InitialiseFails
  BY <1>11 DEF InitialiseFails, progress
<1>12. CASE InstallCallbacks
  BY <1>12 DEF InstallCallbacks, progress
<1>13. CASE HandshakeEnds("timeout", "tls_handshake")
  BY <1>13 DEF HandshakeEnds, progress, connection
<1>14. CASE Emit
  <2>1. Record \in Records
    BY <1>14 DEF CountInv, PrintIf, Emit, Record, Records
  <2>2. output' \in Seq(Records)
    BY <1>14, <2>1 DEF Emit, PrintIf
  <2>. QED  BY <1>14, <2>2 DEF Emit, PrintIf, verdict, connection
<1>15. CASE ReturnUnconnected
  BY <1>15 DEF ReturnUnconnected, Return, verdict
<1>16. CASE ReturnUninitialised
  <2>1. pc' \in Steps /\ status' \in Statuses /\ phase' \in Phases /\ index' \in Nat /\ address' \in 0..Addresses /\ chunks' \in Nat
          /\ exit' \in {None, "success", "failure"}
    BY <1>16 DEF ReturnUninitialised, Return, verdict
  <2>2. fd' \in BOOLEAN /\ ssl' \in BOOLEAN /\ counting' \in BOOLEAN
          /\ recorded' \in BOOLEAN /\ timedOut' \in BOOLEAN /\ measured' \in BOOLEAN
    BY <1>16 DEF ReturnUninitialised, Return, verdict
  <2>3. /\ wire' \in [read : Nat, written : Nat] /\ output' \in Seq(Records)
        /\ lost' \subseteq Nat
    BY <1>16 DEF ReturnUninitialised, Return, verdict
  <2>. QED  BY <2>1, <2>2, <2>3
<1>17. CASE RemoveCallbacks
  BY <1>17 DEF RemoveCallbacks, GoTo, progress, verdict
<1>18. CASE ReturnMeasured
  <2>1. pc' \in Steps /\ status' \in Statuses /\ phase' \in Phases /\ index' \in Nat /\ address' \in 0..Addresses /\ chunks' \in Nat
          /\ exit' \in {None, "success", "failure"}
    BY <1>18 DEF ReturnMeasured, verdict
  <2>2. fd' \in BOOLEAN /\ ssl' \in BOOLEAN /\ counting' \in BOOLEAN
          /\ recorded' \in BOOLEAN /\ timedOut' \in BOOLEAN /\ measured' \in BOOLEAN
    BY <1>18 DEF ReturnMeasured, verdict
  <2>3. /\ wire' \in [read : Nat, written : Nat] /\ output' \in Seq(Records)
        /\ lost' \subseteq Nat
    BY <1>18 DEF ReturnMeasured, verdict
  <2>. QED  BY <2>1, <2>2, <2>3
<1>19. CASE InProgress
  BY <1>19 DEF InProgress, GoTo, progress, verdict, connection
<1>20. CASE Connected
  BY <1>20 DEF Connected, GoTo, progress, verdict, connection
<1>21. CASE Refused
  <2>1. pc' \in Steps /\ status' \in Statuses /\ phase' \in Phases /\ index' \in Nat /\ address' \in 0..Addresses /\ chunks' \in Nat
          /\ exit' \in {None, "success", "failure"}
    BY <1>21 DEF Refused, NextAddress, GoTo, progress, verdict
  <2>2. fd' \in BOOLEAN /\ ssl' \in BOOLEAN /\ counting' \in BOOLEAN
          /\ recorded' \in BOOLEAN /\ timedOut' \in BOOLEAN /\ measured' \in BOOLEAN
    BY <1>21 DEF Refused, NextAddress, GoTo, progress, verdict
  <2>3. /\ wire' \in [read : Nat, written : Nat] /\ output' \in Seq(Records)
        /\ lost' \subseteq Nat
    BY <1>21 DEF Refused, NextAddress, GoTo, progress, verdict
  <2>. QED  BY <2>1, <2>2, <2>3
<1>22. CASE Transfer(BIO_CB_READ)
  <2>1. wire' \in [read : Nat, written : Nat]
    BY <1>22, WireGrows DEF Transfer
  <2>2. pc' \in Steps /\ chunks' \in Nat
    <3>1. pc' = "handshake" /\ chunks' = chunks + 1
      BY <1>22 DEF Transfer, GoTo
    <3>. QED  BY <3>1
  <2>3. UNCHANGED <<progress, verdict, address, timedOut, fd, ssl, counting>>
    BY <1>22 DEF Transfer, GoTo
  <2>. QED  BY <2>1, <2>2, <2>3 DEF progress, verdict
<1>23. CASE Transfer(BIO_CB_WRITE)
  <2>1. wire' \in [read : Nat, written : Nat]
    BY <1>23, WireGrows DEF Transfer
  <2>2. pc' \in Steps /\ chunks' \in Nat
    <3>1. pc' = "handshake" /\ chunks' = chunks + 1
      BY <1>23 DEF Transfer, GoTo
    <3>. QED  BY <3>1
  <2>3. UNCHANGED <<progress, verdict, address, timedOut, fd, ssl, counting>>
    BY <1>23 DEF Transfer, GoTo
  <2>. QED  BY <2>1, <2>2, <2>3 DEF progress, verdict
<1>24. CASE HandshakeEnds("success", None)
  BY <1>24 DEF HandshakeEnds, progress, connection
<1>25. CASE HandshakeEnds("group_mismatch", "verification")
  BY <1>25 DEF HandshakeEnds, progress, connection
<1>26. CASE HandshakeEnds("failed", "tls_handshake")
  BY <1>26 DEF HandshakeEnds, progress, connection
<1>27. CASE SetupFails
  BY <1>27 DEF SetupFails, connection, verdict
<1>28. CASE ClockFails
  BY <1>28 DEF ClockFails, verdict
<1>29. CASE Exited
  BY <1>29 DEF Exited, vars
<1>30. CASE UNCHANGED vars
  BY <1>30 DEF vars
<1>. QED  BY <1>1, <1>2, <1>3, <1>4, <1>5, <1>6, <1>7, <1>8, <1>9, <1>10, <1>11, <1>12, <1>13, <1>14, <1>15, <1>16, <1>17, <1>18, <1>19, <1>20, <1>21, <1>22, <1>23, <1>24, <1>25, <1>26, <1>27, <1>28, <1>29, <1>30 DEF Next, Bounded, Peer

\* Whatever the way out of a connection, what it held is let go.
LEMMA StepHoldsInv == ClientInv /\ [Next]_vars => HoldsInv'
<1>. SUFFICES ASSUME ClientInv, [Next]_vars PROVE HoldsInv'
  OBVIOUS
<1>. USE ClientAssumption DEF OptionsParse, ClientInv, TypeInv, HoldsInv, VerdictInv, WithoutSocket, Steps, Preparing
<1>1. CASE StartConnection
  BY <1>1 DEF StartConnection, Connect, Nothing, progress, Limit
<1>2. CASE StartRecording
  BY <1>2 DEF StartRecording, connection, verdict, Limit
<1>3. CASE Finish
  BY <1>3 DEF Finish, connection, verdict, Limit
<1>4. CASE Resolve(TRUE)
  BY <1>4 DEF Resolve, GoTo, progress, verdict
<1>5. CASE Resolve(FALSE)
  BY <1>5 DEF Resolve, GoTo, progress, verdict
<1>6. CASE OpenSocket
  BY <1>6 DEF OpenSocket, GoTo, progress, verdict
<1>7. CASE SocketFails
  BY <1>7 DEF SocketFails, NextAddress, GoTo, progress, verdict
<1>8. CASE PollTimesOut
  BY <1>8 DEF PollTimesOut, NextAddress, GoTo, progress, verdict
<1>9. CASE Unconnected
  BY <1>9 DEF Unconnected, progress, connection
<1>10. CASE NewSsl
  BY <1>10 DEF NewSsl, GoTo, progress, verdict
<1>11. CASE InitialiseFails
  BY <1>11 DEF InitialiseFails, progress
<1>12. CASE InstallCallbacks
  BY <1>12 DEF InstallCallbacks, progress
<1>13. CASE HandshakeEnds("timeout", "tls_handshake")
  BY <1>13 DEF HandshakeEnds, progress, connection
<1>14. CASE Emit
  BY <1>14 DEF Emit, PrintIf, Record, verdict, connection
<1>15. CASE ReturnUnconnected
  BY <1>15 DEF ReturnUnconnected, Return, verdict
<1>16. CASE ReturnUninitialised
  BY <1>16 DEF ReturnUninitialised, Return, verdict
<1>17. CASE RemoveCallbacks
  BY <1>17 DEF RemoveCallbacks, GoTo, progress, verdict
<1>18. CASE ReturnMeasured
  BY <1>18 DEF ReturnMeasured, verdict
<1>19. CASE InProgress
  BY <1>19 DEF InProgress, GoTo, progress, verdict, connection
<1>20. CASE Connected
  BY <1>20 DEF Connected, GoTo, progress, verdict, connection
<1>21. CASE Refused
  BY <1>21 DEF Refused, NextAddress, GoTo, progress, verdict
<1>22. CASE Transfer(BIO_CB_READ)
  BY <1>22 DEF Transfer, GoTo, progress, verdict
<1>23. CASE Transfer(BIO_CB_WRITE)
  BY <1>23 DEF Transfer, GoTo, progress, verdict
<1>24. CASE HandshakeEnds("success", None)
  BY <1>24 DEF HandshakeEnds, progress, connection
<1>25. CASE HandshakeEnds("group_mismatch", "verification")
  BY <1>25 DEF HandshakeEnds, progress, connection
<1>26. CASE HandshakeEnds("failed", "tls_handshake")
  BY <1>26 DEF HandshakeEnds, progress, connection
<1>27. CASE SetupFails
  BY <1>27 DEF SetupFails, connection, verdict
<1>28. CASE ClockFails
  BY <1>28 DEF ClockFails, verdict
<1>29. CASE Exited
  BY <1>29 DEF Exited, vars
<1>30. CASE UNCHANGED vars
  BY <1>30 DEF vars
<1>. QED  BY <1>1, <1>2, <1>3, <1>4, <1>5, <1>6, <1>7, <1>8, <1>9, <1>10, <1>11, <1>12, <1>13, <1>14, <1>15, <1>16, <1>17, <1>18, <1>19, <1>20, <1>21, <1>22, <1>23, <1>24, <1>25, <1>26, <1>27, <1>28, <1>29, <1>30 DEF Next, Bounded, Peer

\* The record in the making follows the connection.
LEMMA StepVerdictInv == ClientInv /\ [Next]_vars => VerdictInv'
<1>. SUFFICES ASSUME ClientInv, [Next]_vars PROVE VerdictInv'
  OBVIOUS
<1>. USE ClientAssumption DEF OptionsParse, ClientInv, TypeInv, VerdictInv, Steps, Preparing
<1>1. CASE StartConnection
  BY <1>1 DEF StartConnection, Connect, Nothing, progress, Limit
<1>2. CASE StartRecording
  BY <1>2 DEF StartRecording, connection, verdict, Limit
<1>3. CASE Finish
  BY <1>3 DEF Finish, connection, verdict, Limit
<1>4. CASE Resolve(TRUE)
  BY <1>4 DEF Resolve, GoTo, progress, verdict
<1>5. CASE Resolve(FALSE)
  BY <1>5 DEF Resolve, GoTo, progress, verdict
<1>6. CASE OpenSocket
  BY <1>6 DEF OpenSocket, GoTo, progress, verdict
<1>7. CASE SocketFails
  BY <1>7 DEF SocketFails, NextAddress, GoTo, progress, verdict
<1>8. CASE PollTimesOut
  BY <1>8 DEF PollTimesOut, NextAddress, GoTo, progress, verdict
<1>9. CASE Unconnected
  BY <1>9 DEF Unconnected, progress, connection
<1>10. CASE NewSsl
  BY <1>10 DEF NewSsl, GoTo, progress, verdict
<1>11. CASE InitialiseFails
  BY <1>11 DEF InitialiseFails, progress
<1>12. CASE InstallCallbacks
  BY <1>12 DEF InstallCallbacks, progress
<1>13. CASE HandshakeEnds("timeout", "tls_handshake")
  BY <1>13 DEF HandshakeEnds, progress, connection
<1>14. CASE Emit
  BY <1>14 DEF Emit, PrintIf, Record, verdict, connection
<1>15. CASE ReturnUnconnected
  BY <1>15 DEF ReturnUnconnected, Return, verdict
<1>16. CASE ReturnUninitialised
  BY <1>16 DEF ReturnUninitialised, Return, verdict
<1>17. CASE RemoveCallbacks
  BY <1>17 DEF RemoveCallbacks, GoTo, progress, verdict
<1>18. CASE ReturnMeasured
  BY <1>18 DEF ReturnMeasured, verdict
<1>19. CASE InProgress
  BY <1>19 DEF InProgress, GoTo, progress, verdict, connection
<1>20. CASE Connected
  BY <1>20 DEF Connected, GoTo, progress, verdict, connection
<1>21. CASE Refused
  BY <1>21 DEF Refused, NextAddress, GoTo, progress, verdict
<1>22. CASE Transfer(BIO_CB_READ)
  BY <1>22 DEF Transfer, GoTo, progress, verdict
<1>23. CASE Transfer(BIO_CB_WRITE)
  BY <1>23 DEF Transfer, GoTo, progress, verdict
<1>24. CASE HandshakeEnds("success", None)
  BY <1>24 DEF HandshakeEnds, progress, connection
<1>25. CASE HandshakeEnds("group_mismatch", "verification")
  BY <1>25 DEF HandshakeEnds, progress, connection
<1>26. CASE HandshakeEnds("failed", "tls_handshake")
  BY <1>26 DEF HandshakeEnds, progress, connection
<1>27. CASE SetupFails
  BY <1>27 DEF SetupFails, connection, verdict
<1>28. CASE ClockFails
  BY <1>28 DEF ClockFails, verdict
<1>29. CASE Exited
  BY <1>29 DEF Exited, vars
<1>30. CASE UNCHANGED vars
  BY <1>30 DEF vars
<1>. QED  BY <1>1, <1>2, <1>3, <1>4, <1>5, <1>6, <1>7, <1>8, <1>9, <1>10, <1>11, <1>12, <1>13, <1>14, <1>15, <1>16, <1>17, <1>18, <1>19, <1>20, <1>21, <1>22, <1>23, <1>24, <1>25, <1>26, <1>27, <1>28, <1>29, <1>30 DEF Next, Bounded, Peer

\* A successful read counts as one, and a write too: the operation codes are
\* compared as a whole.
LEMMA CountedIsExact ==
    ASSUME NEW c, NEW n
    PROVE  /\ Counted(BIO_CB_READ + BIO_CB_RETURN, c, n) = [c EXCEPT !.read = @ + n]
           /\ Counted(BIO_CB_WRITE + BIO_CB_RETURN, c, n) = [c EXCEPT !.written = @ + n]
BY DEF Counted, BIO_CB_READ, BIO_CB_WRITE, BIO_CB_RETURN

\* The counters follow the socket.
LEMMA StepCountInv == ClientInv /\ [Next]_vars => CountInv'
<1>. SUFFICES ASSUME ClientInv, [Next]_vars PROVE CountInv'
  OBVIOUS
<1>. USE ClientAssumption DEF OptionsParse, ClientInv, TypeInv, HoldsInv, VerdictInv, CountInv, Steps, Preparing, Nothing
<1>1. CASE StartConnection
  BY <1>1 DEF StartConnection, Connect, Nothing, progress, Limit
<1>2. CASE StartRecording
  BY <1>2 DEF StartRecording, connection, verdict, Limit
<1>3. CASE Finish
  BY <1>3 DEF Finish, connection, verdict, Limit
<1>4. CASE Resolve(TRUE)
  BY <1>4 DEF Resolve, GoTo, progress, verdict
<1>5. CASE Resolve(FALSE)
  BY <1>5 DEF Resolve, GoTo, progress, verdict
<1>6. CASE OpenSocket
  BY <1>6 DEF OpenSocket, GoTo, progress, verdict
<1>7. CASE SocketFails
  BY <1>7 DEF SocketFails, NextAddress, GoTo, progress, verdict
<1>8. CASE PollTimesOut
  BY <1>8 DEF PollTimesOut, NextAddress, GoTo, progress, verdict
<1>9. CASE Unconnected
  BY <1>9 DEF Unconnected, progress, connection
<1>10. CASE NewSsl
  BY <1>10 DEF NewSsl, GoTo, progress, verdict
<1>11. CASE InitialiseFails
  BY <1>11 DEF InitialiseFails, progress
<1>12. CASE InstallCallbacks
  BY <1>12 DEF InstallCallbacks, progress
<1>13. CASE HandshakeEnds("timeout", "tls_handshake")
  BY <1>13 DEF HandshakeEnds, progress, connection
<1>14. CASE Emit
  BY <1>14 DEF Emit, PrintIf, Record, verdict, connection
<1>15. CASE ReturnUnconnected
  BY <1>15 DEF ReturnUnconnected, Return, verdict
<1>16. CASE ReturnUninitialised
  BY <1>16 DEF ReturnUninitialised, Return, verdict
<1>17. CASE RemoveCallbacks
  BY <1>17 DEF RemoveCallbacks, GoTo, progress, verdict
<1>18. CASE ReturnMeasured
  BY <1>18 DEF ReturnMeasured, verdict
<1>19. CASE InProgress
  BY <1>19 DEF InProgress, GoTo, progress, verdict, connection
<1>20. CASE Connected
  BY <1>20 DEF Connected, GoTo, progress, verdict, connection
<1>21. CASE Refused
  BY <1>21 DEF Refused, NextAddress, GoTo, progress, verdict
<1>22. CASE Transfer(BIO_CB_READ)
  <2>1. counts' = [counts EXCEPT !.read = @ + 1] /\ wire' = [wire EXCEPT !.read = @ + 1]
    BY <1>22, CountedIsExact DEF Transfer, BIO_CB_READ, BIO_CB_WRITE
  <2>. QED  BY <1>22, <2>1 DEF Transfer, GoTo
<1>23. CASE Transfer(BIO_CB_WRITE)
  <2>1. counts' = [counts EXCEPT !.written = @ + 1] /\ wire' = [wire EXCEPT !.written = @ + 1]
    BY <1>23, CountedIsExact DEF Transfer, BIO_CB_READ, BIO_CB_WRITE
  <2>. QED  BY <1>23, <2>1 DEF Transfer, GoTo
<1>24. CASE HandshakeEnds("success", None)
  BY <1>24 DEF HandshakeEnds, progress, connection
<1>25. CASE HandshakeEnds("group_mismatch", "verification")
  BY <1>25 DEF HandshakeEnds, progress, connection
<1>26. CASE HandshakeEnds("failed", "tls_handshake")
  BY <1>26 DEF HandshakeEnds, progress, connection
<1>27. CASE SetupFails
  BY <1>27 DEF SetupFails, connection, verdict
<1>28. CASE ClockFails
  BY <1>28 DEF ClockFails, verdict
<1>29. CASE Exited
  BY <1>29 DEF Exited, vars
<1>30. CASE UNCHANGED vars
  BY <1>30 DEF vars
<1>. QED  BY <1>1, <1>2, <1>3, <1>4, <1>5, <1>6, <1>7, <1>8, <1>9, <1>10, <1>11, <1>12, <1>13, <1>14, <1>15, <1>16, <1>17, <1>18, <1>19, <1>20, <1>21, <1>22, <1>23, <1>24, <1>25, <1>26, <1>27, <1>28, <1>29, <1>30 DEF Next, Bounded, Peer

\* What is printed grows by the sequence number of the record.
LEMMA PrintedGrows ==
    ASSUME output \in Seq(Records), output' = Append(output, Record)
    PROVE  Printed' = Printed \cup {index}
<1>1. /\ DOMAIN output = 1..Len(output) /\ Len(output) \in Nat
      /\ DOMAIN output' = 1..(Len(output) + 1)
      /\ \A i \in 1..Len(output) : output'[i] = output[i]
      /\ output'[Len(output) + 1] = Record
  OBVIOUS
<1>2. Record.sequence = index
  BY DEF Record
<1>. HIDE DEF Record
<1>. QED  BY ONLY <1>1, <1>2 DEF Printed

\* One record for each attempt, printed or lost.
LEMMA StepProgressInv == ClientInv /\ [Next]_vars => ProgressInv'
<1>. SUFFICES ASSUME ClientInv, [Next]_vars PROVE ProgressInv'
  OBVIOUS
<1>. USE ClientAssumption DEF OptionsParse, ClientInv, TypeInv, ProgressInv, Accounted, Steps, Preparing, Limit
<1>0. UNCHANGED output => Printed' = Printed
  BY DEF Printed
<1>. USE <1>0
<1>1. CASE StartConnection
  BY <1>1 DEF StartConnection, Connect, Nothing, progress, Limit
<1>2. CASE StartRecording
  <2>1. /\ index' = 0 /\ recorded' = TRUE /\ pc' = "next"
        /\ UNCHANGED <<output, lost, exit>> /\ output = <<>> /\ lost = {}
    BY <1>2 DEF StartRecording
  <2>2. Printed' = {}
    BY <2>1 DEF Printed
  <2>3. Accounted(index)'
    BY <2>1, <2>2
  <2>4. exit # "success" /\ Limit' = Attempts
    BY <1>2, <2>1 DEF StartRecording
  <2>. HIDE DEF ClientInv, TypeInv, Accounted
  <2>. QED  BY <2>1, <2>3, <2>4
<1>3. CASE Finish
  BY <1>3 DEF Finish, connection, verdict, Limit
<1>4. CASE Resolve(TRUE)
  BY <1>4 DEF Resolve, GoTo, progress, verdict
<1>5. CASE Resolve(FALSE)
  BY <1>5 DEF Resolve, GoTo, progress, verdict
<1>6. CASE OpenSocket
  BY <1>6 DEF OpenSocket, GoTo, progress, verdict
<1>7. CASE SocketFails
  BY <1>7 DEF SocketFails, NextAddress, GoTo, progress, verdict
<1>8. CASE PollTimesOut
  BY <1>8 DEF PollTimesOut, NextAddress, GoTo, progress, verdict
<1>9. CASE Unconnected
  BY <1>9 DEF Unconnected, progress, connection
<1>10. CASE NewSsl
  BY <1>10 DEF NewSsl, GoTo, progress, verdict
<1>11. CASE InitialiseFails
  BY <1>11 DEF InitialiseFails, progress
<1>12. CASE InstallCallbacks
  BY <1>12 DEF InstallCallbacks, progress
<1>13. CASE HandshakeEnds("timeout", "tls_handshake")
  BY <1>13 DEF HandshakeEnds, progress, connection
<1>14. CASE Emit
  <2>1. /\ pc' = "release" /\ index < Limit
        /\ UNCHANGED <<index, recorded, exit>> /\ exit # "success"
    BY <1>14 DEF Emit, PrintIf
  <2>2. CASE ~recorded
    <3>1. UNCHANGED <<output, lost>>
      BY <1>14, <2>2 DEF Emit, PrintIf
    <3>. QED  BY <2>1, <2>2, <3>1
  <2>3. CASE recorded /\ output' = Append(output, Record) /\ lost' = lost
    <3>1. Printed' = Printed \cup {index}
      BY <1>14, <2>3, PrintedGrows DEF Emit, PrintIf
    <3>2. Accounted(index)
      BY <1>14, <2>3 DEF Emit, PrintIf
    <3>3. Accounted(index + 1)'
      BY <2>1, <2>3, <3>1, <3>2
    <3>. QED  BY <2>1, <2>3, <3>3
  <2>4. CASE recorded /\ lost' = lost \cup {index} /\ output' = output
    <3>1. Accounted(index)
      BY <1>14, <2>4 DEF Emit, PrintIf
    <3>2. Accounted(index + 1)'
      BY <2>1, <2>4, <3>1
    <3>. QED  BY <2>1, <2>4, <3>2
  <2>. QED  BY <1>14, <2>2, <2>3, <2>4 DEF Emit, PrintIf
<1>15. CASE ReturnUnconnected
  BY <1>15 DEF ReturnUnconnected, Return, verdict
<1>16. CASE ReturnUninitialised
  BY <1>16 DEF ReturnUninitialised, Return, verdict
<1>17. CASE RemoveCallbacks
  BY <1>17 DEF RemoveCallbacks, GoTo, progress, verdict
<1>18. CASE ReturnMeasured
  BY <1>18 DEF ReturnMeasured, verdict
<1>19. CASE InProgress
  BY <1>19 DEF InProgress, GoTo, progress, verdict, connection
<1>20. CASE Connected
  BY <1>20 DEF Connected, GoTo, progress, verdict, connection
<1>21. CASE Refused
  BY <1>21 DEF Refused, NextAddress, GoTo, progress, verdict
<1>22. CASE Transfer(BIO_CB_READ)
  BY <1>22 DEF Transfer, GoTo, progress, verdict
<1>23. CASE Transfer(BIO_CB_WRITE)
  BY <1>23 DEF Transfer, GoTo, progress, verdict
<1>24. CASE HandshakeEnds("success", None)
  BY <1>24 DEF HandshakeEnds, progress, connection
<1>25. CASE HandshakeEnds("group_mismatch", "verification")
  BY <1>25 DEF HandshakeEnds, progress, connection
<1>26. CASE HandshakeEnds("failed", "tls_handshake")
  BY <1>26 DEF HandshakeEnds, progress, connection
<1>27. CASE SetupFails
  BY <1>27 DEF SetupFails, connection, verdict
<1>28. CASE ClockFails
  BY <1>28 DEF ClockFails, verdict
<1>29. CASE Exited
  BY <1>29 DEF Exited, vars
<1>30. CASE UNCHANGED vars
  BY <1>30 DEF vars
<1>. QED  BY <1>1, <1>2, <1>3, <1>4, <1>5, <1>6, <1>7, <1>8, <1>9, <1>10, <1>11, <1>12, <1>13, <1>14, <1>15, <1>16, <1>17, <1>18, <1>19, <1>20, <1>21, <1>22, <1>23, <1>24, <1>25, <1>26, <1>27, <1>28, <1>29, <1>30 DEF Next, Bounded, Peer

\* Every record printed is a truthful one.
LEMMA StepRecordsInv == ClientInv /\ [Next]_vars => RecordsInv'
<1>. SUFFICES ASSUME ClientInv, [Next]_vars PROVE RecordsInv'
  OBVIOUS
<1>. USE ClientAssumption DEF OptionsParse, ClientInv, TypeInv, VerdictInv, CountInv, ProgressInv, RecordsInv, Steps, Preparing
<1>1. CASE StartConnection
  BY <1>1 DEF StartConnection, Connect, Nothing, progress, Limit
<1>2. CASE StartRecording
  BY <1>2 DEF StartRecording, connection, verdict, Limit
<1>3. CASE Finish
  BY <1>3 DEF Finish, connection, verdict, Limit
<1>4. CASE Resolve(TRUE)
  BY <1>4 DEF Resolve, GoTo, progress, verdict
<1>5. CASE Resolve(FALSE)
  BY <1>5 DEF Resolve, GoTo, progress, verdict
<1>6. CASE OpenSocket
  BY <1>6 DEF OpenSocket, GoTo, progress, verdict
<1>7. CASE SocketFails
  BY <1>7 DEF SocketFails, NextAddress, GoTo, progress, verdict
<1>8. CASE PollTimesOut
  BY <1>8 DEF PollTimesOut, NextAddress, GoTo, progress, verdict
<1>9. CASE Unconnected
  BY <1>9 DEF Unconnected, progress, connection
<1>10. CASE NewSsl
  BY <1>10 DEF NewSsl, GoTo, progress, verdict
<1>11. CASE InitialiseFails
  BY <1>11 DEF InitialiseFails, progress
<1>12. CASE InstallCallbacks
  BY <1>12 DEF InstallCallbacks, progress
<1>13. CASE HandshakeEnds("timeout", "tls_handshake")
  BY <1>13 DEF HandshakeEnds, progress, connection
<1>14. CASE Emit
  <2>1. CASE output' = output
    BY <2>1
  <2>2. CASE recorded /\ output' = Append(output, Record)
    <3>1. Accounted(index) /\ pc = "emit"
      BY <1>14, <2>2 DEF Emit, PrintIf
    <3>2. \A i \in 1..Len(output) : output[i].sequence < index
      <4>1. \A i \in 1..Len(output) : output[i].sequence \in Printed
        BY DEF Printed
      <4>2. Printed \subseteq 0..(index - 1)
        BY <3>1 DEF Accounted
      <4>3. index \in Nat
        OBVIOUS
      <4>4. \A n \in Printed : n < index
        BY ONLY <4>2, <4>3
      <4>. QED  BY ONLY <4>1, <4>4, Zenon
    <3>3. /\ Record.sequence = index /\ Record.latency = measured
          /\ Record.phase = phase /\ Record.status = status
          /\ Record.counts = counts
      BY DEF Record
    <3>4. /\ Len(output') = Len(output) + 1
          /\ \A i \in 1..Len(output) : output'[i] = output[i]
          /\ output'[Len(output) + 1] = Record
      BY <2>2
    <3>5. RecordsInv /\ Len(output) \in Nat
      OBVIOUS
    <3>6. /\ measured <=> phase \in {None, "tls_handshake", "verification"}
          /\ phase = None <=> status = "success"
          /\ ~measured => counts = Nothing
      BY <3>1
    <3>7. \A i, j \in 1..Len(output') :
             i < j => output'[i].sequence < output'[j].sequence
      BY ONLY <3>2, <3>3, <3>4, <3>5 DEF RecordsInv
    <3>8. \A i \in 1..Len(output') :
             \/ i \in 1..Len(output) /\ output'[i] = output[i]
             \/ output'[i] = Record
      BY ONLY <3>4, <3>5
    <3>. QED  BY ONLY <3>3, <3>5, <3>6, <3>7, <3>8 DEF RecordsInv
  <2>. QED  BY <1>14, <2>1, <2>2 DEF Emit, PrintIf
<1>15. CASE ReturnUnconnected
  BY <1>15 DEF ReturnUnconnected, Return, verdict
<1>16. CASE ReturnUninitialised
  BY <1>16 DEF ReturnUninitialised, Return, verdict
<1>17. CASE RemoveCallbacks
  BY <1>17 DEF RemoveCallbacks, GoTo, progress, verdict
<1>18. CASE ReturnMeasured
  BY <1>18 DEF ReturnMeasured, verdict
<1>19. CASE InProgress
  BY <1>19 DEF InProgress, GoTo, progress, verdict, connection
<1>20. CASE Connected
  BY <1>20 DEF Connected, GoTo, progress, verdict, connection
<1>21. CASE Refused
  BY <1>21 DEF Refused, NextAddress, GoTo, progress, verdict
<1>22. CASE Transfer(BIO_CB_READ)
  BY <1>22 DEF Transfer, GoTo, progress, verdict
<1>23. CASE Transfer(BIO_CB_WRITE)
  BY <1>23 DEF Transfer, GoTo, progress, verdict
<1>24. CASE HandshakeEnds("success", None)
  BY <1>24 DEF HandshakeEnds, progress, connection
<1>25. CASE HandshakeEnds("group_mismatch", "verification")
  BY <1>25 DEF HandshakeEnds, progress, connection
<1>26. CASE HandshakeEnds("failed", "tls_handshake")
  BY <1>26 DEF HandshakeEnds, progress, connection
<1>27. CASE SetupFails
  BY <1>27 DEF SetupFails, connection, verdict
<1>28. CASE ClockFails
  BY <1>28 DEF ClockFails, verdict
<1>29. CASE Exited
  BY <1>29 DEF Exited, vars
<1>30. CASE UNCHANGED vars
  BY <1>30 DEF vars
<1>. QED  BY <1>1, <1>2, <1>3, <1>4, <1>5, <1>6, <1>7, <1>8, <1>9, <1>10, <1>11, <1>12, <1>13, <1>14, <1>15, <1>16, <1>17, <1>18, <1>19, <1>20, <1>21, <1>22, <1>23, <1>24, <1>25, <1>26, <1>27, <1>28, <1>29, <1>30 DEF Next, Bounded, Peer

\* The client has nothing open and has said nothing when it starts.
LEMMA InitClientInv == Init => ClientInv
<1>. SUFFICES ASSUME Init PROVE ClientInv
  OBVIOUS
<1>. USE ClientAssumption DEF OptionsParse, Init
<1>1. wire \in [read : Nat, written : Nat]
  BY DEF Nothing
<1>2. TypeInv
  <2>1. pc \in Steps /\ index \in Nat /\ address \in 0..Addresses /\ chunks \in Nat
    BY DEF Steps
  <2>2. /\ recorded \in BOOLEAN /\ timedOut \in BOOLEAN /\ measured \in BOOLEAN
        /\ fd \in BOOLEAN /\ ssl \in BOOLEAN /\ counting \in BOOLEAN
    OBVIOUS
  <2>3. status \in Statuses /\ phase \in Phases /\ output \in Seq(Records)
    BY DEF Statuses, Phases
  <2>. QED  BY <1>1, <2>1, <2>2, <2>3 DEF TypeInv
<1>3. HoldsInv /\ VerdictInv
  BY DEF HoldsInv, VerdictInv, Preparing, WithoutSocket
<1>4. CountInv /\ ProgressInv /\ RecordsInv
  BY DEF CountInv, ProgressInv, RecordsInv, Accounted, Printed, Preparing, Limit
<1>. QED  BY <1>2, <1>3, <1>4 DEF ClientInv

\* The inductive invariant of one client process, whatever the network, the
\* peer and OpenSSL choose.
THEOREM ClientInvHolds == Spec => []ClientInv
<1>1. ClientInv /\ [Next]_vars => ClientInv'
  BY StepTypeInv, StepHoldsInv, StepVerdictInv, StepCountInv, StepProgressInv,
     StepRecordsInv DEF ClientInv
<1>. QED  BY InitClientInv, <1>1, PTL DEF Spec

\* The elements of a sequence are those of its set.
LEMMA ElementsBelong ==
    ASSUME NEW S, NEW s \in Seq(S)
    PROVE  \A i \in DOMAIN s : s[i] \in S
OBVIOUS

\* Type correctness of the client: the documented values of the record's
\* fields, and loops that stay within their limits.
THEOREM ClientTyped == Spec => []TypeOK
<1>1. ClientInv => TypeOK
  <2>. SUFFICES ASSUME ClientInv PROVE TypeOK
    OBVIOUS
  <2>1. index \in 0..(IF recorded THEN Attempts ELSE Warmups)
    BY ClientAssumption DEF OptionsParse, ClientInv, TypeInv, ProgressInv, Limit
  <2>2. \A i \in DOMAIN output :
           output[i].status \in Statuses /\ output[i].phase \in Phases
    <3>1. \A i \in DOMAIN output : output[i] \in Records
      BY ElementsBelong DEF ClientInv, TypeInv
    <3>. QED  BY <3>1 DEF Records
  <2>. QED  BY <2>1, <2>2 DEF TypeOK, ClientInv, TypeInv
<1>. QED  BY ClientInvHolds, <1>1, PTL

\* Every recorded attempt that is over is printed once, in order, or its write
\* failed, and warm-ups never are, for any number of both: after exit status 0
\* no attempt is missing but those whose record was lost.
THEOREM AttemptsAreRecorded == Spec => []OneRecordPerAttempt
<1>1. ClientInv => OneRecordPerAttempt
  <2>1. ClientInv => \A i, j \in DOMAIN output :
                        i < j => output[i].sequence < output[j].sequence
    BY DEF ClientInv, TypeInv, RecordsInv
  <2>2. ClientInv => /\ ~recorded => output = <<>> /\ lost = {}
                     /\ recorded /\ pc = "next" => Accounted(index)
                     /\ exit = "success" => Accounted(Attempts)
    BY DEF ClientInv, ProgressInv
  <2>. QED  BY <2>1, <2>2 DEF OneRecordPerAttempt
<1>. QED  BY ClientInvHolds, <1>1, PTL

\* A record has a latency exactly when SSL_connect ran, and counts no bytes
\* when it did not.
THEOREM LatencyIsOfHandshakes == Spec => []LatencyOnlyOfHandshakes
<1>1. ClientInv => LatencyOnlyOfHandshakes
  BY DEF ClientInv, TypeInv, RecordsInv, LatencyOnlyOfHandshakes
<1>. QED  BY ClientInvHolds, <1>1, PTL

\* The counters of count_io agree with what crossed the socket, for any number
\* of reads and writes.
THEOREM CountsAreExact == Spec => []CountsMatchWire
<1>1. ClientInv => CountsMatchWire
  BY DEF ClientInv, CountInv, CountsMatchWire
<1>. QED  BY ClientInvHolds, <1>1, PTL

\* No connection leaves a socket, an SSL object or a callback behind, for any
\* number of addresses and whichever way it ended.
THEOREM NothingIsLeaked == Spec => []NothingLeaks
<1>1. ClientInv => NothingLeaks
  BY DEF ClientInv, TypeInv, Steps, Preparing, HoldsInv, WithoutSocket, NothingLeaks
<1>. QED  BY ClientInvHolds, <1>1, PTL
=============================================================================

------------------------------ MODULE TlsClient ------------------------------
(***************************************************************************)
(* src/tls_bench_client.c: the process that measures one cell.  It makes   *)
(* Warmups + Attempts connections one after the other; each one resolves   *)
(* the server, tries its addresses in turn, runs one TLS handshake with    *)
(* counting callbacks on the socket BIO, prints one record if it is not a  *)
(* warm-up, and releases everything.  The network, the peer and OpenSSL    *)
(* choose every outcome.                                                   *)
(***************************************************************************)
EXTENDS Integers, Sequences

CONSTANTS
    Warmups, Attempts,
    Addresses,   \* bound: addresses getaddrinfo returns
    IntMax,      \* INT_MAX; an unsigned goes up to 2 * IntMax + 1
    TimeoutMs,   \* opts.timeout_ms, an unsigned
    MaxChunks,   \* bound: socket reads and writes of one connection
    None         \* no value

\* What parse_options accepts; zero warm-ups are allowed, zero attempts are not.
OptionsParse ==
    /\ Warmups \in Nat /\ Attempts \in Nat \ {0} /\ Addresses \in Nat \ {0}
    /\ IntMax \in Nat /\ TimeoutMs \in 1..(2 * IntMax + 1) /\ MaxChunks \in Nat

ASSUME ClientAssumption ==
    /\ OptionsParse
    /\ None \notin {"success", "failure", "tcp_connect", "ssl_initialise",
                    "tls_handshake", "verification"}

VARIABLES
    pc,        \* the next step
    index,     \* the loop counter, over the warm-ups and then the attempts
    recorded,  \* whether this connection is printed
    address,   \* the address being tried
    timedOut,  \* tcp_timed_out
    fd,        \* the socket is open
    ssl,       \* the SSL object is allocated
    counting,  \* the BIO callbacks are installed
    counts,    \* io_counts of this connection
    wire,      \* what really crossed the socket BIO up to SSL_connect's return
    chunks,    \* reads and writes so far
    status, phase, measured,  \* of the record about to be printed
    output,    \* the records that reached the standard output whole
    lost,      \* history: attempts whose record did not
    exit       \* the process's exit status, None while it runs

vars == <<pc, index, recorded, address, timedOut, fd, ssl, counting, counts,
          wire, chunks, status, phase, measured, output, lost, exit>>

\* OpenSSL's BIO callback operations; the flag marks the call after the I/O.
BIO_CB_READ == 2
BIO_CB_WRITE == 3
BIO_CB_RETURN == 128

\* Mutant: the classification by bit membership that the comment in count_io
\* warns of: a write is 3 and shares bit 2 of a read.
BitMembership(operation, c, n) ==
    LET code == operation - BIO_CB_RETURN
    IN  IF (code \div 2) % 2 = 1 THEN [c EXCEPT !.read = @ + n]
        ELSE IF code % 2 = 1 THEN [c EXCEPT !.written = @ + n] ELSE c

\* count_io on a successful call: match the complete operation code.
Counted(operation, c, n) ==
    LET code == operation - BIO_CB_RETURN
    IN  IF code = BIO_CB_READ THEN [c EXCEPT !.read = @ + n]
        ELSE IF code = BIO_CB_WRITE THEN [c EXCEPT !.written = @ + n] ELSE c

Nothing == [read |-> 0, written |-> 0]

\* poll's timeout is an int: (int)opts->timeout_ms wraps, and a negative
\* timeout means to wait for ever.
PollTimeout == IF TimeoutMs > IntMax THEN TimeoutMs - 2 * (IntMax + 1)
               ELSE TimeoutMs
PollEnds == PollTimeout >= 0

Init ==
    /\ pc = "next" /\ index = 0 /\ recorded = (Warmups = 0)
    /\ address = 0 /\ timedOut = FALSE
    /\ fd = FALSE /\ ssl = FALSE /\ counting = FALSE
    /\ counts = Nothing /\ wire = Nothing /\ chunks = 0
    /\ status = "failed" /\ phase = "tcp_connect" /\ measured = FALSE
    /\ output = <<>> /\ lost = {} /\ exit = None

connection == <<address, timedOut, fd, ssl, counting, counts, wire, chunks>>
verdict == <<status, phase, measured>>
progress == <<index, recorded, output, lost, exit>>
-----------------------------------------------------------------------------
(* main's two loops.                                                       *)

Limit == IF recorded THEN Attempts ELSE Warmups

\* A context that cannot be set up: main returns before the first connection.
SetupFails ==
    /\ pc = "next" /\ index = 0 /\ output = <<>> /\ lost = {}
    /\ recorded = (Warmups = 0)
    /\ pc' = "exit" /\ exit' = "failure"
    /\ UNCHANGED <<index, recorded, output, lost, connection, verdict>>

Connect(initial) ==
    /\ pc = "next" /\ pc' = "resolve"
    /\ address' = 0 /\ timedOut' = FALSE
    /\ counts' = initial /\ wire' = Nothing /\ chunks' = 0
    /\ status' = "failed" /\ phase' = "tcp_connect" /\ measured' = FALSE
    /\ UNCHANGED <<progress, fd, ssl, counting>>

\* Mutant: <= instead of < in the loops.
OneTooMany == index <= Limit /\ Connect(Nothing)
\* Mutant: the counters go on from the last connection.
KeepsCounts == index < Limit /\ Connect(counts)

StartConnection == index < Limit /\ Connect(Nothing)

StartRecording ==
    /\ pc = "next" /\ index = Limit /\ ~recorded
    /\ index' = 0 /\ recorded' = TRUE
    /\ UNCHANGED <<pc, output, lost, exit, connection, verdict>>

Finish ==
    /\ pc = "next" /\ index = Limit /\ recorded
    /\ pc' = "exit" /\ exit' = "success"
    /\ UNCHANGED <<index, recorded, output, lost, connection, verdict>>
-----------------------------------------------------------------------------
(* connect_tcp.                                                            *)

GoTo(step) == pc' = step /\ UNCHANGED <<progress, verdict>>

Resolve(found) ==
    /\ pc = "resolve"
    /\ address' = IF found THEN 1 ELSE 0
    /\ GoTo(IF found THEN "socket" ELSE "unconnected")
    /\ UNCHANGED <<timedOut, fd, ssl, counting, counts, wire, chunks>>

\* The for loop's step to the next address, or out of it.
NextAddress ==
    IF address < Addresses
      THEN address' = address + 1 /\ GoTo("socket")
      ELSE UNCHANGED address /\ GoTo("unconnected")

\* socket() or fcntl() fails.
SocketFails ==
    /\ pc = "socket"
    /\ NextAddress
    /\ UNCHANGED <<timedOut, fd, ssl, counting, counts, wire, chunks>>

OpenSocket ==
    /\ pc = "socket"
    /\ fd' = TRUE /\ GoTo("connect")
    /\ UNCHANGED <<address, timedOut, ssl, counting, counts, wire, chunks>>

Connected ==
    /\ pc \in {"connect", "poll"}
    /\ GoTo("ssl_new")
    /\ UNCHANGED connection

InProgress == pc = "connect" /\ GoTo("poll") /\ UNCHANGED connection

\* Mutant: the descriptor of a refused connection is not closed.
LeavesOpen ==
    /\ pc \in {"connect", "poll"}
    /\ NextAddress
    /\ UNCHANGED <<timedOut, fd, ssl, counting, counts, wire, chunks>>

\* connect() or the socket error refuses, or poll fails.
Refused ==
    /\ pc \in {"connect", "poll"}
    /\ fd' = FALSE /\ NextAddress
    /\ UNCHANGED <<timedOut, ssl, counting, counts, wire, chunks>>

\* Mutant: the same address is tried again.
RetriesAddress ==
    /\ pc = "poll" /\ PollEnds
    /\ timedOut' = TRUE /\ fd' = FALSE /\ GoTo("socket")
    /\ UNCHANGED <<address, ssl, counting, counts, wire, chunks>>

\* The flag stays set when a later address is tried.
PollTimesOut ==
    /\ pc = "poll" /\ PollEnds
    /\ timedOut' = TRUE /\ fd' = FALSE /\ NextAddress
    /\ UNCHANGED <<ssl, counting, counts, wire, chunks>>
-----------------------------------------------------------------------------
(* run_handshake after TCP.                                                *)

\* No address connected: an early return that prints its own record.
Unconnected ==
    /\ pc = "unconnected"
    /\ status' = IF timedOut THEN "timeout" ELSE "failed"
    /\ pc' = "emit"
    /\ UNCHANGED <<phase, measured, progress, connection>>

\* SSL_new fails, which closes the socket at once, or configuring the object
\* does: an early return.
InitialiseFails ==
    /\ pc \in {"ssl_new", "configure"}
    /\ fd' = (pc = "configure")
    /\ phase' = "ssl_initialise"
    /\ pc' = "emit"
    /\ UNCHANGED <<status, measured, progress, address, timedOut, ssl,
                   counting, counts, wire, chunks>>

NewSsl ==
    /\ pc = "ssl_new"
    /\ ssl' = TRUE /\ GoTo("configure")
    /\ UNCHANGED <<address, timedOut, fd, counting, counts, wire, chunks>>

InstallCallbacks ==
    /\ pc = "configure"
    /\ counting' = TRUE /\ phase' = "tls_handshake" /\ pc' = "handshake"
    /\ UNCHANGED <<status, measured, progress, address, timedOut, fd, ssl,
                   counts, wire, chunks>>

\* SSL_connect reads or writes through the socket BIO.
Transfer(operation) ==
    /\ pc = "handshake" /\ chunks < MaxChunks
    /\ chunks' = chunks + 1
    /\ wire' = IF operation = BIO_CB_READ THEN [wire EXCEPT !.read = @ + 1]
               ELSE [wire EXCEPT !.written = @ + 1]
    /\ counts' = IF counting THEN Counted(operation + BIO_CB_RETURN, counts, 1)
                 ELSE counts
    /\ GoTo("handshake")
    /\ UNCHANGED <<address, timedOut, fd, ssl, counting>>

\* SSL_connect returns; SO_RCVTIMEO and SO_SNDTIMEO bound each of its waits.
HandshakeEnds(st, ph) ==
    /\ pc = "handshake"
    /\ <<st, ph>> \in {<<"success", None>>,
                       <<"group_mismatch", "verification">>,
                       <<"timeout", "tls_handshake">>,
                       <<"failed", "tls_handshake">>}
    /\ status' = st /\ phase' = ph /\ measured' = TRUE
    /\ pc' = "emit"
    /\ UNCHANGED <<progress, connection>>

\* monotonic_ns, before or after SSL_connect, calls exit(EXIT_FAILURE): the
\* system takes back what the process held.
ClockFails ==
    /\ pc = "handshake" /\ pc' = "exit" /\ exit' = "failure"
    /\ fd' = FALSE /\ ssl' = FALSE /\ counting' = FALSE
    /\ UNCHANGED <<index, recorded, output, lost, verdict, address, timedOut,
                   counts, wire, chunks>>

Record == [sequence |-> index, status |-> status, phase |-> phase,
           latency |-> measured, counts |-> counts]

\* Nobody looks at what printf and fflush return: a record whose write fails, or
\* comes after half of another one, is lost, and the client goes on.
PrintIf(printed) ==
    /\ pc = "emit"
    /\ IF printed
         THEN \/ output' = Append(output, Record) /\ UNCHANGED lost
              \/ lost' = lost \cup {index} /\ UNCHANGED output
         ELSE UNCHANGED <<output, lost>>
    /\ pc' = "release"
    /\ UNCHANGED <<index, recorded, exit, verdict, connection>>

\* Mutant: the early returns print nothing.
PrintsMeasured == PrintIf(recorded /\ measured)

\* emit_result, flushed at once; a warm-up prints nothing.
Emit == PrintIf(recorded)

Return ==
    /\ index' = index + 1 /\ pc' = "next"
    /\ UNCHANGED <<recorded, output, lost, exit, verdict, address, timedOut,
                   counts, wire, chunks>>

\* connect_tcp has closed every socket it gave up.
ReturnUnconnected ==
    /\ pc = "release" /\ phase = "tcp_connect"
    /\ Return /\ UNCHANGED <<fd, ssl, counting>>

\* SSL_free and close of what there still is.
ReturnUninitialised ==
    /\ pc = "release" /\ phase = "ssl_initialise"
    /\ fd' = FALSE /\ ssl' = FALSE
    /\ Return /\ UNCHANGED counting

\* The callbacks are removed before SSL_shutdown writes its close_notify.
RemoveCallbacks ==
    /\ pc = "release" /\ measured
    /\ counting' = FALSE
    /\ GoTo("shutdown")
    /\ UNCHANGED <<address, timedOut, fd, ssl, counts, wire, chunks>>

\* SSL_shutdown, SSL_free, close.
ReturnMeasured ==
    /\ pc = "shutdown"
    /\ counts' = IF counting
                   THEN Counted(BIO_CB_WRITE + BIO_CB_RETURN, counts, 1)
                   ELSE counts
    /\ fd' = FALSE /\ ssl' = FALSE
    /\ index' = index + 1 /\ pc' = "next"
    /\ UNCHANGED <<recorded, output, lost, exit, verdict, address, timedOut,
                   counting, wire, chunks>>
-----------------------------------------------------------------------------
\* What needs nothing but this process, or ends by one of its timeouts.
Bounded ==
    \/ StartConnection \/ StartRecording \/ Finish
    \/ Resolve(TRUE) \/ Resolve(FALSE)
    \/ OpenSocket \/ SocketFails
    \/ PollTimesOut
    \/ Unconnected \/ NewSsl \/ InitialiseFails \/ InstallCallbacks
    \/ HandshakeEnds("timeout", "tls_handshake")
    \/ Emit
    \/ ReturnUnconnected \/ ReturnUninitialised
    \/ RemoveCallbacks \/ ReturnMeasured
    \/ InProgress

\* What needs the peer to answer, or something to fail.
Peer ==
    \/ Connected \/ Refused
    \/ Transfer(BIO_CB_READ) \/ Transfer(BIO_CB_WRITE)
    \/ HandshakeEnds("success", None)
    \/ HandshakeEnds("group_mismatch", "verification")
    \/ HandshakeEnds("failed", "tls_handshake")
    \/ SetupFails \/ ClockFails

\* The process is gone.
Exited == pc = "exit" /\ UNCHANGED vars

Next == Bounded \/ Peer \/ Exited

\* A connection waits for the peer no longer than its timeouts.
Spec == Init /\ [][Next]_vars /\ WF_vars(Bounded)
-----------------------------------------------------------------------------
Statuses == {"success", "failed", "timeout", "group_mismatch"}
Phases == {None, "tcp_connect", "ssl_initialise", "tls_handshake",
           "verification"}

\* The documented values of the fields, and the bounds of the loops.
TypeOK ==
    /\ index \in 0..(IF recorded THEN Attempts ELSE Warmups)
    /\ address \in 0..Addresses
    /\ status \in Statuses /\ phase \in Phases
    /\ \A i \in DOMAIN output :
          output[i].status \in Statuses /\ output[i].phase \in Phases
    /\ exit \in {None, "success", "failure"}

Printed == {output[i].sequence : i \in DOMAIN output}
Accounted(n) == Printed \cup lost = 0..(n - 1) /\ Printed \cap lost = {}

\* "Warm-up handshakes are executed but never written", and every recorded
\* attempt that is over was written once, in order, whichever of the four exits
\* of run_handshake it took, unless the write of its record failed.  An exit
\* status of 0 means that all Attempts were made, not that all were written.
OneRecordPerAttempt ==
    /\ \A i, j \in DOMAIN output :
          i < j => output[i].sequence < output[j].sequence
    /\ ~recorded => output = <<>> /\ lost = {}
    /\ recorded /\ pc = "next" => Accounted(index)
    /\ exit = "success" => Accounted(Attempts)

\* The latency of a record is the duration of SSL_connect and exists exactly
\* when SSL_connect ran: connection failures are kept without a latency, and a
\* connection that never reached TLS counts no bytes.
LatencyOnlyOfHandshakes ==
    \A i \in DOMAIN output :
        /\ output[i].latency <=>
              output[i].phase \in {None, "tls_handshake", "verification"}
        /\ output[i].phase = None <=> output[i].status = "success"
        /\ ~output[i].latency => output[i].counts = Nothing

\* The counters of a connection agree with what crossed the socket BIO in each
\* direction until SSL_connect returned: the callbacks are on for the whole
\* handshake and nothing of an earlier connection is left in them.
CountsMatchWire == counts = wire

\* Between connections the process holds no socket, no SSL object and no
\* callback into a dead stack frame.
NothingLeaks ==
    /\ pc \in {"next", "resolve", "socket", "unconnected", "exit"}
          => ~fd /\ ~ssl /\ ~counting
    /\ ssl => fd

\* The process ends, however silent the peer is.
Terminates == <>(pc = "exit")
=============================================================================

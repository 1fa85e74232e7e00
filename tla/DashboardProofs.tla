--------------------------- MODULE DashboardProofs ---------------------------
(***************************************************************************)
(* Why a page is current when nobody writes while it is made: what the     *)
(* output files and the requests were computed from, and the proofs, for   *)
(* any number of overlapping requests and of sessions between them.        *)
(***************************************************************************)
EXTENDS Dashboard, TLAPS

\* Computed from the evidence as it is.
Current == [raw |-> written, rest |-> written]

\* The runner's first write of a session outdates every output, and none is
\* newer again before a request, which waits for the session to end: what is
\* newer than its sources was computed from all of them.
OutputsInv ==
    /\ Idle \/ Between
    /\ \A f \in Files : output[f].newer => Between /\ output[f].file.seen = Current
    /\ \A t \in Threads :
          /\ Step(t) \in {"validate", "open", "fill"} => thread[t].seen.raw = written
          /\ Step(t) \in {"open", "fill"} => thread[t].seen = Current

Shown == {"validation", "confirmatory_analysis"}
Truthful(t, f) == page[t][f].whole /\ page[t][f].seen = Current

\* A refresh leaves every file it has passed newer, other refreshes
\* notwithstanding; a request without a notice finds them so and has loaded
\* what it shows whole.
Passed(t) ==
    /\ Step(t) \in {"observe", "validate"} => thread[t].next = 1
    /\ \A i \in 1..4 : \/ Step(t) = "open" /\ i < thread[t].next
                       \/ Step(t) = "fill" /\ i <= thread[t].next
                       => output[Outputs[i]].newer

Unnoticed(t) ==
    Step(t) \in {"load", "serve"} /\ ~thread[t].notice /\ kept =>
        /\ \A f \in ANALYSIS_OUTPUTS : output[f].newer
        /\ \A i \in 1..4 : /\ Loads[i] \in Shown
                           /\ Step(t) = "serve" \/ i < thread[t].next
                           => Truthful(t, Loads[i])

RequestsInv == \A t \in Threads : Passed(t) /\ Unnoticed(t)

DashboardInv == TypeOK /\ OutputsInv /\ RequestsInv
-----------------------------------------------------------------------------
(* The constants of the script, spelled out.                               *)

\* The files a session writes, a refresh writes, and a page loads, in order.
LEMMA Tables ==
    /\ Len(Session) = 4 /\ Len(Outputs) = 4 /\ Len(Loads) = 4
    /\ DOMAIN Outputs = 1..4 /\ DOMAIN Loads = 1..4
    /\ Session[1] = "schedule"
    /\ \A i \in 1..4 : Outputs[i] \in Files /\ Loads[i] \in Files
    /\ \A f \in Files : \E i \in 1..4 : f = Outputs[i]
    /\ ANALYSIS_OUTPUTS \subseteq Files /\ Shown \subseteq ANALYSIS_OUTPUTS
    /\ \A f \in Shown : \E i \in 1..4 : f = Loads[i]
    /\ "batch_cell_summary" \notin Shown
<1>1. /\ Len(Session) = 4 /\ Len(Outputs) = 4 /\ Len(Loads) = 4
      /\ DOMAIN Outputs = 1..4 /\ DOMAIN Loads = 1..4
      /\ Session[1] = "schedule"
  BY DEF Session, Outputs, Loads
<1>2. /\ Outputs[1] = "batch_cell_summary" /\ Outputs[2] = "validation"
      /\ Outputs[3] = "confirmatory_analysis" /\ Outputs[4] = "findings"
      /\ Loads[1] = "confirmatory_analysis" /\ Loads[2] = "validation"
      /\ Loads[3] = "batch_cell_summary" /\ Loads[4] = "findings"
  BY DEF Outputs, Loads
<1>3. Files = {Outputs[i] : i \in 1..4}
  BY <1>1 DEF Files
<1>4. Files = {"batch_cell_summary", "validation", "confirmatory_analysis", "findings"}
  <2>1. \A f \in Files : f \in {"batch_cell_summary", "validation", "confirmatory_analysis", "findings"}
    BY <1>2, <1>3
  <2>2. /\ "batch_cell_summary" \in Files /\ "validation" \in Files
        /\ "confirmatory_analysis" \in Files /\ "findings" \in Files
    BY <1>2, <1>3
  <2>. QED  BY <2>1, <2>2
<1>. QED  BY <1>1, <1>2, <1>4 DEF ANALYSIS_OUTPUTS, Shown

\* What the runner has written so far can be read, and stays within its bound.
LEMMA Bounds == MaxWritten \in Nat /\ (written \in 0..MaxWritten => Current \in Readings)
BY DashboardAssumption, Tables DEF MaxWritten, Current, Readings

ThreadStates ==
    [pc : {"idle", "observe", "validate", "open", "fill", "load", "serve", "error"},
     seen : Readings, next : 1..4, notice : BOOLEAN]
OutputStates == [file : Contents, newer : BOOLEAN]

\* TypeOK with its sets of records under short names.
LEMMA Types ==
    TypeOK <=> /\ written \in 0..MaxWritten /\ kept \in BOOLEAN
               /\ output \in [Files -> OutputStates]
               /\ thread \in [Threads -> ThreadStates]
               /\ page \in [Threads -> [Files -> Contents]]
BY Tables DEF TypeOK, ThreadStates, OutputStates

\* A truncated file is a file, and has seen nothing.
LEMMA BlankTyped == Blank \in Contents /\ Blank.seen \in Readings
BY Bounds DEF Blank, Contents, Readings

-----------------------------------------------------------------------------
(* What an action makes of its request.                                    *)

RequestState(p, s, n, b) == [pc |-> p, seen |-> s, next |-> n, notice |-> b]

\* Request t is in this state, and no other request has moved.
Becomes(t, p, s, n, b) == thread' = [thread EXCEPT ![t] = RequestState(p, s, n, b)]

\* Assignments to some fields of a request, as the whole request.
LEMMA StepUpdates ==
    ASSUME NEW r \in ThreadStates, NEW p, NEW n
    PROVE  /\ [r EXCEPT !.pc = p] = RequestState(p, r.seen, r.next, r.notice)
           /\ [r EXCEPT !.next = n] = RequestState(r.pc, r.seen, n, r.notice)
           /\ [r EXCEPT !.pc = p, !.next = n] = RequestState(p, r.seen, n, r.notice)
<1>. USE DEF RequestState
<1>1. /\ [r EXCEPT !.pc = p] = RequestState(p, r.seen, r.next, r.notice)
      /\ [r EXCEPT !.next = n] = RequestState(r.pc, r.seen, n, r.notice)
  BY DEF ThreadStates
<1>2. [RequestState(p, r.seen, r.next, r.notice) EXCEPT !.next = n]
         = RequestState(p, r.seen, n, r.notice)
  OBVIOUS
<1>. QED  BY <1>1, <1>2

\* The update of a request whose refresh decision is made.
LEMMA NoticeUpdates ==
    ASSUME NEW r \in ThreadStates, NEW b \in BOOLEAN
    PROVE  [r EXCEPT !.pc = "load", !.next = 1, !.notice = b]
              = RequestState("load", r.seen, 1, b)
<1>1. [r EXCEPT !.pc = "load", !.next = 1] = RequestState("load", r.seen, 1, r.notice)
  BY StepUpdates
<1>2. [RequestState("load", r.seen, 1, r.notice) EXCEPT !.notice = b]
         = RequestState("load", r.seen, 1, b)
  BY DEF RequestState
<1>. QED  BY <1>1, <1>2

\* The updates of a request that has read one half of its inputs.
LEMMA SeenUpdates ==
    ASSUME NEW r \in ThreadStates, NEW p, NEW n
    PROVE  /\ [r EXCEPT !.pc = p, !.seen.raw = n]
                 = RequestState(p, [raw |-> n, rest |-> r.seen.rest], r.next, r.notice)
           /\ [r EXCEPT !.pc = p, !.seen.rest = n]
                 = RequestState(p, [raw |-> r.seen.raw, rest |-> n], r.next, r.notice)
<1>1. [r EXCEPT !.pc = p] = RequestState(p, r.seen, r.next, r.notice)
  BY StepUpdates
<1>2. /\ [RequestState(p, r.seen, r.next, r.notice) EXCEPT !.seen.raw = n]
            = RequestState(p, [r.seen EXCEPT !.raw = n], r.next, r.notice)
      /\ [RequestState(p, r.seen, r.next, r.notice) EXCEPT !.seen.rest = n]
            = RequestState(p, [r.seen EXCEPT !.rest = n], r.next, r.notice)
  BY DEF RequestState
<1>3. /\ [r.seen EXCEPT !.raw = n] = [raw |-> n, rest |-> r.seen.rest]
      /\ [r.seen EXCEPT !.rest = n] = [raw |-> r.seen.raw, rest |-> n]
  BY DEF ThreadStates, Readings
<1>. QED  BY <1>1, <1>2, <1>3

\* Request t has got there, typed, and no other request has moved.
Moved(t, p, s, n, b) ==
    /\ thread' \in [Threads -> ThreadStates]
    /\ thread'[t].pc = p /\ thread'[t].seen = s /\ thread'[t].next = n
    /\ thread'[t].notice = b
    /\ \A u \in Threads : u # t => thread'[u] = thread[u]

\* An action's update of its request, as the state the request is then in.
LEMMA BecomesIsMoved ==
    ASSUME TypeOK, NEW t \in Threads, NEW s \in Readings, NEW n \in 1..4,
           NEW b \in BOOLEAN,
           NEW p \in {"idle", "observe", "validate", "open", "fill", "load",
                      "serve", "error"},
           Becomes(t, p, s, n, b)
    PROVE  Moved(t, p, s, n, b)
<1>1. thread \in [Threads -> ThreadStates]
  BY Types
<1>2. RequestState(p, s, n, b) \in ThreadStates
  BY DEF RequestState, ThreadStates
<1>3. /\ thread' \in [Threads -> ThreadStates]
      /\ thread'[t] = RequestState(p, s, n, b)
      /\ \A u \in Threads : u # t => thread'[u] = thread[u]
  BY <1>1, <1>2 DEF Becomes
<1>. QED  BY <1>3 DEF RequestState, Moved

\* GoTo assigns the step alone.
LEMMA GoesTo ==
    ASSUME TypeOK, NEW t \in Threads, NEW p, GoTo(t, p)
    PROVE  Becomes(t, p, thread[t].seen, thread[t].next, thread[t].notice)
<1>1. thread[t] \in ThreadStates
  BY Types
<1>2. thread' = [thread EXCEPT ![t] = [thread[t] EXCEPT !.pc = p]]
  BY DEF GoTo
<1>. QED  BY <1>1, <1>2, StepUpdates DEF Becomes

\* The next state of a request, for each of its actions.
LEMMA Moves ==
    ASSUME TypeOK, NEW t \in Threads
    PROVE  LET r == thread[t] IN
           /\ Request(t) => \E p \in {"observe", "load"} :
                               /\ Becomes(t, p, Blank.seen, 1, FALSE)
                               /\ p = "observe" <=> NeedsRefresh
           /\ Observe(t) => Becomes(t, "validate",
                               [raw |-> written, rest |-> r.seen.rest], r.next, r.notice)
           /\ ValidateDataset(t) => Becomes(t, "open",
                               [raw |-> r.seen.raw, rest |-> written], r.next, r.notice)
           /\ Truncate(t) => Becomes(t, "fill", r.seen, r.next, r.notice)
           /\ Fill(t) => \/ r.next < 4 /\ Becomes(t, "open", r.seen, r.next + 1, r.notice)
                         \/ r.next = 4 /\ \E b \in BOOLEAN : Becomes(t, "load", r.seen, 1, b)
           /\ SummariseRaises(t) \/ RefreshTimesOut(t) => Becomes(t, "load", r.seen, 1, TRUE)
           /\ Load(t) => \/ Becomes(t, "error", r.seen, r.next, r.notice)
                         \/ r.next = 4 /\ Becomes(t, "serve", r.seen, r.next, r.notice)
                         \/ r.next < 4 /\ Becomes(t, "load", r.seen, r.next + 1, r.notice)
           /\ Serve(t) => Becomes(t, "idle", r.seen, r.next, r.notice)
<1>. DEFINE r == thread[t]
<1>1. thread \in [Threads -> ThreadStates] /\ r \in ThreadStates /\ r.next \in 1..4
  BY Types DEF ThreadStates
<1>2. Request(t) => \E p \in {"observe", "load"} :
                       /\ Becomes(t, p, Blank.seen, 1, FALSE)
                       /\ p = "observe" <=> NeedsRefresh
  BY DEF Request, Becomes, RequestState
<1>4. ASSUME Observe(t)
      PROVE  Becomes(t, "validate", [raw |-> written, rest |-> r.seen.rest],
                     r.next, r.notice)
  <2>1. thread' = [thread EXCEPT ![t] = [r EXCEPT !.pc = "validate", !.seen.raw = written]]
    BY <1>4 DEF Observe
  <2>2. [r EXCEPT !.pc = "validate", !.seen.raw = written]
           = RequestState("validate", [raw |-> written, rest |-> r.seen.rest], r.next, r.notice)
    BY <1>1, SeenUpdates
  <2>. QED  BY <2>1, <2>2 DEF Becomes
<1>5. ASSUME ValidateDataset(t)
      PROVE  Becomes(t, "open", [raw |-> r.seen.raw, rest |-> written],
                     r.next, r.notice)
  <2>1. thread' = [thread EXCEPT ![t] = [r EXCEPT !.pc = "open", !.seen.rest = written]]
    BY <1>5 DEF ValidateDataset
  <2>2. [r EXCEPT !.pc = "open", !.seen.rest = written]
           = RequestState("open", [raw |-> r.seen.raw, rest |-> written], r.next, r.notice)
    BY <1>1, SeenUpdates
  <2>. QED  BY <2>1, <2>2 DEF Becomes
<1>6. ASSUME NEW b \in BOOLEAN,
             thread' = [thread EXCEPT ![t].pc = "load", ![t].next = 1, ![t].notice = b]
      PROVE  Becomes(t, "load", r.seen, 1, b)
  <2>1. thread' = [thread EXCEPT ![t] = [r EXCEPT !.pc = "load", !.next = 1, !.notice = b]]
    BY <1>6
  <2>2. [r EXCEPT !.pc = "load", !.next = 1, !.notice = b] = RequestState("load", r.seen, 1, b)
    BY <1>1, NoticeUpdates
  <2>. QED  BY <2>1, <2>2 DEF Becomes
<1>7. ASSUME Fill(t)
      PROVE  \/ r.next < 4 /\ Becomes(t, "open", r.seen, r.next + 1, r.notice)
             \/ r.next = 4 /\ \E b \in BOOLEAN : Becomes(t, "load", r.seen, 1, b)
  <2>1. CASE r.next < 4
    <3>1. thread' = [thread EXCEPT ![t].pc = "open", ![t].next = r.next + 1]
      BY <1>7, <2>1, Tables DEF Fill, FillUpTo
    <3>2. thread' = [thread EXCEPT ![t] = [r EXCEPT !.pc = "open", !.next = r.next + 1]]
      BY <3>1
    <3>3. [r EXCEPT !.pc = "open", !.next = r.next + 1]
             = RequestState("open", r.seen, r.next + 1, r.notice)
      BY <1>1, StepUpdates
    <3>. QED  BY <2>1, <3>2, <3>3 DEF Becomes
  <2>2. CASE ~(r.next < 4)
    <3>1. r.next = 4
      BY <1>1, <2>2
    <3>2. PICK b \in BOOLEAN :
             thread' = [thread EXCEPT ![t].pc = "load", ![t].next = 1, ![t].notice = b]
      BY <1>7, <2>2, Tables DEF Fill, FillUpTo
    <3>3. Becomes(t, "load", r.seen, 1, b)
      BY <3>2, <1>6
    <3>. QED  BY <3>1, <3>3
  <2>. QED  BY <2>1, <2>2
<1>8. SummariseRaises(t) \/ RefreshTimesOut(t) => Becomes(t, "load", r.seen, 1, TRUE)
  <2>1. TRUE \in BOOLEAN
    OBVIOUS
  <2>2. PICK b \in BOOLEAN : b = TRUE
    BY <2>1
  <2>. QED  BY <1>6, <2>2 DEF SummariseRaises, RefreshTimesOut, GiveUp
<1>9. ASSUME Load(t)
      PROVE  \/ Becomes(t, "error", r.seen, r.next, r.notice)
             \/ r.next = 4 /\ Becomes(t, "serve", r.seen, r.next, r.notice)
             \/ r.next < 4 /\ Becomes(t, "load", r.seen, r.next + 1, r.notice)
  <2>1. \/ GoTo(t, "error")
        \/ r.next = 4 /\ GoTo(t, "serve")
        \/ r.next # 4 /\ thread' = [thread EXCEPT ![t].next = r.next + 1]
    BY <1>9, Tables DEF Load, LoadStrict
  <2>2. ASSUME thread' = [thread EXCEPT ![t].next = r.next + 1]
        PROVE  Becomes(t, "load", r.seen, r.next + 1, r.notice)
    <3>1. thread' = [thread EXCEPT ![t] = [r EXCEPT !.next = r.next + 1]] /\ r.pc = "load"
      BY <1>9, <2>2 DEF Load, LoadStrict, Step
    <3>2. [r EXCEPT !.next = r.next + 1] = RequestState("load", r.seen, r.next + 1, r.notice)
      BY <1>1, <3>1, StepUpdates
    <3>. QED  BY <3>1, <3>2 DEF Becomes
  <2>3. CASE GoTo(t, "error")
    BY <2>3, GoesTo
  <2>4. CASE r.next = 4 /\ GoTo(t, "serve")
    BY <2>4, GoesTo
  <2>5. CASE r.next # 4 /\ thread' = [thread EXCEPT ![t].next = r.next + 1]
    BY <1>1, <2>5, <2>2
  <2>. QED  BY <2>1, <2>3, <2>4, <2>5
<1>10. Truncate(t) => Becomes(t, "fill", r.seen, r.next, r.notice)
  BY GoesTo DEF Truncate
<1>11. Serve(t) => Becomes(t, "idle", r.seen, r.next, r.notice)
  BY GoesTo DEF Serve, GoTo
<1>. QED  BY <1>2, <1>4, <1>5, <1>7, <1>8, <1>9, <1>10, <1>11

\* A request's fields are of their types.
LEMMA RequestTypes ==
    ASSUME TypeOK, NEW t \in Threads
    PROVE  /\ thread[t].seen \in Readings /\ thread[t].next \in 1..4
           /\ thread[t].notice \in BOOLEAN
           /\ [raw |-> written, rest |-> thread[t].seen.rest] \in Readings
           /\ [raw |-> thread[t].seen.raw, rest |-> written] \in Readings
           /\ Step(t) \in {"idle", "observe", "validate", "open", "fill", "load",
                           "serve", "error"}
<1>1. thread[t] \in ThreadStates /\ written \in 0..MaxWritten
  BY Types
<1>2. thread[t].seen \in Readings
  BY <1>1 DEF ThreadStates
<1>3. thread[t].seen.raw \in 0..MaxWritten /\ thread[t].seen.rest \in 0..MaxWritten
  BY <1>2 DEF Readings
<1>. QED  BY <1>1, <1>2, <1>3 DEF ThreadStates, Readings, Step

\* Where each action takes its request.
LEMMA Movements ==
    ASSUME TypeOK, NEW t \in Threads
    PROVE  /\ Request(t) => \E p \in {"observe", "load"} :
                               /\ Moved(t, p, Blank.seen, 1, FALSE)
                               /\ p = "observe" <=> NeedsRefresh
           /\ Observe(t) =>
                 Moved(t, "validate", [raw |-> written, rest |-> thread[t].seen.rest],
                       thread[t].next, thread[t].notice)
           /\ ValidateDataset(t) =>
                 Moved(t, "open", [raw |-> thread[t].seen.raw, rest |-> written],
                       thread[t].next, thread[t].notice)
           /\ Truncate(t) =>
                 Moved(t, "fill", thread[t].seen, thread[t].next, thread[t].notice)
           /\ Fill(t) =>
                 \/ /\ thread[t].next < 4
                    /\ Moved(t, "open", thread[t].seen, thread[t].next + 1, thread[t].notice)
                 \/ /\ thread[t].next = 4
                    /\ \E b \in BOOLEAN : Moved(t, "load", thread[t].seen, 1, b)
           /\ SummariseRaises(t) \/ RefreshTimesOut(t) =>
                 Moved(t, "load", thread[t].seen, 1, TRUE)
           /\ Load(t) =>
                 \/ Moved(t, "error", thread[t].seen, thread[t].next, thread[t].notice)
                 \/ /\ thread[t].next = 4
                    /\ Moved(t, "serve", thread[t].seen, thread[t].next, thread[t].notice)
                 \/ /\ thread[t].next < 4
                    /\ Moved(t, "load", thread[t].seen, thread[t].next + 1, thread[t].notice)
           /\ Serve(t) =>
                 Moved(t, "idle", thread[t].seen, thread[t].next, thread[t].notice)
<1>1. /\ thread[t].seen \in Readings /\ thread[t].next \in 1..4
      /\ thread[t].notice \in BOOLEAN
      /\ [raw |-> written, rest |-> thread[t].seen.rest] \in Readings
      /\ [raw |-> thread[t].seen.raw, rest |-> written] \in Readings
      /\ thread[t].next < 4 => thread[t].next + 1 \in 1..4
  BY RequestTypes
<1>2. ASSUME Request(t)
      PROVE  \E p \in {"observe", "load"} : /\ Moved(t, p, Blank.seen, 1, FALSE)
                                            /\ p = "observe" <=> NeedsRefresh
  <2>1. PICK p \in {"observe", "load"} :
           Becomes(t, p, Blank.seen, 1, FALSE) /\ (p = "observe" <=> NeedsRefresh)
    BY <1>2, Moves
  <2>2. PICK b \in BOOLEAN : b = FALSE
    OBVIOUS
  <2>3. Becomes(t, p, Blank.seen, 1, b)
    BY <2>1, <2>2
  <2>4. Blank.seen \in Readings /\ 1 \in 1..4
    BY BlankTyped
  <2>5. Moved(t, p, Blank.seen, 1, b)
    BY <2>3, <2>4, BecomesIsMoved
  <2>. QED  BY <2>1, <2>2, <2>5
<1>3. ASSUME Observe(t)
      PROVE  Moved(t, "validate", [raw |-> written, rest |-> thread[t].seen.rest],
                   thread[t].next, thread[t].notice)
  <2>1. Becomes(t, "validate", [raw |-> written, rest |-> thread[t].seen.rest],
                thread[t].next, thread[t].notice)
    BY <1>3, Moves
  <2>. QED  BY <1>1, <2>1, BecomesIsMoved
<1>4. ASSUME ValidateDataset(t)
      PROVE  Moved(t, "open", [raw |-> thread[t].seen.raw, rest |-> written],
                   thread[t].next, thread[t].notice)
  <2>1. Becomes(t, "open", [raw |-> thread[t].seen.raw, rest |-> written],
                thread[t].next, thread[t].notice)
    BY <1>4, Moves
  <2>. QED  BY <1>1, <2>1, BecomesIsMoved
<1>5. ASSUME Truncate(t)
      PROVE  Moved(t, "fill", thread[t].seen, thread[t].next, thread[t].notice)
  <2>1. Becomes(t, "fill", thread[t].seen, thread[t].next, thread[t].notice)
    BY <1>5, Moves
  <2>. QED  BY <1>1, <2>1, BecomesIsMoved
<1>6. ASSUME Fill(t)
      PROVE  \/ /\ thread[t].next < 4
                /\ Moved(t, "open", thread[t].seen, thread[t].next + 1, thread[t].notice)
             \/ /\ thread[t].next = 4
                /\ \E b \in BOOLEAN : Moved(t, "load", thread[t].seen, 1, b)
  <2>1. CASE thread[t].next < 4 /\ Becomes(t, "open", thread[t].seen, thread[t].next + 1,
                                           thread[t].notice)
    BY <1>1, <2>1, BecomesIsMoved
  <2>2. CASE thread[t].next = 4 /\ \E b \in BOOLEAN : Becomes(t, "load", thread[t].seen, 1, b)
    <3>1. PICK b \in BOOLEAN : Becomes(t, "load", thread[t].seen, 1, b)
      BY <2>2
    <3>2. Moved(t, "load", thread[t].seen, 1, b)
      BY <1>1, <3>1, BecomesIsMoved
    <3>. QED  BY <2>2, <3>2
  <2>. QED  BY <1>6, <2>1, <2>2, Moves
<1>7. ASSUME SummariseRaises(t) \/ RefreshTimesOut(t)
      PROVE  Moved(t, "load", thread[t].seen, 1, TRUE)
  <2>1. PICK b \in BOOLEAN : b = TRUE
    OBVIOUS
  <2>2. Becomes(t, "load", thread[t].seen, 1, b)
    BY <1>7, <2>1, Moves
  <2>3. Moved(t, "load", thread[t].seen, 1, b)
    BY <1>1, <2>2, BecomesIsMoved
  <2>. QED  BY <2>1, <2>3
<1>8. ASSUME Load(t)
      PROVE  \/ Moved(t, "error", thread[t].seen, thread[t].next, thread[t].notice)
             \/ /\ thread[t].next = 4
                /\ Moved(t, "serve", thread[t].seen, thread[t].next, thread[t].notice)
             \/ /\ thread[t].next < 4
                /\ Moved(t, "load", thread[t].seen, thread[t].next + 1, thread[t].notice)
  <2>1. CASE Becomes(t, "error", thread[t].seen, thread[t].next, thread[t].notice)
    BY <1>1, <2>1, BecomesIsMoved
  <2>2. CASE /\ thread[t].next = 4
             /\ Becomes(t, "serve", thread[t].seen, thread[t].next, thread[t].notice)
    <3>1. Moved(t, "serve", thread[t].seen, thread[t].next, thread[t].notice)
      BY <1>1, <2>2, BecomesIsMoved
    <3>. QED  BY <2>2, <3>1
  <2>3. CASE /\ thread[t].next < 4
             /\ Becomes(t, "load", thread[t].seen, thread[t].next + 1, thread[t].notice)
    <3>1. Moved(t, "load", thread[t].seen, thread[t].next + 1, thread[t].notice)
      BY <1>1, <2>3, BecomesIsMoved
    <3>. QED  BY <2>3, <3>1
  <2>. QED  BY <1>8, <2>1, <2>2, <2>3, Moves
<1>9. ASSUME Serve(t)
      PROVE  Moved(t, "idle", thread[t].seen, thread[t].next, thread[t].notice)
  <2>1. Becomes(t, "idle", thread[t].seen, thread[t].next, thread[t].notice)
    BY <1>9, Moves
  <2>. QED  BY <1>1, <2>1, BecomesIsMoved
<1>. QED  BY <1>2, <1>3, <1>4, <1>5, <1>6, <1>7, <1>8, <1>9

-----------------------------------------------------------------------------
(* Every step keeps the invariant.                                         *)

\* No step takes a variable out of its type.
LEMMA StepTypeOK == TypeOK /\ [Next]_vars => TypeOK'
<1>. SUFFICES ASSUME TypeOK, [Next]_vars PROVE TypeOK'
  OBVIOUS
<1>0. /\ written \in 0..MaxWritten /\ kept \in BOOLEAN
      /\ output \in [Files -> OutputStates]
      /\ thread \in [Threads -> ThreadStates]
      /\ page \in [Threads -> [Files -> Contents]]
  BY Types
<1>. SUFFICES /\ written' \in 0..MaxWritten /\ kept' \in BOOLEAN
              /\ output' \in [Files -> OutputStates]
              /\ thread' \in [Threads -> ThreadStates]
              /\ page' \in [Threads -> [Files -> Contents]]
  BY Tables DEF TypeOK, ThreadStates, OutputStates
<1>1. CASE RunnerWrites
  <2>1. written' \in 0..MaxWritten
    BY <1>0, <1>1, Bounds DEF RunnerWrites
  <2>2. output' \in [Files -> OutputStates]
    <3>1. CASE Outdate
      BY <1>0, <3>1 DEF Outdate, OutputStates
    <3>. QED  BY <1>0, <1>1, <3>1 DEF RunnerWrites
  <2>. QED  BY <1>0, <1>1, <2>1, <2>2 DEF RunnerWrites
<1>2. CASE CleanUp
  BY <1>0, <1>2 DEF CleanUp
<1>3. ASSUME NEW t \in Threads, Request(t) \/ RequestStep(t) \/ RefreshTimesOut(t)
      PROVE  thread' \in [Threads -> ThreadStates]
  BY <1>3, Movements DEF RequestStep, Moved
<1>4. CASE \E t \in Threads : Request(t)
  <2>1. PICK t \in Threads : Request(t)
    BY <1>4
  <2>2. thread' \in [Threads -> ThreadStates]
    BY <2>1, <1>3
  <2>3. page' \in [Threads -> [Files -> Contents]]
    BY <1>0, <2>1, BlankTyped DEF Request
  <2>. QED  BY <1>0, <2>1, <2>2, <2>3 DEF Request
<1>5. CASE \E t \in Threads : Observe(t) \/ ValidateDataset(t)
  <2>1. PICK t \in Threads : Observe(t) \/ ValidateDataset(t)
    BY <1>5
  <2>3. thread' \in [Threads -> ThreadStates]
    BY <2>1, <1>3 DEF RequestStep
  <2>. QED  BY <1>0, <2>1, <2>3 DEF Observe, ValidateDataset
<1>6. CASE \E t \in Threads : Truncate(t) \/ Fill(t)
  <2>1. PICK t \in Threads : Truncate(t) \/ Fill(t)
    BY <1>6
  <2>2. PICK whole \in BOOLEAN :
           output' = [output EXCEPT ![Outputs[thread[t].next]] =
              [file |-> [seen |-> thread[t].seen, whole |-> whole], newer |-> TRUE]]
    BY <2>1 DEF Truncate, Fill, FillUpTo
  <2>3. [file |-> [seen |-> thread[t].seen, whole |-> whole], newer |-> TRUE] \in OutputStates
    BY RequestTypes DEF OutputStates, Contents
  <2>4. output' \in [Files -> OutputStates]
    BY <1>0, <2>2, <2>3
  <2>5. thread' \in [Threads -> ThreadStates]
    BY <2>1, <1>3 DEF RequestStep
  <2>. QED  BY <1>0, <2>1, <2>4, <2>5 DEF Truncate, Fill, FillUpTo
<1>7. CASE \E t \in Threads : SummariseRaises(t) \/ RefreshTimesOut(t) \/ Serve(t)
  <2>1. PICK t \in Threads : SummariseRaises(t) \/ RefreshTimesOut(t) \/ Serve(t)
    BY <1>7
  <2>2. thread' \in [Threads -> ThreadStates]
    BY <2>1, <1>3 DEF RequestStep
  <2>. QED  BY <1>0, <2>1, <2>2 DEF SummariseRaises, RefreshTimesOut, Serve
<1>8. CASE \E t \in Threads : Load(t)
  <2>1. PICK t \in Threads : Load(t)
    BY <1>8
  <2>3. thread' \in [Threads -> ThreadStates]
    BY <2>1, <1>3 DEF RequestStep
  <2>4. PICK f \in Files : page' = [page EXCEPT ![t][f] = output[f].file]
    BY <2>1, RequestTypes, Tables DEF Load, LoadStrict
  <2>5. output[f].file \in Contents
    BY <1>0 DEF OutputStates
  <2>6. page' \in [Threads -> [Files -> Contents]]
    BY <1>0, <2>4, <2>5
  <2>. QED  BY <1>0, <2>1, <2>3, <2>6 DEF Load, LoadStrict
<1>9. CASE UNCHANGED vars
  BY <1>0, <1>9 DEF vars
<1>. QED  BY <1>1, <1>2, <1>4, <1>5, <1>6, <1>7, <1>8, <1>9 DEF Next, RequestStep

Acts(t) == Request(t) \/ RequestStep(t) \/ RefreshTimesOut(t)

\* The file a refresh writes is newer and says what the request has seen.
LEMMA WrittenFile ==
    ASSUME TypeOK, NEW t \in Threads, Truncate(t) \/ Fill(t)
    PROVE  /\ Outputs[thread[t].next] \in Files
           /\ output'[Outputs[thread[t].next]].newer
           /\ output'[Outputs[thread[t].next]].file.seen = thread[t].seen
           /\ \A f \in Files : f # Outputs[thread[t].next] => output'[f] = output[f]
<1>1. output \in [Files -> OutputStates] /\ Outputs[thread[t].next] \in Files
  BY Types, Tables, RequestTypes
<1>2. PICK whole \in BOOLEAN :
         output' = [output EXCEPT ![Outputs[thread[t].next]] =
            [file |-> [seen |-> thread[t].seen, whole |-> whole], newer |-> TRUE]]
  BY DEF Truncate, Fill, FillUpTo
<1>. QED  BY <1>1, <1>2

\* While a request is at work nobody writes evidence, and no output is outdated.
LEMMA ActsInPeace ==
    ASSUME LiveRun = FALSE, TypeOK, OutputsInv, NEW t \in Threads, Acts(t)
    PROVE  /\ Between /\ written' = written /\ kept' = kept
           /\ \A f \in Files : output[f].newer => output'[f].newer
<1>1. Between
  BY DEF Acts, Request, RequestStep, Observe, ValidateDataset, Truncate, Fill, FillUpTo,
         SummariseRaises, Load, LoadStrict, Serve, RefreshTimesOut, OutputsInv, Idle
<1>2. written' = written /\ kept' = kept
  BY DEF Acts, Request, RequestStep, Observe, ValidateDataset, Truncate, Fill, FillUpTo,
         SummariseRaises, Load, LoadStrict, Serve, RefreshTimesOut
<1>3. ASSUME NEW f \in Files, output[f].newer PROVE output'[f].newer
  <2>1. CASE Truncate(t) \/ Fill(t)
    BY <1>3, <2>1, WrittenFile
  <2>2. CASE ~(Truncate(t) \/ Fill(t))
    BY <1>3, <2>2 DEF Acts, Request, RequestStep, Observe, ValidateDataset,
         SummariseRaises, Load, LoadStrict, Serve, RefreshTimesOut
  <2>. QED  BY <2>1, <2>2
<1>. QED  BY <1>1, <1>2, <1>3

\* The runner writes when nobody asks, and the first thing it writes outdates
\* every output.
LEMMA RunnerOutdates ==
    ASSUME LiveRun = FALSE, TypeOK, OutputsInv, RunnerWrites
    PROVE  Idle /\ \A f \in Files : ~output'[f].newer
<1>1. output \in [Files -> OutputStates]
  BY Types
<1>2. CASE Outdate
  BY <1>1, <1>2 DEF Outdate, RunnerWrites, OutputStates
<1>3. CASE ~Outdate
  <2>1. ~Between
    <3>. SUFFICES ASSUME Between PROVE FALSE
      OBVIOUS
    <3>1. Session[(written % Len(Session)) + 1] = "schedule"
      BY Tables DEF Between
    <3>. QED  BY <1>3, <3>1 DEF RunnerWrites
  <2>2. output' = output
    BY <1>3 DEF RunnerWrites
  <2>. QED  BY <2>1, <2>2 DEF RunnerWrites, OutputsInv
<1>. QED  BY <1>2, <1>3

\* Every step keeps the outputs as old as they say they are.
LEMMA StepOutputsInv ==
    ASSUME LiveRun = FALSE, TypeOK, OutputsInv, [Next]_vars
    PROVE  OutputsInv'
<1>1. CASE RunnerWrites
  BY <1>1, RunnerOutdates DEF RunnerWrites, OutputsInv, Idle, Step
<1>2. CASE CleanUp \/ UNCHANGED vars
  BY <1>2 DEF CleanUp, vars, OutputsInv, Idle, Step, Between, Current
<1>3. ASSUME NEW t \in Threads, Acts(t) PROVE OutputsInv'
  <2>1. Between' /\ Current' = Current /\ written' = written
    BY <1>3, ActsInPeace DEF Between, Current
  <2>2. ASSUME NEW f \in Files, output'[f].newer
        PROVE  output'[f].file.seen = Current
    <3>1. CASE Truncate(t) \/ Fill(t)
      BY <2>2, <3>1, WrittenFile DEF Truncate, Fill, FillUpTo, OutputsInv
    <3>2. CASE ~(Truncate(t) \/ Fill(t))
      BY <1>3, <2>2, <3>2 DEF Acts, Request, RequestStep, Observe, ValidateDataset,
           SummariseRaises, Load, LoadStrict, Serve, RefreshTimesOut, OutputsInv
    <3>. QED  BY <3>1, <3>2
  <2>3. ASSUME NEW u \in Threads
        PROVE  /\ Step(u)' \in {"validate", "open", "fill"} => thread'[u].seen.raw = written
               /\ Step(u)' \in {"open", "fill"} => thread'[u].seen = Current
    <3>1. CASE u # t
      <4>1. thread'[u] = thread[u]
        BY <1>3, <3>1, Movements DEF Acts, RequestStep, Moved
      <4>. QED  BY <4>1 DEF OutputsInv, Step
    <3>2. CASE u = t
      <4>1. CASE Request(t) \/ SummariseRaises(t) \/ RefreshTimesOut(t) \/ Load(t) \/ Serve(t)
        BY <3>2, <4>1, Movements DEF Moved, Step
      <4>2. CASE Observe(t)
        <5>1. /\ Step(t)' = "validate"
              /\ thread'[t].seen = [raw |-> written, rest |-> thread[t].seen.rest]
          BY <4>2, Movements DEF Moved, Step
        <5>. QED  BY <3>2, <5>1
      <4>3. CASE ValidateDataset(t)
        <5>1. /\ Step(t)' = "open"
              /\ thread'[t].seen = [raw |-> thread[t].seen.raw, rest |-> written]
          BY <4>3, Movements DEF Moved, Step
        <5>2. thread[t].seen.raw = written
          BY <4>3 DEF ValidateDataset, OutputsInv
        <5>. QED  BY <3>2, <5>1, <5>2 DEF Current
      <4>4. CASE Truncate(t) \/ Fill(t)
        <5>1. thread[t].seen = Current /\ Current.raw = written
          BY <4>4 DEF Truncate, Fill, FillUpTo, OutputsInv, Current
        <5>. QED  BY <3>2, <4>4, <5>1, Movements DEF Moved, Step
      <4>. QED  BY <1>3, <4>1, <4>2, <4>3, <4>4 DEF Acts, RequestStep
    <3>. QED  BY <3>1, <3>2
  <2>. QED  BY <2>1, <2>2, <2>3 DEF OutputsInv
<1>. QED  BY <1>1, <1>2, <1>3 DEF Next, Acts

\* No file is loaded twice.
LEMMA LoadsDiffer == \A i, j \in 1..4 : i # j => Loads[i] # Loads[j]
BY DEF Loads

\* An emptied file that is shown ends the request in an error.
LEMMA LoadsWhole ==
    ASSUME TypeOK, NEW t \in Threads, Load(t),
           Loads[thread[t].next] \in Shown,
           ~output[Loads[thread[t].next]].file.whole
    PROVE  Moved(t, "error", thread[t].seen, thread[t].next, thread[t].notice)
<1>1. Loads[thread[t].next] \in Files \ {"batch_cell_summary"}
  BY Tables
<1>2. GoTo(t, "error")
  BY <1>1 DEF Load, LoadStrict
<1>3. Becomes(t, "error", thread[t].seen, thread[t].next, thread[t].notice)
  BY <1>2, GoesTo
<1>. QED  BY <1>3, BecomesIsMoved, RequestTypes

\* What holds of a request still holds when another one acts.
LEMMA OtherRequests ==
    ASSUME NEW u \in Threads, Passed(u), Unnoticed(u),
           written' = written, kept' = kept,
           thread'[u] = thread[u], page'[u] = page[u],
           \A f \in Files : output[f].newer => output'[f].newer
    PROVE  Passed(u)' /\ Unnoticed(u)'
<1>1. Passed(u)'
  BY Tables DEF Passed, Step
<1>2. Unnoticed(u)'
  BY Tables DEF Unnoticed, Step, Truthful, Current
<1>. QED  BY <1>1, <1>2

\* Every step keeps what the requests know of the outputs they go by.
LEMMA StepRequestsInv ==
    ASSUME LiveRun = FALSE, TypeOK, OutputsInv, RequestsInv, [Next]_vars
    PROVE  RequestsInv'
<1>1. CASE RunnerWrites
  <2>1. \A t \in Threads : Step(t)' = "idle"
    BY <1>1, RunnerOutdates DEF RunnerWrites, Idle, Step
  <2>. QED  BY <2>1 DEF RequestsInv, Passed, Unnoticed
<1>2. CASE CleanUp
  <2>1. \A t \in Threads : Step(t)' = "idle"
    BY <1>2 DEF CleanUp, Idle, Step
  <2>. QED  BY <2>1 DEF RequestsInv, Passed, Unnoticed
<1>3. CASE UNCHANGED vars
  BY <1>3, OtherRequests DEF vars, RequestsInv
<1>4. ASSUME NEW t \in Threads, Acts(t), NEW u \in Threads
      PROVE  Passed(u)' /\ Unnoticed(u)'
  <2>0. /\ written' = written /\ kept' = kept /\ Current' = Current
        /\ \A f \in Files : output[f].newer => output'[f].newer
        /\ Passed(u) /\ Unnoticed(u) /\ thread[t].next \in 1..4
    BY <1>4, ActsInPeace, RequestTypes DEF RequestsInv, Current
  <2>1. CASE u # t
    <3>1. thread'[u] = thread[u]
      BY <1>4, <2>1, Movements DEF Acts, RequestStep, Moved
    <3>2. page'[u] = page[u]
      <4>1. page \in [Threads -> [Files -> Contents]]
        BY Types
      <4>. QED  BY <1>4, <2>1, <4>1 DEF Acts, Request, RequestStep, Observe, ValidateDataset,
             Truncate, Fill, FillUpTo, SummariseRaises, Load, LoadStrict, Serve, RefreshTimesOut
    <3>. QED  BY <2>0, <3>1, <3>2, OtherRequests
  <2>2. CASE u = t
    <3>1. CASE Request(t)
      <4>1. PICK p \in {"observe", "load"} :
               Moved(t, p, Blank.seen, 1, FALSE) /\ (p = "observe" <=> NeedsRefresh)
        BY <3>1, Movements
      <4>2. Step(t)' = p /\ thread'[t].next = 1 /\ output' = output
        BY <3>1, <4>1 DEF Moved, Step, Request
      <4>3. Passed(t)'
        BY <4>2 DEF Passed
      <4>4. Unnoticed(t)'
        BY <2>0, <4>1, <4>2 DEF Unnoticed, NeedsRefresh
      <4>. QED  BY <2>2, <4>3, <4>4
    <3>2. CASE Observe(t) \/ Serve(t)
      BY <2>0, <2>2, <3>2, Movements DEF Moved, Step, Passed, Unnoticed, Observe, Serve
    <3>3. CASE ValidateDataset(t)
      <4>1. Step(t)' = "open" /\ thread'[t].next = thread[t].next
        BY <3>3, Movements DEF Moved, Step
      <4>2. thread[t].next = 1
        BY <2>0, <2>2, <3>3 DEF ValidateDataset, Passed
      <4>. QED  BY <2>2, <4>1, <4>2 DEF Passed, Unnoticed
    <3>4. CASE Truncate(t)
      <4>1. Step(t) = "open" /\ Step(t)' = "fill" /\ thread'[t].next = thread[t].next
        BY <3>4, Movements DEF Moved, Step, Truncate
      <4>2. Passed(t)'
        BY <2>0, <2>2, <3>4, <4>1, WrittenFile, Tables DEF Passed
      <4>. QED  BY <2>2, <4>1, <4>2 DEF Unnoticed
    <3>5. CASE Fill(t)
      <4>1. \A i \in 1..4 : i <= thread[t].next => output'[Outputs[i]].newer
        BY <2>0, <2>2, <3>5, Tables DEF Passed, Fill, FillUpTo
      <4>2. CASE /\ thread[t].next < 4
                 /\ Moved(t, "open", thread[t].seen, thread[t].next + 1, thread[t].notice)
        <5>1. Step(t)' = "open" /\ thread'[t].next = thread[t].next + 1
          BY <4>2 DEF Moved, Step
        <5>. QED  BY <2>0, <2>2, <4>1, <5>1 DEF Passed, Unnoticed
      <4>3. CASE /\ thread[t].next = 4
                 /\ \E b \in BOOLEAN : Moved(t, "load", thread[t].seen, 1, b)
        <5>1. Step(t)' = "load" /\ thread'[t].next = 1
          BY <4>3 DEF Moved, Step
        <5>2. \A f \in ANALYSIS_OUTPUTS : output'[f].newer
          BY <4>1, <4>3, Tables
        <5>. QED  BY <2>2, <5>1, <5>2 DEF Passed, Unnoticed
      <4>. QED  BY <3>5, <4>2, <4>3, Movements
    <3>6. CASE SummariseRaises(t) \/ RefreshTimesOut(t)
      BY <2>2, <3>6, Movements DEF Moved, Step, Passed, Unnoticed
    <3>7. CASE Load(t)
      <4>0. Step(t) = "load" /\ output' = output
        BY <3>7 DEF Load, LoadStrict
      <4>1. CASE Moved(t, "error", thread[t].seen, thread[t].next, thread[t].notice)
        <5>1. Step(t)' = "error"
          BY <4>1 DEF Moved, Step
        <5>. QED  BY <2>2, <5>1 DEF Passed, Unnoticed
      <4>2. CASE ~Moved(t, "error", thread[t].seen, thread[t].next, thread[t].notice)
        <5>1. /\ thread'[t].notice = thread[t].notice
              /\ \/ Step(t)' = "serve" /\ thread[t].next = 4
                 \/ Step(t)' = "load" /\ thread'[t].next = thread[t].next + 1
          BY <3>7, <4>2, Movements DEF Moved, Step
        <5>2. Passed(t)'
          BY <5>1 DEF Passed
        <5>3. /\ Loads[thread[t].next] \in Files
              /\ page'[t][Loads[thread[t].next]] = output[Loads[thread[t].next]].file
              /\ \A f \in Files : f # Loads[thread[t].next] => page'[t][f] = page[t][f]
          BY <2>0, <3>7, Tables, Types DEF Load, LoadStrict
        <5>4. Loads[thread[t].next] \in Shown => output[Loads[thread[t].next]].file.whole
          BY <2>0, <3>7, <4>2, LoadsWhole, Tables
        <5>5. ASSUME ~thread'[t].notice, kept',
                     NEW i \in 1..4, Loads[i] \in Shown,
                     Step(t)' = "serve" \/ i < thread'[t].next
              PROVE  Truthful(t, Loads[i])'
          <6>1. \A f \in ANALYSIS_OUTPUTS : output[f].newer
            BY <2>0, <2>2, <4>0, <5>1, <5>5 DEF Unnoticed
          <6>2. i <= thread[t].next
            BY <2>0, <5>1, <5>5
          <6>3. CASE i < thread[t].next
            <7>1. Truthful(t, Loads[i])
              BY <2>0, <2>2, <4>0, <5>1, <5>5, <6>3 DEF Unnoticed
            <7>2. Loads[i] # Loads[thread[t].next] /\ Loads[i] \in Files
              BY <2>0, <6>3, LoadsDiffer, Tables
            <7>. QED  BY <2>0, <5>3, <7>1, <7>2 DEF Truthful
          <6>4. CASE i = thread[t].next
            BY <2>0, <5>3, <5>4, <5>5, <6>1, <6>4, Tables DEF Truthful, OutputsInv
          <6>. QED  BY <2>0, <6>2, <6>3, <6>4
        <5>6. ASSUME ~thread'[t].notice, kept'
              PROVE  \A f \in ANALYSIS_OUTPUTS : output'[f].newer
          BY <2>0, <2>2, <4>0, <5>1, <5>6 DEF Unnoticed
        <5>7. Unnoticed(t)'
          BY <5>5, <5>6 DEF Unnoticed
        <5>. QED  BY <2>2, <5>2, <5>7
      <4>. QED  BY <4>1, <4>2
    <3>. QED  BY <1>4, <3>1, <3>2, <3>3, <3>4, <3>5, <3>6, <3>7 DEF Acts, RequestStep
  <2>. QED  BY <2>1, <2>2
<1>. QED  BY <1>1, <1>2, <1>3, <1>4 DEF Next, Acts, RequestsInv


\* The directory was analysed before the server started.
LEMMA InitDashboardInv == Init => DashboardInv
<1>. SUFFICES ASSUME Init PROVE DashboardInv
  OBVIOUS
<1>1. TypeOK
  <2>1. written \in 0..MaxWritten /\ kept \in BOOLEAN
    BY Bounds DEF Init
  <2>2. output \in [Files -> OutputStates]
    BY BlankTyped DEF Init, OutputStates
  <2>3. thread \in [Threads -> ThreadStates]
    BY BlankTyped DEF Init, ThreadStates
  <2>4. page \in [Threads -> [Files -> Contents]]
    BY BlankTyped DEF Init
  <2>. QED  BY <2>1, <2>2, <2>3, <2>4, Types
<1>2. \A t \in Threads : Step(t) = "idle"
  BY DEF Init, Step
<1>3. \A f \in Files : output[f].file.seen = Current
  BY DEF Init, Blank, Current
<1>4. Between
  BY Tables DEF Init, Between
<1>5. OutputsInv
  BY <1>2, <1>3, <1>4 DEF OutputsInv
<1>6. RequestsInv
  BY <1>2 DEF RequestsInv, Passed, Unnoticed
<1>. QED  BY <1>1, <1>5, <1>6 DEF DashboardInv

-----------------------------------------------------------------------------
\* Type correctness of the server, also while a session is at work.
THEOREM DashboardTyped == Spec => []TypeOK
<1>1. Init => TypeOK
  BY InitDashboardInv DEF DashboardInv
<1>. QED  BY <1>1, StepTypeOK, PTL DEF Spec

\* The inductive invariant of the server between the sessions of the runner.
THEOREM DashboardInvHolds ==
    ASSUME LiveRun = FALSE
    PROVE  Spec => []DashboardInv
<1>1. DashboardInv /\ [Next]_vars => DashboardInv'
  BY StepTypeOK, StepOutputsInv, StepRequestsInv DEF DashboardInv
<1>. QED  BY InitDashboardInv, <1>1, PTL DEF Spec

\* If no page is requested while a session is at work, "refresh only when source
\* evidence is newer than generated analysis" is enough, for any number of
\* overlapping requests, sessions, failing refreshes and timeouts.
THEOREM StaleAnalysisIsNoticed ==
    ASSUME LiveRun = FALSE
    PROVE  Spec => []StaleIsNoticed
<1>1. DashboardInv => StaleIsNoticed
  <2>. SUFFICES ASSUME DashboardInv, kept, ~NeedsRefresh, NEW f \in ANALYSIS_OUTPUTS
                PROVE  Fresh(output[f].file.seen)
    BY DEF StaleIsNoticed
  <2>1. output[f].file.seen = Current
    BY Tables DEF NeedsRefresh, DashboardInv, OutputsInv
  <2>. QED  BY <2>1 DEF Fresh, Current
<1>. QED  BY <1>1, DashboardInvHolds, PTL

\* Under the same condition a page without a notice shows the verdict and the
\* contrasts of the evidence as it is, whole, whatever other requests rewrote
\* while it loaded them.
THEOREM UnnoticedPagesAreCurrent ==
    ASSUME LiveRun = FALSE
    PROVE  Spec => []UnnoticedPageIsCurrent
<1>1. DashboardInv => UnnoticedPageIsCurrent
  <2>. SUFFICES ASSUME DashboardInv, NEW t \in Threads, Step(t) = "serve",
                       ~thread[t].notice, kept,
                       NEW f \in {"validation", "confirmatory_analysis"}
                PROVE  page[t][f].whole /\ Fresh(page[t][f].seen)
    BY DEF UnnoticedPageIsCurrent
  <2>1. PICK i \in 1..4 : f = Loads[i] /\ Loads[i] \in Shown
    BY Tables DEF Shown
  <2>2. Truthful(t, Loads[i])
    BY <2>1 DEF DashboardInv, RequestsInv, Unnoticed
  <2>. QED  BY <2>1, <2>2 DEF Truthful, Fresh, Current
<1>. QED  BY <1>1, DashboardInvHolds, PTL
=============================================================================

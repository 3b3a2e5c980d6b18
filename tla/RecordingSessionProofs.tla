----------------------- MODULE RecordingSessionProofs -----------------------
(* Proofs about one recording session over a replication stream: one commit*)
(* at a time is on its way, nothing is lost or told twice, a stop leaves   *)
(* nothing behind, and an artifact is called invalid only for a divergence.*)
(* The session is shown to implement the durable capture of DurableCapture *)
(* and the contract that the reconnect supervisor relies on.               *)
(*                                                                         *)
(* The invariant relates what the parties know: the stream (the pending    *)
(* commit, the assembler, the owner's read), the session's program counter,*)
(* and four positions - received, stored, durable and told - which differ  *)
(* by one at most while the stream is active.                              *)
EXTENDS RecordingSession, TLAPS

\* Where the session's loop runs: it has begun and nothing has ended it.
Looping == {"reading", "appending", "acknowledging"}
\* Before the loop, while the boundary is checked and the recording opened.
Starting == {"opening", "refusing", "checking", "marking"}
\* After it.
Leaving == {"closing", "settling", "done"}

\* The positions that commits have got to.
PositionTypes ==
  /\ received \in 0 .. MaxCommits
  /\ told \in Nat /\ durable \in Nat /\ stored \in Nat

\* What the stream keeps has its type.
StreamTypes ==
  /\ terminal \in End \union {NoEnd}
  /\ assembler \in {"idle", "pending", "closed"}
  /\ pending \in Pending \union {NoPending}
  /\ read \in Read
  /\ deadline \in BOOLEAN
  /\ destroy \in {"none", "running", "ok", "failed"}

\* What the session keeps has its type.
SessionTypes ==
  /\ pc \in Steps
  /\ stopping \in BOOLEAN /\ stopCancelled \in BOOLEAN
  /\ closing \in {"none", "queued", "running", "ok", "failed"}
  /\ failures \in Seq(Code)
  /\ result \in {"pending", "resolved", "rejected"}

\* The recording, the append on its way, and what went wrong.
StoreTypes ==
  /\ status \in Status
  /\ append \in AppendRequest \union {NoAppend}
  /\ faults \subseteq {"divergence", "append", "cleanup", "lifecycle"}

\* A stream that has ended has closed its assembler and holds nothing.
StreamSound ==
  /\ Active <=> destroy = "none"
  /\ Active <=> assembler # "closed"
  /\ ~Active => ~deadline /\ pending = NoPending

\* A pending commit is the last one received; it is delivered before the session
\* works on it, and stays pending until it is acknowledged.
DeliverySound ==
  /\ Active => (pending = NoPending => assembler = "idle")
  /\ Active /\ pending # NoPending => (assembler = "idle" <=> pc = "acknowledging")
  /\ pending # NoPending =>
       /\ pending.position = received
       /\ pc \notin {"opening", "refusing"}
       /\ pending.delivered => pc \notin {"checking", "marking"}
  /\ Active /\ pc \in {"appending", "acknowledging"} => pending # NoPending
  /\ Active /\ pc = "appending" => pending.delivered

\* The session has a read exactly while it reads; the read is answered by the
\* pending commit or by the end of the stream.
ReadSound ==
  /\ read # NoRead <=> pc = "reading"
  /\ read = Waiting => Active /\ pending = NoPending
  /\ Active /\ read # NoRead /\ read # Waiting => pending # NoPending /\ pending.delivered
  /\ read.kind = "delivered" =>
       /\ read.position = received
       /\ Active \/ terminal.by = "owner"
  /\ read.kind = "rejected" => ~Active /\ read.code = terminal.code

\* What is told is durable, what is durable stored, what is stored received.
PositionsSound ==
  /\ told <= durable /\ durable <= stored /\ stored <= received
  /\ Active /\ assembler = "idle" => durable = received
  /\ Active /\ assembler = "pending" => durable + 1 = received
  /\ pc \in Starting \union {"reading"} => stored = durable
  /\ pc = "appending" => append # NoAppend
  /\ append # NoAppend =>
       /\ append.position = received
       /\ append.kind = "stored" => pc = "appending" /\ stored = received
       /\ append.kind = "sent" => stored + 1 = received

\* The close runs once, after the stream has ended, and before the session does.
EndSound ==
  /\ closing \in {"none", "queued"} \/ ~Active
  /\ pc \in Starting \union {"aborting"} => ~stopping
  /\ pc \in Starting => closing = "none"
  /\ pc \in Looping /\ closing # "none" => stopping
  /\ stopping => closing # "none"
  /\ stopCancelled => stopping /\ ~Active /\ terminal.by = "owner"
  /\ pc \in Looping /\ ~Active /\ terminal.by = "owner" => stopCancelled
  /\ ~Active /\ terminal.by = "owner" => terminal.code = "CANCELLED" /\ closing \notin {"none", "queued"}
  /\ pc \in {"aborting", "closing"} => closing # "none"
  /\ pc \in {"settling", "done"} => closing \in {"ok", "failed"}
  /\ closing \in {"ok", "failed"} => destroy = closing
  /\ pc = "aborted" => destroy \in {"ok", "failed"} /\ closing \notin {"queued", "running"}

\* The session is done when its result is told; what failed is among its failures.
OutcomeSound ==
  /\ result # "pending" => pc \in {"done", "aborted"}
  /\ pc \in Starting \union Looping => failures = << >>
  /\ "append" \in faults => pc \in Leaving /\ failures # << >>
  /\ append # NoAppend => pc = "appending" \/ "append" \in faults
  /\ "cleanup" \in faults => destroy = "failed"
  /\ "lifecycle" \in faults => pc = "done" /\ result = "rejected"
  /\ pc \in {"settling", "done"} /\ closing = "failed" => failures # << >>
  /\ result = "resolved" => pc = "done" /\ failures = << >>

\* INVALID comes from a divergence, or from a recording that could not be left.
InvalidSound ==
  /\ InvalidOnlyForDivergence
  /\ ~Active /\ terminal.code = "INVALID" => "divergence" \in faults
  /\ pc \in Leaving /\ failures # << >> /\ failures[1] = "INVALID" =>
        "divergence" \in faults \/ (pc = "done" /\ result = "rejected")

\* The inductive invariant.
SessionInv ==
  /\ PositionTypes /\ StreamTypes /\ SessionTypes /\ StoreTypes
  /\ StreamSound /\ DeliverySound /\ ReadSound /\ PositionsSound
  /\ EndSound /\ OutcomeSound /\ InvalidSound

\* What stop() leaves of the stream has its type.
LEMMA TerminateTypes ==
  ASSUME StreamTypes, NEW code \in Code, NEW by \in {"owner", "source"}, Terminate(code, by)
  PROVE  StreamTypes'
<1>1. /\ [kind |-> "ended", code |-> code, by |-> by] \in End
      /\ Rejected(code) \in Read
  BY DEF End, Read, Rejected
<1> QED
  BY <1>1 DEF StreamTypes, Terminate, DeliveryFails

\* The ways out of the loop leave the session with its type.
LEMMA LeavingTypes ==
  ASSUME SessionTypes, NEW code \in Code
  PROVE  /\ Finish => SessionTypes'
         /\ Fail(code) => SessionTypes'
         /\ Cancelled(code) => SessionTypes'
         /\ Abort(code) => SessionTypes'
<1>1. Append(failures, code) \in Seq(Code) /\ << code >> \in Seq(Code)
  BY DEF SessionTypes
<1>2. Finish => SessionTypes'
  BY DEF SessionTypes, Finish, AwaitClose, Steps
<1>3. Fail(code) => SessionTypes'
  BY <1>1 DEF SessionTypes, Fail, AwaitClose, Steps
<1>4. Cancelled(code) => SessionTypes'
  BY <1>2, <1>3 DEF Cancelled
<1>5. Abort(code) => SessionTypes'
  BY <1>1 DEF SessionTypes, Abort, AwaitClose, Steps
<1> QED
  BY <1>2, <1>3, <1>4, <1>5

\* Entering the loop keeps the types of both sides.
LEMMA EnterLoopTypes ==
  ASSUME StreamTypes, SessionTypes, NEW p \in Pending \union {NoPending}, EnterLoop(p),
         p # NoPending => p.position \in 0 .. MaxCommits,
         UNCHANGED <<terminal, assembler, destroy>>, deadline' \in BOOLEAN
  PROVE  StreamTypes' /\ SessionTypes'
<1>1. pending' \in Pending \union {NoPending}
  BY DEF EnterLoop, Pending, NoPending
<1>2. ~stopping => NextRead(p) \in Read
  <2>1. \A code \in Code : Rejected(code) \in Read
    BY DEF Read
  <2>2. \A n \in 0 .. MaxCommits : Delivered(n) \in Read
    BY DEF Read
  <2>3. Waiting \in Read
    BY DEF Read
  <2>4. ~Active => terminal.code \in Code
    BY DEF StreamTypes, Active, End, NoEnd
  <2>5. "INVALID" \in Code
    BY DEF Code
  <2> QED
    BY <2>1, <2>2, <2>3, <2>4, <2>5 DEF NextRead
<1>3. StreamTypes'
  BY <1>1, <1>2 DEF StreamTypes, EnterLoop
<1>4. SessionTypes'
  BY DEF SessionTypes, EnterLoop, Continue, Await, Steps, Finish, AwaitClose
<1> QED
  BY <1>3, <1>4

\* Once it has ended, the stream has an end with a code.
LEMMA EndTypes == StreamTypes /\ ~Active => terminal \in End /\ terminal.code \in Code
  BY DEF StreamTypes, Active, End, NoEnd

-----------------------------------------------------------------------------

\* Every step keeps the invariant.
LEMMA SessionStep == SessionInv /\ [Next]_vars => SessionInv'
<1> SUFFICES ASSUME SessionInv, [Next]_vars PROVE SessionInv' OBVIOUS
<1> USE CommitsAssumption
<1>1. CASE Commit
  <2>0. /\ Active' /\ pending' # NoPending /\ pending'.position = received'
        /\ pending'.delivered = (read = Waiting)
        /\ read' = IF read = Waiting THEN Delivered(received') ELSE read
        /\ assembler = "idle" /\ assembler' = "pending"
    BY <1>1 DEF Commit, Active, NoPending, SessionInv, DeliverySound
  <2>1. PositionTypes'
    BY <1>1 DEF SessionInv, Commit, store, PositionTypes
  <2>2. StreamTypes'
    <3>1. Delivered(received + 1) \in Read
      BY <1>1 DEF Commit, SessionInv, PositionTypes, Read
    <3>2. \A b \in BOOLEAN : [kind |-> "pending", position |-> received + 1, delivered |-> b] \in Pending
      BY DEF SessionInv, PositionTypes, Pending
    <3>3. (read = Waiting) \in BOOLEAN
      OBVIOUS
    <3> QED
      BY <3>1, <3>2, <2>0, <1>1 DEF Commit, SessionInv, StreamTypes
  <2>3. SessionTypes'
    BY <1>1 DEF SessionInv, Commit, session, SessionTypes
  <2>4. StoreTypes'
    BY <1>1 DEF SessionInv, Commit, store, StoreTypes
  <2>5. StreamSound'
    BY <1>1, <2>0 DEF SessionInv, Commit, StreamSound
  <2>6. DeliverySound'
    <3>1. read = Waiting => pc = "reading"
      BY DEF SessionInv, ReadSound, NoRead, Waiting
    <3> QED
      BY <3>1, <2>0, <1>1 DEF Commit, session, SessionInv, DeliverySound
  <2>7. ReadSound'
    <3>1. CASE read = Waiting
      BY <3>1, <2>0, <1>1 DEF Commit, session, SessionInv, ReadSound, NoRead,
          Waiting, Delivered
    <3>2. CASE read # Waiting
      <4>1. read = NoRead
        BY <3>2, <1>1 DEF Commit, SessionInv, ReadSound
      <4> QED
        BY <3>2, <2>0, <1>1 DEF Commit, session, SessionInv, ReadSound, NoRead
    <3> QED
      BY <3>1, <3>2
  <2>8. PositionsSound'
    BY <1>1 DEF SessionInv, Commit, Quiet, session, store, PositionsSound,
        PositionTypes, DeliverySound, EndSound, OutcomeSound, Leaving
  <2>9. EndSound'
    BY <1>1, <2>0 DEF SessionInv, Commit, session, EndSound
  <2>10. OutcomeSound'
    BY <1>1, <2>0 DEF SessionInv, Commit, session, store, OutcomeSound
  <2>11. InvalidSound'
    BY <1>1, <2>0 DEF SessionInv, Commit, session, store, InvalidSound,
        InvalidOnlyForDivergence
  <2> QED
    BY <2>1, <2>2, <2>3, <2>4, <2>5, <2>6, <2>7, <2>8, <2>9, <2>10, <2>11 DEF
        SessionInv
<1>2. CASE BadFrame
  <2>1. PositionTypes'
    BY <1>2 DEF SessionInv, BadFrame, store, PositionTypes
  <2>2. StreamTypes'
    <3>1. "INVALID" \in Code /\ "LIMIT_EXCEEDED" \in Code /\ "SOURCE_UNAVAILABLE" \in Code
          /\ "CANCELLED" \in Code /\ "STORAGE_FAILURE" \in Code
      BY DEF Code
    <3> QED
      BY <3>1, <1>2, TerminateTypes DEF SessionInv, BadFrame
  <2>3. SessionTypes'
    BY <1>2 DEF SessionInv, BadFrame, session, SessionTypes
  <2>4. StoreTypes'
    BY <1>2 DEF SessionInv, BadFrame, store, StoreTypes
  <2>5. StreamSound'
    BY <1>2 DEF BadFrame, Active, NoEnd, Terminate, DeliveryFails, StreamSound
  <2>6. DeliverySound'
    BY <1>2 DEF BadFrame, Active, NoEnd, Terminate, DeliveryFails, DeliverySound
  <2>7. ReadSound'
    BY <1>2 DEF SessionInv, BadFrame, NoRead, Waiting, Active, NoEnd, Terminate,
        DeliveryFails, Rejected, session, ReadSound
  <2>8. PositionsSound'
    BY <1>2 DEF SessionInv, BadFrame, Terminate, session, store, PositionsSound
  <2>9. EndSound'
    BY <1>2 DEF SessionInv, BadFrame, Terminate, session, EndSound, StreamSound
  <2>10. OutcomeSound'
    BY <1>2 DEF SessionInv, BadFrame, session, store, OutcomeSound, StreamSound
  <2>11. InvalidSound'
    BY <1>2 DEF SessionInv, BadFrame, Terminate, session, store, InvalidSound,
        InvalidOnlyForDivergence
  <2> QED
    BY <2>1, <2>2, <2>3, <2>4, <2>5, <2>6, <2>7, <2>8, <2>9, <2>10, <2>11 DEF
        SessionInv
<1>3. CASE Heartbeat
  <2>1. PositionTypes'
    BY <1>3 DEF SessionInv, Heartbeat, Acknowledged, Larger, Progress, store,
        PositionTypes
  <2>2. StreamTypes'
    <3>1. "INVALID" \in Code /\ "LIMIT_EXCEEDED" \in Code /\ "SOURCE_UNAVAILABLE" \in Code
          /\ "CANCELLED" \in Code /\ "STORAGE_FAILURE" \in Code
      BY DEF Code
    <3> QED
      BY <3>1, <1>3, TerminateTypes DEF SessionInv, Heartbeat, StreamTypes
  <2>3. SessionTypes'
    BY <1>3 DEF SessionInv, Heartbeat, session, SessionTypes
  <2>4. StoreTypes'
    BY <1>3 DEF SessionInv, Heartbeat, store, StoreTypes
  <2>5. StreamSound'
    BY <1>3 DEF SessionInv, Heartbeat, Active, NoEnd, Terminate, DeliveryFails,
        StreamSound
  <2>6. DeliverySound'
    BY <1>3 DEF SessionInv, Heartbeat, Active, NoEnd, Terminate, DeliveryFails,
        session, DeliverySound
  <2>7. ReadSound'
    BY <1>3 DEF SessionInv, Heartbeat, Quiet, ReadReady, NoRead, Waiting, Active,
        NoEnd, Terminate, DeliveryFails, Rejected, session, ReadSound
  <2>8. PositionsSound'
    BY <1>3 DEF SessionInv, Heartbeat, Acknowledged, Larger, Progress, Terminate,
        session, store, PositionsSound, PositionTypes
  <2>9. EndSound'
    BY <1>3 DEF SessionInv, Heartbeat, Active, Terminate, session, EndSound,
        StreamSound
  <2>10. OutcomeSound'
    BY <1>3 DEF SessionInv, Heartbeat, session, store, OutcomeSound, StreamSound
  <2>11. InvalidSound'
    BY <1>3 DEF SessionInv, Heartbeat, Active, Terminate, session, store,
        InvalidSound, InvalidOnlyForDivergence
  <2> QED
    BY <2>1, <2>2, <2>3, <2>4, <2>5, <2>6, <2>7, <2>8, <2>9, <2>10, <2>11 DEF
        SessionInv
<1>4. CASE SourceFails
  <2>1. PositionTypes'
    BY <1>4 DEF SessionInv, SourceFails, store, PositionTypes
  <2>2. StreamTypes'
    <3>1. "INVALID" \in Code /\ "LIMIT_EXCEEDED" \in Code /\ "SOURCE_UNAVAILABLE" \in Code
          /\ "CANCELLED" \in Code /\ "STORAGE_FAILURE" \in Code
      BY DEF Code
    <3> QED
      BY <3>1, <1>4, TerminateTypes DEF SessionInv, SourceFails
  <2>3. SessionTypes'
    BY <1>4 DEF SessionInv, SourceFails, session, SessionTypes
  <2>4. StoreTypes'
    BY <1>4 DEF SessionInv, SourceFails, store, StoreTypes
  <2>5. StreamSound'
    BY <1>4 DEF SourceFails, Active, NoEnd, Terminate, DeliveryFails, StreamSound
  <2>6. DeliverySound'
    BY <1>4 DEF SourceFails, Active, NoEnd, Terminate, DeliveryFails, DeliverySound
  <2>7. ReadSound'
    BY <1>4 DEF SessionInv, SourceFails, ReadReady, NoRead, Waiting, Active, NoEnd,
        Terminate, DeliveryFails, Rejected, session, ReadSound
  <2>8. PositionsSound'
    BY <1>4 DEF SessionInv, SourceFails, Terminate, session, store, PositionsSound
  <2>9. EndSound'
    BY <1>4 DEF SessionInv, SourceFails, Terminate, session, EndSound, StreamSound
  <2>10. OutcomeSound'
    BY <1>4 DEF SessionInv, SourceFails, session, store, OutcomeSound, StreamSound
  <2>11. InvalidSound'
    BY <1>4 DEF SessionInv, SourceFails, Terminate, session, store, InvalidSound,
        InvalidOnlyForDivergence
  <2> QED
    BY <2>1, <2>2, <2>3, <2>4, <2>5, <2>6, <2>7, <2>8, <2>9, <2>10, <2>11 DEF
        SessionInv
<1>5. CASE WrongSource
  <2>1. PositionTypes'
    BY <1>5 DEF SessionInv, WrongSource, store, PositionTypes
  <2>2. StreamTypes'
    <3>1. "INVALID" \in Code /\ "LIMIT_EXCEEDED" \in Code /\ "SOURCE_UNAVAILABLE" \in Code
          /\ "CANCELLED" \in Code /\ "STORAGE_FAILURE" \in Code
      BY DEF Code
    <3> QED
      BY <3>1, <1>5, TerminateTypes DEF SessionInv, WrongSource
  <2>3. SessionTypes'
    BY <1>5 DEF SessionInv, WrongSource, session, SessionTypes
  <2>4. StoreTypes'
    BY <1>5 DEF SessionInv, WrongSource, store, StoreTypes
  <2>5. StreamSound'
    BY <1>5 DEF WrongSource, Active, NoEnd, Terminate, DeliveryFails, StreamSound
  <2>6. DeliverySound'
    BY <1>5 DEF WrongSource, Active, NoEnd, Terminate, DeliveryFails, DeliverySound
  <2>7. ReadSound'
    BY <1>5 DEF SessionInv, WrongSource, Terminate, DeliveryFails, Waiting, session,
        ReadSound, NoRead
  <2>8. PositionsSound'
    BY <1>5 DEF SessionInv, WrongSource, Terminate, session, store, PositionsSound
  <2>9. EndSound'
    BY <1>5 DEF SessionInv, WrongSource, Terminate, session, EndSound
  <2>10. OutcomeSound'
    BY <1>5 DEF SessionInv, WrongSource, session, store, OutcomeSound, StreamSound
  <2>11. InvalidSound'
    BY <1>5 DEF WrongSource, InvalidSound, InvalidOnlyForDivergence
  <2> QED
    BY <2>1, <2>2, <2>3, <2>4, <2>5, <2>6, <2>7, <2>8, <2>9, <2>10, <2>11 DEF
        SessionInv
<1>6. CASE DeadlineExpires
  <2>0. Active
    BY <1>6 DEF DeadlineExpires, SessionInv, StreamSound
  <2>1. PositionTypes'
    BY <1>6 DEF SessionInv, DeadlineExpires, store, PositionTypes
  <2>2. StreamTypes'
    <3>1. "INVALID" \in Code /\ "LIMIT_EXCEEDED" \in Code /\ "SOURCE_UNAVAILABLE" \in Code
          /\ "CANCELLED" \in Code /\ "STORAGE_FAILURE" \in Code
      BY DEF Code
    <3> QED
      BY <3>1, <1>6, TerminateTypes DEF SessionInv, DeadlineExpires
  <2>3. SessionTypes'
    BY <1>6 DEF SessionInv, DeadlineExpires, session, SessionTypes
  <2>4. StoreTypes'
    BY <1>6 DEF SessionInv, DeadlineExpires, store, StoreTypes
  <2>5. StreamSound'
    BY <1>6, <2>0 DEF DeadlineExpires, Terminate, Active, NoEnd, DeliveryFails,
        StreamSound
  <2>6. DeliverySound'
    BY <1>6, <2>0 DEF DeadlineExpires, Terminate, Active, NoEnd, DeliveryFails,
        DeliverySound
  <2>7. ReadSound'
    BY <1>6, <2>0 DEF SessionInv, DeadlineExpires, Quiet, ReadReady, NoRead,
        Waiting, Terminate, Active, NoEnd, DeliveryFails, Rejected, session,
        ReadSound
  <2>8. PositionsSound'
    BY <1>6, <2>0 DEF SessionInv, DeadlineExpires, Terminate, session, store,
        PositionsSound
  <2>9. EndSound'
    BY <1>6, <2>0 DEF SessionInv, DeadlineExpires, Terminate, session, EndSound,
        StreamSound
  <2>10. OutcomeSound'
    BY <1>6 DEF SessionInv, DeadlineExpires, session, store, OutcomeSound,
        StreamSound
  <2>11. InvalidSound'
    BY <1>6, <2>0 DEF SessionInv, DeadlineExpires, Terminate, session, store,
        InvalidSound, InvalidOnlyForDivergence
  <2> QED
    BY <2>1, <2>2, <2>3, <2>4, <2>5, <2>6, <2>7, <2>8, <2>9, <2>10, <2>11 DEF
        SessionInv
<1>7. CASE DestroySettles
  <2>1. PositionTypes'
    BY <1>7 DEF SessionInv, DestroySettles, store, PositionTypes
  <2>2. StreamTypes'
    BY <1>7 DEF SessionInv, DestroySettles, StreamTypes
  <2>3. SessionTypes'
    BY <1>7 DEF SessionInv, DestroySettles, session, SessionTypes
  <2>4. StoreTypes'
    BY <1>7 DEF SessionInv, DestroySettles, store, StoreTypes
  <2>5. StreamSound'
    BY <1>7 DEF SessionInv, DestroySettles, StreamSound, Active
  <2>6. DeliverySound'
    BY <1>7 DEF SessionInv, DestroySettles, session, DeliverySound, Active
  <2>7. ReadSound'
    BY <1>7 DEF SessionInv, DestroySettles, session, ReadSound, Active
  <2>8. PositionsSound'
    BY <1>7 DEF SessionInv, DestroySettles, session, store, PositionsSound, Active
  <2>9. EndSound'
    BY <1>7 DEF SessionInv, DestroySettles, session, EndSound, Active
  <2>10. OutcomeSound'
    BY <1>7 DEF SessionInv, DestroySettles, session, store, OutcomeSound
  <2>11. InvalidSound'
    BY <1>7 DEF SessionInv, DestroySettles, session, store, InvalidSound,
        InvalidOnlyForDivergence, Active
  <2> QED
    BY <2>1, <2>2, <2>3, <2>4, <2>5, <2>6, <2>7, <2>8, <2>9, <2>10, <2>11 DEF
        SessionInv
<1>8. CASE Started
  BY <1>8 DEF SessionInv, Started, Active, Await, store, PositionTypes, StreamTypes,
      SessionTypes, Steps, StoreTypes, StreamSound, DeliverySound, ReadSound,
      PositionsSound, Starting, EndSound, OutcomeSound, InvalidSound,
      InvalidOnlyForDivergence
<1>9. CASE Refuse
  BY <1>9 DEF SessionInv, Refuse, Active, Await, stream, store, PositionTypes,
      StreamTypes, SessionTypes, Steps, StoreTypes, StreamSound, DeliverySound,
      ReadSound, PositionsSound, Starting, EndSound, OutcomeSound, InvalidSound,
      InvalidOnlyForDivergence
<1>10. CASE Refused
  BY <1>10 DEF SessionInv, Refused, Await, stream, store, PositionTypes,
      StreamTypes, SessionTypes, Steps, StoreTypes, StreamSound, Active,
      DeliverySound, ReadSound, PositionsSound, Starting, EndSound, OutcomeSound,
      InvalidSound, InvalidOnlyForDivergence
<1>11. CASE Check
  <2>1. PositionTypes'
    BY <1>11 DEF SessionInv, Check, stream, store, PositionTypes
  <2>2. StreamTypes'
    BY <1>11 DEF SessionInv, Check, stream, StreamTypes
  <2>3. SessionTypes'
    <3>1. \A code \in Code : Abort(code) => SessionTypes'
      BY LeavingTypes DEF SessionInv
    <3>2. ~Active => terminal.code \in Code
      BY EndTypes DEF SessionInv
    <3>3. {"STORAGE_FAILURE", "INVALID"} \subseteq Code
      BY DEF Code
    <3> QED
      BY <3>1, <3>2, <3>3, <1>11 DEF Check, SessionInv, SessionTypes, Await, Steps
  <2>4. StoreTypes'
    BY <1>11 DEF SessionInv, Check, store, StoreTypes
  <2>5. StreamSound'
    BY <1>11 DEF SessionInv, Check, Active, stream, StreamSound
  <2>6. DeliverySound'
    BY <1>11 DEF SessionInv, Check, Abort, AwaitClose, Active, Await, stream,
        DeliverySound
  <2>7. ReadSound'
    BY <1>11 DEF SessionInv, Check, Abort, AwaitClose, Active, Await, stream,
        ReadSound
  <2>8. PositionsSound'
    BY <1>11 DEF SessionInv, Check, Abort, AwaitClose, Active, Await, stream, store,
        PositionsSound, Starting
  <2>9. EndSound'
    BY <1>11 DEF SessionInv, Check, Abort, AwaitClose, Active, Await, stream,
        EndSound, Starting, Looping
  <2>10. OutcomeSound'
    BY <1>11 DEF SessionInv, Check, Abort, AwaitClose, Await, stream, store,
        OutcomeSound, Starting, Looping
  <2>11. InvalidSound'
    BY <1>11 DEF SessionInv, Check, Abort, AwaitClose, Active, Await, stream, store,
        InvalidSound, InvalidOnlyForDivergence, Leaving
  <2> QED
    BY <2>1, <2>2, <2>3, <2>4, <2>5, <2>6, <2>7, <2>8, <2>9, <2>10, <2>11 DEF
        SessionInv
<1>12. CASE Mark
  <2>1. PositionTypes'
    BY <1>12 DEF SessionInv, Mark, PositionTypes
  <2>2. StreamTypes'
    <3>1. CASE EnterLoop(pending)
      <4>1. pending # NoPending => pending.position \in 0 .. MaxCommits
        BY DEF SessionInv, PositionTypes, DeliverySound
      <4> QED
        BY <4>1, EnterLoopTypes, <1>12 DEF Mark, SessionInv, StreamTypes
    <3>2. CASE UNCHANGED <<read, pending>>
      BY <3>2, <1>12 DEF Mark, SessionInv, StreamTypes
    <3> QED
      BY <3>1, <3>2, <1>12 DEF Mark
  <2>3. SessionTypes'
    <3>1. CASE EnterLoop(pending)
      <4>1. pending # NoPending => pending.position \in 0 .. MaxCommits
        BY DEF SessionInv, PositionTypes, DeliverySound
      <4> QED
        BY <4>1, EnterLoopTypes, <1>12 DEF Mark, SessionInv, StreamTypes
    <3>2. CASE Abort("STORAGE_FAILURE")
      BY <3>2, LeavingTypes DEF SessionInv, Code
    <3> QED
      BY <3>1, <3>2, <1>12 DEF Mark
  <2>4. StoreTypes'
    BY <1>12 DEF SessionInv, Mark, StoreTypes, Status
  <2>5. StreamSound'
    BY <1>12 DEF SessionInv, Mark, EnterLoop, Active, StreamSound
  <2>6. DeliverySound'
    BY <1>12 DEF SessionInv, Mark, EnterLoop, Finish, AwaitClose, Continue, Await,
        Active, NoPending, Abort, DeliverySound, StreamTypes, Pending
  <2>7. ReadSound'
    BY <1>12 DEF SessionInv, Mark, EnterLoop, Finish, AwaitClose, Continue, Await,
        NextRead, Active, Rejected, NoPending, Waiting, Delivered, Abort, ReadSound,
        NoRead, StreamTypes, Pending, DeliverySound
  <2>8. PositionsSound'
    BY <1>12 DEF SessionInv, Mark, EnterLoop, Finish, AwaitClose, Continue, Await,
        Active, Abort, PositionsSound, Starting
  <2>9. EndSound'
    BY <1>12 DEF SessionInv, Mark, EnterLoop, AwaitClose, Continue, Await, Active,
        Abort, EndSound, Starting, Looping
  <2>10. OutcomeSound'
    BY <1>12 DEF SessionInv, Mark, EnterLoop, Finish, AwaitClose, Continue, Await,
        Abort, OutcomeSound, Starting, Looping
  <2>11. InvalidSound'
    BY <1>12 DEF SessionInv, Mark, EnterLoop, Continue, Await, Active, Abort,
        InvalidSound, InvalidOnlyForDivergence, Leaving, Starting, EndSound
  <2> QED
    BY <2>1, <2>2, <2>3, <2>4, <2>5, <2>6, <2>7, <2>8, <2>9, <2>10, <2>11 DEF
        SessionInv
<1>13. CASE Aborted
  BY <1>13 DEF SessionInv, Aborted, Await, stream, store, PositionTypes,
      StreamTypes, SessionTypes, Steps, StoreTypes, StreamSound, Active,
      DeliverySound, ReadSound, PositionsSound, Starting, EndSound, Looping,
      OutcomeSound, Leaving, InvalidSound, InvalidOnlyForDivergence
<1>14. CASE ReadSettles
  <2>1. PositionTypes'
    BY <1>14 DEF SessionInv, ReadSettles, PositionTypes
  <2>2. StreamTypes'
    BY <1>14 DEF SessionInv, ReadSettles, StreamTypes, Read
  <2>3. SessionTypes'
    <3>1. read.kind = "rejected" => read.code \in Code
      BY EndTypes, <1>14 DEF SessionInv, ReadSound
    <3>2. Continue("appending") => SessionTypes'
      BY DEF SessionInv, SessionTypes, Continue, Await, Steps
    <3> QED
      BY <3>1, <3>2, LeavingTypes, <1>14 DEF ReadSettles, SessionInv, Code
  <2>4. StoreTypes'
    <3>1. read.kind # "rejected" => read.position \in Nat
      BY <1>14 DEF ReadSettles, ReadReady, SessionInv, StreamTypes, Read, Delivered,
          Rejected
    <3>2. CASE append' = [kind |-> "sent", position |-> read.position] /\ read.kind # "rejected"
      BY <3>1, <1>14 DEF ReadSettles, SessionInv, StoreTypes, AppendRequest
    <3>3. CASE UNCHANGED append
      BY <3>3, <1>14 DEF ReadSettles, SessionInv, StoreTypes
    <3> QED
      BY <3>2, <3>3, <1>14 DEF ReadSettles
  <2>5. StreamSound'
    BY <1>14 DEF SessionInv, ReadSettles, StreamSound, Active
  <2>6. DeliverySound'
    BY <1>14 DEF SessionInv, ReadSettles, ReadReady, Cancelled, Finish, AwaitClose,
        Fail, Continue, Await, DeliverySound, Active, ReadSound
  <2>7. ReadSound'
    BY <1>14 DEF ReadSettles, NoRead, Waiting, Cancelled, Finish, AwaitClose, Fail,
        Continue, Await, ReadSound
  <2>8. PositionsSound'
    BY <1>14 DEF SessionInv, ReadSettles, ReadReady, Cancelled, Finish, AwaitClose,
        Fail, PositionsSound, NoAppend, StreamTypes, Read, Delivered, Rejected,
        StreamSound, DeliverySound, ReadSound, EndSound, Looping
  <2>9. EndSound'
    BY <1>14 DEF SessionInv, ReadSettles, ReadReady, Cancelled, Finish, AwaitClose,
        Fail, Continue, Await, EndSound, Active, Starting, Looping
  <2>10. OutcomeSound'
    BY <1>14 DEF SessionInv, ReadSettles, ReadReady, Cancelled, Finish, AwaitClose,
        Fail, Continue, Await, OutcomeSound, Starting, Looping
  <2>11. InvalidSound'
    BY <1>14 DEF SessionInv, ReadSettles, ReadReady, Cancelled, Finish, Fail,
        Continue, InvalidSound, InvalidOnlyForDivergence, Active, ReadSound,
        Looping, OutcomeSound
  <2> QED
    BY <2>1, <2>2, <2>3, <2>4, <2>5, <2>6, <2>7, <2>8, <2>9, <2>10, <2>11 DEF
        SessionInv
<1>15. CASE AppendRejected
  BY <1>15 DEF SessionInv, AppendRejected, AppendFails, Fail, AwaitClose, stream,
      PositionTypes, StreamTypes, Code, SessionTypes, Steps, StoreTypes,
      StreamSound, Active, DeliverySound, ReadSound, PositionsSound, Starting,
      EndSound, Looping, OutcomeSound, Leaving, InvalidSound,
      InvalidOnlyForDivergence
<1>16. CASE Acknowledge
  <2>0. /\ Undelivered # {} => ~Active /\ Undelivered = {terminal.code} /\ terminal.code \in Code
        /\ Undelivered = {} => Active /\ pending \in Pending /\ pending.position = received
    <3>1. Active => pending # NoPending /\ pending.delivered /\ pending.position = received
      BY <1>16 DEF Acknowledge, SessionInv, DeliverySound
    <3> QED
      BY <3>1, EndTypes DEF Undelivered, SessionInv, StreamTypes
  <2>1. PositionTypes'
    BY <1>16, <2>0 DEF Acknowledge, Acknowledged, Progress, Larger, SessionInv,
        PositionTypes
  <2>2. StreamTypes'
    <3>1. CASE stopping
      BY <3>1, <1>16 DEF Acknowledge, SessionInv, StreamTypes
    <3>2. CASE ~stopping /\ Undelivered # {}
      BY <3>2, <2>0, TerminateTypes, <1>16 DEF Acknowledge, SessionInv
    <3>3. CASE ~stopping /\ Undelivered = {}
      BY <3>3, <1>16 DEF Acknowledge, Released, SessionInv, StreamTypes
    <3> QED
      BY <3>1, <3>2, <3>3
  <2>3. SessionTypes'
    <3>1. Continue("acknowledging") => SessionTypes'
      BY DEF SessionInv, SessionTypes, Continue, Await, Steps
    <3> QED
      BY <3>1, <2>0, LeavingTypes, <1>16 DEF Acknowledge, EndCode, SessionInv, Code
  <2>4. StoreTypes'
    BY <1>16 DEF SessionInv, Acknowledge, StoreTypes
  <2>5. StreamSound'
    BY <1>16, <2>0 DEF SessionInv, Acknowledge, Active, Terminate, StreamSound
  <2>6. DeliverySound'
    BY <1>16, <2>0 DEF SessionInv, Acknowledge, Finish, AwaitClose, Active,
        Cancelled, Fail, Terminate, Released, Continue, Await, DeliverySound
  <2>7. ReadSound'
    BY <1>16, <2>0 DEF SessionInv, Acknowledge, Finish, AwaitClose, Undelivered,
        Active, Cancelled, Fail, Terminate, Continue, Await, ReadSound
  <2>8. PositionsSound'
    <3>1. append # NoAppend /\ stored = received /\ pc = "appending" /\ append' = NoAppend
      BY <1>16 DEF Acknowledge, SessionInv, PositionsSound
    <3>2. CASE stopping
      BY <3>2, <1>16 DEF Acknowledge, Finish, AwaitClose, SessionInv,
          PositionsSound, Active, Starting
    <3>3. CASE ~stopping /\ Undelivered # {}
      <4>1. pc' = "closing" /\ UNCHANGED <<told, durable, assembler>> /\ ~Active'
        BY <3>3, <2>0, <1>16 DEF Acknowledge, Cancelled, Finish, Fail, AwaitClose,
            Terminate, Active
      <4> QED
        BY <4>1, <1>16 DEF Acknowledge, SessionInv, PositionsSound, Starting
    <3>4. CASE ~stopping /\ Undelivered = {}
      BY <3>4, <2>0, <1>16 DEF Acknowledge, Acknowledged, Progress, Larger,
          Continue, Await, SessionInv, PositionTypes, PositionsSound
    <3> QED
      BY <3>2, <3>3, <3>4
  <2>9. EndSound'
    BY <1>16 DEF SessionInv, Acknowledge, Finish, AwaitClose, Active, Cancelled,
        Fail, Terminate, Continue, Await, EndSound, Starting, Looping
  <2>10. OutcomeSound'
    BY <1>16, <2>0 DEF SessionInv, Acknowledge, Finish, AwaitClose, Cancelled, Fail,
        Terminate, Continue, Await, OutcomeSound, Starting, Looping
  <2>11. InvalidSound'
    BY <1>16, <2>0 DEF SessionInv, Acknowledge, Finish, Active, NoEnd, Cancelled,
        Fail, EndCode, Terminate, Acknowledged, Continue, InvalidSound,
        InvalidOnlyForDivergence, Leaving, StreamTypes, Looping, OutcomeSound
  <2> QED
    BY <2>1, <2>2, <2>3, <2>4, <2>5, <2>6, <2>7, <2>8, <2>9, <2>10, <2>11 DEF
        SessionInv
<1>17. CASE AcknowledgeSettles
  <2>0. "SOURCE_UNAVAILABLE" \in Code /\ (~Active => terminal.code \in Code)
    BY EndTypes DEF Code, SessionInv
  <2>1. PositionTypes'
    BY <1>17 DEF SessionInv, AcknowledgeSettles, store, PositionTypes
  <2>2. StreamTypes'
    <3>1. CASE EnterLoop(NoPending) /\ deadline' = FALSE /\ UNCHANGED <<terminal, assembler, destroy>>
      BY <3>1, EnterLoopTypes DEF SessionInv
    <3>2. CASE UNCHANGED <<terminal, assembler, pending, read, deadline, destroy>>
      BY <3>2 DEF SessionInv, StreamTypes
    <3>3. CASE Terminate("SOURCE_UNAVAILABLE", "source")
      BY <3>3, <2>0, TerminateTypes DEF SessionInv
    <3> QED
      BY <3>1, <3>2, <3>3, <1>17 DEF AcknowledgeSettles
  <2>3. SessionTypes'
    <3>1. CASE EnterLoop(NoPending) /\ deadline' = FALSE /\ UNCHANGED <<terminal, assembler, destroy>>
      BY <3>1, EnterLoopTypes DEF SessionInv
    <3>2. CASE ~Active /\ Cancelled(terminal.code)
      BY <3>2, <2>0, LeavingTypes DEF SessionInv
    <3>3. CASE Cancelled(EndCode("SOURCE_UNAVAILABLE"))
      BY <3>3, <2>0, LeavingTypes DEF SessionInv, EndCode
    <3> QED
      BY <3>1, <3>2, <3>3, <1>17 DEF AcknowledgeSettles
  <2>4. StoreTypes'
    BY <1>17 DEF SessionInv, AcknowledgeSettles, store, StoreTypes
  <2>5. StreamSound'
    BY <1>17 DEF SessionInv, AcknowledgeSettles, Active, NoEnd, Terminate,
        DeliveryFails, StreamSound
  <2>6. DeliverySound'
    BY <1>17 DEF SessionInv, AcknowledgeSettles, Active, NoEnd, EnterLoop, Finish,
        AwaitClose, Continue, Await, Cancelled, Fail, Terminate, DeliveryFails,
        DeliverySound
  <2>7. ReadSound'
    BY <1>17 DEF SessionInv, AcknowledgeSettles, Active, EnterLoop, Finish,
        AwaitClose, Continue, Await, NextRead, Waiting, Cancelled, Fail, Terminate,
        DeliveryFails, ReadSound, NoRead
  <2>8. PositionsSound'
    BY <1>17 DEF SessionInv, AcknowledgeSettles, Active, EnterLoop, Finish,
        AwaitClose, Continue, Await, Cancelled, Fail, Terminate, store,
        PositionsSound, Starting, PositionTypes, DeliverySound
  <2>9. EndSound'
    BY <1>17 DEF SessionInv, AcknowledgeSettles, Active, EnterLoop, Finish,
        AwaitClose, Continue, Await, Cancelled, Fail, Terminate, EndSound, Starting,
        Looping
  <2>10. OutcomeSound'
    BY <1>17 DEF SessionInv, AcknowledgeSettles, EnterLoop, Finish, AwaitClose,
        Continue, Await, Cancelled, Fail, Terminate, store, OutcomeSound, Starting,
        Looping, StreamSound
  <2>11. InvalidSound'
    BY <1>17 DEF SessionInv, AcknowledgeSettles, Active, EnterLoop, Finish,
        Continue, Cancelled, Fail, EndCode, Terminate, store, InvalidSound,
        InvalidOnlyForDivergence, Looping, OutcomeSound
  <2> QED
    BY <2>1, <2>2, <2>3, <2>4, <2>5, <2>6, <2>7, <2>8, <2>9, <2>10, <2>11 DEF
        SessionInv
<1>18. CASE StoreAppend
  BY <1>18 DEF SessionInv, StoreAppend, NoAppend, stream, session, PositionTypes,
      StreamTypes, SessionTypes, StoreTypes, AppendRequest, StreamSound, Active,
      DeliverySound, ReadSound, PositionsSound, Starting, EndSound, Looping,
      OutcomeSound, InvalidSound, InvalidOnlyForDivergence
<1>19. CASE Stop
  BY <1>19 DEF SessionInv, Stop, stream, store, PositionTypes, StreamTypes,
      SessionTypes, StoreTypes, StreamSound, Active, DeliverySound, ReadSound,
      PositionsSound, Starting, EndSound, OutcomeSound, InvalidSound,
      InvalidOnlyForDivergence
<1>20. CASE CloseBody
  <2>1. PositionTypes'
    BY <1>20 DEF SessionInv, CloseBody, store, PositionTypes
  <2>2. StreamTypes'
    <3>1. "INVALID" \in Code /\ "LIMIT_EXCEEDED" \in Code /\ "SOURCE_UNAVAILABLE" \in Code
          /\ "CANCELLED" \in Code /\ "STORAGE_FAILURE" \in Code
      BY DEF Code
    <3> QED
      BY <3>1, <1>20, TerminateTypes DEF SessionInv, CloseBody
  <2>3. SessionTypes'
    BY <1>20 DEF SessionInv, CloseBody, StopOwnsEnd, SessionTypes
  <2>4. StoreTypes'
    BY <1>20 DEF SessionInv, CloseBody, store, StoreTypes
  <2>5. StreamSound'
    BY <1>20 DEF SessionInv, CloseBody, Active, NoEnd, Terminate, DeliveryFails,
        StreamSound
  <2>6. DeliverySound'
    BY <1>20 DEF SessionInv, CloseBody, Active, NoEnd, Terminate, DeliveryFails,
        DeliverySound
  <2>7. ReadSound'
    BY <1>20 DEF SessionInv, CloseBody, Active, NoEnd, Terminate, DeliveryFails,
        Waiting, Rejected, ReadSound, NoRead
  <2>8. PositionsSound'
    BY <1>20 DEF SessionInv, CloseBody, Active, Terminate, store, PositionsSound
  <2>9. EndSound'
    BY <1>20 DEF SessionInv, CloseBody, StopOwnsEnd, Active, NoEnd, Terminate,
        EndSound, SessionTypes
  <2>10. OutcomeSound'
    BY <1>20 DEF SessionInv, CloseBody, Terminate, store, OutcomeSound, StreamSound
  <2>11. InvalidSound'
    BY <1>20 DEF SessionInv, CloseBody, Terminate, store, InvalidSound,
        InvalidOnlyForDivergence
  <2> QED
    BY <2>1, <2>2, <2>3, <2>4, <2>5, <2>6, <2>7, <2>8, <2>9, <2>10, <2>11 DEF
        SessionInv
<1>21. CASE CloseSettles
  BY <1>21 DEF SessionInv, CloseSettles, stream, store, PositionTypes, StreamTypes,
      SessionTypes, StoreTypes, StreamSound, Active, DeliverySound, ReadSound,
      PositionsSound, EndSound, OutcomeSound, InvalidSound, InvalidOnlyForDivergence
<1>22. CASE Close
  BY <1>22 DEF SessionInv, Close, Closed, Await, stream, store, PositionTypes,
      StreamTypes, Code, SessionTypes, Steps, StoreTypes, StreamSound, Active,
      DeliverySound, ReadSound, PositionsSound, Starting, EndSound, Looping,
      OutcomeSound, Leaving, InvalidSound, InvalidOnlyForDivergence
<1>23. CASE Settle
  <2>1. PositionTypes'
    BY <1>23 DEF SessionInv, Settle, stream, PositionTypes
  <2>2. StreamTypes'
    BY <1>23 DEF SessionInv, Settle, stream, StreamTypes
  <2>3. SessionTypes'
    <3>1. \A code \in {"STORAGE_FAILURE", "INVALID"} : Append(failures, code) \in Seq(Code)
      BY DEF SessionInv, SessionTypes, Code
    <3> QED
      BY <3>1, <1>23 DEF Settle, SessionInv, SessionTypes, Await, Steps
  <2>4. StoreTypes'
    BY <1>23 DEF SessionInv, Settle, FinalStatus, StoreTypes, Status
  <2>5. StreamSound'
    BY <1>23 DEF SessionInv, Settle, stream, StreamSound, Active
  <2>6. DeliverySound'
    BY <1>23 DEF SessionInv, Settle, Await, stream, DeliverySound, Active
  <2>7. ReadSound'
    BY <1>23 DEF SessionInv, Settle, Await, stream, ReadSound, NoRead, Waiting
  <2>8. PositionsSound'
    BY <1>23 DEF SessionInv, Settle, Await, stream, PositionsSound, Active, Starting
  <2>9. EndSound'
    BY <1>23 DEF SessionInv, Settle, Await, stream, EndSound, Active, Starting,
        Looping
  <2>10. OutcomeSound'
    BY <1>23 DEF SessionInv, Settle, Await, stream, OutcomeSound, Starting, Looping,
        Leaving
  <2>11. InvalidSound'
    BY <1>23 DEF SessionInv, Settle, FinalStatus, Await, stream, InvalidSound,
        InvalidOnlyForDivergence, Active, Leaving
  <2> QED
    BY <2>1, <2>2, <2>3, <2>4, <2>5, <2>6, <2>7, <2>8, <2>9, <2>10, <2>11 DEF
        SessionInv
<1>24. CASE UNCHANGED vars
  BY <1>24 DEF SessionInv, vars, PositionTypes, StreamTypes, SessionTypes,
      StoreTypes, StreamSound, Active, DeliverySound, ReadSound, PositionsSound,
      EndSound, OutcomeSound, InvalidSound, InvalidOnlyForDivergence
<1> QED
  BY <1>1, <1>2, <1>3, <1>4, <1>5, <1>6, <1>7, <1>8, <1>9, <1>10, <1>11, <1>12,
      <1>13, <1>14, <1>15, <1>16, <1>17, <1>18, <1>19, <1>20, <1>21, <1>22, <1>23,
      <1>24 DEF Next, Source, Open, Run, End1

\* It holds when a session starts.
LEMMA InitInv == Init => SessionInv
<1>1. Init => PositionTypes
  BY CommitsAssumption DEF Init, PositionTypes
<1>2. Init => StreamTypes
  BY DEF Init, StreamTypes, Read
<1>3. Init => SessionTypes
  <2>1. << >> \in Seq(Code)
    OBVIOUS
  <2> QED
    BY <2>1 DEF Init, SessionTypes, Steps
<1>4. Init => StoreTypes
  BY CommitsAssumption DEF Init, StoreTypes, Status, AppendRequest, NoAppend
<1>5. Init => StreamSound
  BY CommitsAssumption DEF Init, StreamSound, Active, NoEnd, NoPending
<1>6. Init => DeliverySound
  BY CommitsAssumption DEF Init, DeliverySound, Active, NoEnd, NoPending
<1>7. Init => ReadSound
  BY DEF Init, ReadSound, NoRead, Waiting
<1>8. Init => PositionsSound
  BY DEF Init, PositionsSound
<1>9. Init => EndSound
  BY DEF Init, EndSound, Active
<1>10. Init => OutcomeSound
  BY DEF Init, OutcomeSound
<1>11. Init => InvalidSound
  BY DEF Init, InvalidSound, InvalidOnlyForDivergence, Active
<1> QED
  BY <1>1, <1>2, <1>3, <1>4, <1>5, <1>6, <1>7, <1>8, <1>9, <1>10, <1>11 DEF
      SessionInv


\* What a session keeps true between its awaits, whatever ends it and in whatever
\* order its reads, appends, acknowledgements, timers and stops settle.
THEOREM SessionInvariant == Spec => []SessionInv
  BY InitInv, SessionStep, PTL DEF Spec

\* The parts give the type invariant of the module.
LEMMA Types == SessionInv => TypeOK
  BY DEF SessionInv, TypeOK, PositionTypes, StreamTypes, SessionTypes, StoreTypes,
      PositionsSound

\* One commit is on its way at a time, and when done settles nothing is.
THEOREM OneCommitAndQuietEnd == Spec => []SessionIsOrderly
<1>1. SessionInv => OneCommitInFlight
  BY DEF SessionInv, DeliverySound, OneCommitInFlight
<1>2. SessionInv => DoneIsQuiescent
  BY DEF SessionInv, StreamSound, ReadSound, EndSound, OutcomeSound, DoneIsQuiescent
<1> QED
  BY <1>1, <1>2, Types, SessionInvariant, PTL DEF SessionIsOrderly

\* Only divergence makes a recording invalid, and a failed append, cleanup or
\* lifecycle write is never reported as an ordinary stop.
THEOREM FailuresStayApart == Spec => []FailuresToldApart
<1>1. SessionInv => InvalidOnlyForDivergence
  BY DEF SessionInv, InvalidSound
<1>2. SessionInv => StopHidesNoStorageFailure
  BY DEF SessionInv, SessionTypes, EndSound, OutcomeSound, StopHidesNoStorageFailure
<1> QED
  BY <1>1, <1>2, SessionInvariant, PTL DEF FailuresToldApart

\* Each step is one that the promise of capture allows, or none that it sees.
LEMMA CaptureStep ==
  ASSUME SessionInv, [Next]_vars
  PROVE  [Capture!CaptureNext]_(Capture!capture)
<1>1. CASE Commit
  BY <1>1 DEF Capture!CaptureNext, Capture!SourceCommits, Commit, store
<1>2. CASE BadFrame
  BY <1>2 DEF Capture!capture, BadFrame, store
<1>3. CASE Heartbeat
  BY <1>3 DEF Capture!CaptureNext, Capture!ProgressConfirmed, SessionInv,
      PositionTypes, PositionsSound, Heartbeat, Acknowledged, Larger, Progress,
      store
<1>4. CASE SourceFails
  BY <1>4 DEF Capture!capture, SourceFails, store
<1>5. CASE WrongSource
  BY <1>5 DEF Capture!capture, WrongSource, store
<1>6. CASE DeadlineExpires
  BY <1>6 DEF Capture!capture, DeadlineExpires, store
<1>7. CASE DestroySettles
  BY <1>7 DEF Capture!capture, DestroySettles, store
<1>8. CASE Started
  BY <1>8 DEF Capture!capture, Started, store
<1>9. CASE Refuse
  BY <1>9 DEF Capture!capture, Refuse, stream, store
<1>10. CASE Refused
  BY <1>10 DEF Capture!capture, Refused, stream, store
<1>11. CASE Check
  BY <1>11 DEF Capture!capture, Check, stream, store
<1>12. CASE Mark
  BY <1>12 DEF Capture!capture, Mark
<1>13. CASE Aborted
  BY <1>13 DEF Capture!capture, Aborted, stream, store
<1>14. CASE ReadSettles
  BY <1>14 DEF Capture!capture, ReadSettles
<1>15. CASE AppendRejected
  BY <1>15 DEF Capture!capture, AppendRejected, stream
<1>16. CASE Acknowledge
  <2>1. stored = received /\ pc = "appending" /\ told <= stored
    BY <1>16 DEF Acknowledge, SessionInv, PositionTypes, PositionsSound
  <2>2. UNCHANGED <<received, stored>>
    BY <1>16 DEF Acknowledge
  <2>3. told' = told \/ told' = Larger(told, received)
    <3>1. Undelivered = {} => pending.position = received
      BY <1>16 DEF Undelivered, SessionInv, DeliverySound
    <3> QED
      BY <3>1, <1>16 DEF Acknowledge, Acknowledged, Progress
  <2> QED
    BY <2>1, <2>2, <2>3 DEF Larger, SessionInv, PositionTypes, Capture!CaptureNext,
        Capture!ProgressConfirmed
<1>17. CASE AcknowledgeSettles
  BY <1>17 DEF Capture!capture, AcknowledgeSettles, store
<1>18. CASE StoreAppend
  BY <1>18 DEF Capture!CaptureNext, Capture!CommitRecorded, SessionInv,
      PositionTypes, PositionsSound, StoreAppend, stream
<1>19. CASE Stop
  BY <1>19 DEF Capture!capture, Stop, stream, store
<1>20. CASE CloseBody
  BY <1>20 DEF Capture!capture, CloseBody, store
<1>21. CASE CloseSettles
  BY <1>21 DEF Capture!capture, CloseSettles, stream, store
<1>22. CASE Close
  BY <1>22 DEF Capture!capture, Close, stream, store
<1>23. CASE Settle
  BY <1>23 DEF Capture!capture, Settle, stream
<1>24. CASE UNCHANGED vars
  BY <1>24 DEF Capture!capture, vars
<1> QED
  BY <1>1, <1>2, <1>3, <1>4, <1>5, <1>6, <1>7, <1>8, <1>9, <1>10, <1>11, <1>12,
      <1>13, <1>14, <1>15, <1>16, <1>17, <1>18, <1>19, <1>20, <1>21, <1>22, <1>23,
      <1>24 DEF Next, Source, Open, Run, End1

\* A session stores the next commit and nothing else, and tells the source no more
\* than what is stored.
THEOREM SessionImplementsCapture == Spec => ImplementsDurableCapture
<1>1. Init => Capture!CaptureInit
  BY DEF Init, Capture!CaptureInit
<1>2. SessionInv /\ [Next]_vars => [Capture!CaptureNext]_(Capture!capture)
  BY CaptureStep
<1> QED
  BY <1>1, <1>2, SessionInvariant, PTL DEF Spec, ImplementsDurableCapture,
      Capture!CaptureSpec

\* What a failure is appended to keeps its first element.
LEMMA LongerSame ==
  ASSUME NEW f \in Seq(Code), f # << >>, NEW c \in Code
  PROVE  Append(f, c) # << >> /\ Append(f, c)[1] = f[1] /\ f[1] \in Code
  OBVIOUS

\* The owner sees nothing of a step that leaves the stream's end, the session's place
\* and its failures alone.
LEMMA ContractStutters ==
  UNCHANGED <<terminal, stopping, pc, failures>> => UNCHANGED Contract!contractVars
  BY DEF Contract!contractVars, Active

\* Each step is one that the contract allows, or none that the owner sees.
LEMMA ContractStep ==
  ASSUME SessionInv, [Next]_vars
  PROVE  [Contract!ContractNext]_(Contract!contractVars)
<1>1. CASE Commit
  BY <1>1 DEF Contract!contractVars, SessionInv, DeliverySound, Commit, Active,
      session
<1>2. CASE BadFrame
  BY <1>2 DEF Contract!ContractNext, Contract!contractVars, Contract!SourceEnds,
      Contract!Code, BadFrame, Terminate, session
<1>3. CASE Heartbeat
  BY <1>3 DEF Contract!ContractNext, Contract!contractVars, Contract!SourceEnds,
      Contract!Code, Heartbeat, Active, Terminate, session
<1>4. CASE SourceFails
  BY <1>4 DEF Contract!ContractNext, Contract!contractVars, Contract!SourceEnds,
      Contract!Code, SourceFails, Terminate, session
<1>5. CASE WrongSource
  BY <1>5 DEF Contract!ContractNext, Contract!contractVars, Contract!SourceEnds,
      Contract!Code, WrongSource, Terminate, session
<1>6. CASE DeadlineExpires
  <2>1. Active
    BY <1>6 DEF DeadlineExpires, SessionInv, StreamSound
  <2>2. terminal' = [kind |-> "ended", code |-> "LIMIT_EXCEEDED", by |-> "source"] /\ UNCHANGED session
    BY <2>1, <1>6 DEF DeadlineExpires, Terminate
  <2>3. Contract!SourceEnds("LIMIT_EXCEEDED")
    BY <2>1, <2>2 DEF Active, NoEnd, session, Contract!SourceEnds
  <2> QED
    BY <2>3 DEF Contract!ContractNext, Contract!Code
<1>7. CASE DestroySettles
  <2>1. UNCHANGED <<terminal, stopping, pc, failures>>
    BY <1>7 DEF DestroySettles, session
  <2> QED
    BY <2>1, ContractStutters
<1>8. CASE Started
  BY <1>8 DEF Contract!contractVars, Started, Active, Await
<1>9. CASE Refuse
  BY <1>9 DEF Contract!contractVars, Refuse, Active, Await, stream
<1>10. CASE Refused
  <2>1. Contract!StartupFails
    BY <1>10 DEF Refused, Await, stream, Contract!StartupFails, Active, SessionInv,
        EndSound, Starting
  <2> QED
    BY <2>1 DEF Contract!ContractNext, Contract!SessionStep
<1>11. CASE Check
  BY <1>11 DEF Contract!ContractNext, Contract!contractVars, Contract!StartupFails,
      SessionInv, EndSound, Starting, Check, Abort, AwaitClose, Active, Await,
      stream
<1>12. CASE Mark
  BY <1>12 DEF Contract!ContractNext, Contract!contractVars, Contract!StartupFails,
      SessionInv, EndSound, Starting, Mark, EnterLoop, AwaitClose, Continue, Await,
      Active, Abort
<1>13. CASE Aborted
  <2>1. pc = "aborting" /\ pc' = "aborted" /\ UNCHANGED <<terminal, stopping, failures>>
    BY <1>13 DEF Aborted, Await, stream
  <2> QED
    BY <2>1 DEF Contract!contractVars, Active
<1>14. CASE ReadSettles
  <2>1. pc = "reading" /\ read # NoRead /\ read # Waiting /\ failures = << >> /\ UNCHANGED terminal
    BY <1>14 DEF ReadSettles, ReadReady, SessionInv, OutcomeSound, Looping
  <2>2. CASE read.kind = "rejected"
    <3>1. ~Active /\ read.code = terminal.code /\ read.code \in Code
      BY <2>2, EndTypes DEF SessionInv, ReadSound
    <3>2. CASE stopCancelled /\ read.code = "CANCELLED"
      <4>1. Finish /\ stopping /\ terminal.by = "owner"
        BY <3>2, <1>14 DEF ReadSettles, Cancelled, SessionInv, EndSound
      <4>2. Contract!LeaveByStop
        BY <4>1, <2>1 DEF Contract!LeaveByStop, Finish, AwaitClose, Active
      <4> QED
        BY <4>2 DEF Contract!ContractNext, Contract!SessionStep
    <3>3. CASE ~(stopCancelled /\ read.code = "CANCELLED")
      <4>1. Fail(read.code) /\ terminal.by # "owner"
        BY <3>3, <3>1, <2>1, <2>2, <1>14 DEF ReadSettles, Cancelled, SessionInv,
            EndSound, Looping
      <4>2. pc' = "closing" /\ failures' # << >> /\ failures'[1] = terminal.code
            /\ UNCHANGED stopping
        BY <4>1, <3>1, <2>1 DEF Fail, AwaitClose
      <4>3. Contract!LeaveBySource
        BY <4>1, <4>2, <3>1, <2>1 DEF Contract!LeaveBySource, Active, Code,
            Contract!Code
      <4> QED
        BY <4>3 DEF Contract!ContractNext, Contract!SessionStep
    <3> QED
      BY <3>2, <3>3
  <2>3. CASE read.kind # "rejected"
    <3>1. Active \/ terminal.by = "owner"
      BY <2>1, <2>3 DEF SessionInv, ReadSound, StreamTypes, Read, Delivered,
          Rejected
    <3>2. CASE stopping
      <4>1. Contract!LeaveByStop
        BY <3>1, <3>2, <2>1, <2>3, <1>14 DEF Contract!LeaveByStop, ReadSettles,
            Finish, AwaitClose, Active
      <4> QED
        BY <4>1 DEF Contract!ContractNext, Contract!SessionStep
    <3>3. CASE ~stopping
      <4>1. Active
        BY <3>1, <3>3, <2>1 DEF SessionInv, EndSound, Looping
      <4>2. Contract!AppendStarts
        BY <4>1, <3>3, <2>1, <2>3, <1>14 DEF Contract!AppendStarts, ReadSettles,
            Continue, Await, Active
      <4> QED
        BY <4>2 DEF Contract!ContractNext, Contract!SessionStep
    <3> QED
      BY <3>2, <3>3
  <2> QED
    BY <2>2, <2>3
<1>15. CASE AppendRejected
  <2>1. PICK code \in {"INVALID", "STORAGE_FAILURE", "CANCELLED"} : Fail(code)
    BY <1>15 DEF AppendRejected, AppendFails
  <2>2. pc = "appending" /\ failures = << >> /\ UNCHANGED <<terminal, stopping>>
    BY <1>15, <2>1 DEF AppendRejected, Fail, stream, SessionInv, OutcomeSound,
        Looping
  <2>3. pc' = "closing" /\ failures' # << >> /\ failures'[1] = code
    BY <2>1, <2>2 DEF Fail, AwaitClose
  <2>4. Contract!AppendFails
    BY <2>2, <2>3 DEF Contract!AppendFails, Active
  <2> QED
    BY <2>4 DEF Contract!ContractNext, Contract!SessionStep
<1>16. CASE Acknowledge
  BY <1>16 DEF Contract!ContractNext, Contract!SessionStep, Contract!contractVars,
      Contract!SourceEnds, Contract!StopSession, Contract!OwnerCloses,
      Contract!StartupFails, Contract!AppendStarts, Contract!AppendSettles,
      Contract!LeaveByStop, Contract!LeaveBySource, Contract!AppendFails,
      Contract!AcknowledgeFails, Contract!CloseFails, Contract!Done, Contract!Code,
      SessionInv, StreamTypes, SessionTypes, StreamSound, DeliverySound, ReadSound,
      EndSound, OutcomeSound, Looping, Starting, Leaving, Code, Steps, End, NoEnd,
      Acknowledge, NoAppend, Finish, AwaitClose, Undelivered, Active, NoEnd,
      NoPending, Cancelled, Fail, EndCode, Terminate, DeliveryFails, Waiting,
      Rejected, Acknowledged, Larger, Progress, Released, Continue, Await
<1>17. CASE AcknowledgeSettles
  BY <1>17 DEF Contract!ContractNext, Contract!SessionStep, Contract!contractVars,
      Contract!LeaveByStop, Contract!LeaveBySource, Contract!AcknowledgeFails,
      Contract!Code, SessionInv, StreamTypes, EndSound, OutcomeSound, Looping, Code,
      End, NoEnd, AcknowledgeSettles, Active, EnterLoop, Finish, AwaitClose,
      Continue, Await, Cancelled, Fail, EndCode, Terminate
<1>18. CASE StoreAppend
  <2>1. UNCHANGED <<terminal, stopping, pc, failures>>
    BY <1>18 DEF StoreAppend, stream, session
  <2> QED
    BY <2>1, ContractStutters
<1>19. CASE Stop
  <2>1. pc' = pc /\ stopping' = TRUE /\ UNCHANGED <<terminal, failures>>
    BY <1>19 DEF Stop, stream
  <2>2. Contract!StopSession
    BY <2>1 DEF Contract!StopSession, Active
  <2> QED
    BY <2>2 DEF Contract!ContractNext
<1>20. CASE CloseBody
  BY <1>20 DEF Contract!ContractNext, Contract!SessionStep, Contract!contractVars,
      Contract!SourceEnds, Contract!StopSession, Contract!OwnerCloses,
      Contract!StartupFails, Contract!AppendStarts, Contract!AppendSettles,
      Contract!LeaveByStop, Contract!LeaveBySource, Contract!AppendFails,
      Contract!AcknowledgeFails, Contract!CloseFails, Contract!Done, Contract!Code,
      SessionInv, StreamTypes, SessionTypes, StreamSound, DeliverySound, ReadSound,
      EndSound, OutcomeSound, Looping, Starting, Leaving, Code, Steps, End, NoEnd,
      CloseBody, StopOwnsEnd, Active, NoEnd, Terminate, DeliveryFails, Waiting,
      Rejected, NoPending, store
<1>21. CASE CloseSettles
  <2>1. UNCHANGED <<terminal, stopping, pc, failures>>
    BY <1>21 DEF CloseSettles, stream
  <2> QED
    BY <2>1, ContractStutters
<1>22. CASE Close
  <2>1. /\ pc = "closing" /\ pc' = "settling" /\ UNCHANGED <<terminal, stopping>>
        /\ failures' = IF closing = "failed" THEN Append(failures, "STORAGE_FAILURE")
                                              ELSE failures
    BY <1>22 DEF Close, Await, stream
  <2>2. CASE closing = "failed" /\ failures = << >>
    <3>1. ~Active
      BY <2>2 DEF SessionInv, EndSound
    <3>2. failures' # << >> /\ failures'[1] = "STORAGE_FAILURE"
      BY <2>1, <2>2
    <3>3. Contract!CloseFails
      BY <3>1, <2>1, <2>2 DEF Contract!CloseFails, Active, SessionInv, StreamTypes,
          End, Code
    <3> QED
      BY <3>3 DEF Contract!ContractNext, Contract!SessionStep
  <2>3. CASE ~(closing = "failed" /\ failures = << >>)
    <3>1. (failures' = << >>) = (failures = << >>) /\ failures'[1] = failures[1]
      BY <2>1, <2>3, LongerSame DEF SessionInv, SessionTypes, Code
    <3> QED
      BY <3>1, <2>1 DEF Contract!contractVars, Active
  <2> QED
    BY <2>2, <2>3
<1>23. CASE Settle
  <2>1. /\ pc = "settling" /\ pc' = "done" /\ UNCHANGED <<terminal, stopping>>
        /\ \/ failures' = failures
           \/ \E code \in {"STORAGE_FAILURE", "INVALID"} : failures' = Append(failures, code)
    BY <1>23 DEF Settle, Await, stream
  <2>2. ~Active /\ terminal.code \in Code
    BY <2>1, EndTypes DEF SessionInv, EndSound
  <2>3. failures \in Seq(Code)
    BY DEF SessionInv, SessionTypes
  <2>4. CASE failures = << >> /\ failures' = << >>
    <3>1. Contract!Done
      BY <2>1, <2>2, <2>4 DEF Contract!Done, Active, Code
    <3> QED
      BY <3>1 DEF Contract!ContractNext, Contract!SessionStep
  <2>5. CASE failures = << >> /\ failures' # << >>
    <3>1. failures' # << >> /\ Len(failures') = 1 /\ failures'[1] \in {"STORAGE_FAILURE", "INVALID"}
      BY <2>1, <2>5
    <3>2. Contract!Done
      BY <2>1, <2>2, <2>5 DEF Contract!Done, Active, Code
    <3> QED
      BY <3>2 DEF Contract!ContractNext, Contract!SessionStep
  <2>6. CASE failures # << >>
    <3>1. failures' # << >> /\ failures'[1] = failures[1] /\ failures[1] \in Code
      BY <2>1, <2>3, <2>6, LongerSame DEF Code
    <3>2. Contract!Done
      BY <3>1, <2>1, <2>2 DEF Contract!Done, Active, Code, Contract!Code
    <3> QED
      BY <3>2 DEF Contract!ContractNext, Contract!SessionStep
  <2> QED
    BY <2>4, <2>5, <2>6
<1>24. CASE UNCHANGED vars
  BY <1>24 DEF Contract!contractVars, vars, Active
<1> QED
  BY <1>1, <1>2, <1>3, <1>4, <1>5, <1>6, <1>7, <1>8, <1>9, <1>10, <1>11, <1>12,
      <1>13, <1>14, <1>15, <1>16, <1>17, <1>18, <1>19, <1>20, <1>21, <1>22, <1>23,
      <1>24 DEF Next, Source, Open, Run, End1

\* To its owner a session is what the contract says.
THEOREM SessionImplementsContract == Spec => ImplementsContract
<1>1. Init => Contract!ContractInit
  BY DEF Init, Contract!ContractInit, Active
<1>2. SessionInv /\ [Next]_vars => [Contract!ContractNext]_(Contract!contractVars)
  BY ContractStep
<1> QED
  BY <1>1, <1>2, SessionInvariant, PTL DEF Spec, ImplementsContract,
      Contract!ContractSpec
=============================================================================

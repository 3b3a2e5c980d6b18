-------------------------- MODULE RecordingSession --------------------------
(***************************************************************************)
(* One recording session between its promises, timers and events: the loop *)
(* of startRecording (packages/sdk) over the stream of openPostgresStream  *)
(* (packages/source-postgres: stream, delivery, assembler), from opening   *)
(* the stream to the promise done.                                         *)
(*                                                                         *)
(* JavaScript runs one callback at a time.  An action is what runs between *)
(* two awaits.  A delivered or rejected read continues before the next     *)
(* event of the source, a timer or the store; the caller may stop the      *)
(* session at any time.  Positions are numbers of commits since the head   *)
(* the stream was opened at.                                               *)
(***************************************************************************)
EXTENDS Naturals, Sequences

CONSTANT MaxCommits   \* bound: commits the source sends in one session

ASSUME CommitsAssumption == MaxCommits \in Nat

\* Codes of HistoryError, INVALID_* taken together.
Code == {"CANCELLED", "SOURCE_UNAVAILABLE", "LIMIT_EXCEEDED", "STORAGE_FAILURE", "INVALID"}

Status == {"recording", "stopped", "interrupted", "invalid"}

Steps == {"opening", "refusing", "checking", "marking", "aborting", "reading",
          "appending", "acknowledging", "closing", "settling", "done", "aborted"}

NoEnd     == [kind |-> "active"]
NoPending == [kind |-> "none"]
NoAppend  == [kind |-> "none"]
NoRead    == [kind |-> "none"]
Waiting   == [kind |-> "waiting"]

Delivered(position) == [kind |-> "delivered", position |-> position]
Rejected(code)      == [kind |-> "rejected", code |-> code]

\* by: whether the owner closed the stream or something else ended it.
End == [kind : {"ended"}, code : Code, by : {"owner", "source"}]

Pending == [kind : {"pending"}, position : Nat, delivered : BOOLEAN]

AppendRequest == [kind : {"sent", "stored"}, position : Nat]

Read == {NoRead, Waiting} \union {Delivered(p) : p \in 0 .. MaxCommits}
          \union {Rejected(c) : c \in Code}

VARIABLES
  received,    \* last commit assembled from the source's frames
  told,        \* greatest position acknowledged to the source
  terminal,    \* what ended the stream
  assembler,   \* PostgresTransactions: idle, pending, closed
  durable,     \* its durable head
  pending,     \* StreamDelivery's transaction; the driver's callback waits for it
  read,        \* the promise of stream.next()
  deadline,    \* whether the stream's timer is armed
  destroy,     \* the driver's shutdown: none, running, ok, failed
  pc,          \* what the session awaits
  stopping, stopCancelled,
  closing,     \* the session's close promise: none, queued, running, ok, failed
  failures,    \* errors collected so far
  result,      \* the session's outcome: pending, resolved, rejected
  stored, status, append,   \* the recording, and the append sent to its store
  faults       \* what really went wrong (history)

stream  == <<received, terminal, assembler, durable, pending, read, deadline, destroy>>
session == <<pc, stopping, stopCancelled, closing, failures, result>>
store   == <<stored, status, append>>
vars    == <<received, told, terminal, assembler, durable, pending, read, deadline,
             destroy, pc, stopping, stopCancelled, closing, failures, result, stored,
             status, append, faults>>

Init ==
  /\ received = 0 /\ told = 0 /\ durable = 0 /\ stored = 0
  /\ terminal = NoEnd
  /\ assembler = "idle"
  /\ pending = NoPending
  /\ read = NoRead
  /\ deadline = TRUE
  /\ destroy = "none"
  /\ pc = "opening"
  /\ stopping = FALSE /\ stopCancelled = FALSE
  /\ closing = "none"
  /\ failures = << >>
  /\ result = "pending"
  /\ status \in {"recording", "stopped", "interrupted"}
  /\ append = NoAppend
  /\ faults = {}

-----------------------------------------------------------------------------
(* The stream                                                              *)

Active == terminal = NoEnd

\* A read has settled and its continuation is ready to run.
ReadReady == pc = "reading" /\ read \notin {NoRead, Waiting}

\* Nothing is ready to run, so that the next event is handled.
Quiet == ~ReadReady /\ closing # "queued"

\* Mutant of DeliveryFails: the driver's callback is not resumed.
DeliveryFailsHolding(code) ==
  /\ read' = IF read = Waiting THEN Rejected(code) ELSE read
  /\ UNCHANGED pending

\* StreamDelivery.fail: reject the reader and resume the driver's callback.
DeliveryFails(code) ==
  /\ read' = IF read = Waiting THEN Rejected(code) ELSE read
  /\ pending' = NoPending

\* stop: only the first caller ends the stream, and shutdown begins once.
Terminate(code, by) ==
  IF Active
    THEN /\ terminal' = [kind |-> "ended", code |-> code, by |-> by]
         /\ deadline' = FALSE
         /\ DeliveryFails(code)
         /\ assembler' = "closed"
         /\ destroy' = "running"
    ELSE UNCHANGED <<terminal, deadline, read, pending, assembler, destroy>>

\* What fail() returns: the code the stream has ended with.
EndCode(code) == IF Active THEN code ELSE terminal.code

Larger(m, n) == IF m > n THEN m ELSE n

\* Mutant of Progress: what was received is acknowledged.
ProgressReceived(head) == received

\* Mutant of Progress: the byte after the commit is acknowledged with it.
ProgressBeyond(head) == head + 1

\* acknowledgeDurable: the durable head and nothing else is ever acknowledged.
Progress(head) == head

Acknowledged(head) == told' = Larger(told, Progress(head))

\* A complete commit: assembled, timed and published.  Flow control keeps the
\* driver from delivering a frame while its callback waits.
Commit ==
  /\ Quiet /\ Active /\ pc \notin {"opening", "refusing"}
  /\ pending = NoPending
  /\ received < MaxCommits
  /\ received' = received + 1
  /\ IF assembler = "idle"
       THEN /\ assembler' = "pending"
            /\ deadline' = TRUE
            /\ pending' = [kind |-> "pending", position |-> received + 1,
                           delivered |-> read = Waiting]
            /\ read' = IF read = Waiting THEN Delivered(received + 1) ELSE read
            /\ UNCHANGED <<terminal, destroy>>
       ELSE Terminate("INVALID", "source")
  /\ UNCHANGED <<told, durable, session, store, faults>>

\* A frame that does not decode, does not apply, or exceeds a limit.
BadFrame ==
  /\ Quiet /\ Active /\ pc \notin {"opening", "refusing"}
  /\ pending = NoPending
  /\ \E code \in {"INVALID", "LIMIT_EXCEEDED"} :
       /\ Terminate(code, "source")
       /\ faults' = IF code = "INVALID" THEN faults \union {"divergence"} ELSE faults
  /\ UNCHANGED <<received, told, durable, session, store>>

\* A heartbeat that asks for a reply.
Heartbeat ==
  /\ Quiet /\ Active /\ pc \notin {"opening", "refusing"}
  /\ \/ Acknowledged(durable)
        /\ UNCHANGED <<terminal, deadline, read, pending, assembler, destroy>>
     \/ Terminate("SOURCE_UNAVAILABLE", "source") /\ UNCHANGED told
  /\ UNCHANGED <<received, durable, session, store, faults>>

\* The connection fails, the lease is lost, or the caller aborts, which it may
\* do right after stop().
SourceFails ==
  /\ ~ReadReady /\ Active
  /\ \E code \in {"CANCELLED", "SOURCE_UNAVAILABLE", "STORAGE_FAILURE"} :
       /\ code # "CANCELLED" => Quiet
       /\ Terminate(code, "source")
  /\ UNCHANGED <<received, told, durable, session, store, faults>>

\* The subscription reaches another cluster, timeline or database.
WrongSource ==
  /\ Active /\ pc = "opening"
  /\ Terminate("INVALID", "source")
  /\ faults' = faults \union {"divergence"}
  /\ UNCHANGED <<received, told, durable, session, store>>

DeadlineExpires ==
  /\ Quiet /\ deadline
  /\ Terminate("LIMIT_EXCEEDED", "source")
  /\ UNCHANGED <<received, told, durable, session, store, faults>>

\* The driver shuts down once its callback has returned.
DestroySettles ==
  /\ Quiet /\ destroy = "running"
  /\ pending = NoPending
  /\ \/ destroy' = "ok" /\ UNCHANGED faults
     \/ destroy' = "failed" /\ faults' = faults \union {"cleanup"}
  /\ UNCHANGED <<received, told, terminal, assembler, durable, pending, read, deadline>>
  /\ UNCHANGED <<session, store>>

-----------------------------------------------------------------------------
(* openPostgresStream and the start of startRecording                      *)

Await(step) == pc' = step

\* Ask for close() and wait for it.
AwaitClose(step) ==
  /\ pc' = step
  /\ closing' = IF closing = "none" THEN "queued" ELSE closing

Started ==
  /\ pc = "opening" /\ Active
  /\ deadline' = FALSE
  /\ Await("checking")
  /\ UNCHANGED <<received, told, terminal, assembler, durable, pending, read, destroy>>
  /\ UNCHANGED <<stopping, stopCancelled, closing, failures, result, store, faults>>

Refuse ==
  /\ pc = "opening" /\ ~Active
  /\ Await("refusing")
  /\ UNCHANGED <<stream, told, stopping, stopCancelled, closing, failures, result, store,
                 faults>>

Refused ==
  /\ pc = "refusing" /\ destroy \in {"ok", "failed"}
  /\ Await("aborted")
  /\ result' = "rejected"
  /\ UNCHANGED <<stream, told, stopping, stopCancelled, closing, failures, store, faults>>

\* Startup fails: close the stream, leave the status alone.
Abort(code) ==
  /\ AwaitClose("aborting")
  /\ failures' = << code >>
  /\ UNCHANGED <<stopping, stopCancelled, result>>

\* store.info has settled: refused, or compared with the stream.
Check ==
  /\ pc = "checking"
  /\ \/ \E code \in {"STORAGE_FAILURE", "INVALID"} : Abort(code)
     \/ /\ ~Active
        /\ Abort(terminal.code)
     \/ /\ Active
        /\ Await("marking")
        /\ UNCHANGED <<stopping, stopCancelled, closing, failures, result>>
  /\ UNCHANGED <<stream, told, store, faults>>

Finish ==
  /\ AwaitClose("closing")
  /\ UNCHANGED <<stopping, stopCancelled, failures, result>>

Fail(code) ==
  /\ AwaitClose("closing")
  /\ failures' = Append(failures, code)
  /\ UNCHANGED <<stopping, stopCancelled, result>>

\* cancelledByStop: a cancellation after the owner's close of an active stream.
Cancelled(code) ==
  IF stopCancelled /\ code = "CANCELLED" THEN Finish ELSE Fail(code)

Continue(step) ==
  /\ Await(step)
  /\ UNCHANGED <<stopping, stopCancelled, closing, failures, result>>

\* StreamDelivery.next, given what is pending.
NextRead(p) ==
  IF ~Active THEN Rejected(terminal.code)
  ELSE IF p = NoPending THEN Waiting
  ELSE IF p.delivered THEN Rejected("INVALID") ELSE Delivered(p.position)

\* while (!stopping) stream.next().
EnterLoop(p) ==
  IF stopping
    THEN Finish /\ pending' = p /\ UNCHANGED read
    ELSE /\ Continue("reading")
         /\ read' = NextRead(p)
         /\ pending' = IF Active /\ p # NoPending THEN [p EXCEPT !.delivered = TRUE] ELSE p

\* setStatus('recording') has settled; a rejected one may have been stored.
Mark ==
  /\ pc = "marking"
  /\ \/ /\ status' = "recording"
        /\ EnterLoop(pending)
     \/ /\ status' \in {status, "recording"}
        /\ Abort("STORAGE_FAILURE")
        /\ UNCHANGED <<read, pending>>
  /\ UNCHANGED <<received, told, terminal, assembler, durable, deadline, destroy>>
  /\ UNCHANGED <<stored, append, faults>>

Aborted ==
  /\ pc = "aborting" /\ closing \in {"ok", "failed"}
  /\ Await("aborted")
  /\ result' = "rejected"
  /\ UNCHANGED <<stream, told, stopping, stopCancelled, closing, failures, store, faults>>

-----------------------------------------------------------------------------
(* The loop                                                                *)

ReadSettles ==
  /\ ReadReady
  /\ read' = NoRead
  /\ IF read.kind = "rejected"
       THEN Cancelled(read.code) /\ UNCHANGED append
       ELSE IF stopping
         THEN Finish /\ UNCHANGED append
         ELSE /\ Continue("appending")
              /\ append' = [kind |-> "sent", position |-> read.position]
  /\ UNCHANGED <<received, told, terminal, assembler, durable, pending, deadline, destroy>>
  /\ UNCHANGED <<stored, status, faults>>

\* The store's worker commits, whether or not the caller still waits.
StoreAppend ==
  /\ append # NoAppend /\ append.kind = "sent"
  /\ stored' = append.position
  /\ append' = IF pc = "appending" THEN [append EXCEPT !.kind = "stored"] ELSE NoAppend
  /\ UNCHANGED <<stream, told, session, status, faults>>

\* Mutant of AppendFails: a cancelled append counts as an ordinary stop.
AppendFailsCancellable(code) == Cancelled(code)

\* The append is outside the handlers that recognise the owner's stop.
AppendFails(code) == Fail(code)

\* Refused, timed out or cancelled: a refused append is never run, the others
\* may have run, may run yet, or not at all.
AppendRejected ==
  /\ pc = "appending"
  /\ \E code \in {"INVALID", "STORAGE_FAILURE", "CANCELLED"} :
       /\ code = "INVALID" => append.kind = "sent"
       /\ append' \in IF append.kind = "sent" /\ code # "INVALID"
                        THEN {append, NoAppend} ELSE {NoAppend}
       /\ AppendFails(code)
       /\ faults' = faults \union (IF code = "INVALID" THEN {"append", "divergence"}
                                                        ELSE {"append"})
  /\ UNCHANGED <<stream, told, stored, status>>

\* StreamDelivery.require: why an acknowledgement is refused.
Undelivered ==
  IF ~Active THEN {terminal.code}
  ELSE IF pending = NoPending \/ ~pending.delivered THEN {"INVALID"} ELSE {}

\* Mutant of Released: the driver goes on while the acknowledgement is sent.
ReleasedEarly == NoPending

\* The delivery stays until the acknowledgement has settled.
Released == pending

\* The append has settled: stream.acknowledge up to the driver's promise.
Acknowledge ==
  /\ pc = "appending" /\ append.kind = "stored"
  /\ append' = NoAppend
  /\ IF stopping
       THEN /\ Finish
            /\ UNCHANGED <<told, terminal, assembler, durable, pending, read, deadline,
                           destroy>>
       ELSE IF Undelivered # {}
         THEN \E code \in Undelivered :
                /\ Cancelled(EndCode(code))
                /\ Terminate(code, "source")
                /\ UNCHANGED <<told, durable>>
         ELSE /\ durable' = pending.position
              /\ assembler' = "idle"
              /\ Acknowledged(pending.position)
              /\ pending' = Released
              /\ Continue("acknowledging")
              /\ UNCHANGED <<terminal, read, deadline, destroy>>
  /\ UNCHANGED <<received, stored, status, faults>>

AcknowledgeSettles ==
  /\ pc = "acknowledging"
  /\ \/ /\ Active
        /\ deadline' = FALSE
        /\ EnterLoop(NoPending)
        /\ UNCHANGED <<terminal, assembler, destroy>>
     \/ /\ ~Active
        /\ Cancelled(terminal.code)
        /\ UNCHANGED <<terminal, assembler, pending, read, deadline, destroy>>
     \/ /\ Cancelled(EndCode("SOURCE_UNAVAILABLE"))
        /\ Terminate("SOURCE_UNAVAILABLE", "source")
  /\ UNCHANGED <<received, told, durable, store, faults>>

-----------------------------------------------------------------------------
(* Stopping and closing                                                    *)

Stop ==
  /\ pc \notin {"opening", "refusing", "checking", "marking", "aborting", "done",
              "aborted"}
  /\ ~stopping
  /\ stopping' = TRUE
  /\ closing' = IF closing = "none" THEN "queued" ELSE closing
  /\ UNCHANGED <<stream, told, pc, stopCancelled, failures, result, store, faults>>

\* Mutant of StopOwnsEnd: the state of the stream is not asked.
StopOwnsAnyEnd == stopping

\* The stop, and nothing before it, ends the stream.
StopOwnsEnd == stopping /\ Active

\* The queued body of close().
CloseBody ==
  /\ closing = "queued"
  /\ closing' = "running"
  /\ stopCancelled' = StopOwnsEnd
  /\ Terminate("CANCELLED", "owner")
  /\ UNCHANGED <<received, told, durable, pc, stopping, failures, result, store, faults>>

CloseSettles ==
  /\ closing = "running" /\ destroy \in {"ok", "failed"}
  /\ closing' = destroy
  /\ UNCHANGED <<stream, told, pc, stopping, stopCancelled, failures, result, store, faults>>

\* Mutant of Closed: the close that stop() began is not waited for.
ClosedByRun == stopping \/ closing \in {"ok", "failed"}

Closed == closing \in {"ok", "failed"}

Close ==
  /\ pc = "closing" /\ Closed
  /\ failures' = IF closing = "failed" THEN Append(failures, "STORAGE_FAILURE") ELSE failures
  /\ Await("settling")
  /\ UNCHANGED <<stream, told, stopping, stopCancelled, closing, result, store, faults>>

\* failureStatus of the first failure.
FinalStatus ==
  IF failures = << >> THEN "stopped"
  ELSE IF failures[1] = "INVALID" THEN "invalid" ELSE "interrupted"

\* The status that ends the session; rejected, it may have been stored.
Settle ==
  /\ pc = "settling"
  /\ \/ /\ status' = FinalStatus
        /\ result' = IF failures = << >> THEN "resolved" ELSE "rejected"
        /\ UNCHANGED <<failures, faults>>
     \/ /\ status' \in {status, FinalStatus}
        /\ result' = "rejected"
        /\ \E code \in {"STORAGE_FAILURE", "INVALID"} : failures' = Append(failures, code)
        /\ faults' = faults \union {"lifecycle"}
  /\ Await("done")
  /\ UNCHANGED <<stream, told, stopping, stopCancelled, closing, stored, append>>

-----------------------------------------------------------------------------

Source == Commit \/ BadFrame \/ Heartbeat \/ SourceFails \/ WrongSource

Open == Started \/ Refuse \/ Refused \/ Check \/ Mark \/ Aborted

Run == ReadSettles \/ AppendRejected \/ Acknowledge \/ AcknowledgeSettles

End1 == CloseBody \/ CloseSettles \/ Close \/ Settle

Next ==
  Source \/ DeadlineExpires \/ DestroySettles \/ Open \/ Run \/ StoreAppend \/ Stop \/ End1

Spec == Init /\ [][Next]_vars

\* Promises settle: storage answers within its timeout, timers fire, the driver
\* shuts down once nothing holds its callback, ready continuations run.
Fairness ==
  /\ WF_vars(Open /\ ~(pc = "opening" /\ Active))
  /\ WF_vars(Run)
  /\ WF_vars(CloseBody) /\ WF_vars(CloseSettles) /\ WF_vars(Close) /\ WF_vars(Settle)
  /\ WF_vars(DestroySettles)
  /\ WF_vars(DeadlineExpires)

FairSpec == Spec /\ Fairness

-----------------------------------------------------------------------------
(* Properties                                                              *)

TypeOK ==
  /\ received \in 0 .. MaxCommits /\ told \in 0 .. received
  /\ durable \in 0 .. received /\ stored \in 0 .. received
  /\ terminal \in End \union {NoEnd}
  /\ assembler \in {"idle", "pending", "closed"}
  /\ pending \in Pending \union {NoPending}
  /\ read \in Read
  /\ deadline \in BOOLEAN
  /\ destroy \in {"none", "running", "ok", "failed"}
  /\ pc \in Steps
  /\ stopping \in BOOLEAN /\ stopCancelled \in BOOLEAN
  /\ closing \in {"none", "queued", "running", "ok", "failed"}
  /\ failures \in Seq(Code)
  /\ result \in {"pending", "resolved", "rejected"}
  /\ status \in Status
  /\ append \in AppendRequest \union {NoAppend}
  /\ faults \subseteq {"divergence", "append", "cleanup", "lifecycle"}

Capture == INSTANCE DurableCapture
             WITH committed <- received, durable <- stored, confirmed <- told

\* Between all its awaits, the session only ever stores the next commit and
\* tells the source no more than what is stored.
ImplementsDurableCapture == Capture!CaptureSpec

Contract == INSTANCE SessionContract
              WITH sourceEnd <- IF Active THEN "none"
                                ELSE IF terminal.by = "owner" THEN "owner" ELSE terminal.code,
                   stopped   <- stopping,
                   appending <- pc = "appending",
                   leaving   <- IF pc \in {"aborting", "aborted"} THEN "startup"
                                ELSE IF pc \notin {"closing", "settling", "done"} THEN "none"
                                ELSE IF failures = << >> THEN "stop" ELSE failures[1],
                   outcome   <- IF pc # "done" THEN "pending"
                                ELSE IF failures = << >> THEN "stopped"
                                ELSE IF Len(failures) = 1 THEN failures[1]
                                ELSE "STORAGE_FAILURE"

\* To its owner the session is what the contract says, from when it is returned:
\* it ends as an ordinary stop or reports its first failure.
ImplementsContract == Contract!ContractSpec

\* Whenever the driver is free to deliver a frame to an active stream, the
\* assembler is ready for it and nothing waits to be acknowledged: the checks
\* that would end a healthy stream as invalid are never reached.
OneCommitInFlight ==
  Active /\ pending = NoPending => assembler = "idle"

\* A recording is marked invalid only for what the source sent or the store
\* refused: losing the connection, the lease, a deadline or the storage in any
\* order with reads, appends, acknowledgements and stops leaves it resumable.
InvalidOnlyForDivergence == status = "invalid" => "divergence" \in faults

\* A session that ends as stopped has hidden no failure of an append, of the
\* stream's cleanup or of the lifecycle write (docs/recording-sessions.md).
StopHidesNoStorageFailure ==
  result = "resolved" => faults \cap {"append", "cleanup", "lifecycle"} = {}

\* When done settles nothing of the session is left running: the driver is shut
\* down, no timer is armed, nobody waits for a transaction, and an append is on
\* its way only if its caller was told that it failed.
DoneIsQuiescent ==
  pc \in {"done", "aborted"} =>
    /\ ~Active /\ destroy \in {"ok", "failed"}
    /\ ~deadline
    /\ pending = NoPending /\ read # Waiting
    /\ closing \notin {"queued", "running"}
    /\ append # NoAppend => "append" \in faults

\* A session that is stopped, or whose stream has ended, settles.
EndSettles == (stopping \/ ~Active) ~> pc \in {"done", "aborted"}

\* A commit handed to the session is acknowledged or ends the stream.
DeliverySettles == pending # NoPending ~> pending = NoPending

\* start-recording.ts: "A source that has already entered a terminal state must
\* retain its independent failure."  A session whose stream was ended by anything
\* but a cancellation does not end as an ordinary stop.
SourceFailureRetained ==
  result = "resolved" => terminal.by = "owner" \/ terminal.code = "CANCELLED"

\* One commit is on its way at a time, and when done settles nothing is.
SessionIsOrderly == TypeOK /\ OneCommitInFlight /\ DoneIsQuiescent

\* Failures are told apart: only divergence makes a recording invalid, and a
\* failure of the store is never reported as an ordinary stop.
FailuresToldApart == InvalidOnlyForDivergence /\ StopHidesNoStorageFailure

\* A session that is stopped or whose stream has ended comes to an end, and no
\* delivery keeps the driver waiting for ever.
SessionSettles == EndSettles /\ DeliverySettles
=============================================================================

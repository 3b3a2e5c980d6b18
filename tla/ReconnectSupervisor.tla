------------------------ MODULE ReconnectSupervisor ------------------------
(***************************************************************************)
(* resumePostgresRecording (packages/source-postgres): sequential attempts *)
(* of resumeRecording (packages/sdk), backoff, stop and cancellation.      *)
(*                                                                         *)
(* An attempt is modelled between its awaits, with the checks of the       *)
(* signals after each; its session is SessionContract.  One attempt exists *)
(* at a time, so that a single program counter, at, says where the         *)
(* supervisor stands.  Actions on a settled promise run before the next    *)
(* timer, message or socket event.                                         *)
(***************************************************************************)
EXTENDS Naturals, SessionContract

CONSTANT MaxRetries   \* the retry budget of the policy

ASSUME RetriesAssumption == MaxRetries \in Nat

\* What resumeRecording awaits, in order; openStream and startRecording included.
Awaits == {"info", "binding", "prepare", "acquire", "activate", "restore", "rebind",
           "open", "match", "mark"}

\* Where a settled promise continues.
Continuations == {"loop", "opened", "failed"}

Places == Awaits \union Continuations
            \union {"cleaning", "recording", "releasing", "backoff", "reporting", "settled"}

VARIABLES
  at,             \* where the supervisor and its attempt stand
  retries,
  active,         \* whether there is a session to stop
  stopping, stopCancelled,
  stopTask,       \* the microtask queued by stop(): none, queued, run
  aborted,        \* the supervisor's signal
  external,       \* the caller's signal: no, or what its abort met
  lease, leaseEnd,   \* the source lease, and what ended it
  writer,         \* whether the write lease is held
  error,          \* what the attempt or session failed with
  result,         \* what done settled with: pending, stopped, info or a code
  faults          \* independent failures (history)

attemptVars == <<lease, leaseEnd, writer>>
stopVars    == <<stopping, stopCancelled, stopTask, aborted, external>>
supervisorVars ==
  <<at, retries, active, stopVars, attemptVars, error, result, faults, contractVars>>

SupervisorInit ==
  /\ external \in {"no", "idle"} /\ aborted = (external # "no")
  /\ at = IF aborted THEN "failed" ELSE "info"
  /\ error = IF aborted THEN "CANCELLED" ELSE "none"
  /\ retries = 0 /\ active = FALSE
  /\ stopping = FALSE /\ stopCancelled = FALSE /\ stopTask = "none"
  /\ lease = "none" /\ leaseEnd = "none" /\ writer = FALSE
  /\ result = "pending" /\ faults = {}
  /\ ContractInit

-----------------------------------------------------------------------------
(* Signals                                                                 *)

\* Nothing is ready to run, so that the next event is handled.
Quiet == at \notin Continuations /\ stopTask # "queued"

StreamOpen == at \in {"match", "mark", "opened", "recording"}

\* The lease ends, and with it the stream, which listens to its signal.
LeaseEnds(code) ==
  IF lease = "held" /\ leaseEnd = "none"
    THEN /\ leaseEnd' = code
         /\ sourceEnd' = IF StreamOpen /\ sourceEnd = "none" THEN code ELSE sourceEnd
    ELSE UNCHANGED <<leaseEnd, sourceEnd>>

\* Mutant of Aborts: the lease does not listen to the supervisor's signal.
AbortsUnheard == aborted' = TRUE /\ UNCHANGED <<leaseEnd, sourceEnd>>

\* controller.abort()
Aborts == aborted' = TRUE /\ LeaseEnds("CANCELLED")

\* What an abort of the caller's meets: a session, from when it is open to when its
\* end is caught, though its outcome stands once its leases are being released; a
\* stop that is being reported; or else an attempt, a wait or a failure.
AbortMeets ==
  CASE at = "reporting" -> "reporting"
    [] at = "releasing" -> "releasing"
    [] at \in {"opened", "recording"} \/ (at = "failed" /\ active) -> "session"
    [] OTHER -> "idle"

ExternalAbort ==
  /\ external = "no" /\ at # "settled"
  /\ external' = AbortMeets
  /\ Aborts
  /\ UNCHANGED <<at, retries, active, stopping, stopCancelled, stopTask, lease, writer>>
  /\ UNCHANGED <<error, result, faults, stopped, appending, leaving, outcome>>

LeaseLost ==
  /\ Quiet /\ lease = "held" /\ leaseEnd = "none"
  /\ \E code \in {"SOURCE_UNAVAILABLE", "STORAGE_FAILURE"} : LeaseEnds(code)
  /\ faults' = faults \union {"source"}
  /\ UNCHANGED <<at, retries, active, stopVars, lease, writer, error, result>>
  /\ UNCHANGED <<stopped, appending, leaving, outcome>>

SourceFails ==
  /\ Quiet /\ StreamOpen
  /\ \E code \in Code \ {"CANCELLED"} : SourceEnds(code)
  /\ faults' = faults \union {"source"}
  /\ UNCHANGED <<at, retries, active, stopVars, attemptVars, error, result>>

-----------------------------------------------------------------------------
(* One attempt                                                             *)

\* Mutant of Checked: the signals are not looked at once the claim is reserved.
CheckedUntilReserved == {"binding"}

\* The awaits that are followed by checkCancelled; the last is openStream, which
\* refuses a lease that has ended.
Checked == {"binding", "prepare", "acquire", "activate", "restore", "rebind"}

SignalsAborted == aborted \/ leaseEnd # "none"

\* The lease's reason is reported unless the caller of the attempt cancelled it.
Reason(code) ==
  IF code = "CANCELLED" /\ ~aborted /\ leaseEnd # "none" THEN leaseEnd ELSE code

\* An attempt that holds a lease gives it back before it rejects.
Reject(code) ==
  /\ at' = IF lease = "held" THEN "cleaning" ELSE "failed"
  /\ error' = Reason(code)

After(step) ==
  CASE step = "info" -> "binding"     [] step = "binding" -> "prepare"
    [] step = "prepare" -> "acquire"  [] step = "acquire" -> "activate"
    [] step = "activate" -> "restore" [] step = "restore" -> "rebind"
    [] step = "rebind" -> "open"      [] step = "open" -> "match"
    [] step = "match" -> "mark"       [] step = "mark" -> "opened"

\* The await has settled; what it gave is owned from here on, even if the signals
\* have ended the attempt meanwhile.
StepSettles ==
  /\ Quiet /\ at \in Awaits
  /\ at \in {"acquire", "open"} => ~SignalsAborted
  /\ lease' = IF at = "acquire" THEN "held" ELSE lease
  /\ leaseEnd' = IF at = "acquire" THEN "none" ELSE leaseEnd
  /\ writer' = (at = "activate" \/ writer)
  /\ IF at = "match" /\ sourceEnd # "none"
       THEN Reject(sourceEnd)
       ELSE IF at \in Checked /\ SignalsAborted
         THEN Reject("CANCELLED")
         ELSE at' = After(at) /\ UNCHANGED error
  /\ IF at = "open"
       THEN /\ sourceEnd' = "none" /\ leaving' = "none" /\ outcome' = "pending"
            /\ stopped' = FALSE /\ appending' = FALSE
       ELSE UNCHANGED contractVars
  /\ UNCHANGED <<retries, active, stopVars, result, faults>>

Failures(step) ==
  {"STORAGE_FAILURE", "INVALID"}
    \union (IF step \in {"acquire", "open"} THEN {"SOURCE_UNAVAILABLE"} ELSE {})

\* The await rejects by itself, or because the signal it was given has aborted.
StepFails ==
  /\ Quiet /\ at \in Awaits
  /\ \/ /\ \E code \in Failures(at) : Reject(code)
        /\ faults' = faults \union {"attempt"}
     \/ /\ at \in {"acquire", "restore", "open"} /\ SignalsAborted
        /\ Reject("CANCELLED")
        /\ UNCHANGED faults
  /\ sourceEnd' = IF StreamOpen /\ sourceEnd = "none" THEN "owner" ELSE sourceEnd
  /\ UNCHANGED <<retries, active, stopVars, attemptVars, result>>
  /\ UNCHANGED <<stopped, appending, leaving, outcome>>

\* Mutant of LeaseAfter: a write lease that cannot be released keeps the source.
LeaseAfterBoth(ok) == IF ok THEN "closed" ELSE "held"

\* Both leases are closed, whatever becomes of the other.
LeaseAfter(ok) == "closed"

\* close(): release the writer and the source; a failure takes precedence.
Closes(ok) ==
  /\ lease' = LeaseAfter(ok)
  /\ leaseEnd' = IF leaseEnd = "none" THEN "CANCELLED" ELSE leaseEnd
  /\ writer' = FALSE
  /\ faults' = IF ok THEN faults ELSE faults \union {"cleanup"}

Cleaned ==
  /\ Quiet /\ at = "cleaning"
  /\ \E ok \in BOOLEAN :
       Closes(ok) /\ error' = IF ok THEN error ELSE "STORAGE_FAILURE"
  /\ at' = "failed"
  /\ UNCHANGED <<retries, active, stopVars, result, contractVars>>

-----------------------------------------------------------------------------
(* The session                                                             *)

\* Mutant of Spent: a session that opens restores the budget.
SpentSinceOpen == 0

\* The retries counted when a session has opened.
Spent == retries

\* active = await resumeRecording(...); a stop meant for it is passed on.
Opened ==
  /\ at = "opened"
  /\ at' = "recording" /\ active' = TRUE
  /\ stopped' = stopping /\ retries' = Spent
  /\ UNCHANGED <<stopVars, attemptVars, error, result, faults>>
  /\ UNCHANGED <<sourceEnd, appending, leaving, outcome>>

Session ==
  /\ at \in {"opened", "recording"}
  /\ SessionStep
  /\ faults' = IF /\ leaving' \in {"none", "stop", sourceEnd}
                  /\ outcome' \in {"pending", "stopped", sourceEnd}
                 THEN faults ELSE faults \union {"session"}
  /\ UNCHANGED <<at, retries, active, stopVars, attemptVars, error, result>>

SessionDone ==
  /\ at = "recording" /\ outcome # "pending"
  /\ at' = "releasing" /\ error' = outcome
  /\ UNCHANGED <<retries, active, stopVars, attemptVars, result, faults, contractVars>>

ReleaseSettles ==
  /\ Quiet /\ at = "releasing"
  /\ \E ok \in BOOLEAN :
       /\ Closes(ok)
       /\ IF ok /\ error = "stopped"
            THEN at' = "settled" /\ result' = "stopped" /\ active' = FALSE /\ UNCHANGED error
            ELSE /\ at' = "failed" /\ error' = IF ok THEN error ELSE "STORAGE_FAILURE"
                 /\ UNCHANGED <<result, active>>
  /\ UNCHANGED <<retries, stopVars, contractVars>>

-----------------------------------------------------------------------------
(* The supervisor                                                          *)

SettleWith(value) == at' = "settled" /\ result' = value

\* Mutant of Retries: every failure is tried again.
RetriesAny == ~stopping /\ external = "no" /\ retries < MaxRetries

Retries ==
  error = "SOURCE_UNAVAILABLE" /\ ~stopping /\ external = "no" /\ retries < MaxRetries

\* Mutant of OwnCancellation: the caller's signal is forgotten.
OwnCancellationOnly == stopCancelled

OwnCancellation == stopCancelled /\ external = "no"

\* The catch of the loop.
Catch ==
  /\ at = "failed"
  /\ active' = FALSE
  /\ IF OwnCancellation /\ ~active /\ error = "CANCELLED"
       THEN at' = "reporting" /\ UNCHANGED <<result, retries>>
       ELSE IF Retries
         THEN at' = "backoff" /\ retries' = retries + 1 /\ UNCHANGED result
         ELSE SettleWith(error) /\ UNCHANGED retries
  /\ UNCHANGED <<stopVars, attemptVars, error, faults, contractVars>>

BackoffOver ==
  /\ Quiet /\ at = "backoff" /\ ~aborted
  /\ at' = "loop"
  /\ UNCHANGED <<retries, active, stopVars, attemptVars, error, result, faults, contractVars>>

BackoffCancelled ==
  /\ at = "backoff" /\ aborted
  /\ IF OwnCancellation THEN at' = "reporting" /\ UNCHANGED result
                        ELSE SettleWith("CANCELLED")
  /\ UNCHANGED <<retries, active, stopVars, attemptVars, error, faults, contractVars>>

Loop ==
  /\ at = "loop"
  /\ IF aborted THEN at' = "failed" /\ error' = "CANCELLED"
                ELSE at' = "info" /\ UNCHANGED error
  /\ leaseEnd' = "none"
  /\ UNCHANGED <<retries, active, stopVars, lease, writer, result, faults, contractVars>>

\* return store.info(id)
Report ==
  /\ Quiet /\ at = "reporting"
  /\ \/ SettleWith("info") /\ UNCHANGED faults
     \/ SettleWith("STORAGE_FAILURE") /\ faults' = faults \union {"report"}
  /\ UNCHANGED <<retries, active, stopVars, attemptVars, error, contractVars>>

StopCalled ==
  /\ ~stopping /\ at # "settled"
  /\ stopping' = TRUE /\ stopTask' = "queued"
  /\ UNCHANGED <<at, retries, active, stopCancelled, aborted, external, attemptVars>>
  /\ UNCHANGED <<error, result, faults, contractVars>>

StopTask ==
  /\ stopTask = "queued"
  /\ stopTask' = "run"
  /\ IF active \/ at = "settled"
       THEN /\ stopped' = (active \/ stopped)
            /\ UNCHANGED <<stopCancelled, aborted, leaseEnd, sourceEnd>>
       ELSE /\ stopCancelled' = (~aborted /\ external = "no")
            /\ Aborts
            /\ UNCHANGED stopped
  /\ UNCHANGED <<at, retries, active, stopping, external, lease, writer, error, result>>
  /\ UNCHANGED <<faults, appending, leaving, outcome>>

-----------------------------------------------------------------------------

Attempt == StepSettles \/ StepFails \/ Cleaned \/ Opened

Supervise == Catch \/ BackoffOver \/ BackoffCancelled \/ Loop \/ Report \/ StopTask

SupervisorNext ==
  \/ ExternalAbort \/ LeaseLost \/ SourceFails \/ StopCalled
  \/ Attempt \/ Session \/ SessionDone \/ ReleaseSettles \/ Supervise

SupervisorSpec == SupervisorInit /\ [][SupervisorNext]_supervisorVars

\* Promises settle and timers fire; the session keeps its contract.
SupervisorFairness ==
  /\ WF_supervisorVars(Attempt) /\ WF_supervisorVars(Supervise)
  /\ WF_supervisorVars(Session) /\ WF_supervisorVars(SessionDone)
  /\ WF_supervisorVars(ReleaseSettles)

SupervisorFairSpec == SupervisorSpec /\ SupervisorFairness

-----------------------------------------------------------------------------
(* Properties                                                              *)

FlagsOK ==
  /\ active \in BOOLEAN /\ stopping \in BOOLEAN /\ stopCancelled \in BOOLEAN
  /\ aborted \in BOOLEAN /\ writer \in BOOLEAN
  /\ stopped \in BOOLEAN /\ appending \in BOOLEAN

ValuesOK ==
  /\ at \in Places /\ retries \in 0 .. MaxRetries
  /\ stopTask \in {"none", "queued", "run"}
  /\ external \in {"no", "idle", "session", "releasing", "reporting"}
  /\ lease \in {"none", "held", "closed"} /\ leaseEnd \in {"none"} \union Code
  /\ error \in {"none", "stopped"} \union Code
  /\ result \in {"pending", "stopped", "info"} \union Code
  /\ faults \subseteq {"source", "attempt", "cleanup", "session", "report"}
  /\ sourceEnd \in {"none", "owner"} \union Code
  /\ leaving \in {"none", "stop"} \union Code
  /\ outcome \in {"pending", "stopped"} \union Code

SupervisorTypeOK == FlagsOK /\ ValuesOK

\* An attempt has released the writer and the source before the next one begins,
\* before the supervisor waits, and before done settles (docs/postgres-reconnect.md).
AttemptsDoNotOverlap ==
  at \in {"loop", "info", "binding", "prepare", "acquire", "backoff", "reporting", "settled"}
    => lease # "held" /\ ~writer

\* Once cancelled, by stop or by the caller, the supervisor reserves no claim,
\* takes no lock, displaces no writer, opens no stream and writes no status.
NothingBeginsOnceCancelled ==
  [][aborted /\ at' # at =>
        at' \notin {"prepare", "acquire", "activate", "open", "mark"}]_supervisorVars

\* A failed cleanup is terminal and reported, whenever stop() came.
CleanupFailureReported == "cleanup" \in faults => result \notin {"stopped", "info"}

\* A caller that aborts while an attempt is made, waited for or has failed sees done
\* reject, whether it stopped before, stops after, or both at once; and an abort in
\* a session never has done resolve as a stop that met none.  Nothing is said here
\* of an abort that comes when a stop is already being reported.
ExternalCancellationRejects ==
  /\ external = "idle" => result \notin {"stopped", "info"}
  /\ external \in {"session", "releasing"} => result # "info"

\* docs/postgres-reconnect.md: external signal cancellation rejects completion, and
\* a concurrent stop does not turn it into success.  Here of every abort that finds
\* no session open or closing.
CancellationIsFinal ==
  external \in {"idle", "reporting"} => result \notin {"stopped", "info"}

\* A stopped or cancelled supervisor settles.
StopSettles == (stopping \/ external # "no") ~> at = "settled"

\* The budget is one for the supervisor's lifetime: however often the source comes
\* back and fails, attempts end, with a session that lasts or with done settled.
AttemptsEnd == <>[](at \in {"recording", "settled"})

\* A stop or a cancellation settles, and the attempts come to an end also
\* without one.
SupervisorSettles == StopSettles /\ AttemptsEnd
=============================================================================

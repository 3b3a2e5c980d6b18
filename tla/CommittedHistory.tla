-------------------------- MODULE CommittedHistory --------------------------
(***************************************************************************)
(* What docs/correctness.md promises of durable history, with no workers,  *)
(* caches, claims or failures: each recording has a log that is created,   *)
(* published once with its baseline, extended one applicable transaction   *)
(* at a time while it is recording, moved along its lifecycle, or removed  *)
(* whole.  Nothing stored is ever rewritten.                               *)
(***************************************************************************)
EXTENDS HistoryState

CONSTANTS
  Recordings,
  NoLog,        \* a recording that does not exist
  NoBaseline    \* a recording that is not published

VARIABLE log

LogStatus == {"bootstrapping", "recording", "stopped", "interrupted", "invalid"}

Log == [status : LogStatus, baseline : State \union {NoBaseline},
        transactions : Seq(Transaction)]

LogInit == log = [r \in Recordings |-> NoLog]

CreateLog(r) ==
  /\ log[r] = NoLog
  /\ log' = [log EXCEPT ![r] = [status |-> "bootstrapping", baseline |-> NoBaseline,
                                transactions |-> << >>]]

PublishLog(r) ==
  /\ log[r] # NoLog
  /\ log[r].status = "bootstrapping"
  /\ \E base \in State :
       log' = [log EXCEPT ![r] = [status |-> "recording", baseline |-> base,
                                  transactions |-> << >>]]

HeadState(r) == Replay(log[r].baseline, log[r].transactions)

ExtendLog(r) ==
  /\ log[r] # NoLog
  /\ log[r].status = "recording"
  /\ \E t \in Transaction :
       /\ Applies(HeadState(r), t)
       /\ log' = [log EXCEPT ![r].transactions = Append(@, t)]

\* A published log leaves recording and comes back, or ends invalid for good.
ChangeStatus(r) ==
  /\ log[r] # NoLog
  /\ \E s \in LogStatus \ {log[r].status, "bootstrapping"} :
       /\ log[r].status # "invalid"
       /\ s # "invalid" => "recording" \in {log[r].status, s}
       /\ log[r].baseline = NoBaseline => s = "invalid"
       /\ log' = [log EXCEPT ![r].status = s]

RemoveLog(r) ==
  /\ log[r] # NoLog
  /\ log' = [log EXCEPT ![r] = NoLog]

LogNext ==
  \E r \in Recordings :
    CreateLog(r) \/ PublishLog(r) \/ ExtendLog(r) \/ ChangeStatus(r) \/ RemoveLog(r)

LogSpec == LogInit /\ [][LogNext]_log
=============================================================================

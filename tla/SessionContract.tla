-------------------------- MODULE SessionContract --------------------------
(***************************************************************************)
(* What a recording session lets its owner see: when it may end as an      *)
(* ordinary stop and which failure it reports otherwise.  RecordingSession *)
(* implements it and ReconnectSupervisor relies on it.                     *)
(***************************************************************************)

\* Codes of HistoryError, INVALID_* taken together.
Code == {"CANCELLED", "SOURCE_UNAVAILABLE", "LIMIT_EXCEEDED", "STORAGE_FAILURE", "INVALID"}

VARIABLES
  sourceEnd,  \* none, the code the source failed with, or owner
  stopped,    \* stop() was called
  appending,  \* an accepted append has not settled
  leaving,    \* why the session left its loop: none, stop or a code; startup if
              \* it was never entered
  outcome     \* what done settled with: pending, stopped or a code

contractVars == <<sourceEnd, stopped, appending, leaving, outcome>>

ContractInit ==
  /\ sourceEnd = "none" /\ leaving = "none" /\ outcome = "pending"
  /\ stopped = FALSE /\ appending = FALSE

SourceEnds(code) ==
  /\ sourceEnd = "none" /\ sourceEnd' = code
  /\ UNCHANGED <<stopped, appending, leaving, outcome>>

StopSession ==
  /\ stopped' = TRUE
  /\ UNCHANGED <<sourceEnd, appending, leaving, outcome>>

OwnerCloses ==
  /\ sourceEnd = "none" /\ (stopped \/ leaving # "none")
  /\ sourceEnd' = "owner"
  /\ UNCHANGED <<stopped, appending, leaving, outcome>>

\* The session is never returned to anybody.
StartupFails ==
  /\ leaving = "none" /\ ~stopped /\ ~appending
  /\ leaving' = "startup"
  /\ UNCHANGED <<sourceEnd, stopped, appending, outcome>>

AppendStarts ==
  /\ sourceEnd = "none" /\ ~stopped /\ leaving = "none"
  /\ appending' = TRUE
  /\ UNCHANGED <<sourceEnd, stopped, leaving, outcome>>

AppendSettles ==
  /\ appending /\ ~stopped /\ sourceEnd = "none"
  /\ appending' = FALSE
  /\ UNCHANGED <<sourceEnd, stopped, leaving, outcome>>

\* A stop ends the loop with an accepted append, whatever became of the source
\* meanwhile, and otherwise only if the source has not failed.
LeaveByStop ==
  /\ leaving = "none" /\ stopped
  /\ appending \/ sourceEnd \in {"none", "owner"}
  /\ leaving' = "stop" /\ appending' = FALSE
  /\ UNCHANGED <<sourceEnd, stopped, outcome>>

LeaveBySource ==
  /\ leaving = "none" /\ sourceEnd \in Code
  /\ ~(stopped /\ appending)
  /\ leaving' = sourceEnd /\ appending' = FALSE
  /\ UNCHANGED <<sourceEnd, stopped, outcome>>

AppendFails ==
  /\ leaving = "none" /\ appending
  /\ leaving' \in {"CANCELLED", "STORAGE_FAILURE", "INVALID"} /\ appending' = FALSE
  /\ UNCHANGED <<sourceEnd, stopped, outcome>>

\* The acknowledgement cannot be sent: the source has failed by that.
AcknowledgeFails ==
  /\ leaving = "none" /\ ~appending /\ sourceEnd = "none"
  /\ sourceEnd' = "SOURCE_UNAVAILABLE" /\ leaving' = "SOURCE_UNAVAILABLE"
  /\ UNCHANGED <<stopped, appending, outcome>>

\* The stream could not be closed.
CloseFails ==
  /\ leaving = "stop" /\ outcome = "pending" /\ sourceEnd # "none"
  /\ leaving' = "STORAGE_FAILURE"
  /\ UNCHANGED <<sourceEnd, stopped, appending, outcome>>

\* done settles once the stream is closed and the status written, or refused:
\* several failures are reported as one of the store.
Done ==
  /\ outcome = "pending" /\ sourceEnd # "none"
  /\ \/ /\ leaving = "stop" /\ outcome' = "stopped"
        /\ UNCHANGED leaving
     \/ /\ leaving = "stop" /\ outcome' \in {"STORAGE_FAILURE", "INVALID"}
        /\ leaving' = outcome'
     \/ /\ leaving \in Code /\ outcome' \in {leaving, "STORAGE_FAILURE"}
        /\ UNCHANGED leaving
  /\ UNCHANGED <<sourceEnd, stopped, appending>>

SessionStep ==
  \/ AppendStarts \/ AppendSettles \/ OwnerCloses
  \/ LeaveByStop \/ LeaveBySource \/ AppendFails \/ AcknowledgeFails \/ CloseFails \/ Done

ContractNext ==
  SessionStep \/ StartupFails \/ StopSession \/ \E code \in Code : SourceEnds(code)

ContractSpec == ContractInit /\ [][ContractNext]_contractVars
=============================================================================

--------------------------- MODULE DurableCapture ---------------------------
(***************************************************************************)
(* What docs/correctness.md promises of capture, with no sessions, locks,  *)
(* leases or failures: the source commits, commits become durable history  *)
(* one by one and in order, and the source is told at most that what is    *)
(* durable may be forgotten.                                               *)
(***************************************************************************)
EXTENDS Naturals

VARIABLES
  committed,   \* commits the source has made since the baseline
  durable,     \* commits in the recording
  confirmed    \* commits the source has been told it may forget

capture == <<committed, durable, confirmed>>

CaptureInit == committed = 0 /\ durable = 0 /\ confirmed = 0

SourceCommits ==
  /\ committed' = committed + 1
  /\ UNCHANGED <<durable, confirmed>>

CommitRecorded ==
  /\ durable < committed
  /\ durable' = durable + 1
  /\ UNCHANGED <<committed, confirmed>>

\* The source learns of some durable prefix, not always the longest.
ProgressConfirmed ==
  /\ confirmed' \in 0 .. durable
  /\ UNCHANGED <<committed, durable>>

CaptureNext == SourceCommits \/ CommitRecorded \/ ProgressConfirmed

CaptureSpec == CaptureInit /\ [][CaptureNext]_capture
=============================================================================

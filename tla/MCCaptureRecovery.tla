------------------------- MODULE MCCaptureRecovery -------------------------
(* Instances of CaptureRecovery for TLC.                                     *)
EXTENDS CaptureRecovery, TLC

CONSTANTS a1, a2, a3

\* The liveness runs start from a recorder that crashed.
CrashedInit == Init /\ status = "recording"

AfterCrash == CrashedInit /\ [][Next]_vars /\ Fairness

Rivals == Permutations(Attempts)
=============================================================================

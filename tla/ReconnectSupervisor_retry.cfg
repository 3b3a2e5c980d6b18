\* Three attempts, stop and cancellation at every point of each.
CONSTANTS
  MaxRetries = 2
SPECIFICATION SupervisorFairSpec
CHECK_DEADLOCK FALSE
INVARIANT AttemptsDoNotOverlap
INVARIANT CleanupFailureReported
INVARIANT ExternalCancellationRejects
PROPERTY NothingBeginsOnceCancelled
PROPERTY SupervisorSettles

\* A stop that met no session is reported while the caller aborts.
CONSTANTS
  MaxRetries = 0
SPECIFICATION SupervisorSpec
CHECK_DEADLOCK FALSE
INVARIANT CancellationIsFinal

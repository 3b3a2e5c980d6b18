\* A stream that fails while an append is in flight, and a stop before it settles.
CONSTANTS
  MaxCommits = 1
SPECIFICATION Spec
CHECK_DEADLOCK FALSE
INVARIANT SourceFailureRetained

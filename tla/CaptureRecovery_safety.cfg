\* Two attempts that crash, overlap and take over from one another; two commits.
CONSTANTS
  a1 = a1  a2 = a2  a3 = a3
  Nobody = Nobody
  Attempts = {a1, a2}
  MaxCommits = 2
SPECIFICATION Spec
SYMMETRY Rivals
CHECK_DEADLOCK FALSE
INVARIANT NoCommitMissing
INVARIANT ConfirmedIsDurable
INVARIANT NeverInvalidated
INVARIANT HeadWithinRetainedRange
PROPERTY ImplementsDurableCapture

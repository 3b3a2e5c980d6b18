CONSTANTS
  u1 = u1  c1 = c1  lease = lease
  Setups = {u1}
  Cleanups = {c1}
  Lease = lease
  MaxOid = 2
  MaxMeddling = 1
  MaxPosition = 1
  Rows = {1, 2}
  BatchRows = 1
SPECIFICATION MCSpec
CHECK_DEADLOCK FALSE
INVARIANT SourceIsSound
INVARIANT BootstrapIsSound
PROPERTY CleanupIsSafe
PROPERTY EverythingEnds

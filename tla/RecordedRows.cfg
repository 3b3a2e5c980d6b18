SPECIFICATION MCSpec
CONSTANTS
  Keys = {1, 2}
  Values <- MCValues
  NoRow = NoRow
  Broken = Broken
  TooLarge = TooLarge
  Unchanged = Unchanged
  NoKey = NoKey
  Same = Same
  Workload <- MCWorkload
  Snapshots <- MCSnapshots
  MaxRows = 2
  MaxFrames = 5
  MaxEvents = 2
  MaxCommits = 2
  MaxWork = 10
  MaxCandidates = 2
  PageRows = 1
  Forgeries <- MCForgeries
  MaxStops = 1
  MaxDamage = 1
CHECK_DEADLOCK FALSE
INVARIANT RowsAreSource
INVARIANT RefusalsHaveCause

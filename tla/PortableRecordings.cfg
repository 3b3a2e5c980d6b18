\* One recording exported, damaged in every way, and imported once.
CONSTANTS
  r1 = r1  r2 = r2  i1 = i1  i2 = i2
  Rows <- TwoRows
  Changes <- Moves
  MaxPosition = 2
  Ids = {r1, r2}
  MaxRecords = 9
  Views <- Histories
  DerivedId = r2
  Importers = {i1, i2}
  BatchRows = 1
  Damaged <- AnyDamage
SPECIFICATION MCSpec
CHECK_DEADLOCK FALSE
INVARIANT PublicationIsSound
INVARIANT ResourcesAccountedFor
PROPERTY ExistingAndCancelledRespected
PROPERTY EverythingSettles

SPECIFICATION Spec
CONSTANTS
  Keys = {1, 2, 3}
  Values = {"good", "wrong"}
  Bad = {"wrong"}
  NoRow = NoRow
  Broken = Broken
  TooLarge = TooLarge
  AnyTable = AnyTable
  MaxRows = 2
  TableOf <- MCTableOf
  Questions <- MCQuestions
CHECK_DEADLOCK FALSE
INVARIANT ScanIsTrue
INVARIANT LineageIsTrue
INVARIANT ViewsAreExact
PROPERTY EveryQueryEnds

\* Two attempts and one commit: attempts catch up, and give the source back.
CONSTANTS
  a1 = a1  a2 = a2  a3 = a3
  Nobody = Nobody
  Attempts = {a1, a2}
  MaxCommits = 1
SPECIFICATION AfterCrash
CHECK_DEADLOCK FALSE
PROPERTY CatchesUp
PROPERTY SourceReleased

\* One session, three commits, every order of failures, stops and settlements.
CONSTANTS
  MaxCommits = 3
SPECIFICATION FairSpec
CHECK_DEADLOCK FALSE
INVARIANT SessionIsOrderly
INVARIANT FailuresToldApart
PROPERTY ImplementsDurableCapture
PROPERTY ImplementsContract
PROPERTY SessionSettles

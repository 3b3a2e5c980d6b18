\* Two workers whose caches, claims and queues meet in one file: plain writes that
\* fail, delete and recreate, or two claims of one recording next to them.
CONSTANTS
  r1 = r1  k1 = k1  k2 = k2  c1 = c1  c2 = c2  s1 = s1  s2 = s2
  Rows <- TwoRows
  Changes <- Changes2
  MaxPosition = 2
  Recordings = {r1}
  Connections = {c1, c2}
  Sessions = {s1, s2}
  ConnectionOf <- TwoWorkers
  Names = {n1}
  Bindings = {b1}
  MaxGeneration = 2
  MaxPending = 2
  MaxIncarnation = 2
SPECIFICATION StoreSpec
CHECK_DEADLOCK FALSE
INVARIANT HistorySound
INVARIANT OneWriter
PROPERTY ImplementsCommittedHistory
PROPERTY BindingSettled
PROPERTY AcceptedWritesDrain
PROPERTY FencedForever

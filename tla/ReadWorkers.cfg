\* A store with one write and two cleanup requests, two read sessions of one page.
CONSTANTS
  st = st  s1 = s1  s2 = s2
  write = write  page = page  free1 = free1  free2 = free2
  Store = st
  Sessions = {s1, s2}
  Calls = {write, page, free1, free2}
  KindOf <- Does
  CallsOf <- Makes
  MaxPending = 1
  Capacity = 1
SPECIFICATION ApartSpec
CHECK_DEADLOCK FALSE
INVARIANT WorkersAccountedFor
INVARIANT ReadsAreCurrent
PROPERTY EverythingEnds

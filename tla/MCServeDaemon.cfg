SPECIFICATION LiveSpec
CONSTANTS
  c1 = c1
  d1 = d1
  d2 = d2
  Commands = {c1}
  Daemons = {d1, d2}
  None = None
  Empty = Empty
INVARIANTS
  OneDaemon
  AdminReachable
PROPERTIES
  RepliesTrue
  ToldEnds

SPECIFICATION FairSpec
CONSTANTS
  p1 = p1
  p2 = p2
  Runners = {r1, r2}
  Ports = {p1, p2}
  Dial <- TwoPorts
  NoPid = NoPid
  NoFile = NoFile
INVARIANTS
  LockIsOwn
  AloneUnlessRaced
  LeakIsAFailedOpen
  ExitsClean
PROPERTIES
  RunnersEnd
\* All runners end.
CHECK_DEADLOCK FALSE

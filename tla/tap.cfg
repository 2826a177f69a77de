SPECIFICATION FairSpec
CONSTANTS
  m1 = m1
  m2 = m2
  long = long
  Pages = {m1, m2, long}
  TooLong = {long}
  Serial = FALSE
  MaxConnect = 2
  InitCR = TRUE
  Flushes = FALSE
  MaxStrays = 1
  MaxSends = 4
INVARIANTS
  DeliveredWasAccepted
  AcceptedOnce
  ShiftIsBounded
  OneGuessPerCall
PROPERTIES
  LoginEnds
\* A call ends.
CHECK_DEADLOCK FALSE

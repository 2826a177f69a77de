SPECIFICATION FairSpec
CONSTANTS
  long = long
  NoMessage = NoMessage
  NoUser = NoUser
  Users = {u1}
  Messages = {long}
  Parts <- TextParts
  HoldTimes = {9}
  MaxBroadcast = 0
  MaxTries = 1
  MaxPagers = 1
  MaxSends = 1
  To = u1
  Text = long
  HoldFors = {0, 3600, 10800}
  GmtOffset = 3600
  High = TRUE
  MaxAttempts = 3
INVARIANTS
  SuccessIsStored
  CopiesAreExplained
  SentAsAsked
PROPERTIES
  RunEnds
\* A page is sent, or the mailer gives up.
CHECK_DEADLOCK FALSE

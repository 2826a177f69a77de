SPECIFICATION Spec
CONSTANTS
  short = short
  long = long
  NoMessage = NoMessage
  NoUser = NoUser
  Users = {u1}
  Messages = {short, long}
  Parts <- TextParts
  HoldTimes = {1}
  MaxBroadcast = 4
  MaxTries = 1
  MaxPagers = 5
  MaxSends = 3
INVARIANTS
  RoomForOneMore
  QueuedForAll
  OneCopyEach
  FragmentIsReported
  TransactionsAreLimited
CONSTRAINT FewFailures
\* A session ends.
CHECK_DEADLOCK FALSE

SPECIFICATION Spec
CONSTANTS
  Instants <- TestInstants
  Entries <- TestEntries
  Holds <- TestHolds
  Garbage <- TestGarbage
  MaxQueueTime = 1
  NoHours = NoHours
INVARIANTS
  HoursAsTyped
  NormalPagesComeInHours
  DueInItsWindow
PROPERTIES
  PhasesAdvance
\* The last instant.
CHECK_DEADLOCK FALSE

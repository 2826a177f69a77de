SPECIFICATION FairSpec
CONSTANTS
  Servers = {s1, s2}
  Killers = {k1}
  NoPid = NoPid
  NoFile = NoFile
  MaxDeaths = 1
PROPERTIES
  PidFileIsTaken
  OrphansEnd
  DeliveriesGoOn
\* Every server may be gone.
CHECK_DEADLOCK FALSE

SPECIFICATION FairSpec
CONSTANTS
  r1 = r1
  r2 = r2
  cron = cron
  printq = printq
  f1 = f1
  m1 = m1
  m2 = m2
  NoPage = NoPage
  NoChild = NoChild
  Pages = {m1, m2}

  Runners = {r1}
  Checkers = {cron}
  Farklers = {}
  Held = {m1}
  Owned = {}
  Child <- DaemonOnly
  TermList <- TwoTerms
  Station <- LostStation
  Priority <- Priorities
  Stamp <- Stamps
  LockCanFail = FALSE
  DiskMayFill = TRUE
  MaxDeaths = 1
INVARIANTS
  NoOrphanLock
  CleanLocking
  ExpiredWasNotDelivered
  IdleSpoolIsUnlocked
PROPERTIES
  EveryPageLeaves
  RunnersFinish

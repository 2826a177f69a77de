SPECIFICATION Spec
CONSTANTS
  r1 = r1
  r2 = r2
  cron = cron
  printq = printq
  f1 = f1
  m1 = m1
  m2 = m2
  NoPage = NoPage
  NoChild = NoChild
  Pages = {m1}

  Runners = {r1}
  Checkers = {}
  Farklers = {}
  Held = {}
  Owned = {m1}
  Child <- NoChildren
  TermList <- OneTerm
  Station <- SameStation
  Priority <- Equal
  Stamp <- Stamps
  LockCanFail = FALSE
  DiskMayFill = FALSE
  MaxDeaths = 0
INVARIANTS
  DequeuedWasNotSent

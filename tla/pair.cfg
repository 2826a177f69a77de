SPECIFICATION Spec
CONSTANTS
  r1 = r1
  r2 = r2
  cron = cron
  printq = printq
  f1 = f1
  m1 = m1
  m2 = m2
  NoPage = NoPage
  NoChild = NoChild
  Pages = {m1, m2}

  Runners = {r1, r2}
  Checkers = {}
  Farklers = {}
  Held = {}
  Owned = {}
  Child <- NoChildren
  TermList <- OneTerm
  Station <- SameStation
  Priority <- Equal
  Stamp <- Stamps
  LockCanFail = TRUE
  DiskMayFill = TRUE
  MaxDeaths = 0
INVARIANTS
  OneRunnerPerPage
  ListedIsLocked
  AckedOnce
PROPERTIES
  LocksAreRespected
SYMMETRY SlotsAndPages
CONSTRAINT Young

SPECIFICATION Spec
CONSTANTS
  r1 = r1
  r2 = r2
  cron = cron
  printq = printq
  f1 = f1
  m1 = m1
  m2 = m2
  NoPage = NoPage
  NoChild = NoChild
  Pages = {m1}

  Runners = {r1}
  Checkers = {printq}
  Farklers = {f1}
  Held = {m1}
  Owned = {m1}
  Child <- PrinterOnly
  TermList <- OneTerm
  Station <- SameStation
  Priority <- Equal
  Stamp <- Stamps
  LockCanFail = TRUE
  DiskMayFill = TRUE
  MaxDeaths = 1
PROPERTIES
  KeepsLedger

\* A claim that was answered 200 OK is lost.
SPECIFICATION Spec
CONSTANTS
  r1 = r1
  r2 = r2
  r3 = r3
  r4 = r4
  c1 = c1
  c2 = c2
  Request = {r1, r2, r3}
  Funding = {c1}
  MaxTx = 2
  MaxTime = 1
  MillisPerSecond = 1000
  MaxPerTx = 1
  MaxInFlight = 1
  Restarts = FALSE
  AbsurdFees = FALSE
INVARIANTS
  OkIsNotLost
CHECK_DEADLOCK FALSE

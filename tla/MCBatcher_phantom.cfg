\* A transaction that no broadcast has delivered stays in the wallet.
SPECIFICATION Spec
CONSTANTS
  r1 = r1
  r2 = r2
  r3 = r3
  r4 = r4
  c1 = c1
  c2 = c2
  Request = {r1, r2}
  Funding = {c1}
  MaxTx = 2
  MaxTime = 3
  MillisPerSecond = 1000
  MaxPerTx = 1
  MaxInFlight = 2
  Restarts = FALSE
  AbsurdFees = FALSE
PROPERTIES
  MissedIsDropped
CHECK_DEADLOCK FALSE

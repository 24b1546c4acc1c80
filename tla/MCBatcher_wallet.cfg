\* Overlapping batches, panics and restarts against the syncer.
SPECIFICATION Spec
CONSTANTS
  r1 = r1
  r2 = r2
  r3 = r3
  r4 = r4
  c1 = c1
  c2 = c2
  Request = {r1, r2, r3}
  Funding = {c1}
  MaxTx = 3
  MaxTime = 2
  MillisPerSecond = 1000
  MaxPerTx = 1
  MaxInFlight = 2
  Restarts = TRUE
  AbsurdFees = TRUE
SYMMETRY SymCoins
INVARIANTS
  TypeOK
  PaidOnce
PROPERTIES
  ImplementsPayoutLedger
  AppliedKeepsCoins
  AppliedStays
CHECK_DEADLOCK FALSE

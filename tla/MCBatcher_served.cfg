\* What is accepted leaves the batcher, and the wallet follows the chain.
SPECIFICATION FairSpec
CONSTANTS
  r1 = r1
  r2 = r2
  r3 = r3
  r4 = r4
  c1 = c1
  c2 = c2
  Request = {r1, r2, r3}
  Funding = {c1}
  MaxTx = 2
  MaxTime = 1
  MillisPerSecond = 1000
  MaxPerTx = 2
  MaxInFlight = 2
  Restarts = TRUE
  AbsurdFees = TRUE
PROPERTIES
  HeldIsSettled
  WalletFollowsChain
CHECK_DEADLOCK FALSE

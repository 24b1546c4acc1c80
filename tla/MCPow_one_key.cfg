\* Four requests of one address on one chain.
SPECIFICATION Spec
CONSTANTS
  r1 = r1
  r2 = r2
  r3 = r3
  r4 = r4
  Request = {r1, r2, r3, r4}
  Key <- OneKey
  Duration <- OnlyL1
  Never = 9
  TicksPerMilli = 2
  Difficulty = {1, 2}
  Work = {1, 2}
  ClientSalt = "alpen faucet 2024"
  NoChallenge = NoChallenge
  MaxTime = 3
SYMMETRY Sym
INVARIANTS
  TypeOK
  EvictionInv
  HistoryInv
  HonestSolverServed
PROPERTIES
  NoEarlyEviction
  OneAttemptUntilExpiry
CHECK_DEADLOCK FALSE

\* One address on both chains, whose challenges last for different times.
SPECIFICATION FairSpec
CONSTANTS
  r1 = r1
  r2 = r2
  r3 = r3
  r4 = r4
  Request = {r1, r2, r3}
  Key <- BothChains
  Duration <- ByChain
  Never = 9
  TicksPerMilli = 2
  Difficulty = {1}
  Work = {1}
  ClientSalt = "alpen faucet 2024"
  NoChallenge = NoChallenge
  MaxTime = 2
INVARIANT EvictionInv
PROPERTIES
  ImplementsLedger
  NoEarlyEviction
  RequestsAnswered
  LateSendRescues
CHECK_DEADLOCK FALSE

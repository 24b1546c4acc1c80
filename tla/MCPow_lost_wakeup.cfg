\* A wakeup is lost: a challenge is never evicted.
SPECIFICATION FairSpec
CONSTANTS
  r1 = r1
  r2 = r2
  r3 = r3
  r4 = r4
  Request = {r1, r2}
  Key <- BothChains
  Duration <- Short
  Never = 9
  TicksPerMilli = 1
  Difficulty = {1}
  Work = {1}
  ClientSalt = "alpen faucet 2024"
  NoChallenge = NoChallenge
  MaxTime = 3
PROPERTY ExpiredIsEvicted
CHECK_DEADLOCK FALSE

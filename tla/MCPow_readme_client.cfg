\* A client that hashes with the salt of the README.
SPECIFICATION Spec
CONSTANTS
  r1 = r1
  r2 = r2
  r3 = r3
  r4 = r4
  Request = {r1, r2, r3}
  Key <- BothChains
  Duration <- ByChain
  Never = 9
  TicksPerMilli = 2
  Difficulty = {1}
  Work = {1}
  ClientSalt = "strata faucet 2024"
  NoChallenge = NoChallenge
  MaxTime = 3
SYMMETRY Sym
INVARIANT HonestSolverServed
CHECK_DEADLOCK FALSE

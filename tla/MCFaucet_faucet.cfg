\* Two clients on both chains against the balances and the node.
SPECIFICATION Spec
CONSTANTS
  r1 = r1
  r2 = r2
  r3 = r3
  r4 = r4
  a1 = a1
  a2 = a2
  a6 = a6
  Request = {r1, r2, r3, r4}
  Ipv4 = {a1, a2}
  Ipv6 = {a6}
  Hash <- Hashes
  Power = 2
  Settings <- BothLayers
  Funds <- Balances
  MaxPerTx = 2
  NoChallenge = NoChallenge
  MaxTime = 1
  Precision = 10
  MaxExponent = 30
  MaxU8 = 7
  ByteBits = 4
  CounterLimit = 8
SYMMETRY Sym
INVARIANTS
  TypeOK
  PaidForWork
  BalanceFloor
  NoNonceGap
PROPERTIES
  JsSolverServed
CHECK_DEADLOCK FALSE

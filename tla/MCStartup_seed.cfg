\* A seed that cannot be read is replaced.
SPECIFICATION Spec
CONSTANTS
  Precision = 10
  MaxExponent = 30
  MaxU8 = 7
  MaxU64 = 2047
  SatsToWei = 100
  MaxBalance = 1
  MaxSeeds = 2
  ReadFaults = TRUE
  Absent = Absent
  Short = Short
  Estimate = {1, 5, 80}
  NoEstimate = NoEstimate
  Parts = 2
  None = None
  Missing = None
  NoWallet = NoWallet
  ReadableSettings <- OneSetting
  DefaultLayer <- Default
INVARIANT SeedFileStoresKeys
CHECK_DEADLOCK FALSE

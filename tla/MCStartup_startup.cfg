\* Start-ups that fail and succeed, with crashes, failing reads and writes.
SPECIFICATION FairSpec
CONSTANTS
  Precision = 10
  MaxExponent = 30
  MaxU8 = 7
  MaxU64 = 2047
  SatsToWei = 100
  MaxBalance = 1220
  MaxSeeds = 2
  ReadFaults = TRUE
  Absent = Absent
  Short = Short
  Estimate = {1, 5, 80}
  NoEstimate = NoEstimate
  Parts = 2
  None = None
  Missing = None
  NoWallet = NoWallet
  ReadableSettings <- Readable
  DefaultLayer <- Default
INVARIANTS
  TypeOK
  KeysKept
  KeysInUse
  NoWeiOverflow
  DifficultyFollowsFormula
  QuotesNeverRise
PROPERTIES
  FeeRateFollows
CHECK_DEADLOCK FALSE

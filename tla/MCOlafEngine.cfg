CONSTANTS
  BlockSize = 4
  StepSize = 2
  MaxChunk = 2
  LowMemory = {"zero", "cookie"}
  MaxBlocks = 10
  Freqs = {1, 2}
  FilterSize = 5
  MaxPoints = 5
  Threshold = 2
  MaxUsages = 2
  MinTime = 1
  MaxTime = 3
  MinFreq = 1
  MaxFreq = 1
  MaxPrints = 3
  Lookups <- MCLookups
  Bucket = 2
  MinCount = 2
  MinSpan = 1
  MaxResults = 1
  PrintEvery = 1
  KeepFor = 4
SPECIFICATION EngineSpec
INVARIANTS TypeOK BlocksAreConsecutive NoSampleLost PoolIsSorted StartTellsAMatch SpanCoversTheMatch
PROPERTY NoPairIsMissed
CHECK_DEADLOCK FALSE

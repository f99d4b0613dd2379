CONSTANTS
  BlockSize = 4
  StepSize = 2
  MaxChunk = 2
  LowMemory = {"zero"}
  MaxBlocks = 14
  Freqs = {1, 2}
  FilterSize = 5
  MaxPoints = 5
  Threshold = 1
  MaxUsages = 2
  MinTime = 1
  MaxTime = 2
  MinFreq = 1
  MaxFreq = 1
  MaxPrints = 3
  Lookups <- MCLookups
  Bucket = 2
  MinCount = 2
  MinSpan = 1
  MaxResults = 1
  PrintEvery = 1
  KeepFor = 4
SPECIFICATION EngineSpec
INVARIANT MatchesAreRecent
CHECK_DEADLOCK FALSE

CONSTANTS
  Servers = {s1, s2, s3}
  Submissions = {x1}
  MaxTables = 3
  Signals = {"USR", "TERM"}
  Faults = {}
  MaxSignals = 2
  MaxStarts = 3
SPECIFICATION FairSpec
INVARIANTS TypeOK RegistryIsExact
PROPERTIES NumberOfRunningServerStays SelectionEnds MergeReturns
CHECK_DEADLOCK FALSE

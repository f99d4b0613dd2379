CONSTANTS
  Servers = {s1, s2, s3}
  Submissions = {x1}
  MaxTables = 2
  Signals = {"USR", "TERM"}
  Faults = {"timeout", "crash", "index", "early", "restart"}
  MaxSignals = 2
  MaxStarts = 3
SPECIFICATION Spec
SYMMETRY Symmetry
INVARIANT NoPhantomTables
CHECK_DEADLOCK FALSE

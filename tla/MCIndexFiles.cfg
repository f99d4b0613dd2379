CONSTANTS
  Keys = {k1, k2}
  Ids = {i1, i2}
  None = None
  Null = Null
  Faults = {"crash", "disk", "open"}
  MaxStarts = 4
  MaxInserts = 4
SPECIFICATION Spec
SYMMETRY Symmetry
INVARIANTS TypeOK ServedIsDurable NothingForgotten FirstIdWins
PROPERTIES MainOnlyGrows OpeningMakesFindable
CHECK_DEADLOCK FALSE

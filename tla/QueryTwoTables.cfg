CONSTANTS
  Workers = {"w1", "w2"}
  Tables = {"t1", "t2"}
  Threads = {"k1", "k2", "k3"}
  Home <- MCHome
  Requests = {"q1", "q2", "q3"}
  Score <- TwoHolders
  LookupThreshold = 1
  Threshold = 2
  Faults = {}
  Down = {}
  None = None
SPECIFICATION Spec
INVARIANT AnswersAreForTheirRequest
CHECK_DEADLOCK FALSE

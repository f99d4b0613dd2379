CONSTANTS
  Workers = {"w1", "w2"}
  Tables = {"t1", "t2"}
  Threads = {"k1", "k2", "k3"}
  Home <- MCHome
  Requests = {"q1", "q2", "q3"}
  Score <- TwoHolders
  LookupThreshold = 1
  Threshold = 2
  Faults = {"wait", "ack"}
  Down = {"t1", "t2"}
  None = None
SPECIFICATION Spec
INVARIANTS TypeOK AnswersStayWithWorker NoResultUsedTwice NoFaintAnswer
CHECK_DEADLOCK FALSE

CONSTANTS
  Workers = {w1, w2}
  Main = main
  SIG = sig
  Handlers = {main}
  Commands = {"lookup"}
  MaxSignals = 2
  MaxDrift = 0
SPECIFICATION FairSpec
CHECK_DEADLOCK FALSE
PROPERTY HandlerReturns LookupsFinish DownForGood

CONSTANTS
  Workers = {w1, w2}
  Main = main
  SIG = sig
  Handlers = {main}
  Commands = {"insert"}
  MaxSignals = 1
  MaxDrift = 0
SPECIFICATION Spec
CHECK_DEADLOCK FALSE
INVARIANT UnpluggedIndexIsNotUsed

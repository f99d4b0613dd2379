CONSTANTS
  Workers = {w1, w2}
  Main = main
  SIG = sig
  Handlers = {w1, w2, main}
  Commands = {"lookup", "insert"}
  MaxSignals = 2
  MaxDrift = 0
SPECIFICATION Spec
SYMMETRY Symmetry
CHECK_DEADLOCK FALSE
INVARIANT TypeOK CountIsExact LookupsNeverWait SleeperWillBeWoken
PROPERTY HandlerEntersAlone

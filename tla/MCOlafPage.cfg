CONSTANTS
  Starts = {"s1", "s2"}
  Demos = {"olaf", "resample"}
  Haste <- AllHaste
  Faults = {"context", "source", "module", "wasm", "mute"}
  MaxQueue = 1
  MaxLoops = 2
  None = None
SPECIFICATION FairSpec
INVARIANTS TypeOK EveryMicrophoneHasAButton OnlyOwnNodesAreHeard MatchesGoToTheirPage NoTimeWithoutMatch
PROPERTIES DisplayChangesOnlyWhileOn LoopsEndAfterStop MatchIsShown
CHECK_DEADLOCK FALSE

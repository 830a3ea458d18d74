SPECIFICATION FairSpec
CONSTANTS
  MAXJOBS = 2
  Pids <- ThreePids
  Keyboard = {}
  Programs = {"exit", "int"}
INVARIANT ZombiesAreNoticed
PROPERTIES
  ZombiesAreReaped
  ForegroundReturns

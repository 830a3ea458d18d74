SPECIFICATION Spec
CONSTANTS
  kbest = 3
  maxsamples = 4
  EpsNum = 1
  EpsDen = 2
  Radix = 4
  Durations = {2, 3, 7}
  Ticks = {0, 1}
  TickCosts = {0, 2}
  Calls = 2
INVARIANTS
  KBest
  GivesUpInTime
CHECK_DEADLOCK FALSE

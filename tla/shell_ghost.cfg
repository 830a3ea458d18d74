SPECIFICATION Spec
CONSTANTS
  MAXJOBS = 2
  Pids <- TwoPids
  Keyboard = {}
  Programs = {"exit"}
INVARIANT NoGhostJob

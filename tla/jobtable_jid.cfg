SPECIFICATION Spec
CONSTANTS
  MAXJOBS = 4
  Pids <- FourPids
  JidBound = 6
CONSTRAINT JidsBounded
INVARIANT FoundByJid

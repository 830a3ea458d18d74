SPECIFICATION Spec
CONSTANTS
  MAXJOBS = 4
  Pids <- FourPids
  JidBound = 5
CONSTRAINT JidsBounded
INVARIANTS
  TypeOK
  ListIsSound
  NoJidSkipped

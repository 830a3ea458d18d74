SPECIFICATION Spec
CONSTANTS
  MAXJOBS = 2
  Pids <- TwoPids
  Keyboard = {"INT", "TSTP", "QUIT"}
  Programs = {"exit", "int", "stop"}
INVARIANTS
  TypeOK
  UniquePids
  OneForeground
  NoLostChild
  StoppedJobsAreStopped
  ListedJobsAreComplete
  KeysSpareBackground
PROPERTY RemovedOnlyIfReaped

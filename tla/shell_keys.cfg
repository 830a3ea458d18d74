SPECIFICATION Spec
CONSTANTS
  MAXJOBS = 2
  Pids <- TwoPids
  Keyboard = {"INT"}
  Programs = {"exit"}
PROPERTY KeysNeverEndShell

SPECIFICATION DriverSpec
CONSTANTS
  Indices = {i1, i2, i3}
  Patterns = {i1, i2, i3}
  LowByte <- OwnByte
  Negative = {}
  None = None
  Chunk = 3
  MaxHeap = 14
  Requests = {0, 5, 24}
  MaxOps = 5
  NumTraces = 2
  Repeats = 2
SYMMETRY Alike
VIEW View
INVARIANTS
  ReplaysAlike
  UtilizationRight
CHECK_DEADLOCK FALSE

SPECIFICATION Spec
CONSTANTS
  Indices = {i1, i2, i3, high}
  Patterns = {i1, i2, i3, high}
  LowByte <- OwnByte
  High = high
  Negative = {high}
  None = None
  Chunk = 3
  MaxHeap = 12
  Requests = {0, 5, 12, 24}
SYMMETRY Alike
VIEW View
INVARIANTS
  TypeOK
  HeapTiled
  Coalesced
  NextFitIsBlock
  AllocatedAreHeld
  ContentsKept
  NoErrors
  RangesAreHeld
PROPERTY Promised

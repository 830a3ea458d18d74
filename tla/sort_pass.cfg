SPECIFICATION Spec
CONSTANTS
  isIncreasing = TRUE
  MaxLength = 5
  Files <- ShortFiles
  MaxPrefixed = 3
  BufferSize = 4
  StrSize = 4
  FirstLimit = 2
  MoreLimit = 1
  Decimal = 2
  Hex = 3
  MaxInt = 3
  MaxNumbers = 8
  IntSize = 4
  GiveUp = 4
  Junk = {0, 3}
INVARIANTS
  TypeOK
  RoomForOneMore
  ReadsTheFile
  SortsWhatItRead
  WritesTheArray
PROPERTY Terminates
CHECK_DEADLOCK FALSE

SPECIFICATION Spec
CONSTANTS
  ByteSize = 2
  ExpBits = 3
  TEST_RANGE = 3
  Sample <- SampledWords
  MaxTimeouts = 1
INVARIANTS
  SolutionsAgree
  ScoresTheRight
CHECK_DEADLOCK FALSE

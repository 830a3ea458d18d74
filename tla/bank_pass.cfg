SPECIFICATION FairSpec
CONSTANTS
  Tellers = {t1, t2, t3}
  MaxTime = 4
  Allocated = 4
  QueueLength = 3
  Block = 1
INVARIANTS
  TypeOK
  QueueLengthNotNegative
  QueueInOrder
  TakenOnceUnlessLate
PROPERTY Terminates

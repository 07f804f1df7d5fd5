CONSTANTS
  Alice = Alice
  Bob = Bob
  MAX_SKIP = 1
  MaxKeys = 6
  MaxSent = 5
  MaxReplays = 1
  MaxRestarts = 1
SPECIFICATION SessionSpec
INVARIANTS KeysOnce InStepKept SecrecyKept
CHECK_DEADLOCK FALSE

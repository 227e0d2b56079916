CONSTANTS
  Lines = {l1}
  Budget = 3
  Counted = TRUE
  MaxAmount = 2
  MaxDocs = 4
  MaxPending = 1
SPECIFICATION Spec
CHECK_DEADLOCK FALSE
INVARIANT OnlyUnconvertedHold

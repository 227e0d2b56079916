CONSTANTS
  Lines = {l1}
  Budget = 3
  Counted = TRUE
  MaxAmount = 2
  MaxDocs = 4
  MaxPending = 2
SPECIFICATION Spec
CHECK_DEADLOCK FALSE
INVARIANTS TypeOK StateFollowsLedger LineHoldsOutstanding NothingBelowZero OrderAddsUp ConvertedOnce NeverOverdrawn

SPECIFICATION YearSpec
CONSTANTS
  a = a
  b = b
  Lines <- TwoYears
  Budget = 2
  Counted = TRUE
  MaxAmount = 2
  MaxDocs = 3
  MaxPending = 1
  LastYear = 2
  SameItem = SameItem
  CarryItem = b
  LastMonth = 1
  MaxChanges = 1
INVARIANTS
  YearTypeOK
  ClosedYearHoldsNothing
  CarriedInFull
  PreviewIsEnough
  LineHoldsOutstanding
CHECK_DEADLOCK FALSE

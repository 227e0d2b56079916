SPECIFICATION YearSpec
CONSTANTS
  a = a
  b = b
  Lines <- TwoYears
  Budget = 2
  Counted = TRUE
  MaxAmount = 1
  MaxDocs = 2
  MaxPending = 1
  LastYear = 2
  SameItem = SameItem
  CarryItem = b
  LastMonth = 2
  MaxChanges = 2
INVARIANT MonthsDoNotBlockClosing
CHECK_DEADLOCK FALSE

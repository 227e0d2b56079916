\* Two lines, unit amounts, one grant, ledgers of up to three postings.
CONSTANTS
  Lines = {l1, l2}
  Users = {u1, u2}
  Grants = {g1}
  Periods = {p1}
  MaxAmount = 1
  MaxPostings = 3
  MaxUncovered = 1
  AnyLine = AnyLine
  NoGrant = NoGrant
SPECIFICATION Spec
SYMMETRY Symmetry
INVARIANTS
  OverdraftAccounted
  GrantsAccounted
  AllocationWithinAppropriation
  TransfersCreateNoMoney
  BalanceIsDocumentsInForce
PROPERTY FundsSpec
CHECK_DEADLOCK FALSE

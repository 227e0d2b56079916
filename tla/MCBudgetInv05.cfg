\* One line, unit amounts, four postings: INV-05 after reservations start to count.
CONSTANTS
  Lines = {l1}
  Users = {u1, u2}
  Grants = {}
  Periods = {p1}
  MaxAmount = 1
  MaxPostings = 4
  MaxUncovered = 1
  AnyLine = AnyLine
  NoGrant = NoGrant
SPECIFICATION Spec
PROPERTY PostingLeavesLineFunded
CHECK_DEADLOCK FALSE

SPECIFICATION Spec
CONSTANTS
  Preparers = {p, q}
  Committers = {p, q}
  Undecided = Undecided
  Figures = {Undecided, amount}
  Asks = {{"accept"}, {"amounts"}}
  None = None
  MaxBatches = 2
  MaxChanges = 1
SYMMETRY Symmetry
INVARIANTS
  ImportedOnce
  CommittedAsValidated
PROPERTIES
  ImportedForGood
CHECK_DEADLOCK FALSE

SPECIFICATION Spec
CONSTANTS
  c = c
  a = a
  b = b
  d = d
  Users = {c, a, b, d}
  Creator = c
  Roles <- Profiles
  Rights <- StartRights
  NoUser = NoUser
  NoStep = NoStep
  SuperviseFrom = 2
  MaxAmount = 2
  MaxRounds = 2
  MaxDelegations = 1
  MaxBandChanges = 2
  MaxChanges = 1
  Together <- PeopleOrBands
INVARIANTS
  InstanceMatchesDocument
  SeparationOfDuties
  StepsInOrder
  AmountApprovedIsPosted
PROPERTIES
  FinalStaysFinal
SYMMETRY Symmetry
CHECK_DEADLOCK FALSE

SPECIFICATION Spec
CONSTANTS
  c = c
  a = a
  b = b
  d = d
  Users = {c, a, b, d}
  Creator = c
  Roles <- Profiles
  Rights <- StartRights
  NoUser = NoUser
  NoStep = NoStep
  SuperviseFrom = 2
  MaxAmount = 2
  MaxRounds = 1
  MaxDelegations = 0
  MaxBandChanges = 1
  MaxChanges = 0
  Together <- PeopleOrBands
INVARIANTS
  WaitsWhereItApplies
SYMMETRY Symmetry
CHECK_DEADLOCK FALSE

SPECIFICATION DeskSpec
CONSTANTS
  c = c
  a = a
  b = b
  d = d
  Users = {c, a, b, d}
  Creator = c
  Roles <- Profiles
  Rights <- StartRights
  NoUser = NoUser
  NoStep = NoStep
  SuperviseFrom = 3
  MaxAmount = 2
  MaxRounds = 2
  MaxDelegations = 1
  MaxChanges = 1
  MaxBandChanges = 1
  Together <- OneOfThem
  Years = {"y1", "y2"}
  Items = {"i1", "i2"}
  Sources <- Posted
  KindOf <- PostedKind
  LineOf <- PostedLine
  Creates <- AllKinds
  None = None
  MaxDrafts = 2
  MaxTurns = 1
  MaxOpen = 2
  Files = {"invoice"}
  Followed <- PaymentOfOrder
INVARIANTS
  PaysItsOwnLine
  OneUnderWay
  SupportKept
PROPERTIES
  DecidedAsShown
CHECK_DEADLOCK FALSE

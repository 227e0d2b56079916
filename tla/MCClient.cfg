CONSTANTS
  MaxFailedLogins = 2
  LockTime = 1
  Doublings = 1
  IdleTimeout = 2
  RefreshTime = 3
  AccessTime = 1
  LastTime = 1
  MaxTokens = 3
  MaxWaiting = 2
  MaxChanges = 2
  Slots = {1, 2}
  NoAccess = NoAccess
  MaxTrouble = 1
  Spare = 1
  Together <- OnlyLoading
SPECIFICATION ClientSpec
INVARIANTS
  NoFalseAlarm
PROPERTIES
  KeepsItsSession
  EndedIsNoticed
CHECK_DEADLOCK FALSE

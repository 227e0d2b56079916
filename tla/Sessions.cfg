SPECIFICATION Spec
CONSTANTS
  MaxFailedLogins = 1
  LockTime = 1
  Doublings = 1
  IdleTimeout = 2
  RefreshTime = 4
  AccessTime = 1
  LastTime = 5
  MaxTokens = 3
  MaxWaiting = 1
  MaxChanges = 2
INVARIANTS
  TypeOK
  EndedStaysEnded
  AdmittedIsCurrent
  OneLiveToken
  SessionsAreBounded
  GuessesAreSlowed
CHECK_DEADLOCK FALSE

SPECIFICATION Spec
CONSTANTS
  EventLimit = 1
  QueueSize = 2
  MaxRequests = 3
  MainQueueSize = 1
  CliUsed = TRUE
INVARIANTS
  TypeOK
  SidesFollowMode
  ModesAgree
  LinkHonest
  ScanHonest
  ApAwaited
  ServerCalled
CHECK_DEADLOCK FALSE

SPECIFICATION Spec
CONSTANTS
  EventLimit = 1
  QueueSize = 2
  MaxRequests = 2
  MainQueueSize = 1
  CliUsed = FALSE
INVARIANT
  ReadyMeansApUp
CHECK_DEADLOCK FALSE

SPECIFICATION FairSpec
CONSTANTS
  t1 = t1
  dispatch = dispatch
  info1 = info1
  info2 = info2
  info3 = info3
  NoEvent = NoEvent
  MAX_FD_EVENTS = 3
  FdEvents <- MCFdEvents
  Persistent <- MCPersistent
  Timers = {info1, info2, info3}
  MaxTimeout = 1
  Threads = {t1}
  LoopThread = dispatch
  Responses = {"nitz"}
  WakePartial = {}
  WAKE_TIMEOUT = 1
  MayFill = TRUE
  MaxConns = 2
  RequestConns = {1,2}
  MaxCalls = 2
INVARIANTS
  AssertionsHold
  ListensOrServes
PROPERTIES
  ListensAgain
  RequestAnswered
CHECK_DEADLOCK FALSE

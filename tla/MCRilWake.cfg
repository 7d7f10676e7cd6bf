SPECIFICATION FairSpec
CONSTANTS
  t1 = t1
  dispatch = dispatch
  info1 = info1
  info2 = info2
  info3 = info3
  NoEvent = NoEvent
  MAX_FD_EVENTS = 3
  FdEvents <- MCFdEvents
  Persistent <- MCPersistent
  Timers = {info1, info2, info3}
  MaxTimeout = 1
  Threads = {t1}
  LoopThread = dispatch
  Responses = {"other", "timer"}
  WakePartial = {"state", "other"}
  WAKE_TIMEOUT = 1
  MayFill = FALSE
  MaxConns = 1
  RequestConns = {}
  MaxCalls = 2
INVARIANTS
  NoLostWakeup
  WakeLockCovered
PROPERTIES
  TimersFire
  WakeLockReleased
CHECK_DEADLOCK FALSE

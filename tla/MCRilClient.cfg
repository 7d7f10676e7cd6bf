SPECIFICATION FairSpec
CONSTANTS
  t1 = t1
  NoThread = NoThread
  Threads = {t1}
  MAX_POOL_SIZE = 1
  MaxRequests = 3
  MaxConns = 2
INVARIANTS
  AnsweredOnce
  WaitingMatchesList
  TimeoutGuards
  HeldWhileUnderWay
PROPERTIES
  EveryRequestAnswered
  WakeLockFreed
CHECK_DEADLOCK FALSE

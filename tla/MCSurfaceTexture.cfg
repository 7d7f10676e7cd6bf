SPECIFICATION Spec
CONSTANTS
  t1 = t1
  t2 = t2
  NUM_BUFFER_SLOTS = 3
  MIN_UNDEQUEUED_BUFFERS = 2
  Threads <- TwoThreads
  Apis = {egl}
  mAllowSynchronousMode = TRUE
  ServerCounts = {2, 3}
  ClientCounts = {0, 2, 3}
  BindMayFail = TRUE
  MaxHeld = 2
  MaxLeaked = 0
INVARIANTS
  ExclusiveAccess
  QueuedAccounted
  QueuedHasBuffer
  AsyncOneDeep
PROPERTIES
  LeavesMinUndequeued
  ImplementsOwnership
SYMMETRY Symmetry
CHECK_DEADLOCK FALSE

SPECIFICATION LayerFairSpec
CONSTANTS
  t1 = t1
  t2 = t2
  NUM_BUFFER_SLOTS = 3
  MIN_UNDEQUEUED_BUFFERS = 2
  Threads <- OneThread
  Apis = {egl}
  mAllowSynchronousMode = TRUE
  ServerCounts = {}
  ClientCounts = {0, 2, 3}
  BindMayFail = FALSE
  MaxHeld = 1
  MaxLeaked = 0
  MaxCleared = 2
INVARIANTS
  FramesAnnounced
PROPERTIES
  LayerCallsReturn

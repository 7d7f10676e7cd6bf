SPECIFICATION LayerSpec
CONSTANTS
  t1 = t1
  t2 = t2
  NUM_BUFFER_SLOTS = 3
  MIN_UNDEQUEUED_BUFFERS = 2
  Threads <- TwoThreads
  Apis = {}
  mAllowSynchronousMode = TRUE
  ServerCounts = {}
  ClientCounts = {3}
  BindMayFail = TRUE
  MaxHeld = 1
  MaxLeaked = 1
  MaxCleared = 2
INVARIANTS
  ActiveBufferExists
  EventNotLost
SYMMETRY Symmetry

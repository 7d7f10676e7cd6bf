SPECIFICATION FairSpec
CONSTANTS
  NUM_BUFFER_SLOTS = 3
  MIN_UNDEQUEUED_BUFFERS = 2
  Threads = {t1, t2}
  Apis = {egl}
  mAllowSynchronousMode = TRUE
  ServerCounts = {}
  ClientCounts = {}
  BindMayFail = FALSE
  MaxHeld = 1
  MaxLeaked = 0
PROPERTY AbandonReleasesWaiters

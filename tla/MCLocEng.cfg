SPECIFICATION FairSpec
CONSTANTS
  IoctlThreads <- MCIoctlThreads
  NO_RESPONSE_TIME = 1
  MaxEvents = 2
  MaxCalls = 1
INVARIANTS
  ActionNotLost
  AwakeWhilePending
  NotificationTimed
PROPERTIES
  NotificationClears
  Sleeps
CHECK_DEADLOCK FALSE

SPECIFICATION Spec
CONSTANTS
  Clients = {c1}
  CalledBack = {c1}
  NULL = NULL
  Callers = {t1}
  MaxCreates = 1
  MaxCalls = 1
  MaxHandlerCalls = 0
  MaxCallbacks = 2
  MaxCuts = 1
PROPERTIES
  InputBufferNotInUse
CHECK_DEADLOCK FALSE

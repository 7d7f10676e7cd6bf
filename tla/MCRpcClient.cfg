SPECIFICATION Spec
CONSTANTS
  NULL = NULL
  c1 = c1
  c2 = c2
  t1 = t1
  Clients = {c1, c2}
  CalledBack = {c1}
  Callers = {t1}
  MaxCreates = 3
  MaxCalls = 1
  MaxHandlerCalls = 1
  MaxCallbacks = 2
  MaxCuts = 1
INVARIANTS
  BufferAccounted
  WakeReleased
PROPERTIES
  CallbacksInOrder
  OperationsReturn
CHECK_DEADLOCK FALSE

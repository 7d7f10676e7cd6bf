SPECIFICATION Spec
CONSTANTS
  r1 = r1
  r2 = r2
  Readers <- TwoReaders
  HANDSHAKE_RETRY_COUNT = 2
  UnsolicitedFinals = FALSE
  MaxLines = 1
  MaxUnanswered = 1
  MaxInits = 1
INVARIANT ResponseProtected
CHECK_DEADLOCK FALSE

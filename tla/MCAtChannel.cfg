SPECIFICATION FairSpec
CONSTANTS
  r1 = r1
  r2 = r2
  Readers <- TwoReaders
  HANDSHAKE_RETRY_COUNT = 2
  UnsolicitedFinals = TRUE
  MaxLines = 1
  MaxUnanswered = 2
  MaxInits = 1
INVARIANTS
  ExclusiveReader
  NothingLeftPending
  AnswersMatch
  ClosedIsUnavailable
PROPERTIES
  ReleasedByClose
  Reopened
  HandshakeReturns
CHECK_DEADLOCK FALSE

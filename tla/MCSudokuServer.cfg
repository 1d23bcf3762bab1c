\* One client with three lines, a pool of none, one or two workers.  The
\* client stops after MaxLines lines, so the system may come to rest.
CHECK_DEADLOCK FALSE
SPECIFICATION FairSpec
CONSTANTS
  Conn = {c1}
  Workers = {w1, w2}
  Lines <- AllLines
  KCells = 2
  TooLong = 5
  MaxLines = 3
INVARIANTS
  CutsMatterOnlyToLongLines
  AnswersInOrder
  ErrorEndsConversation
PROPERTIES
  ServesRequests
  PoolDrains

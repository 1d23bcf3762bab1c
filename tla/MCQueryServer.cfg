\* Two frames of any kind from one client.  A client sends at most MaxFrames
\* frames, so the system may come to rest.
CHECK_DEADLOCK FALSE
SPECIFICATION FairSpec
CONSTANTS
  Conn = {c1}
  Frames <- AllFrames
  MaxFrames = 2
  Held = {0, 1, 4}
  Growth = 1
  kHeaderLen = 1
  kMaxMessageLen = 10
  KnownTypes <- Types
  NameSize <- Names
INVARIANTS
  CutByContent
  ClientRefusesOnlyTooLong
PROPERTIES
  AnswersQueries
  PoisonedForGood
  QueryAnswered

\* A byte of two values, so that the word of four bytes has 16: the times
\* lie below, at and above the largest signed word, and beyond the word.
SPECIFICATION Spec
CONSTANTS
  Byte = 2
  Times = {0, 5, 7, 8, 15, 17}
  LineLen = 3
  MaxLines = 2
INVARIANTS
  OneWholeReply
  TimeShown
PROPERTIES
  ConversationEnds
CHECK_DEADLOCK FALSE

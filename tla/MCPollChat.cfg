\* Two clients with two units each, in chunks of up to two.  The clients say
\* and do a bounded amount, and an exception ends the server.
CHECK_DEADLOCK FALSE
SPECIFICATION Spec
CONSTANTS
  Client = {c1, c2}
  Listener = listener
  BufLen = 2
  Room = 2
  MaxSent = 2
INVARIANTS
  SameConversation
  DiesOnlyByReset
PROPERTIES
  EverythingNoticed

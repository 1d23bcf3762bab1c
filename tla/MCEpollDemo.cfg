\* Three clients and a buffer of two units.  The server ends at a hang-up and
\* the clients send a bounded amount, so the system stops.
CHECK_DEADLOCK FALSE
SPECIFICATION EpollSpec
CONSTANTS
  Client = {c1, c2, c3}
  Listener = listener
  BufLen = 2
  MaxSent = 3
SYMMETRY Symmetry
INVARIANTS
  NeverBlocks
  AcceptDebt
  LeftBehindShortRead

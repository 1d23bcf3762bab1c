\* Each of the three programs, serving two clients.
SPECIFICATION FairSpec
CONSTANTS
  Conn = {c1, c2}
  Versions = {1, 2, 3}
  FileLen = 5
  BufLen = 2
INVARIANTS
  TypeOK
  OneChunkInFlight
  SharedFileStaysOpen
  NothingLeftBehind
PROPERTIES
  Delivers
  ReleasedInTheEnd

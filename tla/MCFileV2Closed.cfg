\* Version 2: the callback that comes after the end of the connection.
SPECIFICATION Spec
CONSTANTS
  Conn = {c1}
  Versions = {2}
  FileLen = 5
  BufLen = 2
INVARIANTS
  WriteCompleteFindsFileOpen

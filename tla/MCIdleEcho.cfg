\* Safety: two clients, three buckets, two messages each.
SPECIFICATION Spec
CONSTANTS
  Conn = {c1, c2}
  NBuckets = 3
  MaxMsgs = 2
SYMMETRY Symmetry
INVARIANTS
  TypeOK
  WheelTellsAge
  ExpiredStaysOut
  EchoFaithful
  FinAfterEcho
PROPERTIES
  ClosesInItsTick

\* Liveness and time: two clients, two buckets, ticks of two seconds.
SPECIFICATION FairClockSpec
CONSTANTS
  Conn = {c1, c2}
  NBuckets = 2
  MaxMsgs = 1
  TickSeconds = 2
PROPERTIES
  CloseWindow
  CountdownSpec
  EventuallyReleased

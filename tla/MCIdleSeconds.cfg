\* The reading of nIdleSeconds as seconds, with the values of the program.
SPECIFICATION ClockSpec
CONSTANTS
  Conn = {c1}
  NBuckets = 5
  MaxMsgs = 1
  TickSeconds = 2
INVARIANTS
  IdleSecondsRespected

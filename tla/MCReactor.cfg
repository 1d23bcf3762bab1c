\* Four lines, whole or in two parts, on a terminal and on a pipe.  The other
\* side may stop writing, and then the reactor sleeps.
CHECK_DEADLOCK FALSE
SPECIFICATION ReactorSpec
CONSTANTS
  MaxTyped = 4
INVARIANTS
  WaitsBehindItsRead
PROPERTIES
  NextInputWakes

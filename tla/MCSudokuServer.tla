---------------------------- MODULE MCSudokuServer ----------------------------
(* Model-checking instances of the sudoku servers.  The program's 81 cells *)
(* and 100 bytes are scaled to 2 and 5; a bare request is KCells + 2 long. *)
EXTENDS SudokuServer

Line(n, ok) == [len |-> n, good |-> ok]

Bare  == Line(4, TRUE)    \* a puzzle without an id
Long  == Line(7, TRUE)    \* a puzzle with an id that makes it too long
Short == Line(2, FALSE)   \* an empty line, of which two wait together

AllLines == {Bare, Long, Short}
=============================================================================

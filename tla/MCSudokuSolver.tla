---------------------------- MODULE MCSudokuSolver ----------------------------
(* Model-checking instances of the solver: boards of four by four.         *)
EXTENDS SudokuSolver

Grid == <<1, 2, 3, 4,
          3, 4, 1, 2,
          2, 1, 4, 3,
          4, 3, 2, 1>>

Given(blank, g) == [i \in Cells |-> IF i \in blank THEN 0 ELSE g[i + 1]]

\* The solved grid with some of its cells blanked: one solution, several,
\* no cell to fill, no given at all.
Blanked == {Given(s, Grid) : s \in {{}, {5}, {0, 1, 4, 5, 10, 11, 14},
              {0, 2, 3, 6, 8, 10, 11, 14}, Cells \ {3, 6, 9, 12}, Cells}}

\* A given changed: contradictions that are seen at once, or found late.
Wrong == {[Given(s, Grid) EXCEPT ![i] = v] :
            s \in {{}, {0, 1, 4, 5, 10, 11}, {2, 3, 6, 8, 10, 11, 14}},
            i \in {0, 7, 9, 15}, v \in 1..4}

\* A digit that no board has.
NoBoard == {[Given({}, Grid) EXCEPT ![7] = 9]}

MCPuzzles == Blanked \cup Wrong \cup NoBoard
=============================================================================

\* Boards of four by four with any number of empty cells.
SPECIFICATION SolverSpec
CONSTANTS
  Box = 2
  Puzzles <- MCPuzzles
INVARIANTS
  LinksCanBeRestored
  ColumnsConsistent
  AnswerIsRight
PROPERTIES
  SearchAdvances

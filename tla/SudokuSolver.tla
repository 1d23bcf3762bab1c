----------------------------- MODULE SudokuSolver -----------------------------
(***************************************************************************)
(* solveSudoku of 3_sudoku/sudoku.cc: Knuth's dancing links.  The empty    *)
(* cells and the values missing in each row, column and box are columns of *)
(* a sparse matrix; writing a value into a cell is a row that crosses four *)
(* of them.  The recursive solve() looks for rows that cross every column  *)
(* once, and covers and uncovers columns in place while it does.           *)
(*                                                                         *)
(* The nodes_ array is a record of sequences, one per field of Node; a     *)
(* pointer is an index and root_ is 1.  The recursion is an explicit stack *)
(* of frames, and the parts of solve() between two calls are the actions.  *)
(* A definition with a suffix is a seeded fault of the one that follows.   *)
(***************************************************************************)
EXTENDS Integers, FiniteSets, SequencesExt, ListOps

CONSTANTS Box,       \* side of a box; the program has 3
          Puzzles    \* the boards given to solveSudoku, 0 for an empty cell

Side == Box * Box
kCells == Side * Side
Values == 1..Side
Cells == 0..(kCells - 1)
kMaxNodes == 1 + 4 * kCells + 4 * Side * kCells

ASSUME PuzzleAssumption == Box \in 1..3 /\ \A p \in Puzzles : p \in [Cells -> Int]

VARIABLES
  puzzle,   \* the board given
  board,    \* inout_
  dl,       \* nodes_: the linked matrix
  frames,   \* active calls of solve() that chose a column: [col, row]
  pc        \* "call" and "return" of solve(), "next" row; "solved", "failed"

solverVars == <<puzzle, board, dl, frames, pc>>
-----------------------------------------------------------------------------
(* The linked matrix.                                                      *)

\* base op s[1] op s[2] ..., an element at a time
Each(op(_, _), base, s) ==
  LET upTo[k \in 0..Len(s)] == IF k = 0 THEN base ELSE op(upTo[k - 1], s[k])
  IN  upTo[Len(s)]

kRow == 100
kCol == 200
kBox == 300
RowOf(i) == i \div Side
ColOf(i) == i % Side
BoxOf(i) == (RowOf(i) \div Box) * Box + ColOf(i) \div Box
GetRowCol(r, v) == kRow + r * 10 + v
GetColCol(c, v) == kCol + c * 10 + v
GetBoxCol(b, v) == kBox + b * 10 + v

\* The cyclic order of a set of nodes, which are linked in the order of
\* their creation: put_left and put_up insert before the head.
After(S, n) == IF \E k \in S : k > n THEN Min({k \in S : k > n}) ELSE Min(S)
Before(S, n) == IF \E k \in S : k < n THEN Max({k \in S : k < n}) ELSE Max(S)

InRow(b, r, v) == \E i \in Cells : RowOf(i) = r /\ b[i] = v
InCol(b, c, v) == \E i \in Cells : ColOf(i) = c /\ b[i] = v
InBox(b, x, v) == \E i \in Cells : BoxOf(i) = x /\ b[i] = v

\* What may be a column, in the order of the constructor's loops: each cell,
\* then each value in each row, column and box.
AllNames ==
  [k \in 1..(4 * kCells) |->
     IF k <= kCells THEN k - 1
     ELSE LET j == k - kCells - 1
              i == (j \div 3) \div Side
              v == ((j \div 3) % Side) + 1
          IN  CASE j % 3 = 0 -> GetRowCol(i, v) [] j % 3 = 1 -> GetColCol(i, v)
                [] OTHER -> GetBoxCol(i, v)]

Empty(b) == {i \in Cells : b[i] = 0}
Lanes == 0..(Side - 1)

\* The columns: empty cells, then what each row, column and box lacks.
Lacks(b) == {GetRowCol(p[1], p[2]) : p \in {q \in Lanes \X Values : ~InRow(b, q[1], q[2])}}
       \cup {GetColCol(p[1], p[2]) : p \in {q \in Lanes \X Values : ~InCol(b, q[1], q[2])}}
       \cup {GetBoxCol(p[1], p[2]) : p \in {q \in Lanes \X Values : ~InBox(b, q[1], q[2])}}
ColumnNames(b) == Kept(AllNames, Empty(b) \cup Lacks(b))

Open_MissesLast(b, i, v) ==
  v < Side /\ ~InRow(b, RowOf(i), v) /\ ~InCol(b, ColOf(i), v)
           /\ ~InBox(b, BoxOf(i), v)

\* The values that the givens leave to cell i.
Open(b, i, v) ==
  ~InRow(b, RowOf(i), v) /\ ~InCol(b, ColOf(i), v) /\ ~InBox(b, BoxOf(i), v)

\* The options in the order of the constructor's loops: an empty cell, and a
\* value for it.
Options(b) ==
  Kept([k \in 1..(kCells * Side) |-> <<(k - 1) \div Side, ((k - 1) % Side) + 1>>],
       {o \in Empty(b) \X Values : Open(b, o[1], o[2])})

\* The columns that an option crosses, by name.
Crosses(o) == <<o[1], GetRowCol(RowOf(o[1]), o[2]), GetColCol(ColOf(o[1]), o[2]),
                GetBoxCol(BoxOf(o[1]), o[2])>>

\* The constructor: the root, a header for each column, and four nodes for
\* each option.
Matrix(b) ==
  LET columns == ColumnNames(b)
      options == Options(b)
      h == 1 + Len(columns)
      nodes == 1..(h + 4 * Len(options))
      row == [n \in nodes |-> IF n <= h THEN 0 ELSE 1 + (n - h - 1) \div 4]
      name == [n \in nodes |->
                 IF n = 1 THEN 0 ELSE IF n <= h THEN columns[n - 1]
                 ELSE Crosses(options[row[n]])[1 + ((n - h - 1) % 4)]]
      col == [n \in nodes |->
                IF n <= h THEN n ELSE CHOOSE c \in 2..h : columns[c - 1] = name[n]]
      across(n) == {k \in nodes : row[k] = row[n]}
      along(n) == {k \in nodes : col[k] = col[n]}
  IN  [name  |-> name, col |-> col,
       right |-> [n \in nodes |-> After(across(n), n)],
       left  |-> [n \in nodes |-> Before(across(n), n)],
       down  |-> [n \in nodes |-> After(along(n), n)],
       up    |-> [n \in nodes |-> Before(along(n), n)],
       size  |-> [n \in nodes |-> IF n <= h THEN Cardinality(along(n)) - 1 ELSE 0]]

\* The nodes after n, following the links next round to n again.
Others(next, n) ==
  LET walk[k \in 0..Len(next)] == IF k = 0 THEN n ELSE next[walk[k - 1]]
      last == CHOOSE k \in 0..Len(next) :
                /\ next[walk[k]] = n
                /\ \A i \in 0..(k - 1) : next[walk[i]] # n
  IN  [k \in 1..last |-> walk[k]]

Detach(m, j) ==
  [m EXCEPT !.up[m.down[j]] = m.up[j], !.down[m.up[j]] = m.down[j],
            !.size[m.col[j]] = @ - 1]

Attach_KeepsSize(m, j) == [m EXCEPT !.up[m.down[j]] = j, !.down[m.up[j]] = j]

Attach(m, j) ==
  [m EXCEPT !.up[m.down[j]] = j, !.down[m.up[j]] = j, !.size[m.col[j]] = @ + 1]

\* The other nodes of r's row leave their columns, and come back in the
\* opposite order.
HideRow(m, r) == Each(Detach, m, Others(m.right, r))
ShowRow(m, r) == Each(Attach, m, Others(m.left, r))

\* Column c leaves the header list, and every row that crosses it leaves the
\* other columns.
Cover(m, c) ==
  LET away == [m EXCEPT !.left[m.right[c]] = m.left[c],
                        !.right[m.left[c]] = m.right[c]]
  IN  Each(HideRow, away, Others(m.down, c))

\* Everything cover did, backwards.
Uncover(m, c) ==
  LET back == Each(ShowRow, m, Others(m.up, c))
  IN  [back EXCEPT !.left[m.right[c]] = c, !.right[m.left[c]] = c]

\* The first of the active columns with the fewest rows; a column with at
\* most one row ends the search for a smaller one.
GetMinColumn(m) ==
  LET cols == Others(m.right, 1)
      best[k \in 1..Len(cols)] ==
        IF k = 1 THEN cols[1]
        ELSE LET c == best[k - 1] IN
             IF m.size[c] > 1 /\ m.size[c] > m.size[cols[k]] THEN cols[k] ELSE c
  IN  best[Len(cols)]
-----------------------------------------------------------------------------
(* The search.                                                             *)

Valid(b) == \A i \in Cells : b[i] \in 0..Side

SolverInit ==
  /\ puzzle \in Puzzles
  /\ board = puzzle
  /\ dl = IF Valid(puzzle) THEN Matrix(puzzle) ELSE <<>>
  /\ frames = <<>>
  /\ pc = IF Valid(puzzle) THEN "call" ELSE "failed"

Top == Last(frames)

\* stack_ when solve() is called: the row chosen in every frame.
Chosen == {frames[k].row : k \in DOMAIN frames}

\* The cell and the value that a row stands for.
CellOf(r) == CHOOSE i \in Cells : \E n \in {r} \cup ToSet(Others(dl.right, r)) :
                                    dl.name[n] = i
ValOf(r) == CHOOSE v \in Values : \E n \in {r} \cup ToSet(Others(dl.right, r)) :
                                    dl.name[n] >= kRow /\ dl.name[n] % 10 = v

\* No column is left: write the chosen values to the board.
Solved ==
  /\ pc = "call" /\ dl.left[1] = 1
  /\ board' = [i \in Cells |->
                 IF \E r \in Chosen : CellOf(r) = i
                 THEN ValOf(CHOOSE r \in Chosen : CellOf(r) = i)
                 ELSE board[i]]
  /\ pc' = "solved"
  /\ UNCHANGED <<puzzle, dl, frames>>

\* Take the smallest column out.
Choose ==
  /\ pc = "call" /\ dl.left[1] # 1
  /\ LET c == GetMinColumn(dl) IN
     /\ dl' = Cover(dl, c)
     /\ frames' = Append(frames, [col |-> c, row |-> c])
  /\ pc' = "next"
  /\ UNCHANGED <<puzzle, board>>

ColumnsOf(ring) == [k \in DOMAIN ring |-> dl.col[ring[k]]]

NextRow_FromTheTop == dl.down[Top.col]

NextRow == dl.down[Top.row]

\* Try the next row of the column: cover the other columns it crosses.
TryRow ==
  /\ pc = "next" /\ NextRow # Top.col
  /\ dl' = Each(Cover, dl, ColumnsOf(Others(dl.right, NextRow)))
  /\ frames' = [frames EXCEPT ![Len(frames)].row = NextRow]
  /\ pc' = "call"
  /\ UNCHANGED <<puzzle, board>>

RowsUncovered_SameOrder == Each(Uncover, dl, ColumnsOf(Others(dl.right, Top.row)))

\* The other columns of a row are uncovered in the opposite order.
RowsUncovered == Each(Uncover, dl, ColumnsOf(Others(dl.left, Top.row)))

\* The call below returned false: take the row back.
TakeBack ==
  /\ pc = "return"
  /\ dl' = RowsUncovered
  /\ pc' = "next"
  /\ UNCHANGED <<puzzle, board, frames>>

\* All rows of the column failed: put it back and return false.
GiveUp ==
  /\ pc = "next" /\ NextRow = Top.col
  /\ dl' = Uncover(dl, Top.col)
  /\ frames' = Front(frames)
  /\ pc' = IF Len(frames) = 1 THEN "failed" ELSE "return"
  /\ UNCHANGED <<puzzle, board>>

\* solve() has returned.
Done == pc \in {"solved", "failed"} /\ UNCHANGED solverVars

SolverNext == Solved \/ Choose \/ TryRow \/ TakeBack \/ GiveUp \/ Done

SolverSpec == SolverInit /\ [][SolverNext]_solverVars
-----------------------------------------------------------------------------
(* Properties.                                                             *)

\* The columns that the k-th active call has covered, and those of all calls,
\* in the order in which they were covered.
CoveredIn(k) ==
  <<frames[k].col>> \o
    (IF k = Len(frames) /\ pc = "next" THEN <<>>
     ELSE ColumnsOf(Others(dl.right, frames[k].row)))
Covered ==
  LET upTo[k \in 0..Len(frames)] ==
        IF k = 0 THEN <<>> ELSE upTo[k - 1] \o CoveredIn(k)
  IN  upTo[Len(frames)]

\* Covering can be undone at any point: uncovering what is covered, latest
\* first, gives the matrix of the constructor with every link and size.  So
\* a failed search leaves no trace.
LinksCanBeRestored ==
  Valid(puzzle) => Each(Uncover, dl, Reverse(Covered)) = Matrix(puzzle)

\* The sizes that guide the choice of columns are right, and links agree in
\* both directions, in every column still in the matrix.
ColumnsConsistent ==
  Valid(puzzle) => \A c \in ToSet(Others(dl.right, 1)) :
    LET rows == Others(dl.down, c) IN
    /\ dl.size[c] = Len(rows)
    /\ Reverse(rows) = Others(dl.up, c)
    /\ dl.left[dl.right[c]] = c

NoRepeat(b) ==
  \A i, j \in Cells :
    /\ i < j /\ b[i] # 0
    /\ RowOf(i) = RowOf(j) \/ ColOf(i) = ColOf(j) \/ BoxOf(i) = BoxOf(j)
    => b[i] # b[j]

Completes(b, p) ==
  NoRepeat(b) /\ \A i \in Cells : b[i] \in Values /\ (p[i] # 0 => b[i] = p[i])

\* The reference: fill the empty cells one after the other with every value,
\* and drop what repeats one.
Solutions(p) ==
  LET filled[k \in 0..kCells] ==
        IF k = 0 THEN {p}
        ELSE {b \in {[q EXCEPT ![k - 1] = v] : q \in filled[k - 1], v \in Values} :
                NoRepeat(b) /\ (p[k - 1] # 0 => b[k - 1] = p[k - 1])}
  IN  filled[kCells]

\* A solution is one: it keeps the givens and repeats no value in any row,
\* column or box.  NoSolution means that there is none: no way to fill the
\* empty cells is a solution, also when the givens alone repeat a value.
AnswerIsRight ==
  /\ pc = "solved" => Completes(board, puzzle)
  /\ pc = "failed" /\ Valid(puzzle) => Solutions(puzzle) = {}

\* Where the search is in its tree: the rows of the active calls, with an
\* end mark for a call that has returned and two while a call is between rows.
End == kMaxNodes + 1
Position ==
  [k \in DOMAIN frames |-> frames[k].row]
    \o CASE pc = "call" -> <<>> [] pc = "next" -> <<End, End>> [] OTHER -> <<End>>

Later(p, q) ==
  \/ IsStrictPrefix(p, q)
  \/ \E k \in DOMAIN p \cap DOMAIN q :
       p[k] < q[k] /\ SubSeq(p, 1, k - 1) = SubSeq(q, 1, k - 1)

\* Each step goes forward in the tree of choices, which is finite, although
\* the links that the choices are read from are rewritten all the time: no
\* row is tried twice and the search ends.
SearchAdvances == [][Later(Position, Position')]_solverVars
=============================================================================

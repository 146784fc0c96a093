--------------------------- MODULE TerminalProofs ---------------------------
(***************************************************************************)
(* Proofs about the terminal's window, for grids and windows of any size,  *)
(* any number of bytes from the shell and every order of the toolkit's     *)
(* handlers: every row looks as it should or is going to be painted, and   *)
(* nothing of an earlier, larger grid comes back.                          *)
(***************************************************************************)
EXTENDS Terminal, SequenceTheorems, TLAPS

\* The values of t; a parameter may be negative, having wrapped around.
Terminals ==
    [grid : [AllRows -> [AllCols -> {Blank, Text, Old}]],
     rows : 0 .. kMaxRows, cols : 0 .. kMaxCols, cursorRow : Nat, cursorCol : Nat,
     state : {"Ground", "Escape", "CSI"}, params : Seq(Int),
     dirty : (0 .. kMaxRows) \X (0 .. kMaxRows)]

\* The grid has a cell, and the cursor is in one of its rows, or behind its end.
InGrid(s) ==
    /\ s.rows >= 1 /\ s.cols >= 1
    /\ s.cursorRow < s.rows

Good(s) == s \in Terminals /\ InGrid(s) /\ Len(s.params) <= MaxParams

InView(s) == (0 .. s.rows - 1) \X (0 .. s.cols - 1)
Clean(s)  == \A r \in 0 .. s.rows - 1, c \in 0 .. s.cols - 1 : s.grid[r][c] # Old

\* From s to x the grid keeps its size, every row that changed is to be painted,
\* and no cell that was never blanked comes into view.
Draws(s, x) ==
    /\ x.rows = s.rows /\ x.cols = s.cols
    /\ Rows(s.dirty) \subseteq Rows(x.dirty)
    /\ \A r \in 0 .. s.rows - 1, c \in 0 .. s.cols - 1 :
          r \notin Rows(x.dirty) => x.grid[r][c] = s.grid[r][c]
    /\ Clean(s) => Clean(x)

\* What each operation of the grid and the parser does with a terminal.
Turns(s, x) == Good(x) /\ Draws(s, x) /\ x.params = s.params

\* The numbers of a terminal whose cursor is in the grid.
LEMMA GoodNumbers ==
    ASSUME NEW s, Good(s)
    PROVE  /\ kMaxRows \in Nat /\ kMaxCols \in Nat
           /\ s.rows \in Nat /\ 1 <= s.rows /\ s.rows <= kMaxRows
           /\ s.cols \in Nat /\ 1 <= s.cols /\ s.cols <= kMaxCols
           /\ s.cursorRow \in Nat /\ s.cursorRow < s.rows
           /\ s.cursorCol \in Nat
<1>1. /\ s.rows \in 0 .. kMaxRows /\ s.cols \in 0 .. kMaxCols
      /\ s.cursorRow \in Nat /\ s.cursorCol \in Nat
  BY DEF Good, Terminals
<1>2. s.rows >= 1 /\ s.cols >= 1 /\ s.cursorRow < s.rows
  BY DEF Good, InGrid
<1>3. kMaxRows \in Nat /\ kMaxCols \in Nat
  BY TerminalAssumption
<1> QED BY <1>1, <1>2, <1>3

-----------------------------------------------------------------------------
(* The grid.                                                               *)

\* Then(s, Step) is Step(s).
LEMMA ChosenOfOne ==
    ASSUME NEW S, NEW e, S = {e}
    PROVE  (CHOOSE r \in S : TRUE) = e
OBVIOUS

\* Least and Greatest are one of the two numbers.
LEMMA LeastGreatest ==
    ASSUME NEW a \in Int, NEW b \in Int
    PROVE  /\ Least(a, b) \in {a, b} /\ Least(a, b) <= a /\ Least(a, b) <= b
           /\ Greatest(a, b) \in {a, b} /\ Greatest(a, b) >= a /\ Greatest(a, b) >= b
BY DEF Least, Greatest

\* A range of rows only gets wider.
LEMMA WidenedCovers ==
    ASSUME NEW dirty \in (0 .. kMaxRows) \X (0 .. kMaxRows),
           NEW top \in 0 .. kMaxRows, NEW bottom \in 0 .. kMaxRows
    PROVE  /\ Widened(dirty, top, bottom) \in (0 .. kMaxRows) \X (0 .. kMaxRows)
           /\ Rows(dirty) \subseteq Rows(Widened(dirty, top, bottom))
           /\ \A r \in AllRows : top <= r /\ r < bottom => r \in Rows(Widened(dirty, top, bottom))
<1>0. kMaxRows \in Nat
  BY TerminalAssumption
<1>1. PICK a \in 0 .. kMaxRows, b \in 0 .. kMaxRows : dirty = <<a, b>>
  OBVIOUS
<1>2. dirty[1] = a /\ dirty[2] = b
  BY <1>1
<1>3. CASE top >= bottom
  BY <1>0, <1>3 DEF Widened, Rows, AllRows
<1>4. CASE top < bottom /\ a >= b
  <2>1. Widened(dirty, top, bottom) = <<top, bottom>>
    BY <1>0, <1>2, <1>4 DEF Widened
  <2> QED BY <1>0, <1>2, <1>4, <2>1 DEF Rows, AllRows
<1>5. CASE top < bottom /\ a < b
  <2>1. Widened(dirty, top, bottom) = <<Least(top, a), Greatest(bottom, b)>>
    BY <1>0, <1>2, <1>5 DEF Widened
  <2> QED BY <1>0, <1>2, <2>1 DEF Least, Greatest, Rows, AllRows
<1> QED BY <1>0, <1>3, <1>4, <1>5

\* One operation after the other.
LEMMA TurnsOn ==
    ASSUME NEW s, NEW x, NEW y, Good(s), Turns(s, x), Turns(x, y)
    PROVE  Turns(s, y)
<1>1. ASSUME NEW r \in 0 .. s.rows - 1, NEW c \in 0 .. s.cols - 1, r \notin Rows(y.dirty)
      PROVE  y.grid[r][c] = s.grid[r][c]
  BY <1>1 DEF Turns, Draws
<1> QED BY <1>1 DEF Turns, Draws

\* An operation that leaves the grid alone.
LEMMA CursorMoves ==
    ASSUME NEW s, Good(s), NEW x, Good(x),
           x.grid = s.grid, x.rows = s.rows, x.cols = s.cols, x.dirty = s.dirty, x.params = s.params
    PROVE  Turns(s, x)
BY DEF Turns, Draws, Clean

LEMMA TouchTurns ==
    ASSUME NEW s, Good(s), NEW top \in 0 .. kMaxRows, NEW bottom \in 0 .. kMaxRows
    PROVE  /\ Turns(s, touch_rows(s, top, bottom))
           /\ \A r \in AllRows : top <= r /\ r < bottom => r \in Rows(touch_rows(s, top, bottom).dirty)
           /\ \A f \in {"grid", "rows", "cols", "cursorRow", "cursorCol", "state", "params"} :
                 touch_rows(s, top, bottom)[f] = s[f]
<1>1. PICK d : d = Widened(s.dirty, top, bottom)
  OBVIOUS
<1>2. /\ d \in (0 .. kMaxRows) \X (0 .. kMaxRows) /\ Rows(s.dirty) \subseteq Rows(d)
      /\ \A r \in AllRows : top <= r /\ r < bottom => r \in Rows(d)
  BY <1>1, WidenedCovers DEF Good, Terminals
<1>3. PICK x : x = [s EXCEPT !.dirty = d]
  OBVIOUS
<1>4. /\ x \in Terminals /\ x.grid = s.grid /\ x.rows = s.rows /\ x.cols = s.cols /\ x.dirty = d
      /\ x.cursorRow = s.cursorRow /\ x.cursorCol = s.cursorCol /\ x.state = s.state /\ x.params = s.params
  BY <1>2, <1>3 DEF Good, Terminals
<1>5. Turns(s, x)
  BY <1>2, <1>4 DEF Good, InGrid, Turns, Draws, Clean
<1>6. touch_rows(s, top, bottom) = x
  BY <1>1, <1>3 DEF touch_rows
<1> QED BY <1>2, <1>4, <1>5, <1>6

\* Blanks in rows that are then painted.
LEMMA ClearedTurns ==
    ASSUME NEW s, Good(s), NEW top \in 0 .. kMaxRows, NEW bottom \in 0 .. kMaxRows,
           NEW from \in Int, NEW to \in Int
    PROVE  /\ Turns(s, Cleared(s, top, bottom, from, to))
           /\ \A f \in {"rows", "cols", "cursorRow", "cursorCol", "state", "params"} :
                 Cleared(s, top, bottom, from, to)[f] = s[f]
           /\ Cleared(s, top, bottom, from, to).dirty = Widened(s.dirty, top, bottom)
           /\ \A r \in AllRows, c \in AllCols : Cleared(s, top, bottom, from, to).grid[r][c] =
                 IF r >= top /\ r < bottom /\ c >= from /\ c < to THEN Blank ELSE s.grid[r][c]
<1>0. kMaxRows \in Nat /\ kMaxCols \in Nat
  BY TerminalAssumption
<1>1. PICK d : d = Widened(s.dirty, top, bottom)
  OBVIOUS
<1>2. /\ d \in (0 .. kMaxRows) \X (0 .. kMaxRows) /\ Rows(s.dirty) \subseteq Rows(d)
      /\ \A r \in AllRows : top <= r /\ r < bottom => r \in Rows(d)
  BY <1>1, WidenedCovers DEF Good, Terminals
<1>3. PICK g : g = [r \in AllRows |-> [c \in AllCols |->
                  IF r >= top /\ r < bottom /\ c >= from /\ c < to THEN Blank ELSE s.grid[r][c]]]
  OBVIOUS
<1>4. g \in [AllRows -> [AllCols -> {Blank, Text, Old}]]
  BY <1>3 DEF Good, Terminals
<1>5. PICK x : x = [s EXCEPT !.grid = g, !.dirty = d]
  OBVIOUS
<1>6. /\ x \in Terminals /\ x.grid = g /\ x.rows = s.rows /\ x.cols = s.cols /\ x.dirty = d
      /\ x.cursorRow = s.cursorRow /\ x.cursorCol = s.cursorCol /\ x.state = s.state /\ x.params = s.params
  BY <1>2, <1>4, <1>5 DEF Good, Terminals
<1>7. \A r \in 0 .. s.rows - 1, c \in 0 .. s.cols - 1 : r \in AllRows /\ c \in AllCols
  BY GoodNumbers DEF AllRows, AllCols
<1>8. ASSUME NEW r \in 0 .. s.rows - 1, NEW c \in 0 .. s.cols - 1
      PROVE  g[r][c] = IF r >= top /\ r < bottom /\ c >= from /\ c < to THEN Blank ELSE s.grid[r][c]
  BY <1>3, <1>7
<1>9. Clean(s) => Clean(x)
  BY <1>6, <1>8 DEF Clean, Blank, Old
<1>10. Turns(s, x)
  BY <1>2, <1>6, <1>7, <1>8, <1>9 DEF Good, InGrid, Turns, Draws
<1>11. Cleared(s, top, bottom, from, to) = x
  BY <1>1, <1>3, <1>5 DEF Cleared
<1> QED BY <1>1, <1>3, <1>6, <1>10, <1>11

LEMMA ClearRowTurns ==
    ASSUME NEW s, Good(s), NEW row \in 0 .. s.rows - 1, NEW col \in Int
    PROVE  /\ Turns(s, clear_row(s, row, col))
           /\ \A f \in {"rows", "cols", "cursorRow", "cursorCol", "state", "params"} :
                 clear_row(s, row, col)[f] = s[f]
<1>1. row \in 0 .. kMaxRows /\ row + 1 \in 0 .. kMaxRows /\ s.cols \in Int
  BY GoodNumbers
<1> QED BY <1>1, ClearedTurns DEF clear_row

\* A blank screen has the cursor in its first cell.
LEMMA ClearAllTurns ==
    ASSUME NEW s, Good(s)
    PROVE  Turns(s, clear_all(s))
<1>1. 0 \in 0 .. kMaxRows /\ s.rows \in 0 .. kMaxRows /\ s.cols \in Int /\ 0 \in Int
  BY TerminalAssumption DEF Good, Terminals
<1>2. PICK x : x = Cleared(s, 0, s.rows, 0, s.cols)
  OBVIOUS
<1>3. Turns(s, x)
  BY <1>1, <1>2, ClearedTurns
<1>4. PICK y : y = [x EXCEPT !.cursorRow = 0, !.cursorCol = 0]
  OBVIOUS
<1>5. Good(x)
  BY <1>3 DEF Turns
<1>6. /\ y \in Terminals /\ y.grid = x.grid /\ y.rows = x.rows /\ y.cols = x.cols /\ y.dirty = x.dirty
      /\ y.cursorRow = 0 /\ y.cursorCol = 0 /\ y.params = x.params
  BY <1>4, <1>5 DEF Good, Terminals
<1>7. Good(y)
  <2>1. x.rows \in Nat /\ x.rows >= 1 /\ x.cols \in Nat /\ x.cols >= 1
    BY <1>5, GoodNumbers
  <2> QED BY <1>5, <1>6, <2>1 DEF Good, InGrid
<1>8. Turns(x, y)
  BY <1>5, <1>6, <1>7, CursorMoves
<1>9. clear_all(s) = y
  BY <1>2, <1>4 DEF clear_all
<1> QED BY <1>3, <1>8, <1>9, TurnsOn

\* All rows move up, and all are to be painted.
LEMMA ScrollTurns ==
    ASSUME NEW s, Good(s)
    PROVE  /\ Turns(s, scroll_up(s))
           /\ \A f \in {"rows", "cols", "cursorRow", "cursorCol", "state", "params"} :
                 scroll_up(s)[f] = s[f]
<1>0. /\ kMaxRows \in Nat /\ kMaxCols \in Nat
      /\ s.rows \in 1 .. kMaxRows /\ s.cols \in 1 .. kMaxCols
  BY TerminalAssumption DEF Good, Terminals, InGrid
<1>1. PICK g : g = [r \in AllRows |-> [c \in AllCols |->
                      IF r + 1 < s.rows /\ c < s.cols THEN s.grid[r + 1][c] ELSE s.grid[r][c]]]
  OBVIOUS
<1>2. g \in [AllRows -> [AllCols -> {Blank, Text, Old}]]
  <2>1. \A r \in AllRows, c \in AllCols : s.grid[r][c] \in {Blank, Text, Old}
    BY DEF Good, Terminals
  <2>2. \A r \in AllRows : r + 1 < s.rows => r + 1 \in AllRows
    BY <1>0 DEF AllRows
  <2>3. \A r \in AllRows, c \in AllCols :
           (IF r + 1 < s.rows /\ c < s.cols THEN s.grid[r + 1][c] ELSE s.grid[r][c]) \in {Blank, Text, Old}
    BY <2>1, <2>2
  <2> QED BY <1>1, <2>3
<1>3. PICK x : x = [s EXCEPT !.grid = g]
  OBVIOUS
<1>4. /\ x \in Terminals /\ x.grid = g /\ x.rows = s.rows /\ x.cols = s.cols /\ x.dirty = s.dirty
      /\ x.cursorRow = s.cursorRow /\ x.cursorCol = s.cursorCol /\ x.state = s.state /\ x.params = s.params
  BY <1>2, <1>3 DEF Good, Terminals
<1>5. Shifted(s) = x
  BY <1>1, <1>3 DEF Shifted
<1>6. Good(x)
  BY <1>4 DEF Good, InGrid
<1>7. PICK y : y = clear_row(x, x.rows - 1, 0)
  OBVIOUS
<1>8. /\ Turns(x, y)
      /\ \A f \in {"rows", "cols", "cursorRow", "cursorCol", "state", "params"} : y[f] = s[f]
  <2>1. x.rows - 1 \in 0 .. x.rows - 1 /\ 0 \in Int
    BY <1>0, <1>4
  <2>2. /\ Turns(x, y)
        /\ \A f \in {"rows", "cols", "cursorRow", "cursorCol", "state", "params"} : y[f] = x[f]
    BY <1>6, <1>7, <2>1, ClearRowTurns
  <2> QED BY <1>4, <2>2
<1>9. Good(y) /\ y.rows \in 0 .. kMaxRows /\ 0 \in 0 .. kMaxRows
  BY <1>0, <1>8 DEF Turns
<1>10. PICK z : z = touch_rows(y, 0, y.rows)
  OBVIOUS
<1>11. /\ Turns(y, z) /\ \A r \in AllRows : 0 <= r /\ r < y.rows => r \in Rows(z.dirty)
       /\ \A f \in {"rows", "cols", "cursorRow", "cursorCol", "state", "params"} : z[f] = s[f]
  BY <1>8, <1>9, <1>10, TouchTurns
<1>12. \A r \in 0 .. s.rows - 1, c \in 0 .. s.cols - 1 : r \in AllRows /\ c \in AllCols
  BY <1>0 DEF AllRows, AllCols
<1>13. Clean(s) => Clean(x)
  <2> SUFFICES ASSUME Clean(s), NEW r \in 0 .. s.rows - 1, NEW c \in 0 .. s.cols - 1 PROVE g[r][c] # Old
    BY <1>4 DEF Clean
  <2>1. CASE r + 1 < s.rows
    <3>1. r + 1 \in 0 .. s.rows - 1
      BY <1>0, <2>1
    <3>2. g[r][c] = s.grid[r + 1][c]
      BY <1>0, <1>1, <1>12, <2>1
    <3> QED BY <3>1, <3>2 DEF Clean
  <2>2. CASE ~(r + 1 < s.rows)
    <3>1. g[r][c] = s.grid[r][c]
      BY <1>0, <1>1, <1>12, <2>2
    <3> QED BY <3>1 DEF Clean
  <2> QED BY <2>1, <2>2
<1>14. Clean(s) => Clean(z)
  BY <1>8, <1>11, <1>13 DEF Turns, Draws
<1>15. Rows(s.dirty) \subseteq Rows(z.dirty)
  BY <1>4, <1>8, <1>11 DEF Turns, Draws
<1>16. \A r \in 0 .. s.rows - 1 : r \in Rows(z.dirty)
  BY <1>0, <1>8, <1>11 DEF AllRows
<1>17. Turns(s, z)
  BY <1>11, <1>14, <1>15, <1>16 DEF Turns, Draws
<1>18. scroll_up(s) = z
  <2>1. {touch_rows(clear_row(a, a.rows - 1, 0), 0, a.rows) : a \in {x}} =
            {touch_rows(clear_row(x, x.rows - 1, 0), 0, x.rows)}
    OBVIOUS
  <2>2. touch_rows(clear_row(x, x.rows - 1, 0), 0, x.rows) = z
    BY <1>4, <1>7, <1>8, <1>10
  <2>3. scroll_up(s) = CHOOSE r \in {touch_rows(clear_row(a, a.rows - 1, 0), 0, a.rows) : a \in {x}} : TRUE
    BY <1>5 DEF scroll_up, Then
  <2> QED BY <2>1, <2>2, <2>3, ChosenOfOne
<1> QED BY <1>11, <1>17, <1>18

LEMMA NewlineTurns ==
    ASSUME NEW s, Good(s)
    PROVE  /\ Turns(s, newline(s))
           /\ newline(s).cursorCol = s.cursorCol /\ newline(s).cols = s.cols
<1>1. CASE s.cursorRow + 1 >= s.rows
  BY <1>1, ScrollTurns DEF newline
<1>2. CASE ~(s.cursorRow + 1 >= s.rows)
  <2>1. PICK n : n = s.cursorRow + 1
    OBVIOUS
  <2>2. n \in Nat /\ n < s.rows
    BY <1>2, <2>1 DEF Good, Terminals
  <2>3. PICK x : x = [s EXCEPT !.cursorRow = n]
    OBVIOUS
  <2>4. /\ x \in Terminals /\ x.grid = s.grid /\ x.rows = s.rows /\ x.cols = s.cols /\ x.dirty = s.dirty
        /\ x.cursorRow = n /\ x.cursorCol = s.cursorCol /\ x.params = s.params
    BY <2>2, <2>3 DEF Good, Terminals
  <2>5. Good(x)
    BY <2>2, <2>4 DEF Good, InGrid
  <2>6. newline(s) = x
    BY <1>2, <2>1, <2>3 DEF newline
  <2> QED BY <2>4, <2>5, <2>6, CursorMoves
<1> QED BY <1>1, <1>2

\* There is room for a character in the row.
LEMMA WrappedTurns ==
    ASSUME NEW s, Good(s)
    PROVE  Turns(s, Wrapped(s)) /\ Wrapped(s).cursorCol < Wrapped(s).cols
<1>1. CASE s.cursorCol < s.cols
  <2>1. Wrapped(s) = s
    BY <1>1 DEF Wrapped
  <2> QED BY <1>1, <2>1, CursorMoves
<1>2. CASE ~(s.cursorCol < s.cols)
  <2>1. PICK x : x = [s EXCEPT !.cursorCol = 0]
    OBVIOUS
  <2>2. /\ x \in Terminals /\ x.grid = s.grid /\ x.rows = s.rows /\ x.cols = s.cols /\ x.dirty = s.dirty
        /\ x.cursorRow = s.cursorRow /\ x.cursorCol = 0 /\ x.params = s.params
    BY <2>1 DEF Good, Terminals
  <2>3. Good(x)
    BY <2>2 DEF Good, InGrid, Terminals
  <2>4. Turns(s, x)
    BY <2>2, <2>3, CursorMoves
  <2>5. Wrapped(s) = newline(x)
    BY <1>2, <2>1 DEF Wrapped, Then
  <2>6. Turns(x, newline(x)) /\ newline(x).cursorCol = 0 /\ newline(x).cols = x.cols
    BY <2>2, <2>3, NewlineTurns
  <2>7. 0 < x.cols
    BY <2>3, GoodNumbers
  <2> QED BY <2>4, <2>5, <2>6, <2>7, TurnsOn
<1> QED BY <1>1, <1>2

\* A character goes into the cursor's row.
LEMMA PutTurns ==
    ASSUME NEW s, Good(s)
    PROVE  Turns(s, put_char(s, Text))
<1>1. PICK x : x = Wrapped(s)
  OBVIOUS
<1>2. Turns(s, x) /\ Good(x) /\ x.cursorCol < x.cols
  BY <1>1, WrappedTurns DEF Turns
<1>3. PICK row, col : row = x.cursorRow /\ col = x.cursorCol
  OBVIOUS
<1>4. /\ row \in AllRows /\ col \in AllCols /\ col \in Nat /\ col + 1 \in Nat /\ col + 1 <= x.cols
      /\ row \in 0 .. x.rows - 1 /\ row + 1 \in 0 .. kMaxRows /\ row \in 0 .. kMaxRows
  <2>1. /\ row \in Nat /\ col \in Nat /\ x.rows \in 0 .. kMaxRows /\ x.cols \in 0 .. kMaxCols
        /\ row < x.rows /\ col < x.cols
    BY <1>2, <1>3 DEF Good, InGrid, Terminals
  <2> QED BY <2>1, TerminalAssumption DEF AllRows, AllCols
<1>5. PICK g : g = [x.grid EXCEPT ![row][col] = Text]
  OBVIOUS
<1>6. /\ g \in [AllRows -> [AllCols -> {Blank, Text, Old}]]
      /\ \A r \in AllRows, c \in AllCols : g[r][c] = IF r = row /\ c = col THEN Text ELSE x.grid[r][c]
  BY <1>2, <1>4, <1>5 DEF Good, Terminals
<1>7. PICK n : n = col + 1
  OBVIOUS
<1>8. PICK y : y = [x EXCEPT !.grid = g, !.cursorCol = n]
  OBVIOUS
<1>9. /\ y \in Terminals /\ y.grid = g /\ y.rows = x.rows /\ y.cols = x.cols /\ y.dirty = x.dirty
      /\ y.cursorRow = row /\ y.cursorCol = n /\ y.params = x.params
  BY <1>2, <1>3, <1>4, <1>6, <1>7, <1>8 DEF Good, Terminals
<1>10. Good(y)
  BY <1>2, <1>4, <1>7, <1>9, <1>3 DEF Good, InGrid
<1>11. PICK z : z = touch_rows(y, row, row + 1)
  OBVIOUS
<1>12. Turns(y, z) /\ row \in Rows(z.dirty) /\ z.grid = y.grid
  BY <1>4, <1>10, <1>11, TouchTurns
<1>13. \A r \in 0 .. x.rows - 1, c \in 0 .. x.cols - 1 : r \in AllRows /\ c \in AllCols
  <2>1. x.rows \in 0 .. kMaxRows /\ x.cols \in 0 .. kMaxCols
    BY <1>2 DEF Good, Terminals
  <2> QED BY <2>1, TerminalAssumption DEF AllRows, AllCols
<1>14. Clean(x) => Clean(z)
  BY <1>6, <1>9, <1>12, <1>13 DEF Clean, Turns, Draws, Text, Old
<1>15. Turns(x, z)
  BY <1>6, <1>9, <1>12, <1>13, <1>14 DEF Turns, Draws
<1>16. put_char(s, Text) = z
  <2>1. y = [x EXCEPT !.grid[x.cursorRow][x.cursorCol] = Text, !.cursorCol = x.cursorCol + 1]
    BY <1>3, <1>5, <1>7, <1>8
  <2>2. touch_cursor(y) = z
    BY <1>9, <1>11 DEF touch_cursor
  <2> QED BY <1>1, <2>1, <2>2 DEF put_char, Then
<1> QED BY <1>2, <1>15, <1>16, TurnsOn

-----------------------------------------------------------------------------
(* The parser.                                                             *)

\* A cursor in the grid, anywhere.
LEMMA PlacedTurns ==
    ASSUME NEW s, Good(s), NEW row \in Nat, NEW col \in Nat, row < s.rows
    PROVE  Turns(s, [s EXCEPT !.cursorRow = row, !.cursorCol = col])
<1>1. PICK x : x = [s EXCEPT !.cursorRow = row, !.cursorCol = col]
  OBVIOUS
<1>2. /\ x \in Terminals /\ x.grid = s.grid /\ x.rows = s.rows /\ x.cols = s.cols /\ x.dirty = s.dirty
      /\ x.cursorRow = row /\ x.cursorCol = col /\ x.params = s.params
  BY <1>1 DEF Good, Terminals
<1>3. Good(x)
  BY <1>2 DEF Good, InGrid
<1> QED BY <1>1, <1>2, <1>3, CursorMoves

LEMMA RowTurns ==
    ASSUME NEW s, Good(s), NEW row \in Nat, row < s.rows
    PROVE  Turns(s, [s EXCEPT !.cursorRow = row])
<1>1. PICK x : x = [s EXCEPT !.cursorRow = row]
  OBVIOUS
<1>2. /\ x \in Terminals /\ x.grid = s.grid /\ x.rows = s.rows /\ x.cols = s.cols /\ x.dirty = s.dirty
      /\ x.cursorRow = row /\ x.cursorCol = s.cursorCol /\ x.params = s.params
  BY <1>1 DEF Good, Terminals
<1>3. Good(x)
  BY <1>2 DEF Good, InGrid
<1> QED BY <1>1, <1>2, <1>3, CursorMoves

LEMMA ColTurns ==
    ASSUME NEW s, Good(s), NEW col \in Nat
    PROVE  Turns(s, [s EXCEPT !.cursorCol = col])
<1>1. PICK x : x = [s EXCEPT !.cursorCol = col]
  OBVIOUS
<1>2. /\ x \in Terminals /\ x.grid = s.grid /\ x.rows = s.rows /\ x.cols = s.cols /\ x.dirty = s.dirty
      /\ x.cursorRow = s.cursorRow /\ x.cursorCol = col /\ x.params = s.params
  BY <1>1 DEF Good, Terminals
<1>3. Good(x)
  BY <1>2 DEF Good, InGrid
<1> QED BY <1>1, <1>2, <1>3, CursorMoves

LEMMA EraseTurns ==
    ASSUME NEW s, Good(s), NEW a \in Int
    PROVE  Turns(s, EraseDisplay(s, a)) /\ Turns(s, EraseLine(s, a))
<1>0. /\ kMaxRows \in Nat /\ s.rows \in 0 .. kMaxRows /\ s.cols \in Int
      /\ s.cursorRow \in 0 .. s.rows - 1 /\ s.cursorCol \in Int /\ 0 \in Int
      /\ 0 \in 0 .. kMaxRows /\ s.cursorRow \in 0 .. kMaxRows /\ s.cursorRow + 1 \in 0 .. kMaxRows
  BY GoodNumbers
<1>s. Turns(s, s)
  BY CursorMoves
<1>1. Turns(s, clear_row(s, s.cursorRow, s.cursorCol)) /\ Turns(s, clear_row(s, s.cursorRow, 0))
  BY <1>0, ClearRowTurns
<1>2. Turns(s, Cleared(s, 0, s.cursorRow + 1, 0, s.cols))
  BY <1>0, ClearedTurns
<1>3. PICK to \in Int : to = Least(s.cursorCol + 1, s.cols)
  BY <1>0, LeastGreatest
<1>4. Turns(s, Cleared(s, s.cursorRow, s.cursorRow + 1, 0, to))
  BY <1>0, ClearedTurns
<1>5. PICK x, y : /\ x = clear_row(s, s.cursorRow, s.cursorCol)
                  /\ y = Cleared(x, x.cursorRow + 1, x.rows, 0, x.cols)
  OBVIOUS
<1>6. Turns(s, y)
  <2>1. Turns(s, x) /\ Good(x) /\ x.cursorRow = s.cursorRow /\ x.rows = s.rows /\ x.cols = s.cols
    BY <1>0, <1>5, ClearRowTurns DEF Turns
  <2>2. Turns(x, y)
    BY <1>0, <1>5, <2>1, ClearedTurns
  <2> QED BY <2>1, <2>2, TurnsOn
<1>7. Turns(s, EraseLine(s, a))
  BY <1>s, <1>1, <1>3, <1>4 DEF EraseLine
<1>8. Turns(s, EraseDisplay(s, a))
  <2>1. CASE a \in {2, 3}
    BY <2>1, ClearAllTurns DEF EraseDisplay
  <2>2. CASE a = 0
    <3>1. EraseDisplay(s, a) = y
      BY <1>5, <2>2 DEF EraseDisplay, Then
    <3> QED BY <1>6, <3>1
  <2>3. CASE a = 1
    BY <1>2, <2>3 DEF EraseDisplay
  <2>4. CASE a \notin {0, 1, 2, 3}
    BY <1>s, <2>4 DEF EraseDisplay
  <2> QED BY <2>1, <2>2, <2>3, <2>4
<1> QED BY <1>7, <1>8

LEMMA UnsignedNat ==
    ASSUME NEW n \in Int
    PROVE  Unsigned(n) \in Nat /\ Signed(n) \in Int /\ Wrap(n) \in Int
<1>1. Word \in Nat \ {0}
  BY TerminalAssumption
<1>2. PICK u : u = n % Word
  OBVIOUS
<1>3. u \in Nat
  BY <1>1, <1>2
<1>4. Signed(n) \in Int /\ Signed(u) \in Int
  BY <1>1, <1>3 DEF Signed
<1> QED BY <1>2, <1>3, <1>4 DEF Unsigned, Wrap

\* A negative parameter takes the cursor's row out of the grid.
Leaves(s, x) ==
    /\ x.cursorRow \in Nat /\ x.rows \in Nat /\ x.cursorRow >= x.rows
    /\ \E i \in DOMAIN s.params : s.params[i] < 0

\* Only "A" can do that; the other sequences keep the cursor's row in the grid.
LEMMA CsiTurns ==
    ASSUME NEW s, Good(s), NEW final
    PROVE  \/ Turns(s, handle_csi(s, final))
           \/ final = "A" /\ Leaves(s, handle_csi(s, final))
<1>1. PICK a, b : a = Param(s, 1) /\ b = Param(s, 2)
  OBVIOUS
<1>p. s.params \in Seq(Int)
  BY DEF Good, Terminals
<1>2. a \in Int /\ b \in Int
  BY <1>1, <1>p DEF Param
<1>n. a < 0 => \E i \in DOMAIN s.params : s.params[i] < 0
  <2>1. a < 0 => 1 \in DOMAIN s.params /\ a = s.params[1]
    BY <1>1, <1>p DEF Param
  <2> QED BY <2>1
<1>3. PICK by \in Int : by = IF a = 0 THEN 1 ELSE a
  BY <1>2
<1>0. /\ s.rows \in Nat /\ s.cols \in Nat /\ s.cursorRow \in Nat /\ s.cursorCol \in Nat
      /\ s.rows >= 1 /\ s.cols >= 1 /\ s.cursorRow < s.rows
  BY TerminalAssumption DEF Good, InGrid, Terminals
<1>u. PICK rowDown, colRight, colLeft, colSigned :
        /\ rowDown = Unsigned(s.cursorRow + by) /\ colRight = Unsigned(s.cursorCol + by)
        /\ colLeft = Unsigned(s.cursorCol - by) /\ colSigned = Signed(s.cursorCol)
  OBVIOUS
<1>v. rowDown \in Nat /\ colRight \in Nat /\ colLeft \in Nat
  <2>1. s.cursorRow + by \in Int /\ s.cursorCol + by \in Int /\ s.cursorCol - by \in Int
    BY <1>0
  <2> QED BY <1>u, <2>1, UnsignedNat
<1>4. PICK up, down, left, right, row, col :
        /\ up = Greatest(s.cursorRow - by, 0) /\ down = Least(rowDown, s.rows - 1)
        /\ right = Least(colRight, s.cols - 1) /\ left = (IF by <= colSigned THEN colLeft ELSE 0)
        /\ row = Least(Greatest(a - 1, 0), s.rows - 1) /\ col = Least(Greatest(b - 1, 0), s.cols - 1)
  OBVIOUS
<1>5. /\ up \in Nat /\ (up < s.rows \/ a < 0) /\ down \in Nat /\ down < s.rows
      /\ right \in Nat /\ left \in Nat
      /\ row \in Nat /\ row < s.rows /\ col \in Nat
  <2>1. up \in Nat /\ (up < s.rows \/ a < 0)
    BY <1>0, <1>2, <1>3, <1>4 DEF Greatest
  <2>2. down \in Nat /\ down < s.rows /\ right \in Nat /\ left \in Nat
    BY <1>0, <1>v, <1>4 DEF Least
  <2>3. row \in Nat /\ row < s.rows /\ col \in Nat
    BY <1>0, <1>2, <1>4 DEF Least, Greatest
  <2> QED BY <2>1, <2>2, <2>3
<1>6. /\ up < s.rows => Turns(s, [s EXCEPT !.cursorRow = up])
      /\ Turns(s, [s EXCEPT !.cursorRow = down])
      /\ Turns(s, [s EXCEPT !.cursorCol = right]) /\ Turns(s, [s EXCEPT !.cursorCol = left])
      /\ Turns(s, [s EXCEPT !.cursorRow = row, !.cursorCol = col])
  BY <1>5, RowTurns, ColTurns, PlacedTurns
<1>7. Turns(s, EraseDisplay(s, a)) /\ Turns(s, EraseLine(s, a)) /\ Turns(s, s)
  BY <1>2, EraseTurns, CursorMoves
<1>8. CASE final = "A"
  <2>1. handle_csi(s, final) = [s EXCEPT !.cursorRow = up]
    BY <1>1, <1>3, <1>4, <1>8 DEF handle_csi
  <2>2. CASE up < s.rows
    BY <1>6, <2>1, <2>2
  <2>3. CASE ~(up < s.rows)
    <3>1. PICK x : x = [s EXCEPT !.cursorRow = up]
      OBVIOUS
    <3>2. x.cursorRow = up /\ x.rows = s.rows
      BY <3>1 DEF Good, Terminals
    <3>3. x.cursorRow \in Nat /\ x.rows \in Nat /\ x.cursorRow >= x.rows
      BY <1>0, <1>5, <2>3, <3>2
    <3> QED BY <1>5, <1>8, <1>n, <2>1, <2>3, <3>1, <3>3 DEF Leaves
  <2> QED BY <2>2, <2>3
<1>9. CASE final = "B"
  <2>1. handle_csi(s, final) = [s EXCEPT !.cursorRow = down]
    BY <1>1, <1>3, <1>4, <1>u, <1>9 DEF handle_csi
  <2> QED BY <1>6, <2>1
<1>10. CASE final = "C"
  <2>1. handle_csi(s, final) = [s EXCEPT !.cursorCol = right]
    BY <1>1, <1>3, <1>4, <1>u, <1>10 DEF handle_csi
  <2> QED BY <1>6, <2>1
<1>11. CASE final = "D"
  <2>1. handle_csi(s, final) = [s EXCEPT !.cursorCol = left]
    BY <1>1, <1>3, <1>4, <1>u, <1>11 DEF handle_csi
  <2> QED BY <1>6, <2>1
<1>12. CASE final = "H"
  <2>1. handle_csi(s, final) = [s EXCEPT !.cursorRow = row, !.cursorCol = col]
    BY <1>1, <1>4, <1>12 DEF handle_csi
  <2> QED BY <1>6, <2>1
<1>13. CASE final = "J"
  <2>1. handle_csi(s, final) = EraseDisplay(s, a)
    BY <1>1, <1>13 DEF handle_csi
  <2> QED BY <1>7, <2>1
<1>14. CASE final = "K"
  <2>1. handle_csi(s, final) = EraseLine(s, a)
    BY <1>1, <1>14 DEF handle_csi
  <2> QED BY <1>7, <2>1
<1>15. CASE final \notin {"A", "B", "C", "D", "H", "J", "K"}
  <2>1. handle_csi(s, final) = s
    BY <1>15 DEF handle_csi
  <2> QED BY <1>7, <2>1
<1> QED BY <1>8, <1>9, <1>10, <1>11, <1>12, <1>13, <1>14, <1>15

\* Blanks up to a tab stop, and the cursor behind them.
LEMMA TabTurns ==
    ASSUME NEW s, Good(s)
    PROVE  Turns(s, TabTo(s))
<1>0. /\ kMaxRows \in Nat /\ s.rows \in 0 .. kMaxRows /\ s.cols \in Nat /\ s.cursorCol \in Nat
      /\ s.cursorRow \in 0 .. kMaxRows /\ s.cursorRow + 1 \in 0 .. kMaxRows
  BY GoodNumbers
<1>1. PICK stop : stop = (s.cursorCol \div Tab + 1) * Tab
  OBVIOUS
<1>2. stop \in Int
  BY <1>0, <1>1, TerminalAssumption
<1>3. PICK end \in Int : end = Least(stop, s.cols) /\ end <= s.cols
  BY <1>0, <1>2, LeastGreatest
<1>4. CASE s.cursorCol >= end
  <2>1. TabTo(s) = s
    BY <1>1, <1>3, <1>4 DEF TabTo
  <2> QED BY <2>1, CursorMoves
<1>5. CASE ~(s.cursorCol >= end)
  <2>1. PICK x : x = Cleared(s, s.cursorRow, s.cursorRow + 1, s.cursorCol, end)
    OBVIOUS
  <2>2. Turns(s, x) /\ Good(x) /\ x.cols = s.cols
    BY <1>0, <2>1, ClearedTurns DEF Turns
  <2>3. end \in Nat
    BY <1>0, <1>3, <1>5
  <2>4. Turns(x, [x EXCEPT !.cursorCol = end])
    BY <2>2, <2>3, ColTurns
  <2>5. TabTo(s) = [x EXCEPT !.cursorCol = end]
    BY <1>1, <1>3, <1>5, <2>1 DEF TabTo
  <2> QED BY <2>2, <2>4, <2>5, TurnsOn
<1> QED BY <1>4, <1>5

LEMMA StateTurns ==
    ASSUME NEW s, Good(s), NEW state \in {"Ground", "Escape", "CSI"}
    PROVE  Turns(s, [s EXCEPT !.state = state])
<1>1. PICK x : x = [s EXCEPT !.state = state]
  OBVIOUS
<1>2. /\ x \in Terminals /\ x.grid = s.grid /\ x.rows = s.rows /\ x.cols = s.cols /\ x.dirty = s.dirty
      /\ x.cursorRow = s.cursorRow /\ x.cursorCol = s.cursorCol /\ x.params = s.params
  BY <1>1 DEF Good, Terminals
<1>3. Good(x)
  BY <1>2 DEF Good, InGrid
<1> QED BY <1>1, <1>2, <1>3, CursorMoves

\* Text, a control character or the begin of a sequence.
LEMMA GroundTurns ==
    ASSUME NEW s, Good(s), NEW ch
    PROVE  Turns(s, Ground(s, ch))
<1>0. s.cursorCol \in Nat
  BY TerminalAssumption DEF Good, InGrid, Terminals
<1>1. PICK col : col = Greatest(s.cursorCol - 1, 0)
  OBVIOUS
<1>2. col \in Nat /\ 0 \in Nat
  BY <1>0, <1>1 DEF Greatest
<1>3. /\ Turns(s, [s EXCEPT !.cursorCol = col]) /\ Turns(s, [s EXCEPT !.cursorCol = 0])
      /\ Turns(s, s)
  BY <1>2, ColTurns, CursorMoves
<1>4. CASE ch = "esc"
  <2>1. Ground(s, ch) = [s EXCEPT !.state = "Escape"]
    BY <1>4 DEF Ground
  <2> QED BY <2>1, StateTurns
<1>5. CASE ch = "lf"
  BY <1>5, NewlineTurns DEF Ground
<1>6. CASE ch = "cr"
  <2>1. Ground(s, ch) = [s EXCEPT !.cursorCol = 0]
    BY <1>6 DEF Ground
  <2> QED BY <1>3, <2>1
<1>7. CASE ch = "bs"
  <2>1. Ground(s, ch) = [s EXCEPT !.cursorCol = col]
    BY <1>1, <1>7 DEF Ground
  <2> QED BY <1>3, <2>1
<1>8. CASE ch = "tab"
  BY <1>8, TabTurns DEF Ground
<1>9. CASE ch = "bel"
  BY <1>3, <1>9 DEF Ground
<1>10. CASE ch \notin {"esc", "lf", "cr", "bs", "tab", "bel"}
  BY <1>10, PutTurns DEF Ground
<1> QED BY <1>4, <1>5, <1>6, <1>7, <1>8, <1>9, <1>10

\* What a byte does, but for the parameters of a sequence.
Feeds(s, x) == Good(x) /\ Draws(s, x)

\* The parameters of a sequence, with its state.
LEMMA ParamsFeed ==
    ASSUME NEW s, NEW x, Turns(s, x), Good(s), NEW params \in Seq(Int), Len(params) <= MaxParams,
           NEW state \in {"Ground", "Escape", "CSI"}
    PROVE  Feeds(s, [x EXCEPT !.state = state, !.params = params])
<1>1. PICK y : y = [x EXCEPT !.state = state, !.params = params]
  OBVIOUS
<1>2. /\ y \in Terminals /\ y.grid = x.grid /\ y.rows = x.rows /\ y.cols = x.cols /\ y.dirty = x.dirty
      /\ y.cursorRow = x.cursorRow /\ y.cursorCol = x.cursorCol /\ y.params = params
  BY <1>1 DEF Good, Terminals, Turns
<1>3. Good(y)
  BY <1>2 DEF Good, InGrid, Turns
<1>4. Draws(s, y)
  BY <1>2 DEF Turns, Draws, Clean
<1> QED BY <1>1, <1>3, <1>4 DEF Feeds

LEMMA NoParams == <<>> \in Seq(Int) /\ Len(<<>>) = 0
OBVIOUS

LEMMA CSIFeeds ==
    ASSUME NEW s, Good(s), s.state = "CSI", NEW ch \in Bytes
    PROVE  \/ Feeds(s, CSI(s, ch))
           \/ ch = "A" /\ Leaves(s, CSI(s, ch))
<1>1. PICK n : n = Len(s.params)
  OBVIOUS
<1>2. /\ n \in Nat /\ n <= MaxParams /\ s.params \in Seq(Int) /\ Turns(s, s)
      /\ MaxParams \in Nat /\ MaxParams >= 1
  <2>1. s.params \in Seq(Int) /\ n \in Nat /\ n <= MaxParams
    BY <1>1, LenProperties DEF Good, Terminals
  <2>2. MaxParams \in Nat /\ MaxParams >= 1
    BY TerminalAssumption
  <2> QED BY <2>1, <2>2, CursorMoves
<1>3. CASE ch \in DOMAIN Digit
  <2>1. ch \notin Finals \cup Controls /\ Digit[ch] \in Nat
    BY <1>3, TerminalAssumption
  <2>2. PICK v \in Int : v = Wrap(Number(s, ch))
    <3>1. n # 0 => s.params[n] \in Int
      BY <1>1, <1>2
    <3>2. Number(s, ch) = (IF n = 0 THEN 0 ELSE s.params[n]) * 10 + Digit[ch]
      BY <1>1, <1>2 DEF Number
    <3>3. Number(s, ch) \in Int
      BY <2>1, <3>1, <3>2
    <3> QED BY <3>3, UnsignedNat
  <2>p. PICK params : params = IF n = 0 THEN <<v>> ELSE [s.params EXCEPT ![n] = v]
    OBVIOUS
  <2>3. params \in Seq(Int) /\ Len(params) <= MaxParams
    <3>1. CASE n = 0
      BY <1>2, <2>p, <3>1
    <3>2. CASE n # 0
      <4>1. n \in 1 .. Len(s.params)
        BY <1>1, <1>2, <3>2
      <4> QED BY <1>1, <1>2, <2>p, <3>2, <4>1, ExceptSeq
    <3> QED BY <3>1, <3>2
  <2>4. Feeds(s, [s EXCEPT !.state = "CSI", !.params = params])
    BY <1>2, <2>3, ParamsFeed
  <2>5. CSI(s, ch) = [s EXCEPT !.params = params]
    <3>1. CASE n = 0
      BY <1>1, <1>3, <2>1, <2>2, <2>p, <3>1 DEF CSI, Finals, Controls
    <3>2. CASE n # 0
      BY <1>1, <1>3, <2>1, <2>2, <2>p, <3>2 DEF CSI, Finals, Controls
    <3> QED BY <3>1, <3>2
  <2>6. [s EXCEPT !.params = params] = [s EXCEPT !.state = "CSI", !.params = params]
    BY DEF Good, Terminals
  <2> QED BY <1>3, <2>4, <2>5, <2>6
<1>4. CASE ch = ";"
  <2>1. ch \notin DOMAIN Digit \cup Finals /\ ch # "?"
    BY <1>4, TerminalAssumption DEF Controls, Finals
  <2>2. PICK params : params = IF n < MaxParams THEN Append(s.params, 0) ELSE [s.params EXCEPT ![n] = 0]
    OBVIOUS
  <2>3. params \in Seq(Int) /\ Len(params) <= MaxParams
    <3>1. CASE n < MaxParams
      BY <1>1, <1>2, <2>2, <3>1, AppendProperties
    <3>2. CASE ~(n < MaxParams)
      <4>1. n \in 1 .. Len(s.params)
        BY <1>1, <1>2, <3>2
      <4> QED BY <1>1, <1>2, <2>2, <3>2, <4>1, ExceptSeq
    <3> QED BY <3>1, <3>2
  <2>4. Feeds(s, [s EXCEPT !.state = "CSI", !.params = params])
    BY <1>2, <2>3, ParamsFeed
  <2>5. CSI(s, ch) = [s EXCEPT !.params = params]
    <3>1. CASE n < MaxParams
      BY <1>1, <1>4, <2>1, <2>2, <3>1 DEF CSI
    <3>2. CASE ~(n < MaxParams)
      BY <1>1, <1>4, <2>1, <2>2, <3>2 DEF CSI
    <3> QED BY <3>1, <3>2
  <2>6. [s EXCEPT !.params = params] = [s EXCEPT !.state = "CSI", !.params = params]
    BY DEF Good, Terminals
  <2> QED BY <1>4, <2>4, <2>5, <2>6
<1>5. CASE ch = "?"
  <2>1. ch \notin DOMAIN Digit \cup Finals /\ ch # ";"
    BY <1>5, TerminalAssumption DEF Controls, Finals
  <2>2. CSI(s, ch) = s
    BY <1>5, <2>1 DEF CSI
  <2> QED BY <1>2, <2>2 DEF Turns, Feeds
<1>6. CASE ch \in Finals
  <2>1. ch \notin DOMAIN Digit \cup {";", "?"}
    BY <1>6, TerminalAssumption DEF Finals
  <2>2. PICK x : x = handle_csi(s, ch)
    OBVIOUS
  <2>4. PICK y : y = [x EXCEPT !.state = "Ground", !.params = <<>>]
    OBVIOUS
  <2>5. ASSUME Turns(s, x) PROVE Feeds(s, y)
    <3>1. PICK none \in Seq(Int) : none = <<>> /\ Len(none) = 0
      BY NoParams
    <3>2. Len(none) <= MaxParams /\ "Ground" \in {"Ground", "Escape", "CSI"} /\ Good(x)
      BY <1>2, <2>5, <3>1 DEF Turns
    <3>3. Feeds(s, [x EXCEPT !.state = "Ground", !.params = none])
      BY <2>5, <3>2, ParamsFeed
    <3> QED BY <2>4, <3>1, <3>3
  <2>6. CSI(s, ch) = y
    BY <1>6, <2>1, <2>2, <2>4 DEF CSI
  <2>7. y.cursorRow = x.cursorRow /\ y.rows = x.rows
    BY <2>4
  <2>8. Leaves(s, x) => Leaves(s, y)
    BY <2>7 DEF Leaves
  <2> QED BY <2>2, <2>5, <2>6, <2>8, CsiTurns
<1>7. CASE ch \notin DOMAIN Digit \cup Finals \cup {";", "?"}
  <2>1. PICK y : y = [s EXCEPT !.state = "Ground", !.params = <<>>]
    OBVIOUS
  <2>2. Feeds(s, y)
    <3>1. PICK none \in Seq(Int) : none = <<>> /\ Len(none) = 0
      BY NoParams
    <3>2. Len(none) <= MaxParams /\ "Ground" \in {"Ground", "Escape", "CSI"}
      BY <1>2, <3>1
    <3>3. Feeds(s, [s EXCEPT !.state = "Ground", !.params = none])
      BY <1>2, <3>2, ParamsFeed
    <3> QED BY <2>1, <3>1, <3>3
  <2>3. CSI(s, ch) = y
    BY <1>7, <2>1 DEF CSI
  <2> QED BY <2>2, <2>3
<1> QED BY <1>3, <1>4, <1>5, <1>6, <1>7

LEMMA ParserFeeds ==
    ASSUME NEW s, Good(s), NEW ch \in Bytes
    PROVE  \/ Feeds(s, parser_feed(s, ch))
           \/ ch = "A" /\ Leaves(s, parser_feed(s, ch))
<1>1. CASE s.state = "Ground"
  <2>1. parser_feed(s, ch) = Ground(s, ch)
    BY <1>1 DEF parser_feed
  <2> QED BY <2>1, GroundTurns DEF Turns, Feeds
<1>2. CASE s.state = "Escape"
  <2>1. PICK state \in {"Ground", "Escape", "CSI"} : state = IF ch = "[" THEN "CSI" ELSE "Ground"
    OBVIOUS
  <2>2. parser_feed(s, ch) = [s EXCEPT !.state = state]
    BY <1>2, <2>1 DEF parser_feed
  <2>3. Turns(s, [s EXCEPT !.state = state])
    BY StateTurns
  <2> QED BY <2>2, <2>3 DEF Turns, Feeds
<1>3. CASE s.state = "CSI"
  <2>1. parser_feed(s, ch) = CSI(s, ch)
    BY <1>3 DEF parser_feed
  <2> QED BY <1>3, <2>1, CSIFeeds
<1> QED BY <1>1, <1>2, <1>3 DEF Good, Terminals

LEMMA FeedsOn ==
    ASSUME NEW s, NEW x, NEW y, Good(s), Feeds(s, x), Feeds(x, y)
    PROVE  Feeds(s, y)
<1>1. ASSUME NEW r \in 0 .. s.rows - 1, NEW c \in 0 .. s.cols - 1, r \notin Rows(y.dirty)
      PROVE  y.grid[r][c] = s.grid[r][c]
  BY <1>1 DEF Feeds, Draws
<1> QED BY <1>1 DEF Feeds, Draws

\* What the terminal says itself contains no "A".
LEMMA OwnWordsFeed ==
    ASSUME NEW s, Good(s)
    PROVE  Feeds(s, ShellExited(s)) /\ Feeds(s, CouldNotStart(s))
<1>0. \A ch \in {"x", "cr", "lf"} : ch \in Bytes /\ ch # "A"
  BY DEF Bytes, Finals, Controls
<1>1. ASSUME NEW a \in {"x", "cr", "lf"}, NEW b \in {"x", "cr", "lf"}, NEW c \in {"x", "cr", "lf"},
             NEW z, z = parser_feed(parser_feed(parser_feed(s, a), b), c)
      PROVE  Feeds(s, z)
  <2>1. PICK x, y : x = parser_feed(s, a) /\ y = parser_feed(x, b)
    OBVIOUS
  <2>2. Feeds(s, x) /\ Good(x)
    BY <1>0, <2>1, ParserFeeds DEF Feeds
  <2>3. Feeds(x, y) /\ Good(y)
    BY <1>0, <2>1, <2>2, ParserFeeds DEF Feeds
  <2>4. Feeds(y, z)
    BY <1>0, <1>1, <2>1, <2>3, ParserFeeds
  <2>5. Feeds(s, y)
    BY <2>2, <2>3, FeedsOn
  <2> QED BY <2>2, <2>3, <2>4, <2>5, FeedsOn
<1>2. ShellExited(s) = parser_feed(parser_feed(parser_feed(s, "cr"), "lf"), "x")
  BY DEF ShellExited, Then
<1>3. CouldNotStart(s) = parser_feed(parser_feed(parser_feed(s, "x"), "cr"), "lf")
  BY DEF CouldNotStart, Then
<1> QED BY <1>1, <1>2, <1>3

-----------------------------------------------------------------------------
(* The size.                                                               *)

LEMMA FitsLimit ==
    ASSUME NEW n \in Int, NEW limit \in Nat \ {0}
    PROVE  Fits(n, limit) \in 1 .. limit
BY DEF Fits, Least

\* Whatever the sizes, the new grid has the cursor in it. Nothing that was never
\* blanked comes into view, unless the window became wider and too short for the
\* cursor at once.
LEMMA FitGood ==
    ASSUME NEW s \in Terminals, s.cursorRow \in AllRows, s.cursorRow < s.rows \/ s.cursorRow = 0,
           Len(s.params) <= MaxParams, NEW size \in Sizes
    PROVE  /\ Good(fit_grid(s, size))
           /\ fit_grid(s, size).params = s.params
           /\ Clean(s) => \/ Clean(fit_grid(s, size))
                          \/ /\ fit_grid(s, size).cols > s.cols
                             /\ s.cursorRow >= fit_grid(s, size).rows
<1>0. /\ kMaxRows \in Nat \ {0} /\ kMaxCols \in Nat \ {0}
      /\ size[1] \in Int /\ size[2] \in Int
      /\ AllRows = {r \in Nat : r < kMaxRows} /\ AllCols = {c \in Nat : c < kMaxCols}
  <2>1. kMaxRows \in Nat \ {0} /\ kMaxCols \in Nat \ {0} /\ size[1] \in Int /\ size[2] \in Int
    BY TerminalAssumption
  <2>2. AllRows = {r \in Nat : r < kMaxRows}
    BY <2>1 DEF AllRows
  <2>3. AllCols = {c \in Nat : c < kMaxCols}
    BY <2>1 DEF AllCols
  <2> QED BY <2>1, <2>2, <2>3
<1>1. PICK newRows \in 1 .. kMaxRows, newCols \in 1 .. kMaxCols :
         newRows = Fits(size[1], kMaxRows) /\ newCols = Fits(size[2], kMaxCols)
  BY <1>0, FitsLimit
<1>2. /\ s.rows \in 0 .. kMaxRows /\ s.cols \in 0 .. kMaxCols /\ s.cursorRow \in Nat /\ s.cursorCol \in Nat
      /\ \A r \in AllRows, c \in AllCols : s.grid[r][c] \in {Blank, Text, Old}
      /\ s.cursorRow < kMaxRows
  <2>1. /\ s.rows \in 0 .. kMaxRows /\ s.cols \in 0 .. kMaxCols /\ s.cursorRow \in Nat /\ s.cursorCol \in Nat
        /\ s.grid \in [AllRows -> [AllCols -> {Blank, Text, Old}]]
    BY DEF Terminals
  <2>2. s.cursorRow < kMaxRows
    BY <1>0
  <2> QED BY <2>1, <2>2
<1>3. PICK g : g = [r \in AllRows |-> [c \in AllCols |->
                IF r < newRows /\ c < newCols /\ (r < s.rows => c >= s.cols) THEN Blank ELSE s.grid[r][c]]]
  OBVIOUS
<1>4. \A r \in AllRows, c \in AllCols :
        /\ g[r][c] = IF r < newRows /\ c < newCols /\ (r < s.rows => c >= s.cols) THEN Blank ELSE s.grid[r][c]
        /\ g[r][c] \in {Blank, Text, Old}
  BY <1>2, <1>3
<1>5. g \in [AllRows -> [AllCols -> {Blank, Text, Old}]]
  BY <1>3, <1>4
<1>6. PICK x : x = [s EXCEPT !.grid = g, !.cols = newCols]
  OBVIOUS
<1>7. /\ x \in Terminals /\ x.grid = g /\ x.rows = s.rows /\ x.cols = newCols /\ x.dirty = s.dirty
      /\ x.cursorRow = s.cursorRow /\ x.cursorCol = s.cursorCol /\ x.params = s.params
  <2>1. newCols \in 0 .. kMaxCols
    BY <1>1
  <2> QED BY <1>5, <1>6, <2>1 DEF Terminals
<1>8. x = [BlankNew(s, newRows, newCols) EXCEPT !.cols = newCols]
  BY <1>3, <1>6 DEF BlankNew, Terminals
<1>9. PICK y : y = ScrollIn(x, newRows)
  OBVIOUS
<1>10. PICK by \in Int : by = s.cursorRow - newRows + 1
  BY <1>2
<1>11. /\ y \in Terminals /\ y.cols = newCols /\ y.params = s.params
       /\ y.cursorRow < newRows
       /\ \A r \in AllRows, c \in AllCols :
             r < newRows /\ c < newCols => y.grid[r][c] = IF by <= 0 THEN g[r][c] ELSE g[r + by][c]
  <2>1. CASE by <= 0
    <3>1. y = x
      BY <1>7, <1>9, <1>10, <2>1 DEF ScrollIn
    <3> QED BY <1>1, <1>2, <1>7, <1>10, <2>1, <3>1
  <2>2. CASE by > 0
    <3>1. \A r \in AllRows : r < newRows => r + by \in AllRows
      <4>1. PICK cur \in Nat : cur = s.cursorRow /\ cur < kMaxRows
        BY <1>2
      <4>2. \A r \in Nat : r < newRows => r + by \in Nat /\ r + by <= cur
        BY <1>1, <1>10, <2>2, <4>1
      <4>3. \A r \in AllRows : r \in Nat
        BY <1>0
      <4>4. ASSUME NEW r \in AllRows, r < newRows PROVE r + by \in AllRows
        <5>1. r + by \in Nat /\ r + by <= cur
          BY <4>2, <4>3, <4>4
        <5>2. r + by < kMaxRows
          BY <1>0, <4>1, <5>1
        <5> QED BY <1>0, <5>1, <5>2
      <4> QED BY <4>4
    <3>2. PICK h : h = [r \in AllRows |-> [c \in AllCols |->
                     IF r < newRows /\ c < x.cols THEN x.grid[r + by][c] ELSE x.grid[r][c]]]
      OBVIOUS
    <3>3. \A r \in AllRows, c \in AllCols :
             /\ h[r][c] = IF r < newRows /\ c < newCols THEN g[r + by][c] ELSE g[r][c]
             /\ h[r][c] \in {Blank, Text, Old}
      BY <1>4, <1>7, <3>1, <3>2
    <3>4. h \in [AllRows -> [AllCols -> {Blank, Text, Old}]]
      BY <3>2, <3>3
    <3>5. PICK last, d : last = newRows - 1 /\ d = Widened(s.dirty, 0, s.cursorRow + 1)
      OBVIOUS
    <3>6. last \in Nat /\ last < newRows
      BY <1>1, <3>5
    <3>7. d \in (0 .. kMaxRows) \X (0 .. kMaxRows)
      <4>1. kMaxRows \in Nat /\ s.cursorRow \in Nat /\ s.cursorRow < kMaxRows
        BY <1>0, <1>2
      <4>2. 0 \in 0 .. kMaxRows /\ s.cursorRow + 1 \in 0 .. kMaxRows
        BY <4>1
      <4>3. s.dirty \in (0 .. kMaxRows) \X (0 .. kMaxRows)
        BY DEF Terminals
      <4> QED BY <3>5, <4>2, <4>3, WidenedCovers
    <3>8. PICK z : z = [x EXCEPT !.grid = h, !.cursorRow = last, !.dirty = d]
      OBVIOUS
    <3>9. /\ z \in Terminals /\ z.grid = h /\ z.cols = newCols /\ z.params = s.params /\ z.cursorRow = last
      BY <1>7, <3>4, <3>6, <3>7, <3>8 DEF Terminals
    <3>10. y = z
      BY <1>7, <1>9, <1>10, <2>2, <3>2, <3>5, <3>8 DEF ScrollIn
    <3> QED BY <1>10, <2>2, <3>3, <3>6, <3>9, <3>10
  <2> QED BY <1>10, <2>1, <2>2
<1>12. PICK k : k = [r \in AllRows |-> [c \in AllCols |->
                       IF r < newRows /\ c < y.cols THEN y.grid[r][c] ELSE Old]]
  OBVIOUS
<1>13. \A r \in AllRows, c \in AllCols :
         /\ r < newRows /\ c < newCols => k[r][c] = IF by <= 0 THEN g[r][c] ELSE g[r + by][c]
         /\ k[r][c] \in {Blank, Text, Old}
  <2>1. \A r \in AllRows, c \in AllCols : y.grid[r][c] \in {Blank, Text, Old}
    BY <1>11 DEF Terminals
  <2> QED BY <1>11, <1>12, <2>1
<1>14. k \in [AllRows -> [AllCols -> {Blank, Text, Old}]]
  BY <1>12, <1>13
<1>15. PICK col, d : col = Least(y.cursorCol, newCols) /\ d = Widened(y.dirty, 0, newRows)
  OBVIOUS
<1>16. col \in Nat /\ col <= newCols
  <2>1. newCols \in Nat /\ y.cursorCol \in Nat
    BY <1>1, <1>11 DEF Terminals
  <2> QED BY <1>15, <2>1 DEF Least
<1>17. d \in (0 .. kMaxRows) \X (0 .. kMaxRows)
  <2>1. 0 \in 0 .. kMaxRows /\ newRows \in 0 .. kMaxRows
    BY <1>0, <1>1
  <2> QED BY <1>11, <1>15, <2>1, WidenedCovers DEF Terminals
<1>18. PICK z : z = [y EXCEPT !.rows = newRows, !.cursorCol = col, !.dirty = d, !.grid = k]
  OBVIOUS
<1>19. /\ z \in Terminals /\ z.grid = k /\ z.rows = newRows /\ z.cols = newCols /\ z.params = s.params
       /\ z.cursorRow = y.cursorRow /\ z.cursorCol = col
  <2>1. newRows \in 0 .. kMaxRows
    BY <1>1
  <2> QED BY <1>11, <1>14, <1>16, <1>17, <1>18, <2>1 DEF Terminals
<1>20. Good(z)
  BY <1>1, <1>11, <1>16, <1>19 DEF Good, InGrid
<1>21. fit_grid(s, size) = z
  <2>1. z = Resized(y, newRows)
    BY <1>11, <1>12, <1>15, <1>18 DEF Resized
  <2>2. {Resized(e, newRows) : e \in {ScrollIn(x, newRows)}} = {z}
    BY <1>9, <2>1
  <2>3. fit_grid(s, size) = CHOOSE e \in {Resized(e, newRows) : e \in {ScrollIn(x, newRows)}} : TRUE
    BY <1>1, <1>8 DEF fit_grid, Then
  <2> QED BY <2>2, <2>3, ChosenOfOne
<1>22. ASSUME Clean(s), ~(newCols > s.cols /\ s.cursorRow >= newRows) PROVE Clean(z)
  <2> SUFFICES ASSUME NEW r \in 0 .. newRows - 1, NEW c \in 0 .. newCols - 1 PROVE k[r][c] # Old
    BY <1>19 DEF Clean
  <2>0. /\ newRows \in Nat /\ newRows <= kMaxRows /\ newCols \in Nat /\ newCols <= kMaxCols
        /\ kMaxRows \in Nat /\ kMaxCols \in Nat /\ s.rows \in Nat /\ s.cols \in Nat
        /\ s.cursorRow \in Nat
    <3>1. kMaxRows \in Nat /\ kMaxCols \in Nat
      BY <1>0
    <3>2. s.rows \in 0 .. kMaxRows /\ s.cols \in 0 .. kMaxCols /\ s.cursorRow \in Nat
      BY <1>2
    <3> QED BY <3>1, <3>2
  <2>1. r \in AllRows /\ c \in AllCols /\ r < newRows /\ c < newCols /\ r \in Nat /\ c \in Nat
    BY <2>0 DEF AllRows, AllCols
  <2>2. \A q \in 0 .. s.rows - 1, e \in 0 .. s.cols - 1 : s.grid[q][e] # Old
    BY <1>22 DEF Clean
  <2>3. CASE by <= 0
    <3>1. k[r][c] = g[r][c]
      BY <1>13, <2>1, <2>3
    <3>2. r < s.rows /\ ~(c >= s.cols) => r \in 0 .. s.rows - 1 /\ c \in 0 .. s.cols - 1
      BY <2>0, <2>1
    <3> QED BY <1>4, <2>1, <2>2, <3>1, <3>2 DEF Blank, Old
  <2>4. CASE by > 0
    <3>0. s.cursorRow >= newRows
      BY <1>10, <2>0, <2>4
    <3>1. newCols <= s.cols
      BY <1>22, <2>0, <3>0
    <3>2. r + by \in 0 .. s.rows - 1 /\ r + by \in AllRows
      <4>1. r + by <= s.cursorRow /\ r + by \in Nat
        BY <1>10, <2>0, <2>1, <2>4
      <4>2. s.cursorRow < s.rows
        <5>1. s.cursorRow # 0
          BY <1>1, <2>0, <3>0
        <5> QED BY <5>1
      <4>3. s.rows <= kMaxRows
        BY <1>2, <2>0
      <4> QED BY <2>0, <4>1, <4>2, <4>3 DEF AllRows
    <3>3. k[r][c] = g[r + by][c]
      BY <1>10, <1>13, <2>1, <2>4
    <3>4. c \in 0 .. s.cols - 1
      BY <2>0, <2>1, <3>1
    <3> QED BY <1>4, <2>1, <2>2, <3>2, <3>3, <3>4 DEF Blank, Old
  <2> QED BY <1>10, <2>3, <2>4
<1> QED BY <1>19, <1>20, <1>21, <1>22

-----------------------------------------------------------------------------
(* The window.                                                             *)

WindowOK ==
    /\ {master, watched, cursorShown, focused, reading, lost} \subseteq BOOLEAN
    /\ lost => \E i \in DOMAIN t.params : t.params[i] < 0
    /\ paintedCursorRow \in AllRows
    /\ shell \in {"running", "exited", "none"}
    /\ told = IF master THEN <<t.rows, t.cols>> ELSE <<0, 0>>
    /\ invalid \subseteq AllRows /\ shown \subseteq AllRows

\* The row of the cursor on screen is remembered, until it is painted again.
Remembered == \A r \in AllRows \ invalid : cursors[r] # <<>> => r = paintedCursorRow

\* Cells that are not on screen as they are have been noted.
CellsNoted == \A r \in AllRows \ invalid : r \in shown \/ r \in Rows(t.dirty)

\* Between two handlers the cursor is right, or noted, and there is no other.
OneCursor ==
    ~reading => \A r \in AllRows \ invalid :
        IF r = t.cursorRow THEN r \in Rows(t.dirty) \/ cursors[r] = CursorIn(r)
                           ELSE cursors[r] = <<>>

ScreenInv == Good(t) /\ WindowOK /\ Remembered /\ CellsNoted /\ OneCursor

LEMMA ScreenInvTypes ==
    ASSUME ScreenInv
    PROVE  TypeOK
<1>1. /\ t.rows \in 1 .. kMaxRows /\ t.cols \in 1 .. kMaxCols
      /\ t.cursorRow \in 0 .. t.rows - 1 /\ t.cursorCol \in Nat
      /\ t.grid \in [AllRows -> [AllCols -> {Blank, Text, Old}]]
      /\ t.state \in {"Ground", "Escape", "CSI"}
      /\ t.dirty \in (0 .. kMaxRows) \X (0 .. kMaxRows)
  BY TerminalAssumption DEF ScreenInv, Good, InGrid, Terminals
<1>2. Len(t.params) <= MaxParams /\ \A i \in DOMAIN t.params : t.params[i] \in Int
  <2>1. t.params \in Seq(Int) /\ Len(t.params) <= MaxParams
    BY DEF ScreenInv, Good, Terminals
  <2> QED BY <2>1
<1> QED BY <1>1, <1>2 DEF TypeOK, ScreenInv, WindowOK

LEMMA ScreenInvShows ==
    ASSUME ScreenInv
    PROVE  RowsShown
<1>1. ASSUME ~reading, NEW r \in AllRows \ (invalid \cup Rows(t.dirty))
      PROVE  r \in shown /\ cursors[r] = CursorIn(r)
  <2>1. r \in shown
    BY <1>1 DEF ScreenInv, CellsNoted
  <2>2. r = t.cursorRow => cursors[r] = CursorIn(r)
    BY <1>1 DEF ScreenInv, OneCursor
  <2>3. r # t.cursorRow => cursors[r] = <<>> /\ CursorIn(r) = <<>>
    BY <1>1 DEF ScreenInv, OneCursor, CursorIn
  <2> QED BY <2>1, <2>2, <2>3
<1> QED BY <1>1, ScreenInvTypes DEF RowsShown

\* A row that is not to be painted looks as before.
LEMMA SameCells ==
    ASSUME NEW s, NEW x, Good(s), Draws(s, x), NEW r \in AllRows, r \notin Rows(x.dirty)
    PROVE  Cells(x, r) = Cells(s, r)
<1>1. ASSUME NEW c \in AllCols, r < s.rows, c < s.cols PROVE x.grid[r][c] = s.grid[r][c]
  <2>1. r \in 0 .. s.rows - 1 /\ c \in 0 .. s.cols - 1
    BY <1>1, GoodNumbers DEF AllRows, AllCols
  <2> QED BY <2>1 DEF Draws
<1>2. x.rows = s.rows /\ x.cols = s.cols
  BY DEF Draws
<1>3. \A c \in AllCols : (IF r < x.rows /\ c < x.cols THEN x.grid[r][c] ELSE Blank) =
                         (IF r < s.rows /\ c < s.cols THEN s.grid[r][c] ELSE Blank)
  BY <1>1, <1>2
<1> QED BY <1>3 DEF Cells

\* touch_cursor() and restart_blink() note the cursor's row.
LEMMA TouchCursorTurns ==
    ASSUME NEW s, Good(s)
    PROVE  /\ Turns(s, touch_cursor(s)) /\ touch_cursor(s).cursorRow = s.cursorRow
           /\ s.cursorRow \in AllRows /\ s.cursorRow \in Rows(touch_cursor(s).dirty)
           /\ restart_blink(s) = touch_cursor(s)
<1>1. /\ s.cursorRow \in 0 .. kMaxRows /\ s.cursorRow + 1 \in 0 .. kMaxRows /\ s.cursorRow \in AllRows
      /\ s.cursorRow < s.cursorRow + 1
  BY GoodNumbers DEF AllRows
<1> QED BY <1>1, TouchTurns DEF touch_cursor, restart_blink

\* flush() has every row painted that does not look as it should, after the
\* parser fed on t or the cursor's row was noted.
LEMMA FlushShows ==
    ASSUME Good(t), paintedCursorRow \in AllRows, invalid \subseteq AllRows, shown \subseteq AllRows,
           Remembered, CellsNoted,
           NEW s, Feeds(t, s), s.cursorRow \in Rows(s.dirty), flush(s), UNCHANGED paintedCursorRow
    PROVE  /\ Good(t)' /\ t'.rows = t.rows /\ t'.cols = t.cols /\ t'.params = s.params
           /\ Clean(t) => Clean(t')
           /\ Remembered' /\ CellsNoted' /\ OneCursor'
           /\ invalid' \subseteq AllRows /\ shown' \subseteq AllRows
<1>1. PICK x : /\ x = touch_rows(s, paintedCursorRow, paintedCursorRow + 1)
               /\ t' = Untouched(x) /\ Invalidate(Rows(x.dirty))
  BY DEF flush
<1>2. Good(s)
  BY DEF Feeds
<1>3. /\ Turns(s, x) /\ paintedCursorRow \in Rows(x.dirty) /\ x.cursorRow = s.cursorRow
  <2>1. /\ paintedCursorRow \in 0 .. kMaxRows /\ paintedCursorRow + 1 \in 0 .. kMaxRows
        /\ paintedCursorRow <= paintedCursorRow /\ paintedCursorRow < paintedCursorRow + 1
    BY TerminalAssumption DEF AllRows
  <2> QED BY <1>1, <1>2, <2>1, TouchTurns
<1>4. Feeds(t, x) /\ Good(x) /\ x.params = s.params
  <2>1. Feeds(s, x) /\ x.params = s.params
    BY <1>3 DEF Turns, Feeds
  <2> QED BY <2>1, FeedsOn DEF Feeds
<1>5. /\ s.cursorRow \in Rows(x.dirty) /\ Rows(t.dirty) \subseteq Rows(x.dirty)
      /\ Rows(x.dirty) \subseteq AllRows
  BY <1>3, <1>4 DEF Turns, Feeds, Draws, Rows
<1>6. /\ t' \in Terminals /\ t'.grid = x.grid /\ t'.rows = x.rows /\ t'.cols = x.cols
      /\ t'.cursorRow = x.cursorRow /\ t'.cursorCol = x.cursorCol /\ t'.params = x.params
  <2>1. PICK d : d = <<0, 0>>
    OBVIOUS
  <2>2. d \in (0 .. kMaxRows) \X (0 .. kMaxRows)
    <3>1. 0 \in 0 .. kMaxRows
      BY TerminalAssumption
    <3> QED BY <2>1, <3>1
  <2>3. t' = [x EXCEPT !.dirty = d]
    BY <1>1, <2>1 DEF Untouched
  <2> QED BY <1>4, <2>2, <2>3 DEF Good, Terminals
<1>7. Good(t)'
  BY <1>4, <1>6 DEF Good, InGrid
<1>8. /\ t'.rows = t.rows /\ t'.cols = t.cols /\ t'.params = s.params
      /\ Clean(t) => Clean(t')
  BY <1>4, <1>6 DEF Feeds, Draws, Clean
<1>9. /\ invalid' = invalid \cup Rows(x.dirty)
      /\ shown' = {r \in shown \ Rows(x.dirty) : Cells(t', r) = Cells(t, r)}
      /\ cursors' = [r \in AllRows |-> IF r \in Rows(x.dirty) THEN <<>> ELSE cursors[r]]
  BY <1>1 DEF Invalidate
<1>10. ASSUME NEW r \in AllRows \ invalid'
       PROVE  /\ r \notin invalid /\ r \notin Rows(x.dirty) /\ r # paintedCursorRow
              /\ r # t'.cursorRow /\ cursors'[r] = <<>> /\ r \in shown'
  <2>1. r \notin invalid /\ r \notin Rows(x.dirty) /\ r # paintedCursorRow /\ r # t'.cursorRow
    BY <1>3, <1>5, <1>6, <1>9
  <2>2. cursors'[r] = cursors[r] /\ cursors[r] = <<>>
    BY <1>9, <2>1 DEF Remembered
  <2>3. r \in shown
    BY <1>5, <2>1 DEF CellsNoted
  <2>4. Cells(x, r) = Cells(t, r)
    BY <1>4, <2>1, SameCells DEF Feeds
  <2>5. Cells(t', r) = Cells(x, r)
    BY <1>6 DEF Cells
  <2> QED BY <1>9, <2>1, <2>2, <2>3, <2>4, <2>5
<1>11. Remembered' /\ CellsNoted' /\ OneCursor'
  BY <1>10 DEF Remembered, CellsNoted, OneCursor
<1>12. invalid' \subseteq AllRows /\ shown' \subseteq AllRows
  BY <1>5, <1>9
<1> QED BY <1>7, <1>8, <1>11, <1>12

LEMMA ScreenInit == Init => ScreenInv
<1> SUFFICES ASSUME Init PROVE ScreenInv
  OBVIOUS
<1>0. kMaxRows \in Nat \ {0} /\ kMaxCols \in Nat \ {0} /\ MaxParams \in Nat \ {0}
  BY TerminalAssumption
<1>1. PICK size \in Sizes :
        LET fitted == fit_grid(Empty, size)
        IN  /\ open_pty
            /\ told = set_shell_size(<<0, 0>>, fitted)
            /\ t = Untouched(IF watched THEN fitted ELSE CouldNotStart(fitted))
            /\ lost = FALSE
            /\ cursorShown = TRUE
            /\ focused \in BOOLEAN
            /\ paintedCursorRow = 0
            /\ reading = FALSE
            /\ invalid = AllRows
            /\ shown = {}
            /\ cursors = [r \in AllRows |-> <<>>]
  BY DEF Init
<1>2. PICK fitted : fitted = fit_grid(Empty, size)
  OBVIOUS
<1>3. Good(fitted)
  <2>1. /\ Empty \in Terminals /\ Empty.cursorRow = 0 /\ Empty.params = <<>>
    <3>1. PICK none \in Seq(Int) : none = <<>> /\ Len(none) = 0
      BY NoParams
    <3>2. PICK g : g = [r \in AllRows |-> [c \in AllCols |-> Old]]
      OBVIOUS
    <3>3. g \in [AllRows -> [AllCols -> {Blank, Text, Old}]]
      BY <3>2
    <3>4. PICK d : d = <<0, 0>>
      OBVIOUS
    <3>5. d \in (0 .. kMaxRows) \X (0 .. kMaxRows) /\ 0 \in 0 .. kMaxRows /\ 0 \in 0 .. kMaxCols
      BY <1>0, <3>4
    <3>6. Empty = [grid |-> g, rows |-> 0, cols |-> 0, cursorRow |-> 0, cursorCol |-> 0,
                   state |-> "Ground", params |-> none, dirty |-> d]
      BY <3>1, <3>2, <3>4 DEF Empty
    <3> QED BY <3>1, <3>3, <3>5, <3>6 DEF Terminals
  <2>2. Empty.cursorRow \in AllRows /\ Len(Empty.params) <= MaxParams
    BY <1>0, <2>1, NoParams DEF AllRows
  <2> QED BY <1>2, <2>1, <2>2, FitGood
<1>4. PICK x : x = IF watched THEN fitted ELSE CouldNotStart(fitted)
  OBVIOUS
<1>5. Good(x) /\ x.rows = fitted.rows /\ x.cols = fitted.cols
  <2>1. Feeds(fitted, CouldNotStart(fitted))
    BY <1>3, OwnWordsFeed
  <2> QED BY <1>3, <1>4, <2>1 DEF Feeds, Draws
<1>6. /\ t \in Terminals /\ t.rows = x.rows /\ t.cols = x.cols
      /\ t.cursorRow = x.cursorRow /\ t.cursorCol = x.cursorCol /\ t.params = x.params
  <2>1. PICK d : d = <<0, 0>>
    OBVIOUS
  <2>2. d \in (0 .. kMaxRows) \X (0 .. kMaxRows)
    BY <1>0, <2>1
  <2>3. t = [x EXCEPT !.dirty = d]
    BY <1>1, <1>2, <1>4, <2>1 DEF Untouched
  <2> QED BY <1>5, <2>2, <2>3 DEF Good, Terminals
<1>7. Good(t)
  BY <1>5, <1>6 DEF Good, InGrid
<1>8. WindowOK
  <2>1. {master, watched, cursorShown, focused, reading} \subseteq BOOLEAN /\ shell \in {"running", "none"}
    BY <1>1 DEF open_pty
  <2>2. told = IF master THEN <<t.rows, t.cols>> ELSE <<0, 0>>
    BY <1>1, <1>2, <1>5, <1>6 DEF set_shell_size
  <2>3. 0 \in AllRows
    BY <1>0 DEF AllRows
  <2> QED BY <1>1, <2>1, <2>2, <2>3 DEF WindowOK
<1>9. Remembered /\ CellsNoted /\ OneCursor
  BY <1>1 DEF Remembered, CellsNoted, OneCursor
<1> QED BY <1>7, <1>8, <1>9 DEF ScreenInv

\* What a step leaves of the grid.
Keeps ==
    Clean(t) => Clean(t') \/ (t'.cols > t.cols /\ t.cursorRow >= t'.rows)

\* A handler that ends with flush().
LEMMA FlushStep ==
    ASSUME ScreenInv, ~lost, NEW s, Feeds(t, s), s.cursorRow \in Rows(s.dirty),
           flush(s), UNCHANGED <<master, paintedCursorRow, shell, told, lost>>,
           watched' \in BOOLEAN, cursorShown' \in BOOLEAN, focused' \in BOOLEAN, reading' \in BOOLEAN
    PROVE  ScreenInv' /\ Keeps
<1>1. /\ Good(t) /\ paintedCursorRow \in AllRows /\ invalid \subseteq AllRows /\ shown \subseteq AllRows
      /\ Remembered /\ CellsNoted
  BY DEF ScreenInv, WindowOK
<1>2. /\ Good(t)' /\ t'.rows = t.rows /\ t'.cols = t.cols /\ t'.params = s.params
      /\ Clean(t) => Clean(t')
      /\ Remembered' /\ CellsNoted' /\ OneCursor'
      /\ invalid' \subseteq AllRows /\ shown' \subseteq AllRows
  BY <1>1, FlushShows
<1>4. WindowOK'
  BY <1>2 DEF ScreenInv, WindowOK
<1> QED BY <1>2, <1>4 DEF ScreenInv, Keeps

LEMMA ScreenNext ==
    ASSUME ScreenInv, [Next]_vars
    PROVE  ScreenInv' /\ Keeps
<1>g. Good(t) /\ WindowOK /\ Remembered /\ CellsNoted /\ OneCursor
  BY DEF ScreenInv
<1>t. \A s : Turns(t, s) => Feeds(t, s)
  BY DEF Turns, Feeds
<1>1. CASE OnSize /\ ~lost /\ UNCHANGED lost
  <2>1. PICK size \in Sizes : t' = fit_grid(t, size)
    BY <1>1 DEF OnSize
  <2>2. t \in Terminals /\ t.cursorRow \in AllRows /\ t.cursorRow < t.rows /\ Len(t.params) <= MaxParams
    <3>1. t \in Terminals /\ t.cursorRow < t.rows /\ Len(t.params) <= MaxParams
      BY <1>g DEF Good, InGrid
    <3>2. t.cursorRow \in AllRows
      BY <1>g, TouchCursorTurns
    <3> QED BY <3>1, <3>2
  <2>3. Good(fit_grid(t, size)) /\ fit_grid(t, size).params = t.params
        /\ (Clean(t) => \/ Clean(fit_grid(t, size))
                        \/ /\ fit_grid(t, size).cols > t.cols
                           /\ t.cursorRow >= fit_grid(t, size).rows)
    BY <2>2, FitGood
  <2>4. Good(t)' /\ t'.params = t.params /\ Keeps
    BY <2>1, <2>3 DEF Keeps
  <2>5. /\ invalid' = AllRows /\ shown' \subseteq AllRows
        /\ told' = IF master THEN <<t'.rows, t'.cols>> ELSE told
        /\ UNCHANGED <<windowVars, reading, shell>>
    BY <1>1, <1>g DEF OnSize, Invalidate, set_shell_size, WindowOK
  <2>6. WindowOK'
    BY <1>1, <1>g, <2>4, <2>5 DEF WindowOK, windowVars
  <2>7. Remembered' /\ CellsNoted' /\ OneCursor'
    BY <2>5 DEF Remembered, CellsNoted, OneCursor
  <2> QED BY <2>4, <2>6, <2>7 DEF ScreenInv
<1>2. CASE OnPaint /\ ~lost /\ UNCHANGED lost
  <2>1. /\ ~reading /\ shown' = shown \cup invalid /\ invalid' = {}
        /\ cursors' = [r \in AllRows |-> IF r \in invalid THEN CursorIn(r) ELSE cursors[r]]
        /\ paintedCursorRow' = t.cursorRow
        /\ UNCHANGED <<t, master, watched, cursorShown, focused, reading, shell, told>>
    BY <1>2 DEF OnPaint
  <2>2. t.cursorRow \in AllRows
    BY <1>g, TouchCursorTurns
  <2>3. Good(t)' /\ Keeps
    BY <1>g, <2>1 DEF Keeps
  <2>4. WindowOK'
    BY <1>2, <1>g, <2>1, <2>2 DEF WindowOK
  <2>5. ASSUME NEW r \in AllRows
        PROVE  /\ r # t.cursorRow => cursors'[r] = <<>>
               /\ r = t.cursorRow => r \in Rows(t.dirty) \/ cursors'[r] = CursorIn(r)
               /\ r \in shown' \/ r \in Rows(t.dirty)
    <3>1. CASE r \in invalid
      BY <2>1, <3>1 DEF CursorIn
    <3>2. CASE r \notin invalid
      BY <1>g, <2>1, <3>2 DEF OneCursor, CellsNoted
    <3> QED BY <3>1, <3>2
  <2>6. \A r \in AllRows : CursorIn(r)' = CursorIn(r)
    BY <2>1 DEF CursorIn
  <2>7. Remembered' /\ CellsNoted' /\ OneCursor'
    BY <2>1, <2>5, <2>6 DEF Remembered, CellsNoted, OneCursor
  <2> QED BY <2>3, <2>4, <2>7 DEF ScreenInv
<1>3. CASE OnKeyDown /\ ~lost /\ UNCHANGED lost
  <2>1. /\ ~reading /\ cursorShown' = TRUE /\ t' = touch_cursor(t) /\ Invalidate({})
        /\ UNCHANGED <<master, watched, focused, paintedCursorRow, reading, shell, told>>
    <3>1. restart_blink(t) = touch_cursor(t)
      BY <1>g, TouchCursorTurns
    <3> QED BY <1>3, <3>1 DEF OnKeyDown
  <2>2. /\ Turns(t, t') /\ t'.cursorRow = t.cursorRow /\ t.cursorRow \in Rows(t'.dirty)
    BY <1>g, <2>1, TouchCursorTurns
  <2>3. /\ invalid' = invalid
        /\ shown' = {r \in shown : Cells(t', r) = Cells(t, r)}
        /\ \A r \in AllRows : cursors'[r] = cursors[r]
    BY <2>1 DEF Invalidate
  <2>4. Good(t)' /\ Keeps /\ t'.params = t.params /\ t'.rows = t.rows /\ t'.cols = t.cols
        /\ Rows(t.dirty) \subseteq Rows(t'.dirty)
    BY <2>2 DEF Turns, Draws, Keeps
  <2>5. WindowOK'
    BY <1>3, <1>g, <2>1, <2>3, <2>4 DEF WindowOK
  <2>6. CellsNoted'
    <3> SUFFICES ASSUME NEW r \in AllRows \ invalid, r \notin Rows(t'.dirty) PROVE r \in shown'
      BY <2>3 DEF CellsNoted
    <3>1. r \in shown
      BY <1>g, <2>4 DEF CellsNoted
    <3>2. Cells(t', r) = Cells(t, r)
      BY <1>g, <2>2, SameCells DEF Turns
    <3> QED BY <2>3, <3>1, <3>2
  <2>7. Remembered'
    BY <1>g, <2>1, <2>3 DEF Remembered
  <2>8. OneCursor'
    BY <1>g, <2>1, <2>2, <2>3 DEF OneCursor
  <2> QED BY <2>4, <2>5, <2>6, <2>7, <2>8 DEF ScreenInv
<1>4. CASE (OnTimer \/ OnFocus) /\ ~lost /\ UNCHANGED lost
  <2>1. PICK s : s = touch_cursor(t)
    OBVIOUS
  <2>2. /\ Turns(t, s) /\ s.cursorRow \in Rows(s.dirty) /\ restart_blink(t) = s
    BY <1>g, <2>1, TouchCursorTurns
  <2>3. /\ flush(s) /\ UNCHANGED <<master, watched, paintedCursorRow, reading, shell, told>>
        /\ cursorShown' \in BOOLEAN /\ focused' \in BOOLEAN
    <3>1. CASE OnTimer
      BY <1>g, <2>1, <3>1 DEF OnTimer, WindowOK
    <3>2. CASE OnFocus
      BY <1>g, <2>2, <3>2 DEF OnFocus, WindowOK
    <3> QED BY <1>4, <3>1, <3>2
  <2>4. watched' \in BOOLEAN /\ reading' \in BOOLEAN
    BY <1>g, <2>3 DEF WindowOK
  <2> QED BY <1>4, <1>t, <2>2, <2>3, <2>4, FlushStep
<1>5. CASE Feed /\ ~lost
  <2>0. PICK x \in {parser_feed(t, ch) : ch \in Bytes} :
             \/ x.cursorRow < x.rows /\ t' = x /\ lost' = FALSE
             \/ x.cursorRow >= x.rows /\ t' = t /\ lost' = TRUE
    BY <1>5 DEF Feed
  <2>1. Feeds(t, x) \/ Leaves(t, x)
    BY <1>g, ParserFeeds
  <2>2. /\ Feeds(t, t') /\ lost' \in BOOLEAN
        /\ lost' => \E i \in DOMAIN t'.params : t'.params[i] < 0
    <3>1. CASE x.cursorRow < x.rows /\ t' = x /\ lost' = FALSE
      <4>1. CASE Feeds(t, x)
        BY <3>1, <4>1
      <4>2. CASE Leaves(t, x)
        BY <3>1, <4>2 DEF Leaves
      <4> QED BY <2>1, <4>1, <4>2
    <3>2. CASE x.cursorRow >= x.rows /\ t' = t /\ lost' = TRUE
      <4>1. ~Good(x)
        BY <3>2, GoodNumbers
      <4>2. Leaves(t, x)
        BY <2>1, <4>1 DEF Feeds
      <4>3. Feeds(t, t)
        BY <1>g, <1>t, CursorMoves
      <4> QED BY <3>2, <4>2, <4>3 DEF Leaves
    <3> QED BY <2>0, <3>1, <3>2
  <2>3. /\ reading' = TRUE /\ Invalidate({})
        /\ UNCHANGED <<master, watched, cursorShown, focused, paintedCursorRow, shell, told>>
    BY <1>5 DEF Feed, windowVars
  <2>4. /\ invalid' = invalid
        /\ shown' = {r \in shown : Cells(t', r) = Cells(t, r)}
        /\ \A r \in AllRows : cursors'[r] = cursors[r]
    BY <2>3 DEF Invalidate
  <2>5. /\ Good(t)' /\ Keeps /\ t'.rows = t.rows /\ t'.cols = t.cols
        /\ Rows(t.dirty) \subseteq Rows(t'.dirty)
    BY <2>2 DEF Feeds, Draws, Keeps
  <2>6. WindowOK'
    BY <1>g, <2>2, <2>3, <2>4, <2>5 DEF WindowOK
  <2>7. CellsNoted'
    <3> SUFFICES ASSUME NEW r \in AllRows \ invalid, r \notin Rows(t'.dirty) PROVE r \in shown'
      BY <2>4 DEF CellsNoted
    <3>1. r \in shown
      BY <1>g, <2>5 DEF CellsNoted
    <3>2. Cells(t', r) = Cells(t, r)
      BY <1>g, <2>2, SameCells DEF Feeds
    <3> QED BY <2>4, <3>1, <3>2
  <2>8. Remembered' /\ OneCursor'
    BY <1>g, <2>3, <2>4 DEF Remembered, OneCursor
  <2> QED BY <2>5, <2>6, <2>7, <2>8 DEF ScreenInv
<1>6. CASE OnReadable /\ ~lost /\ UNCHANGED lost
  <2>1. PICK s : s = restart_blink(t)
    OBVIOUS
  <2>2. /\ Turns(t, s) /\ s.cursorRow \in Rows(s.dirty)
    BY <1>g, <2>1, TouchCursorTurns
  <2>3. /\ flush(s) /\ UNCHANGED <<master, watched, focused, paintedCursorRow, shell, told>>
        /\ cursorShown' \in BOOLEAN /\ reading' \in BOOLEAN
    BY <1>6, <2>1 DEF OnReadable
  <2>4. watched' \in BOOLEAN /\ focused' \in BOOLEAN
    BY <1>g, <2>3 DEF WindowOK
  <2> QED BY <1>6, <1>t, <2>2, <2>3, <2>4, FlushStep
<1>7. CASE OnEnd /\ ~lost /\ UNCHANGED lost
  <2>1. PICK x, s : x = ShellExited(t) /\ s = restart_blink(x)
    OBVIOUS
  <2>2. Feeds(t, x) /\ Good(x)
    BY <1>g, <2>1, OwnWordsFeed DEF Feeds
  <2>3. Turns(x, s) /\ s.cursorRow \in Rows(s.dirty)
    BY <2>1, <2>2, TouchCursorTurns
  <2>4. Feeds(t, s)
    <3>1. Feeds(x, s)
      BY <2>3 DEF Turns, Feeds
    <3> QED BY <1>g, <2>2, <3>1, FeedsOn
  <2>5. flush(s)
    <3>1. Then(ShellExited(t), restart_blink) = s
      BY <2>1 DEF Then
    <3> QED BY <1>7, <3>1 DEF OnEnd
  <2>6. /\ UNCHANGED <<master, focused, paintedCursorRow, reading, shell, told>>
        /\ watched' \in BOOLEAN /\ cursorShown' \in BOOLEAN
    BY <1>7 DEF OnEnd
  <2>7. focused' \in BOOLEAN /\ reading' \in BOOLEAN
    BY <1>g, <2>6 DEF WindowOK
  <2> QED BY <1>7, <2>3, <2>4, <2>5, <2>6, <2>7, FlushStep
<1>8. CASE ShellExits /\ ~lost /\ UNCHANGED lost
  <2>1. /\ shell' = "exited"
        /\ UNCHANGED <<t, master, watched, cursorShown, focused, paintedCursorRow, reading, told,
                       invalid, shown, cursors>>
    BY <1>8 DEF ShellExits, windowVars, paintVars
  <2>2. Good(t)' /\ WindowOK' /\ Keeps
    BY <1>8, <1>g, <2>1 DEF WindowOK, Keeps
  <2>3. Remembered' /\ CellsNoted' /\ OneCursor'
    BY <1>g, <2>1 DEF Remembered, CellsNoted, OneCursor, CursorIn
  <2> QED BY <2>2, <2>3 DEF ScreenInv
<1>9. CASE UNCHANGED vars
  <2>1. UNCHANGED <<t, master, watched, cursorShown, focused, paintedCursorRow, reading, shell, told, lost,
                    invalid, shown, cursors>>
    BY <1>9 DEF vars, windowVars, paintVars
  <2>2. Good(t)' /\ WindowOK' /\ Keeps
    BY <1>g, <2>1 DEF WindowOK, Keeps
  <2>3. Remembered' /\ CellsNoted' /\ OneCursor'
    BY <1>g, <2>1 DEF Remembered, CellsNoted, OneCursor, CursorIn
  <2> QED BY <2>2, <2>3 DEF ScreenInv
<1> QED
  BY <1>1, <1>2, <1>3, <1>4, <1>5, <1>6, <1>7, <1>8, <1>9 DEF Next, Handlers

\* flush() and TerminalWindow's handlers, for grids of any size, any bytes and
\* any order of the handlers: between two of them every row is on screen as it
\* should be, with the cursor once and in its place, or is going to be painted;
\* and only a parameter that wrapped around takes the cursor's row out of the
\* grid, where the model ends.
THEOREM RowsAreShown == Spec => []RowsShown
<1>1. ScreenInv /\ [Next]_vars => ScreenInv'
  BY ScreenNext
<1>2. ScreenInv => RowsShown
  BY ScreenInvShows
<1> QED BY <1>1, <1>2, ScreenInit, PTL DEF Spec

\* The cells that hold what was there before are those LeftOver names.
LEMMA CleanIsNoLeftOver ==
    ASSUME NEW s, Good(s)
    PROVE  Clean(s) <=> LeftOver(s) = {}
<1>1. ASSUME Clean(s), NEW cell \in LeftOver(s) PROVE FALSE
  <2>1. PICK r \in 0 .. s.rows - 1, c \in 0 .. s.cols - 1 : cell = <<r, c>>
    BY <1>1 DEF LeftOver
  <2> QED BY <1>1, <2>1 DEF LeftOver, Clean
<1>2. ASSUME LeftOver(s) = {}, NEW r \in 0 .. s.rows - 1, NEW c \in 0 .. s.cols - 1 PROVE s.grid[r][c] # Old
  <2>1. PICK cell : cell = <<r, c>>
    OBVIOUS
  <2>2. cell \in (0 .. s.rows - 1) \X (0 .. s.cols - 1) /\ cell[1] = r /\ cell[2] = c
    BY <2>1
  <2> QED BY <1>2, <2>2 DEF LeftOver
<1> QED BY <1>1, <1>2 DEF Clean

\* main.cpp:295: whatever is scrolled, erased and resized, no cell of an earlier,
\* larger grid comes into view, but for the one case NothingLeftOver excepts.
THEOREM NothingComesBack == Spec => NothingLeftOver
<1>1. ScreenInv /\ [Next]_vars => ScreenInv'
  BY ScreenNext
<1>2. ScreenInv /\ [Next]_vars =>
        [LeftOver(t) = {} /\ LeftOver(t') # {} => t'.cols > t.cols /\ t.cursorRow >= t'.rows]_t
  <2> SUFFICES ASSUME ScreenInv, [Next]_vars, LeftOver(t) = {}, LeftOver(t') # {}
               PROVE  t'.cols > t.cols /\ t.cursorRow >= t'.rows
    OBVIOUS
  <2>1. ScreenInv' /\ Keeps
    BY ScreenNext
  <2>2. Good(t) /\ Good(t')
    BY <2>1 DEF ScreenInv, Good, InGrid
  <2>3. Clean(t) /\ ~Clean(t')
    BY <2>2, CleanIsNoLeftOver
  <2> QED BY <2>1, <2>3 DEF Keeps
<1> QED BY <1>1, <1>2, ScreenInit, PTL DEF Spec, NothingLeftOver
=============================================================================

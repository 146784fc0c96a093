------------------------------- MODULE Terminal -------------------------------
(***************************************************************************)
(* The terminal's window (terminal/src/main.cpp): a grid of cells, the     *)
(* cursor and the parser of escape sequences, fed with what the shell      *)
(* writes, and the rows that have to be painted again. The toolkit calls   *)
(* the handlers one after the other and paints what was invalidated, at    *)
(* any time between two of them (external).                                *)
(*                                                                         *)
(* `t` is the code's Terminal. A byte is a name of what the parser tells   *)
(* apart; a cell is blank or has text, its colours are left out. Cells     *)
(* outside the grid hold whatever was there: Old.                          *)
(*                                                                         *)
(* A parameter has any number of digits and is an int, which wraps around  *)
(* as the machine's does. When a negative one takes the cursor's row out   *)
(* of the grid the code goes on to use it as an index: the model ends.     *)
(***************************************************************************)
EXTENDS Integers, Sequences, FiniteSets

CONSTANTS
    kMaxRows, kMaxCols,
    Tab,            \* columns of a tab stop: 8
    Digit,          \* the value of each digit a parameter may contain
    MaxParams,      \* parameters a sequence may have: 8
    Word,           \* values of an unsigned int: 2^32
    Sizes           \* bound: rows and columns that fit the window

Finals   == {"A", "B", "C", "D", "H", "J", "K", "m", "[", "x"}
Controls == {"esc", "lf", "cr", "bs", "tab", "bel", ";", "?"}
Bytes    == Finals \cup Controls \cup DOMAIN Digit

ASSUME TerminalAssumption ==
    /\ {kMaxRows, kMaxCols, Tab, MaxParams, Word} \subseteq Nat \ {0}
    /\ DOMAIN Digit \cap (Finals \cup Controls) = {}
    /\ \A d \in DOMAIN Digit : Digit[d] \in Nat
    /\ Sizes \subseteq Int \X Int

VARIABLES
    t,
    lost,               \* the cursor's row is not in the grid: the model ends
    \* TerminalWindow
    master,             \* master_ is open
    watched,            \* the toolkit watches it
    cursorShown,
    focused,
    paintedCursorRow,
    reading,            \* inside on_readable's loop
    \* outside
    shell,              \* "running", "exited", or "none" was started
    told,               \* rows and columns the PTY was told
    invalid,            \* rows the toolkit is to paint
    shown,              \* rows whose cells are on screen as they are in the grid
    cursors             \* the cursor, if any, each row shows on screen

windowVars == <<master, watched, cursorShown, focused, paintedCursorRow>>
paintVars  == <<invalid, shown, cursors>>
vars == <<t, lost, windowVars, reading, shell, told, paintVars>>

AllRows == 0 .. kMaxRows - 1
AllCols == 0 .. kMaxCols - 1
Blank   == "blank"
Text    == "text"
Old     == "old"

Least(a, b)    == IF a < b THEN a ELSE b
Greatest(a, b) == IF a > b THEN a ELSE b

\* The arithmetic of unsigned int and of int.
Unsigned(n) == n % Word
Signed(n)   == IF 2 * n >= Word THEN n - Word ELSE n

\* Step(), done to what s is by then.
Then(s, Step(_)) == CHOOSE r \in {Step(x) : x \in {s}} : TRUE

-----------------------------------------------------------------------------
(* The grid.                                                               *)

\* The range of rows <<first, behind the last>> that changed, widened.
Widened(dirty, top, bottom) ==
    IF top >= bottom THEN dirty
    ELSE IF dirty[1] >= dirty[2] THEN <<top, bottom>>
    ELSE <<Least(top, dirty[1]), Greatest(bottom, dirty[2])>>

touch_rows(s, top, bottom) == [s EXCEPT !.dirty = Widened(@, top, bottom)]

touch_cursor(s) == touch_rows(s, s.cursorRow, s.cursorRow + 1)

\* Cells of rows top .. bottom - 1, columns from .. to - 1, become blanks.
Cleared(s, top, bottom, from, to) ==
    [s EXCEPT !.grid = [r \in AllRows |-> [c \in AllCols |->
                  IF r >= top /\ r < bottom /\ c >= from /\ c < to THEN Blank ELSE @[r][c]]],
              !.dirty = Widened(@, top, bottom)]

clear_row(s, row, fromCol) == Cleared(s, row, row + 1, fromCol, s.cols)

clear_all(s) == [Cleared(s, 0, s.rows, 0, s.cols) EXCEPT !.cursorRow = 0, !.cursorCol = 0]

\* Rows 0 .. rows - 1 move up by one.
Shifted(s) ==
    [s EXCEPT !.grid = [r \in AllRows |-> [c \in AllCols |->
        IF r + 1 < s.rows /\ c < s.cols THEN @[r + 1][c] ELSE @[r][c]]]]

scroll_up(s) ==
    Then(Shifted(s), LAMBDA x : touch_rows(clear_row(x, x.rows - 1, 0), 0, x.rows))

newline(s) == IF s.cursorRow + 1 >= s.rows THEN scroll_up(s) ELSE [s EXCEPT !.cursorRow = @ + 1]

\* A full row wraps when the next character comes.
Wrapped(s) == IF s.cursorCol < s.cols THEN s ELSE Then([s EXCEPT !.cursorCol = 0], newline)

put_char(s, ch) ==
    Then(Wrapped(s), LAMBDA x :
        touch_cursor([x EXCEPT !.grid[x.cursorRow][x.cursorCol] = ch, !.cursorCol = @ + 1]))

-----------------------------------------------------------------------------
(* The parser.                                                             *)

Param(s, i) == IF i <= Len(s.params) THEN s.params[i] ELSE 0

EraseDisplay(s, a) ==
    CASE a \in {2, 3} -> clear_all(s)
      [] a = 0 -> Then(clear_row(s, s.cursorRow, s.cursorCol), LAMBDA x :
                       Cleared(x, x.cursorRow + 1, x.rows, 0, x.cols))
      [] a = 1 -> Cleared(s, 0, s.cursorRow + 1, 0, s.cols)
      [] OTHER -> s

EraseLine(s, a) ==
    CASE a = 0 -> clear_row(s, s.cursorRow, s.cursorCol)
      [] a = 1 -> Cleared(s, s.cursorRow, s.cursorRow + 1, 0, Least(s.cursorCol + 1, s.cols))
      [] a = 2 -> clear_row(s, s.cursorRow, 0)
      [] OTHER -> s

\* A sequence ends; apply_sgr() only changes the colours of what follows.
handle_csi(s, final) ==
    LET a  == Param(s, 1)
        b  == Param(s, 2)
        by == IF a = 0 THEN 1 ELSE a
    IN  CASE final = "A" -> [s EXCEPT !.cursorRow = Greatest(@ - by, 0)]
          [] final = "B" -> [s EXCEPT !.cursorRow = Least(Unsigned(@ + by), s.rows - 1)]
          [] final = "C" -> [s EXCEPT !.cursorCol = Least(Unsigned(@ + by), s.cols - 1)]
          [] final = "D" -> [s EXCEPT !.cursorCol = IF by <= Signed(@) THEN Unsigned(@ - by) ELSE 0]
          [] final = "H" -> [s EXCEPT !.cursorRow = Least(Greatest(a - 1, 0), s.rows - 1),
                                      !.cursorCol = Least(Greatest(b - 1, 0), s.cols - 1)]
          [] final = "J" -> EraseDisplay(s, a)
          [] final = "K" -> EraseLine(s, a)
          [] OTHER -> s

\* Blanks up to the next tab stop or the end of the row.
TabTo(s) ==
    LET end == Least((s.cursorCol \div Tab + 1) * Tab, s.cols)
    IN  IF s.cursorCol >= end THEN s
        ELSE [Cleared(s, s.cursorRow, s.cursorRow + 1, s.cursorCol, end) EXCEPT !.cursorCol = end]

Ground(s, ch) ==
    CASE ch = "esc" -> [s EXCEPT !.state = "Escape"]
      [] ch = "lf"  -> newline(s)
      [] ch = "cr"  -> [s EXCEPT !.cursorCol = 0]
      [] ch = "bs"  -> [s EXCEPT !.cursorCol = Greatest(@ - 1, 0)]
      [] ch = "tab" -> TabTo(s)
      [] ch = "bel" -> s
      [] OTHER      -> put_char(s, Text)

\* The last parameter with one more digit, and what an int makes of it.
Number(s, ch) ==
    (IF s.params = <<>> THEN 0 ELSE s.params[Len(s.params)]) * 10 + Digit[ch]

Wrap(n) == Signed(Unsigned(n))

CSI(s, ch) ==
    LET n == Len(s.params)
    IN  CASE ch \in DOMAIN Digit ->
                IF n = 0 THEN [s EXCEPT !.params = <<Wrap(Number(s, ch))>>]
                         ELSE [s EXCEPT !.params[n] = Wrap(Number(s, ch))]
          [] ch = ";" -> IF n < MaxParams THEN [s EXCEPT !.params = Append(@, 0)]
                                          ELSE [s EXCEPT !.params[n] = 0]
          [] ch = "?" -> s
          [] ch \in Finals -> [handle_csi(s, ch) EXCEPT !.state = "Ground", !.params = <<>>]
          [] OTHER -> [s EXCEPT !.state = "Ground", !.params = <<>>]

parser_feed(s, ch) ==
    CASE s.state = "Ground" -> Ground(s, ch)
      [] s.state = "Escape" -> [s EXCEPT !.state = IF ch = "[" THEN "CSI" ELSE "Ground"]
      [] s.state = "CSI"    -> CSI(s, ch)

\* feed_bytes() of what the terminal itself says: text before or after a new line.
CouldNotStart(s) ==
    Then(parser_feed(s, "x"), LAMBDA x : Then(parser_feed(x, "cr"), LAMBDA y : parser_feed(y, "lf")))

ShellExited(s) ==
    Then(parser_feed(s, "cr"), LAMBDA x : Then(parser_feed(x, "lf"), LAMBDA y : parser_feed(y, "x")))

-----------------------------------------------------------------------------
(* The size.                                                               *)

\* Mutant: only new rows are blanked.
BlankNewRows(s, newRows, newCols) ==
    [s EXCEPT !.grid = [r \in AllRows |-> [c \in AllCols |->
        IF r >= s.rows /\ r < newRows /\ c < newCols THEN Blank ELSE @[r][c]]]]

\* Cells that come into view are blanked.
BlankNew(s, newRows, newCols) ==
    [s EXCEPT !.grid = [r \in AllRows |-> [c \in AllCols |->
        IF r < newRows /\ c < newCols /\ (r < s.rows => c >= s.cols) THEN Blank ELSE @[r][c]]]]

\* Rows are scrolled out until the cursor's is the last of newRows.
ScrollIn(s, newRows) ==
    LET by == s.cursorRow - newRows + 1
    IN  IF by <= 0 THEN s
        ELSE [s EXCEPT !.grid = [r \in AllRows |-> [c \in AllCols |->
                           IF r < newRows /\ c < s.cols THEN @[r + by][c] ELSE @[r][c]]],
                       !.cursorRow = newRows - 1,
                       !.dirty = Widened(@, 0, s.cursorRow + 1)]

\* What is outside the grid from now on is only ever seen by mistake.
Resized(s, newRows) ==
    [s EXCEPT !.rows = newRows,
              !.cursorCol = Least(@, s.cols),
              !.dirty = Widened(@, 0, newRows),
              !.grid = [r \in AllRows |-> [c \in AllCols |->
                  IF r < newRows /\ c < s.cols THEN @[r][c] ELSE Old]]]

Fits(n, limit) == IF n < 1 THEN 1 ELSE Least(n, limit)

fit_grid(s, size) ==
    LET newRows == Fits(size[1], kMaxRows)
        newCols == Fits(size[2], kMaxCols)
    IN  Then([BlankNew(s, newRows, newCols) EXCEPT !.cols = newCols], LAMBDA x :
        Then(ScrollIn(x, newRows), LAMBDA y : Resized(y, newRows)))

-----------------------------------------------------------------------------
(* The window.                                                             *)

Rows(range) == {r \in AllRows : r >= range[1] /\ r < range[2]}

\* The cells of a row as on_paint() paints them; the rest is background.
Cells(s, r) == [c \in AllCols |-> IF r < s.rows /\ c < s.cols THEN s.grid[r][c] ELSE Blank]

\* The cursor as on_paint() paints it in a row.
CursorIn(r) ==
    IF r # t.cursorRow \/ (focused /\ ~cursorShown) THEN <<>>
    ELSE <<t.cursorCol, IF focused THEN "block" ELSE "frame">>

\* invalidate() (external): what these rows show does not matter any more.
Invalidate(rows) ==
    /\ invalid' = invalid \cup rows
    /\ shown' = {r \in shown \ rows : Cells(t', r) = Cells(t, r)}
    /\ cursors' = [r \in AllRows |-> IF r \in rows THEN <<>> ELSE cursors[r]]

Untouched(s) == [s EXCEPT !.dirty = <<0, 0>>]

\* Mutant: the cursor's old row is not painted.
FlushNewOnly(s) ==
    \E x \in {s} : t' = Untouched(x) /\ Invalidate(Rows(x.dirty))

\* flush(): the rows that changed, and the cursor's old one.
flush(s) ==
    \E x \in {touch_rows(s, paintedCursorRow, paintedCursorRow + 1)} :
        t' = Untouched(x) /\ Invalidate(Rows(x.dirty))

\* restart_blink(): the cursor is shown; the timer starts anew.
restart_blink(s) == touch_cursor(s)

Empty ==
    [grid |-> [r \in AllRows |-> [c \in AllCols |-> Old]], rows |-> 0, cols |-> 0,
     cursorRow |-> 0, cursorCol |-> 0, state |-> "Ground", params |-> <<>>,
     dirty |-> <<0, 0>>]

\* open_pty(): the master is open and the shell runs, or one of the steps failed.
open_pty ==
    \/ shell = "running" /\ master = TRUE /\ watched = TRUE
    \/ shell = "none" /\ master \in BOOLEAN /\ watched = FALSE

\* set_shell_size(), once the master is open.
set_shell_size(old, new) == IF master THEN <<new.rows, new.cols>> ELSE old

\* on_create(); nothing is painted yet.
Init ==
    \E size \in Sizes :
        LET fitted == fit_grid(Empty, size)
        IN  /\ open_pty
            /\ told = set_shell_size(<<0, 0>>, fitted)
            /\ t = Untouched(IF watched THEN fitted ELSE CouldNotStart(fitted))
            /\ lost = FALSE
            /\ cursorShown = TRUE
            /\ focused \in BOOLEAN
            /\ paintedCursorRow = 0
            /\ reading = FALSE
            /\ invalid = AllRows
            /\ shown = {}
            /\ cursors = [r \in AllRows |-> <<>>]

\* on_size(); the toolkit paints a window of a new size whole (external).
OnSize ==
    /\ ~reading
    /\ \E size \in Sizes : t' = fit_grid(t, size)
    /\ told' = set_shell_size(told, t')
    /\ Invalidate(AllRows)
    /\ UNCHANGED <<windowVars, reading, shell>>

\* on_paint() of what was invalidated.
OnPaint ==
    /\ ~reading
    /\ invalid # {}
    /\ shown' = shown \cup invalid
    /\ cursors' = [r \in AllRows |-> IF r \in invalid THEN CursorIn(r) ELSE cursors[r]]
    /\ paintedCursorRow' = t.cursorRow
    /\ invalid' = {}
    /\ UNCHANGED <<t, master, watched, cursorShown, focused, reading, shell, told>>

\* translate_key(): how many bytes a key sends. Alone a modifier sends none.
translate_key(key) == CASE key = "modifier" -> 0 [] key = "character" -> 1 [] key = "arrow" -> 3

\* on_key_down(): what the key sends goes to the shell; nothing is painted yet.
OnKeyDown ==
    /\ ~reading
    /\ \E key \in {"modifier", "character", "arrow"} : translate_key(key) > 0 /\ master
    /\ cursorShown' = TRUE
    /\ t' = restart_blink(t)
    /\ Invalidate({})
    /\ UNCHANGED <<master, watched, focused, paintedCursorRow, reading, shell, told>>

OnTimer ==
    /\ ~reading
    /\ cursorShown' = ~cursorShown
    /\ flush(touch_cursor(t))
    /\ UNCHANGED <<master, watched, focused, paintedCursorRow, reading, shell, told>>

OnFocus ==
    /\ ~reading
    /\ focused' = ~focused
    /\ cursorShown' = TRUE
    /\ flush(restart_blink(t))
    /\ UNCHANGED <<master, watched, paintedCursorRow, reading, shell, told>>

\* A byte the shell wrote, perhaps before it exited, is read and fed to the parser. The loop of
\* on_readable() reads on until there is nothing or it read often enough.
Feed ==
    /\ watched
    /\ reading' = TRUE
    /\ \E x \in {parser_feed(t, ch) : ch \in Bytes} :
          \/ x.cursorRow < x.rows /\ t' = x /\ lost' = FALSE
          \/ x.cursorRow >= x.rows /\ t' = t /\ lost' = TRUE
    /\ Invalidate({})
    /\ UNCHANGED <<windowVars, shell, told>>

\* ... and ends: the rest, and the end of the shell, are for the next call.
OnReadable ==
    /\ reading
    /\ reading' = FALSE
    /\ cursorShown' = TRUE
    /\ flush(restart_blink(t))
    /\ UNCHANGED <<master, watched, focused, paintedCursorRow, shell, told>>

\* on_readable() finds with its first read that the shell is gone.
OnEnd ==
    /\ ~reading
    /\ watched
    /\ shell = "exited"
    /\ watched' = FALSE
    /\ cursorShown' = TRUE
    /\ flush(Then(ShellExited(t), restart_blink))
    /\ UNCHANGED <<master, focused, paintedCursorRow, reading, shell, told>>

\* The shell exits (external); some of what it wrote may still have to be read.
ShellExits ==
    /\ shell = "running"
    /\ shell' = "exited"
    /\ UNCHANGED <<t, windowVars, reading, told, paintVars>>

Handlers ==
    \/ OnSize \/ OnPaint \/ OnKeyDown \/ OnTimer \/ OnFocus
    \/ OnReadable \/ OnEnd
    \/ ShellExits

Next ==
    /\ ~lost
    /\ \/ Feed
       \/ Handlers /\ UNCHANGED lost

Spec == Init /\ [][Next]_vars

-----------------------------------------------------------------------------
\* Every variable has the values the code's declarations allow and an open PTY was
\* told the size. The cursor's row is in the grid; only a parameter too large for
\* an int, and negative for that, takes it out.
TypeOK ==
    /\ t.rows \in 1 .. kMaxRows
    /\ t.cols \in 1 .. kMaxCols
    /\ t.cursorRow \in 0 .. t.rows - 1
    /\ t.cursorCol \in Nat
    /\ t.grid \in [AllRows -> [AllCols -> {Blank, Text, Old}]]
    /\ t.state \in {"Ground", "Escape", "CSI"}
    /\ Len(t.params) <= MaxParams /\ \A i \in DOMAIN t.params : t.params[i] \in Int
    /\ lost \in BOOLEAN
    /\ lost => \E i \in DOMAIN t.params : t.params[i] < 0
    /\ t.dirty \in (0 .. kMaxRows) \X (0 .. kMaxRows)
    /\ {master, watched, cursorShown, focused, reading} \subseteq BOOLEAN
    /\ paintedCursorRow \in AllRows
    /\ shell \in {"running", "exited", "none"}
    /\ told = IF master THEN <<t.rows, t.cols>> ELSE <<0, 0>>
    /\ invalid \subseteq AllRows /\ shown \subseteq AllRows

\* The cells in view that hold what an earlier, larger grid left, or nothing yet.
LeftOver(s) == {cell \in (0 .. s.rows - 1) \X (0 .. s.cols - 1) : s.grid[cell[1]][cell[2]] = Old}

\* main.cpp:295: "Cells that come into view for the first time start blank", and
\* so do those that were in view before: nothing of an earlier, larger grid comes
\* back, whatever the window's sizes and what is scrolled and erased in between.
\* (But it does when the window becomes wider and too short for the cursor at
\* once: the rows fit_grid() then scrolls into view were not blanked.)
NothingLeftOver ==
    [][LeftOver(t) = {} /\ LeftOver(t') # {} => t'.cols > t.cols /\ t.cursorRow >= t'.rows]_t

\* Between two handlers every row looks as it should or is going to be painted:
\* no text is left on screen after a scroll, an erasure or a new size, and no
\* second cursor where the first one was. (Nothing is said of a terminal whose
\* cursor a parameter that wrapped around took out of the grid, main.cpp:180.)
RowsShown ==
    /\ TypeOK
    /\ ~reading => \A r \in AllRows \ (invalid \cup Rows(t.dirty)) :
                       r \in shown /\ cursors[r] = CursorIn(r)
=============================================================================

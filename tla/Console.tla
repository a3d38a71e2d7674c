------------------------------ MODULE Console --------------------------------
(***************************************************************************)
(* The text console, src/framebuffer/console.c.  The screen is a grid of   *)
(* cells; a cell shows a character, nothing (Blank) or the cursor's block. *)
(* Drawing the cursor and clearing it both overwrite the cell.  Characters *)
(* are written by tty_write, in a system call, and by the echo of          *)
(* tty_input_push, in an interrupt: interrupts are off in both.            *)
(*                                                                         *)
(* cell has a row more than the screen, the memory behind the back buffer: *)
(* a character that wraps on the last row is drawn there before the screen *)
(* is scrolled, and the scroll does not bring it up.                       *)
(***************************************************************************)
EXTENDS Integers

CONSTANTS
  console_cols, console_rows,
  Glyph,      \* printable characters
  Blank

ASSUME ConsoleAssumption ==
  console_cols \in Nat \ {0, 1} /\ console_rows \in Nat \ {0}
    /\ Blank \notin Glyph /\ Glyph \cap {"NL", "CR", "BS"} = {}

VARIABLES
  cursor_x, cursor_y, cursor_visible,
  cell,       \* what the screen shows, by row and column
  returned    \* history: a carriage return has been written

consoleVars == <<cursor_x, cursor_y, cursor_visible, cell, returned>>

Row    == 0 .. console_rows - 1
Col    == 0 .. console_cols - 1
Cursor == "cursor"

console_init ==
  /\ cursor_x = 0 /\ cursor_y = 0 /\ cursor_visible = FALSE
  /\ cell = [y \in Row \cup {console_rows} |-> [x \in Col |-> Blank]]
  /\ returned = FALSE

\* fb_draw_char and fb_fill_rect on one cell.
Drawn(c, x, y, glyph) == [c EXCEPT ![y][x] = glyph]

\* A mutant of console_scroll: the row that comes in is not cleared.
console_scroll_uncleared(c) ==
  [y \in DOMAIN c |-> IF y < console_rows - 1 THEN c[y + 1] ELSE c[y]]

console_scroll(c) ==
  [y \in DOMAIN c |-> IF y < console_rows - 1 THEN c[y + 1]
                      ELSE IF y = console_rows - 1 THEN [x \in Col |-> Blank]
                      ELSE c[y]]

\* Where each kind of character leaves the cursor, before the scroll.
Moved(c) ==
  CASE c = "NL" -> [x |-> 0, y |-> cursor_y + 1]
    [] c = "CR" -> [x |-> 0, y |-> cursor_y]
    [] c = "BS" /\ cursor_x > 0 -> [x |-> cursor_x - 1, y |-> cursor_y]
    [] c = "BS" /\ cursor_x = 0 /\ cursor_y > 0 ->
         [x |-> console_cols - 1, y |-> cursor_y - 1]
    [] c \in Glyph /\ cursor_x < console_cols - 1 -> [x |-> cursor_x + 1, y |-> cursor_y]
    [] c \in Glyph /\ cursor_x >= console_cols - 1 -> [x |-> 1, y |-> cursor_y + 1]
    [] OTHER -> [x |-> cursor_x, y |-> cursor_y]

\* What it draws: a glyph in the cell the cursor steps over, a blank in the one
\* that a backspace steps back to.
Written(k, c, to) ==
  CASE c \in Glyph -> Drawn(k, to.x - 1, to.y, c)
    [] c = "BS"    -> Drawn(k, to.x, to.y, Blank)
    [] OTHER       -> k

console_putchar(c) ==
  LET to      == Moved(c)
      cleared == Drawn(cell, cursor_x, cursor_y, Blank)
      written == Written(cleared, c, to)
      scrolls == to.y >= console_rows
      y       == IF scrolls THEN console_rows - 1 ELSE to.y
  IN  /\ cursor_x' = to.x
      /\ cursor_y' = y
      /\ cell' = Drawn(IF scrolls THEN console_scroll(written) ELSE written, to.x, y, Cursor)
      /\ cursor_visible' = TRUE
      /\ returned' = (returned \/ c = "CR")

console_toggle_cursor ==
  /\ cursor_visible' = ~cursor_visible
  /\ cell' = Drawn(cell, cursor_x, cursor_y, IF cursor_visible THEN Blank ELSE Cursor)
  /\ UNCHANGED <<cursor_x, cursor_y, returned>>

ConsoleNext ==
  \/ \E c \in Glyph \cup {"NL", "CR", "BS"} : console_putchar(c)
  \/ console_toggle_cursor

ConsoleSpec == console_init /\ [][ConsoleNext]_consoleVars

-----------------------------------------------------------------------------
\* Nothing is written at or behind the cursor, so the cursor's block, which
\* overwrites its cell and is cleared to a blank, never destroys text, and the
\* next line always starts on an empty row, through wraps, scrolls and erasing
\* back over the start of a row.  Only a carriage return, which goes back over
\* text, ends this.
NothingBehindCursor ==
  ~returned =>
    \A y \in Row, x \in Col :
      y > cursor_y \/ (y = cursor_y /\ x >= cursor_x)
        => cell[y][x] = IF cursor_visible /\ x = cursor_x /\ y = cursor_y
                        THEN Cursor ELSE Blank

=============================================================================

------------------------------ MODULE Terminal ------------------------------
(***************************************************************************)
(* The kernel's terminal: putchar of kernel/src/libc.cpp on the VGA text   *)
(* screen, on VGA graphics and on the Bochs adapter, and the simulator's   *)
(* text driver (kernel/src/vga_driver.cpp).  A cell is a character and the *)
(* colour it was written in.                                               *)
(*                                                                         *)
(* sheet, line and column are what the writer has in mind: an endless      *)
(* sheet of lines on which text goes down; first is the line of the sheet  *)
(* in the screen's top row.                                                *)
(***************************************************************************)
EXTENDS Integers, Sequences

CONSTANTS
    Columns,        \* of the text screen, the adapter and the simulator's driver
    GfxColumns,     \* of VGA graphics
    Rows,
    FirstRow,       \* the row the kernel's cursor starts in
    TAB,
    Glyphs, Colors,
    MaxSheet        \* bound on the lines of the sheet

VARIABLES mode, cells, cursor_x, cursor_y, term_color, sheet, line, column, first

terminalVars == <<mode, cells, cursor_x, cursor_y, term_color, sheet, line, column, first>>

Width(m) == IF m = "gfx" THEN GfxColumns ELSE Columns
Cell(c, color) == [char |-> c, color |-> color]
BlankRow(w, color) == [x \in 0..(w - 1) |-> Cell(" ", color)]
BlankScreen(m, color) == [y \in 0..(Rows - 1) |-> BlankRow(Width(m), color)]

\* The lines of the sheet below the last one written are blank in the colour in
\* which they scroll in.
NewSheet(m, color) == [y \in 0..(Rows - 1) |-> BlankRow(Width(m), color)]

\* Start a new sheet whose top row is on the screen, the cursor staying put.
FreshSheet(m, color, x, y) ==
    /\ sheet' = NewSheet(m, color)
    /\ line' = y /\ column' = x /\ first' = 0

TerminalInit ==
    /\ mode \in {"text", "bga", "gfx", "sim"}
    /\ term_color = CHOOSE c \in Colors : TRUE
    /\ cells = BlankScreen(mode, term_color)
    /\ cursor_x = 0
    /\ cursor_y = IF mode = "sim" THEN 0 ELSE FirstRow
    /\ sheet = NewSheet(mode, term_color)
    /\ line = cursor_y /\ column = 0 /\ first = 0

-----------------------------------------------------------------------------
(* The screen.                                                             *)

\* A cell outside the screen is clipped by draw_char and putCharAt.
PutCell(s, x, y, c) ==
    IF y \in DOMAIN s /\ x \in DOMAIN s[y] THEN [s EXCEPT ![y][x] = Cell(c, term_color)] ELSE s

Scrolled_KeepsLast(s) == [y \in DOMAIN s |-> IF y < Rows - 1 THEN s[y + 1] ELSE s[y]]

\* Every row moves up one and the last is blanked (putchar, BgaDriver::scroll
\* and VgaDriver::scrollUp).
Scrolled(s) ==
    [y \in DOMAIN s |-> IF y < Rows - 1 THEN s[y + 1] ELSE BlankRow(Width(mode), term_color)]

\* The end of putchar: a full row wraps, and below the last row the screen
\* scrolls, or in graphics mode is cleared and begun again.
Settle(s, x, y) ==
    LET wraps == x >= Width(mode)
        y2    == IF wraps THEN y + 1 ELSE y
        full  == y2 >= Rows
    IN  /\ cursor_x' = IF wraps THEN 0 ELSE x
        /\ cursor_y' = IF ~full THEN y2 ELSE IF mode = "gfx" THEN 0 ELSE Rows - 1
        /\ cells' = IF ~full THEN s
                    ELSE IF mode = "gfx" THEN BlankScreen(mode, term_color) ELSE Scrolled(s)

\* A backspace steps back over the start of a row, but not of the screen.
Back ==
    IF cursor_x > 0 THEN <<cursor_x - 1, cursor_y>>
    ELSE IF cursor_y > 0 THEN <<Width(mode) - 1, cursor_y - 1>>
    ELSE <<0, 0>>

Erased(s, at) == IF cursor_x > 0 \/ cursor_y > 0 THEN PutCell(s, at[1], at[2], " ") ELSE s

-----------------------------------------------------------------------------
(* The writer's sheet.                                                     *)

OnSheet(l, x, c) == [sheet EXCEPT ![l][x] = Cell(c, term_color)]

\* The writer goes to a line and a column.  A line below the screen brings up
\* one more line of the sheet, or in graphics mode a new page.
GoTo(s, l, x) ==
    LET wraps == x >= Width(mode)
        l2    == IF wraps THEN l + 1 ELSE l
        grown == IF mode = "gfx" THEN Rows ELSE 1
        below == l2 >= first + Rows
    IN  /\ line' = l2 /\ column' = IF wraps THEN 0 ELSE x
        /\ first' = IF ~below THEN first ELSE IF mode = "gfx" THEN l2 ELSE first + 1
        /\ sheet' = IF ~below THEN s
                    ELSE [y \in 0..(first + Rows + grown - 1) |->
                            IF y \in DOMAIN s THEN s[y] ELSE BlankRow(Width(mode), term_color)]

Visible(x) == x < Width(mode)

Write(c) ==
    GoTo(IF Visible(column) THEN OnSheet(line, column, c) ELSE sheet, line, column + 1)

StepBack ==
    CASE column > 0 ->
            GoTo(IF Visible(column - 1) THEN OnSheet(line, column - 1, " ") ELSE sheet,
                 line, column - 1)
      [] column = 0 /\ line > first ->
            GoTo(OnSheet(line - 1, Width(mode) - 1, " "), line - 1, Width(mode) - 1)
      [] OTHER -> UNCHANGED <<sheet, line, column, first>>

-----------------------------------------------------------------------------
(* The kernel's operations.                                                *)

putchar(c) ==
    /\ mode # "sim" /\ first < MaxSheet
    /\ CASE c = "newline" -> Settle(cells, 0, cursor_y + 1) /\ GoTo(sheet, line + 1, 0)
         [] c = "backspace" -> Settle(Erased(cells, Back), Back[1], Back[2]) /\ StepBack
         [] OTHER -> Settle(PutCell(cells, cursor_x, cursor_y, c), cursor_x + 1, cursor_y)
                     /\ Write(c)
    /\ UNCHANGED <<mode, term_color>>

set_color(color) ==
    /\ mode # "sim"
    /\ term_color' = color
    /\ UNCHANGED <<mode, cells, cursor_x, cursor_y, sheet, line, column, first>>

\* Switching between text and graphics clears the screen, in text mode to the
\* first colour; the cursor stays where it was.  The adapter is never left.
SwitchMode(m) ==
    /\ mode \in {"text", "gfx"} /\ m \in {"text", "gfx", "bga"} \ {mode}
    /\ mode' = m
    /\ cells' = BlankScreen(m, CHOOSE c \in Colors : TRUE)
    /\ FreshSheet(m, CHOOSE c \in Colors : TRUE, cursor_x, cursor_y)
    /\ UNCHANGED <<cursor_x, cursor_y, term_color>>

-----------------------------------------------------------------------------
(* The simulator's driver.                                                 *)

putChar(c) ==
    /\ mode = "sim" /\ first < MaxSheet
    /\ CASE c = "newline" -> Settle(cells, 0, cursor_y + 1) /\ GoTo(sheet, line + 1, 0)
         [] c = "backspace" -> Settle(Erased(cells, Back), Back[1], Back[2]) /\ StepBack
         [] c = "tab" -> LET x == ((cursor_x + TAB) \div TAB) * TAB
                        IN  Settle(cells, x, cursor_y) /\ GoTo(sheet, line, x)
         [] c = "return" -> Settle(cells, 0, cursor_y) /\ GoTo(sheet, line, 0)
         [] OTHER -> Settle(PutCell(cells, cursor_x, cursor_y, c), cursor_x + 1, cursor_y)
                     /\ Write(c)
    /\ UNCHANGED <<mode, term_color>>

setColor(color) ==
    /\ mode = "sim"
    /\ term_color' = color
    /\ UNCHANGED <<mode, cells, cursor_x, cursor_y, sheet, line, column, first>>

\* A position outside the screen is moved to its edge.
setCursorPosition(x, y) ==
    /\ mode = "sim"
    /\ cursor_x' = IF x >= Columns THEN Columns - 1 ELSE x
    /\ cursor_y' = IF y >= Rows THEN Rows - 1 ELSE y
    /\ line' = first + cursor_y' /\ column' = cursor_x'
    /\ UNCHANGED <<mode, cells, term_color, sheet, first>>

VgaClear ==
    /\ mode = "sim"
    /\ cells' = BlankScreen(mode, term_color)
    /\ cursor_x' = 0 /\ cursor_y' = 0
    /\ FreshSheet(mode, term_color, 0, 0)
    /\ UNCHANGED <<mode, term_color>>

TerminalNext ==
    \/ \E c \in Glyphs \union {"newline", "backspace"} : putchar(c)
    \/ \E color \in Colors : set_color(color) \/ setColor(color)
    \/ \E m \in {"text", "gfx", "bga"} : SwitchMode(m)
    \/ \E c \in Glyphs \union {"newline", "backspace", "tab", "return"} : putChar(c)
    \/ \E x \in 0..Columns, y \in 0..Rows : setCursorPosition(x, y)
    \/ VgaClear

-----------------------------------------------------------------------------
\* The screen is a window of the sheet: each row shows the line that belongs
\* there, and the cursor stands where the writer is, over every order of
\* wrapping, erasing across rows, scrolling and changing colours and modes.
\* A cursor left beyond the right edge by a change of mode is the one exception,
\* and it is still the writer's.
ScreenShowsSheet ==
    /\ \A y \in 0..(Rows - 1) : cells[y] = sheet[first + y]
    /\ cursor_x = column /\ first + cursor_y = line
    /\ cursor_y \in 0..(Rows - 1)
=============================================================================

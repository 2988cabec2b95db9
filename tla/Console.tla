------------------------------ MODULE Console ------------------------------
(***************************************************************************)
(* The console driver (drivers/console/console.c and console_util.c) over  *)
(* the video memory, one position of which is one element here.            *)
(*                                                                         *)
(* Calls come one after another: the driver takes no lock, and what two    *)
(* calls at a time do is not modelled.  The hardware cursor is left out;   *)
(* printing does not move it.                                              *)
(***************************************************************************)
EXTENDS Integers, Sequences

CONSTANTS Width, Height,    \* CONSOLE_WIDTH, CONSOLE_HEIGHT
          Glyph,            \* characters that are not newline, return or backspace
          Color, Boot       \* colours, and the one in empty_char

ASSUME ConsoleAssumption == Width \in Nat \ {0} /\ Height \in Nat \ {0, 1} /\ Boot \in Color

VARIABLES memory,        \* the screen and the row of memory behind it
          cursor,        \* <<cursor_row, cursor_col>>
          console_color

consoleVars == <<memory, cursor, console_color>>

Cells == Height * Width
Position(g, k) == [glyph |-> g, color |-> k]

empty_fill(mem, first, num) ==
    [i \in DOMAIN mem |-> IF i \in first..first + num - 1 THEN Position("space", Boot) ELSE mem[i]]

(* The state after set_default_color and clear_console, which start it.    *)
ConsoleInit ==
    /\ memory = empty_fill([i \in 0..Cells + Width - 1 |-> Position("unknown", Boot)], 0, Cells)
    /\ cursor = <<0, 0>>
    /\ console_color = Boot
-----------------------------------------------------------------------------
set_logical_cursor(row, col) ==
    <<IF row < 0 THEN 0 ELSE row, IF col < 0 THEN 0 ELSE col>>

print_char(mem, ch, at, color) ==
    IF ch \in {"newline", "return"}
    THEN mem
    ELSE [mem EXCEPT ![at[1] * Width + at[2]] = Position(ch, color)]

scroll_dirty(mem, num_rows) ==   \* fault: the last row is not cleared
    [i \in DOMAIN mem |-> IF i < Cells - num_rows * Width THEN mem[i + num_rows * Width] ELSE mem[i]]

(* The number of positions to clear is passed in bytes, two for each.      *)
scroll_screen(mem, num_rows) ==
    LET offset == num_rows * Width
        moved == [i \in DOMAIN mem |-> IF i < Cells - offset THEN mem[i + offset] ELSE mem[i]]
    IN  empty_fill(moved, Cells - offset, 2 * offset)

backspace ==
    /\ cursor' = IF cursor[2] = 0 THEN set_logical_cursor(cursor[1] - 1, Width - 1)
                                  ELSE set_logical_cursor(cursor[1], cursor[2] - 1)
    /\ memory' = print_char(memory, "space", cursor', console_color)
    /\ UNCHANGED console_color

putbyte(ch) ==
    LET moved == CASE ch = "newline"                      -> set_logical_cursor(cursor[1] + 1, 0)
                   [] ch = "return"                       -> set_logical_cursor(cursor[1], 0)
                   [] ch \in Glyph /\ cursor[2] = Width    -> set_logical_cursor(cursor[1] + 1, 0)
                   [] OTHER                               -> cursor
        scrolls == moved[1] = Height
        at == IF scrolls THEN set_logical_cursor(moved[1] - 1, moved[2]) ELSE moved
        mem == IF scrolls THEN scroll_screen(memory, 1) ELSE memory
    IN  /\ memory' = print_char(mem, ch, at, console_color)
        /\ cursor' = IF ch \in Glyph THEN set_logical_cursor(at[1], at[2] + 1) ELSE at
        /\ UNCHANGED console_color

(* set_cursor, for places on the screen; others are refused.               *)
set_cursor(row, col) ==
    /\ cursor' = set_logical_cursor(row, col)
    /\ UNCHANGED <<memory, console_color>>

clear_console ==
    /\ memory' = empty_fill(memory, 0, Cells)
    /\ cursor' = set_logical_cursor(0, 0)
    /\ UNCHANGED console_color

(* No colour is refused: is_valid_color returns ERR_INVAL, its callers     *)
(* look for -1.                                                            *)
draw_char(row, col, ch, color) ==
    /\ memory' = print_char(memory, ch, <<row, col>>, color)
    /\ UNCHANGED <<cursor, console_color>>

set_term_color(color) == console_color' = color /\ UNCHANGED <<memory, cursor>>

ConsoleNext ==
    \/ \E ch \in Glyph \cup {"newline", "return"} : putbyte(ch)
    \/ backspace \/ clear_console
    \/ \E row \in 0..Height - 1, col \in 0..Width - 1 :
          set_cursor(row, col) \/ \E ch \in Glyph, color \in Color : draw_char(row, col, ch, color)
    \/ \E color \in Color : set_term_color(color)

ConsoleSpec == ConsoleInit /\ [][ConsoleNext]_consoleVars
-----------------------------------------------------------------------------
(* The video memory shows a page of rows: every call, in any order, does   *)
(* to rows of characters what Screen.tla says, in particular at the end of *)
(* a row and of the screen and when the screen scrolls.  (Rows that are    *)
(* cleared take the boot colour, not the current one.)                     *)
Page == INSTANCE Screen WITH
    rows <- [r \in 1..Height |-> [c \in 1..Width |-> memory[(r - 1) * Width + c - 1]]],
    row <- cursor[1] + 1, col <- cursor[2] + 1, color <- console_color

ImplementsScreen == Page!ScreenSpec
=============================================================================

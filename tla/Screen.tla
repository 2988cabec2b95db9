------------------------------- MODULE Screen -------------------------------
(***************************************************************************)
(* What the console shows: a page of rows of characters, a cursor and a    *)
(* colour.  Text fills a row and continues on the next one; below the last *)
(* row the page moves up.  Cleared positions have the colour of the boot   *)
(* (empty_char, which nothing changes later), although the comment of      *)
(* empty_fill gives them the current one (console_util.c:41-43).           *)
(***************************************************************************)
EXTENDS Integers, Sequences

CONSTANTS Width, Height, Glyph, Color,
          Boot    \* the colour of cleared positions

VARIABLES rows, row, col, color

screenVars == <<rows, row, col, color>>

Shown(g, k) == [glyph |-> g, color |-> k]
BlankRow == [c \in 1..Width |-> Shown("space", Boot)]

ScreenInit ==
    /\ rows = [r \in 1..Height |-> BlankRow]
    /\ row = 1 /\ col = 1 /\ color = Boot

Down == IF row < Height
        THEN [rows |-> rows, row |-> row + 1]
        ELSE [rows |-> Append(Tail(rows), BlankRow), row |-> Height]

(* A row that is full ends when the next character comes.                  *)
Write(g) ==
    LET page == IF col > Width THEN Down ELSE [rows |-> rows, row |-> row]
        c == IF col > Width THEN 1 ELSE col
    IN  /\ rows' = [page.rows EXCEPT ![page.row][c] = Shown(g, color)]
        /\ row' = page.row /\ col' = c + 1
        /\ UNCHANGED color

NewLine == rows' = Down.rows /\ row' = Down.row /\ col' = 1 /\ UNCHANGED color

Return == col' = 1 /\ UNCHANGED <<rows, row, color>>

(* The previous character is erased; before the first one of a row it is   *)
(* the last one of the row above, and in the first row of that same row.   *)
Erase ==
    /\ row' = IF col = 1 /\ row > 1 THEN row - 1 ELSE row
    /\ col' = IF col = 1 THEN Width ELSE col - 1
    /\ rows' = [rows EXCEPT ![row'][col'] = Shown("space", color)]
    /\ UNCHANGED color

Move(r, c) == row' = r /\ col' = c /\ UNCHANGED <<rows, color>>

Clear == rows' = [r \in 1..Height |-> BlankRow] /\ row' = 1 /\ col' = 1 /\ UNCHANGED color

Draw(r, c, g, k) == rows' = [rows EXCEPT ![r][c] = Shown(g, k)] /\ UNCHANGED <<row, col, color>>

SetColor(k) == color' = k /\ UNCHANGED <<rows, row, col>>

ScreenNext ==
    \/ \E g \in Glyph : Write(g)
    \/ NewLine \/ Return \/ Erase \/ Clear
    \/ \E r \in 1..Height, c \in 1..Width :
          Move(r, c) \/ \E g \in Glyph, k \in Color : Draw(r, c, g, k)
    \/ \E k \in Color : SetColor(k)

ScreenSpec == ScreenInit /\ [][ScreenNext]_screenVars
=============================================================================

------------------------------- MODULE Screen -------------------------------
(***************************************************************************)
(* What a text terminal promises (include/kernel/drivers/vga.h): a page of *)
(* Width * Height cells in reading order with a cursor.  There is no video *)
(* memory and no viewport; a page that is full moves up by one row.        *)
(***************************************************************************)
EXTENDS Integers, Sequences

CONSTANTS Width, Height, TabWidth,
          Texts,         \* the strings that may be written
          Colors, DefaultColor,
          Cell(_, _),    \* a character in a colour
          Space

VARIABLES
  page,      \* [0 .. Width * Height - 1 -> cell]
  cursor,    \* a position of the page
  color,
  ready      \* the terminal has been initialised

Positions == 0 .. Width * Height - 1
Blank(c) == [p \in Positions |-> Cell(Space, c)]

Now == [page |-> page, cursor |-> cursor]

(* The cursor moves to p, which may be one row or one cell below the page. *)
MoveTo(s, p) ==
  IF p < Width * Height THEN [s EXCEPT !.cursor = p]
  ELSE [page   |-> [q \in Positions |-> IF q + Width \in Positions
                                        THEN s.page[q + Width]
                                        ELSE Cell(Space, color)],
        cursor |-> p - Width]

(* Cells from p up to, not including, q receive the character.             *)
Fill(s, p, q, ch) ==
  [s EXCEPT !.page = [r \in Positions |-> IF r \in p .. q - 1
                                          THEN Cell(ch, color)
                                          ELSE @[r]]]

NextStop(p, n) == (p \div n + 1) * n

(* One character.                                                          *)
Put(s, ch) ==
  CASE ch = "LF"  -> MoveTo(s, NextStop(s.cursor, Width))
    [] ch = "CR"  -> [s EXCEPT !.cursor = @ - (@ % Width)]
    [] ch = "TAB" -> LET stop == NextStop(s.cursor, TabWidth)
                     IN  MoveTo(Fill(s, s.cursor, stop, Space), stop)
    [] ch = "BS"  -> IF s.cursor = 0 THEN s
                     ELSE [Fill(s, s.cursor - 1, s.cursor, Space)
                             EXCEPT !.cursor = @ - 1]
    [] ch = "FF"  -> [page |-> Blank(color), cursor |-> 0]
    [] OTHER      -> MoveTo(Fill(s, s.cursor, s.cursor + 1, ch), s.cursor + 1)

(* A string is its characters, first to last.                              *)
Written(s, text) ==
  LET From[i \in 0 .. Len(text)] ==
        IF i = 0 THEN s ELSE Put(From[i - 1], text[i])
  IN  From[Len(text)]

Initialize ==
  /\ page' = Blank(DefaultColor)
  /\ cursor' = 0
  /\ color' = DefaultColor
  /\ ready' = TRUE

Write == \E text \in Texts :
  /\ ready
  /\ LET s == Written(Now, text) IN page' = s.page /\ cursor' = s.cursor
  /\ UNCHANGED <<color, ready>>

Clear ==
  /\ ready
  /\ page' = Blank(color)
  /\ cursor' = 0
  /\ UNCHANGED <<color, ready>>

SetColor == color' \in Colors /\ UNCHANGED <<page, cursor, ready>>

ScreenInit ==
  /\ ready = FALSE
  /\ cursor = 0

ScreenNext == Initialize \/ Write \/ Clear \/ SetColor

ScreenSpec == ScreenInit /\ [][ScreenNext]_<<page, cursor, color, ready>>
=============================================================================

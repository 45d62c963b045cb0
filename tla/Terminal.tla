------------------------------- MODULE Terminal -------------------------------
(***************************************************************************)
(* What a text console promises its callers, whatever its memory layout:   *)
(* a grid of HEIGHT lines of WIDTH cells and a cursor on it.  A call       *)
(*   - clears the grid to blanks and homes the cursor, or                  *)
(*   - moves the cursor, or                                                *)
(*   - stores one cell at the cursor, or erases the cell just before it,   *)
(* and any of the last three may be followed by a scroll: every line moves *)
(* up one, the top line is lost and a blank line opens at the bottom.  No  *)
(* other cell ever changes.                                                *)
(***************************************************************************)
EXTENDS Naturals

CONSTANTS
  WIDTH, HEIGHT,
  Glyphs,             \* cell values a store may write
  Blanks              \* the blank cells, one per colour

VARIABLES lines, cursor

Rows == 0 .. HEIGHT - 1
Cols == 0 .. WIDTH - 1
Positions == [row : Rows, col : Cols]

Put(ls, p, cell) == [ls EXCEPT ![p.row][p.col] = cell]

ScrollUp(ls, blank) ==
  [r \in Rows |-> IF r < HEIGHT - 1 THEN ls[r + 1] ELSE [c \in Cols |-> blank]]

(* The grid after a call's own change, with or without the scroll.         *)
MaybeScrolled(ls) == {ls} \cup {ScrollUp(ls, b) : b \in Blanks}

Clear ==
  /\ \E b \in Blanks : lines' = [r \in Rows |-> [c \in Cols |-> b]]
  /\ cursor' = [row |-> 0, col |-> 0]

Move ==
  /\ lines' \in MaybeScrolled(lines)
  /\ cursor' \in Positions

Store ==
  /\ \E cell \in Glyphs \cup Blanks : lines' \in MaybeScrolled(Put(lines, cursor, cell))
  /\ cursor' \in Positions

Erase ==
  /\ cursor.col > 0
  /\ \E b \in Blanks :
       lines' \in MaybeScrolled(Put(lines, [cursor EXCEPT !.col = @ - 1], b))
  /\ cursor' = [cursor EXCEPT !.col = @ - 1]

Spec == [][Clear \/ Move \/ Store \/ Erase]_<<lines, cursor>>

=============================================================================

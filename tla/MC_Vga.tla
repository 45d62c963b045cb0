-------------------------------- MODULE MC_Vga --------------------------------
(***************************************************************************)
(* The console driven by its callers: any sequence of vga_putc of a       *)
(* printable character or a control character, vga_clear, vga_set_color   *)
(* and vga_move_cursor, on a small screen.                                 *)
(***************************************************************************)
EXTENDS Vga

CONSTANTS
  Chars,              \* characters passed to vga_putc
  Colors,             \* colours passed to vga_set_color
  Moves               \* <<row, col>> pairs passed to vga_move_cursor

(* One printable character, every control character vga_putc interprets;  *)
(* a move to the last cell and one to a row off the screen.               *)
MCChars == {"x", NL, CR, TAB, BS}

MCMoves == {<<VGA_HEIGHT - 1, VGA_WIDTH - 1>>, <<VGA_HEIGHT, 0>>}

Putc(c) == Become(vga_putc(Console, c))

Clear == Become(vga_clear(Console))

SetColor(color) == Become(vga_set_color(Console, color))

MoveCursor(row, col) == Become(vga_move_cursor(Console, row, col))

MCNext ==
  \/ \E c \in Chars : Putc(c)
  \/ Clear
  \/ \E color \in Colors : SetColor(color)
  \/ \E m \in Moves : MoveCursor(m[1], m[2])

MCSpec == VgaInit /\ [][MCNext]_vga_vars

-----------------------------------------------------------------------------
(* Every store of vga_putc lands in VGA_BUF: however a line is ended (a    *)
(* printed character in the last column, a tab past the last stop, a       *)
(* newline) and whatever vga_move_cursor was asked, the cursor that        *)
(* indexes the next store is back on the screen before the call returns.   *)
NoWriteOutsideBuffer == ~vga_fault

(* The blinking hardware cursor is where the next character will go: the   *)
(* location last sent to the CRTC, high byte and low byte put back         *)
(* together, is cursor_row * 80 + cursor_col after every call.             *)
HardwareCursorTracksCursor ==
  crtc.hi * 2^8 + crtc.lo = cursor_row * CRTC_PITCH + cursor_col

(* The flat buffer with its index arithmetic implements the console's      *)
(* promise (module Terminal): a call stores at most one cell, at the       *)
(* cursor or, for a backspace, just before it, and a scroll moves every    *)
(* line up by exactly one line and blanks the bottom one.                  *)
Palette == Colors \cup {VGA_WHITE_ON_BLACK}

Screen == INSTANCE Terminal WITH
  WIDTH <- VGA_WIDTH,
  HEIGHT <- VGA_HEIGHT,
  Glyphs <- {<<c, color>> : c \in Chars \ {NL, CR, TAB, BS}, color \in Palette},
  Blanks <- {Blank(color) : color \in Palette},
  lines <- [r \in 0 .. VGA_HEIGHT - 1 |-> [c \in 0 .. VGA_WIDTH - 1 |-> VGA_BUF[r * VGA_WIDTH + c]]],
  cursor <- [row |-> cursor_row, col |-> cursor_col]

ImplementsTerminal == Screen!Spec

=============================================================================

--------------------------------- MODULE Vga ---------------------------------
(***************************************************************************)
(* The text-mode console of src/08.kernel-mm/kernel/drivers/vga.c.  The    *)
(* screen is the flat buffer VGA_BUF of VGA_WIDTH * VGA_HEIGHT cells, a    *)
(* cell being the character and the colour attribute stored with it.  The  *)
(* cursor is (cursor_row, cursor_col); crtc is what the CRT controller's   *)
(* cursor-location registers last received from vga_sync_cursor, one      *)
(* byte each.                                                               *)
(*                                                                         *)
(* Each function of vga.c is an operator from a console state, a record    *)
(* [buf, row, col, color, crtc, fault], to the next, so that vga_write and *)
(* the formatting code can compose them.  fault records a store outside    *)
(* the buffer, which in C would overwrite whatever lies after it.          *)
(***************************************************************************)
EXTENDS Naturals, Sequences, SequencesExt

CONSTANTS
  VGA_WIDTH,              \* 80
  VGA_HEIGHT,             \* 25
  VGA_WHITE_ON_BLACK,     \* the colour current_color starts with
  BOOT_CELL               \* what the buffer holds before the first vga_clear

VARIABLES
  VGA_BUF,                \* cell index -> <<character, colour>>
  cursor_row,
  cursor_col,
  current_color,
  crtc,                   \* [hi, lo]: the CRTC cursor-location registers
  vga_fault               \* TRUE once a cell outside VGA_BUF was written

vga_vars == <<VGA_BUF, cursor_row, cursor_col, current_color, crtc, vga_fault>>

Cells == 0 .. VGA_WIDTH * VGA_HEIGHT - 1

(* vga_sync_cursor multiplies by the literal 80, not by VGA_WIDTH.          *)
CRTC_PITCH == 80

Blank(color) == <<" ", color>>

(* The control characters vga_putc interprets ('\b' has no TLA+ escape).  *)
NL  == "\n"
CR  == "\r"
TAB == "\t"
BS  == "BS"

Console == [buf |-> VGA_BUF, row |-> cursor_row, col |-> cursor_col,
            color |-> current_color, crtc |-> crtc, fault |-> vga_fault]

(* The step that makes the console state st the current one.               *)
Become(st) ==
  /\ VGA_BUF' = st.buf
  /\ cursor_row' = st.row
  /\ cursor_col' = st.col
  /\ current_color' = st.color
  /\ crtc' = st.crtc
  /\ vga_fault' = st.fault

(* Mutant: the row is scaled by the CRTC's 80 instead of VGA_WIDTH.       *)
StoreAtPitch(st, row, col, cell) ==
  LET i == row * CRTC_PITCH + col
  IN  IF i \in Cells THEN [st EXCEPT !.buf[i] = cell] ELSE [st EXCEPT !.fault = TRUE]

(* VGA_BUF[row * VGA_WIDTH + col] = cell; an index past the buffer is a    *)
(* stray write.                                                             *)
Store(st, row, col, cell) ==
  LET i == row * VGA_WIDTH + col
  IN  IF i \in Cells THEN [st EXCEPT !.buf[i] = cell] ELSE [st EXCEPT !.fault = TRUE]

-----------------------------------------------------------------------------
(* vga_sync_cursor: the 16-bit location, high byte then low byte; outb     *)
(* keeps the low 8 bits of what it is given.                               *)
vga_sync_cursor(st) ==
  LET loc == (st.row * CRTC_PITCH + st.col) % 2^16
  IN  [st EXCEPT !.crtc = [hi |-> (loc \div 2^8) % 2^8, lo |-> loc % 2^8]]

(* Mutant: the move is not sent to the CRTC (as in chapter 07).            *)
MoveCursorNoSync(st, row, col) ==
  IF row < VGA_HEIGHT /\ col < VGA_WIDTH THEN [st EXCEPT !.row = row, !.col = col] ELSE st

(* vga_move_cursor: positions off the screen are ignored.                  *)
vga_move_cursor(st, row, col) ==
  IF row < VGA_HEIGHT /\ col < VGA_WIDTH
    THEN vga_sync_cursor([st EXCEPT !.row = row, !.col = col])
    ELSE st

vga_clear(st) ==
  vga_sync_cursor([st EXCEPT !.buf = [i \in Cells |-> Blank(st.color)], !.row = 0, !.col = 0])

vga_set_color(st, color) == [st EXCEPT !.color = color]

(* (cursor_col + 4) & ~3: the next multiple of 4 (cursor_col < 80, so the  *)
(* uint8_t sum never wraps).                                                *)
TabStop(col) == ((col + 4) \div 4) * 4

(* The column wrap after a tab or a printed character.                     *)
WrapLine(st) ==
  IF st.col >= VGA_WIDTH THEN [st EXCEPT !.col = 0, !.row = @ + 1] ELSE st

(* The character switch of vga_putc.                                       *)
PutChar(st, c) ==
  CASE c = NL  -> [st EXCEPT !.row = @ + 1, !.col = 0]
    [] c = CR  -> [st EXCEPT !.col = 0]
    [] c = TAB -> WrapLine([st EXCEPT !.col = TabStop(@)])
    [] c = BS  -> IF st.col > 0
                     THEN Store([st EXCEPT !.col = @ - 1], st.row, st.col - 1, Blank(st.color))
                     ELSE st
    [] OTHER    -> WrapLine([Store(st, st.row, st.col, <<c, st.color>>) EXCEPT !.col = @ + 1])

(* Mutant: the copy loop stops one cell short, so the last cell of the     *)
(* next-to-last line keeps its old content.                                 *)
ScrolledShortCopy(buf, color) ==
  [i \in Cells |-> IF i < (VGA_HEIGHT - 1) * VGA_WIDTH - 1 THEN buf[i + VGA_WIDTH]
                   ELSE IF i < (VGA_HEIGHT - 1) * VGA_WIDTH THEN buf[i]
                   ELSE Blank(color)]

(* The two loops of the scroll: every line moves up one, and the last line *)
(* is blanked in the current colour.                                        *)
Scrolled(buf, color) ==
  [i \in Cells |-> IF i < (VGA_HEIGHT - 1) * VGA_WIDTH THEN buf[i + VGA_WIDTH] ELSE Blank(color)]

(* Mutant: the scroll waits for a row past the bottom one.                 *)
ScrollNeededLate(row) == row > VGA_HEIGHT

ScrollNeeded(row) == row >= VGA_HEIGHT

Scroll(st) ==
  IF ScrollNeeded(st.row)
    THEN [st EXCEPT !.buf = Scrolled(st.buf, st.color), !.row = VGA_HEIGHT - 1]
    ELSE st

vga_putc(st, c) == vga_sync_cursor(Scroll(PutChar(st, c)))

(* vga_write: vga_putc of every character up to the terminator.             *)
vga_write(st, s) == FoldLeft(LAMBDA acc, c : vga_putc(acc, c), st, s)

-----------------------------------------------------------------------------
(* The console as main leaves it after its first call, vga_clear().        *)
VgaInit ==
  LET st == vga_clear([buf |-> [i \in Cells |-> BOOT_CELL], row |-> 0, col |-> 0,
                       color |-> VGA_WHITE_ON_BLACK, crtc |-> [hi |-> 0, lo |-> 0],
                       fault |-> FALSE])
  IN  /\ VGA_BUF = st.buf
      /\ cursor_row = st.row
      /\ cursor_col = st.col
      /\ current_color = st.color
      /\ crtc = st.crtc
      /\ vga_fault = st.fault

(* Between two calls the cursor is on the screen: every vga_putc ends with *)
(* the wrap and the scroll, and vga_move_cursor ignores positions off it.   *)
VgaTypeOK ==
  /\ VGA_BUF \in [Cells -> (STRING \X Nat) \cup {BOOT_CELL}]
  /\ cursor_row \in 0 .. VGA_HEIGHT - 1
  /\ cursor_col \in 0 .. VGA_WIDTH - 1
  /\ crtc \in [hi : 0 .. 255, lo : 0 .. 255]
  /\ vga_fault \in BOOLEAN

=============================================================================

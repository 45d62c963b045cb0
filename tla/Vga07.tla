-------------------------------- MODULE Vga07 --------------------------------
(***************************************************************************)
(* The console of chapter 07 (src/07.kernel-idt/kernel/drivers/vga.c),     *)
(* the version chapter 08 grew from.  Storing, scrolling and the CRTC      *)
(* update are the same code and are taken from module Vga; vga_putc knows  *)
(* only the newline, and vga_move_cursor does not call vga_sync_cursor.    *)
(***************************************************************************)
EXTENDS Vga

vga07_move_cursor(st, row, col) ==
  IF row < VGA_HEIGHT /\ col < VGA_WIDTH THEN [st EXCEPT !.row = row, !.col = col] ELSE st

(* Every character but '\n' is stored, '\t', '\r' and '\b' included.      *)
vga07_putc(st, c) ==
  LET moved == IF c = NL
                 THEN [st EXCEPT !.row = @ + 1, !.col = 0]
                 ELSE WrapLine([Store(st, st.row, st.col, <<c, st.color>>) EXCEPT !.col = @ + 1])
  IN  vga_sync_cursor(Scroll(moved))

vga07_write(st, s) == FoldLeft(LAMBDA acc, c : vga07_putc(acc, c), st, s)

=============================================================================

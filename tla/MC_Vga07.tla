------------------------------- MODULE MC_Vga07 -------------------------------
(***************************************************************************)
(* The chapter 07 console driven like the chapter 08 one (module MC_Vga),  *)
(* checked against the same properties.                                    *)
(***************************************************************************)
EXTENDS Vga07, MC_Vga

Putc07(c) == Become(vga07_putc(Console, c))

MoveCursor07(row, col) == Become(vga07_move_cursor(Console, row, col))

MC07Next ==
  \/ \E c \in Chars : Putc07(c)
  \/ Clear
  \/ \E color \in Colors : SetColor(color)
  \/ \E m \in Moves : MoveCursor07(m[1], m[2])

MC07Spec == VgaInit /\ [][MC07Next]_vga_vars

=============================================================================

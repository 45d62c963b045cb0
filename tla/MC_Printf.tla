------------------------------- MODULE MC_Printf -------------------------------
(***************************************************************************)
(* vga_printf called with every format of at most MAX_FMT characters over  *)
(* Alphabet, and enough arguments for each conversion in it.               *)
(***************************************************************************)
EXTENDS Printf

CONSTANTS
  Alphabet,           \* characters formats are made of
  MAX_FMT             \* longest format

VARIABLES fmt, printed

Formats == UNION {[1 .. k -> Alphabet] : k \in 0 .. MAX_FMT}

(* A negative number, NULL / zero, and a size with a decimal.              *)
ARGS == <<-12, 0, 1536>>

Init == fmt = <<>> /\ printed = vga_printf_text(<<>>, ARGS)

Printf08 == \E f \in Formats : fmt' = f /\ printed' = vga_printf_text(f, ARGS)

Printf07 == \E f \in Formats : fmt' = f /\ printed' = vga07_printf_text(f, ARGS)

Spec08 == Init /\ [][Printf08]_<<fmt, printed>>

Spec07 == Init /\ [][Printf07]_<<fmt, printed>>

-----------------------------------------------------------------------------
(* vga_printf reads its format only up to the terminator, whatever the     *)
(* format ends with: a lone '%', "%l" or "%ll" included.                  *)
PrintfStaysInFormat == ~printed.overread

=============================================================================

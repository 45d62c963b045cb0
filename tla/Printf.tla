-------------------------------- MODULE Printf --------------------------------
(***************************************************************************)
(* The format loop of vga_printf, chapter 08 (src/08.kernel-mm/kernel/     *)
(* drivers/vga.c) and chapter 07 (src/07.kernel-idt/kernel/drivers/vga.c). *)
(* The format is a C string: its characters, then the terminator NUL at    *)
(* position Len(fmt) + 1; a read at any later position is a read past the  *)
(* string, after which the C loop goes on with whatever memory follows.    *)
(* The model stops there and records it in overread.                       *)
(*                                                                         *)
(* The arguments are the integers the caller passed, taken in order by     *)
(* va_arg.  What vga_printf prints is returned as one text; printing it    *)
(* with vga_putc character by character is vga_write of that text.  A %s  *)
(* argument prints as the string (null) when it is 0 and as the one-      *)
(* character string "s" otherwise; %c prints "c".                          *)
(***************************************************************************)
EXTENDS Fmt

NUL  == "NUL"
PAST == "PAST"

CharAt(fmt, p) ==
  IF p <= Len(fmt) THEN fmt[p] ELSE IF p = Len(fmt) + 1 THEN NUL ELSE PAST

BUF == 64

NULL_TEXT == <<"(", "n", "u", "l", "l", ")">>

(* A scan state: the text printed, the arguments not yet taken, and       *)
(* whether a character past the terminator was read.                      *)
Emit(r, text) == [r EXCEPT !.out = @ \o text]

Arg(r) == Head(r.args)

Take(r, text) == [r EXCEPT !.out = @ \o text, !.args = Tail(@)]

StringArg(v) == IF v = 0 THEN NULL_TEXT ELSE <<"s">>

(* %p: "0x", zeros up to eight digits, the hexadecimal digits.             *)
PointerText(v) ==
  LET hex == vga_utoa(v, 16, BUF)
  IN  <<"0", "x">> \o [i \in 1 .. 8 - Len(hex) |-> "0"] \o hex

(* The 'l' case, entered with p at the 'l': the scan position it leaves   *)
(* p at, and the scan state.                                              *)
LongConversion(fmt, p, r) ==
  LET c1 == CharAt(fmt, p + 1)
      c2 == CharAt(fmt, p + 2)
  IN  CASE c1 = NUL -> [p |-> p + 1, r |-> Emit(r, <<"%", "l">>)]
        [] c1 = "l" /\ c2 = NUL -> [p |-> p + 2, r |-> Emit(r, <<"%", "l", "l">>)]
        [] c1 = "l" /\ c2 \in {"u", "x", "X"} ->
             [p |-> p + 2, r |-> Take(r, vga_ulltoa(Arg(r), IF c2 = "u" THEN 10 ELSE 16, BUF))]
        [] c1 = "l" /\ c2 \in {"d", "i"} ->
             [p |-> p + 2, r |-> Take(r, (IF Arg(r) < 0 THEN <<"-">> ELSE <<>>) \o
                                         vga_ulltoa(IF Arg(r) < 0 THEN -Arg(r) ELSE Arg(r), 10, BUF))]
        [] c1 = "l" -> [p |-> p + 2, r |-> Emit(r, <<"%", "l", "l", c2>>)]
        [] c1 \in {"u", "x", "X"} ->
             [p |-> p + 1, r |-> Take(r, vga_utoa(Arg(r), IF c1 = "u" THEN 10 ELSE 16, BUF))]
        [] c1 \in {"d", "i"} -> [p |-> p + 1, r |-> Take(r, vga_itoa(Arg(r), 10, BUF))]
        [] OTHER -> [p |-> p + 1, r |-> Emit(r, <<"%", "l", c1>>)]

(* The switch on the character after '%', at p.                           *)
Conversion(fmt, p, r) ==
  LET c == CharAt(fmt, p)
  IN  CASE c = "c" -> [p |-> p, r |-> Take(r, <<"c">>)]
        [] c = "s" -> [p |-> p, r |-> Take(r, StringArg(Arg(r)))]
        [] c \in {"d", "i"} -> [p |-> p, r |-> Take(r, vga_itoa(Arg(r), 10, BUF))]
        [] c = "u" -> [p |-> p, r |-> Take(r, vga_utoa(Arg(r), 10, BUF))]
        [] c \in {"x", "X"} -> [p |-> p, r |-> Take(r, vga_utoa(Arg(r), 16, BUF))]
        [] c = "h" -> [p |-> p, r |-> Take(r, vga_human_size(Arg(r), BUF))]
        [] c = "l" -> LongConversion(fmt, p, r)
        [] c = "p" -> [p |-> p, r |-> Take(r, PointerText(Arg(r)))]
        [] c = "%" -> [p |-> p, r |-> Emit(r, <<"%">>)]
        [] OTHER -> [p |-> p, r |-> Emit(r, <<"%", c>>)]

(* for (p = fmt; *p; p++): ordinary characters are printed; a '%' at the   *)
(* end stops the loop; otherwise the conversion runs and p++ moves past    *)
(* the last character it consumed.                                         *)
RECURSIVE Scan(_, _, _)
Scan(fmt, p, r) ==
  LET c == CharAt(fmt, p)
  IN  IF c = PAST THEN [r EXCEPT !.overread = TRUE]
      ELSE IF c = NUL THEN r
      ELSE IF c # "%" THEN Scan(fmt, p + 1, Emit(r, <<c>>))
      ELSE IF CharAt(fmt, p + 1) = NUL THEN r
      ELSE LET step == Conversion(fmt, p + 1, r) IN Scan(fmt, step.p + 1, step.r)

(* vga_printf(fmt, ...): a NULL format prints nothing.                    *)
vga_printf_text(fmt, args) == Scan(fmt, 1, [out |-> <<>>, args |-> args, overread |-> FALSE])

-----------------------------------------------------------------------------
(* Chapter 07's switch: no %u, %h, %l or %p, %x through vga_itoa, and a    *)
(* '%' at the end falls into the default case, which prints the '%' and    *)
(* the terminator itself.                                                  *)
Conversion07(fmt, p, r) ==
  LET c == CharAt(fmt, p)
  IN  CASE c = "c" -> Take(r, <<"c">>)
        [] c = "s" -> Take(r, StringArg(Arg(r)))
        [] c \in {"d", "i"} -> Take(r, vga07_itoa(Arg(r), 10, BUF))
        [] c \in {"x", "X"} -> Take(r, vga07_itoa(Arg(r), 16, BUF))
        [] c = "%" -> Emit(r, <<"%">>)
        [] OTHER -> Emit(r, <<"%", c>>)

RECURSIVE Scan07(_, _, _)
Scan07(fmt, p, r) ==
  LET c == CharAt(fmt, p)
  IN  IF c = PAST THEN [r EXCEPT !.overread = TRUE]
      ELSE IF c = NUL THEN r
      ELSE IF c # "%" THEN Scan07(fmt, p + 1, Emit(r, <<c>>))
      ELSE Scan07(fmt, p + 2, Conversion07(fmt, p + 1, r))

vga07_printf_text(fmt, args) == Scan07(fmt, 1, [out |-> <<>>, args |-> args, overread |-> FALSE])

=============================================================================

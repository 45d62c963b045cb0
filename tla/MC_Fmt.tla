-------------------------------- MODULE MC_Fmt --------------------------------
(***************************************************************************)
(* The conversions of vga_printf called with every value of Inputs, in     *)
(* the 64-byte buffer vga_printf passes them, checked against a reading    *)
(* of their text back into a number.                                       *)
(***************************************************************************)
EXTENDS Fmt

CONSTANTS
  SMALL               \* every value in -SMALL .. SMALL is an input

VARIABLE n            \* the value of the conversion being checked

BUF == 64             \* sizeof(buf) in vga_printf

(* The small values, and the values at the edges of digits, units and     *)
(* widths.                                                                  *)
Inputs ==
  (-SMALL .. SMALL) \cup
  {255, 256, 1000, 1023, 1024, 1025, 1536, 4095, 4096, 65535, 65536, 100000,
   1048575, 1048576, 1572864, 999999999, 1000000000, 1000000007,
   1073741823, 1073741824, 2147483647, -2147483647, -1000000000}

Init == n \in Inputs

(* A caller of vga_printf passes any value of Inputs.                      *)
Convert == \E x \in Inputs : n' = x

Spec == Init /\ [][Convert]_n

-----------------------------------------------------------------------------
(* The reference notation of v in a base: the digits of v \div base, then *)
(* the digit of v % base; most significant first, no leading zero.         *)
RECURSIVE Notation(_, _)
Notation(v, base) ==
  IF v < base THEN <<DigitChar(v)>> ELSE Notation(v \div base, base) \o <<DigitChar(v % base)>>

DigitValue(ch) == CHOOSE d \in 0 .. 15 : DIGITS[d + 1] = ch

ReadsBackAs(s, base, v) == s = Notation(v, base)

ReadsBackSigned(s, v) ==
  IF v < 0 THEN s # <<>> /\ s[1] = "-" /\ ReadsBackAs(Tail(s), 10, -v)
  ELSE ReadsBackAs(s, 10, v)

(* ceiling(f * 2^k / 10) for 10 <= k <= 30, without leaving TLC's range:   *)
(* f * 2^k / 10 = q * 512 / 5 with q = f * 2^(k-10), and 512 = 5*102 + 2.  *)
CeilTenth(f, k) == LET q == f * 2^(k - 10) IN q * 102 + (2 * q + 4) \div 5

(* %h text "W[.F]U": U is the largest unit not above the size, W the       *)
(* whole number of units, and F the first decimal of the rest, truncated   *)
(* and left out when it is 0.                                               *)
HumanReadsBack(s, bytes) ==
  LET u    == CHOOSE i \in 0 .. 4 : UNITS[i + 1] = s[Len(s)]
      k    == 10 * u
      body == SubSeq(s, 1, Len(s) - 1)
      dot  == Len(body) >= 2 /\ body[Len(body) - 1] = "."
      w    == IF dot THEN SubSeq(body, 1, Len(body) - 2) ELSE body
      f    == IF dot THEN DigitValue(body[Len(body)]) ELSE 0
      r    == bytes % 2^k
  IN  /\ s # <<>> /\ s[Len(s)] \in {UNITS[i] : i \in 1 .. 5}
      /\ u > 0 => bytes >= 2^k
      /\ u < 3 => bytes < 2^(k + 10)
      /\ ReadsBackAs(w, 10, bytes \div 2^k)
      /\ dot => f > 0
      /\ (u = 0 /\ f = 0) \/ (u > 0 /\ r >= CeilTenth(f, k) /\ r < CeilTenth(f + 1, k))

(* Every number vga_printf formats is the notation of the value it was    *)
(* given:                                                                  *)
(* %u, %x, %llu, %llx and %d of chapter 08, %d and %x of chapter 07, in    *)
(* canonical digits; and %h names the right unit, the whole units and the  *)
(* truncated first decimal.                                                 *)
FormattingMatchesNotation ==
  /\ ReadsBackSigned(vga_itoa(n, 10, BUF), n)
  /\ ReadsBackSigned(vga07_itoa(n, 10, BUF), n)
  /\ n >= 0 =>
       /\ ReadsBackAs(vga_utoa(n, 10, BUF), 10, n)
       /\ ReadsBackAs(vga_utoa(n, 16, BUF), 16, n)
       /\ ReadsBackAs(vga_ulltoa(n, 10, BUF), 10, n)
       /\ ReadsBackAs(vga_ulltoa(n, 16, BUF), 16, n)
       /\ ReadsBackAs(vga07_itoa(n, 16, BUF), 16, n)
       /\ HumanReadsBack(vga_human_size(n, BUF), n)

=============================================================================

--------------------------------- MODULE Fmt ---------------------------------
(***************************************************************************)
(* The number formatting of src/08.kernel-mm/kernel/drivers/vga.c          *)
(* (vga_ulltoa, vga_utoa, vga_itoa, vga_human_size) and of chapter 07's    *)
(* vga_itoa.  A C string is the sequence of its one-character strings up  *)
(* to the terminator; each operator returns what the function leaves in    *)
(* buf.                                                                    *)
(*                                                                         *)
(* TLC's integers stop at 2^31 - 1, so the values modelled are below it.  *)
(* Where the C code compares with constants beyond that (10^10 .. 10^19   *)
(* in vga_ulltoa, 2^40 in vga_human_size) the comparison is taken as the  *)
(* one every modelled value gives, and the operator says so.               *)
(***************************************************************************)
EXTENDS Integers, Sequences, SequencesExt

DIGITS == <<"0", "1", "2", "3", "4", "5", "6", "7", "8", "9", "a", "b", "c", "d", "e", "f">>

(* (digit < 10) ? '0' + digit : 'a' + (digit - 10)                         *)
DigitChar(d) == DIGITS[d + 1]

(* The do-while of vga_utoa (and of the hexadecimal vga_ulltoa): digits   *)
(* least significant first, stopping early when room runs out.            *)
RECURSIVE LowDigitsFirst(_, _, _)
LowDigitsFirst(value, base, room) ==
  IF room = 0 THEN <<>>
  ELSE <<DigitChar(value % base)>> \o
       (IF value \div base = 0 THEN <<>> ELSE LowDigitsFirst(value \div base, base, room - 1))

(* Mutant: the digits are left in the order they were produced.           *)
UtoaUnreversed(value, base, buf_size) ==
  IF buf_size = 0 THEN <<>>
  ELSE IF value = 0 THEN (IF buf_size > 1 THEN <<"0">> ELSE <<>>)
  ELSE IF base \in {10, 16} THEN LowDigitsFirst(value, base, buf_size - 1)
  ELSE IF buf_size > 1 THEN <<"?">> ELSE <<>>

(* vga_utoa(value, buf, base, buf_size); a zero buf_size leaves buf alone, *)
(* given here as the empty string.                                         *)
vga_utoa(value, base, buf_size) ==
  IF buf_size = 0 THEN <<>>
  ELSE IF value = 0 THEN (IF buf_size > 1 THEN <<"0">> ELSE <<>>)
  ELSE IF base \in {10, 16} THEN Reverse(LowDigitsFirst(value, base, buf_size - 1))
  ELSE IF buf_size > 1 THEN <<"?">> ELSE <<>>

(* The decimal loop of vga_ulltoa over powers[] = 10^19 .. 10^0: the      *)
(* digit of 10^e is counted by repeated subtraction, leading zeros are     *)
(* skipped, and the loop stops when room runs out.  Every modelled value   *)
(* is below 10^10, so the powers 10^10 .. 10^19 give the digit 0.          *)
RECURSIVE PowerDigits(_, _, _, _)
PowerDigits(value, e, room, leading_zero) ==
  IF e < 0 \/ room = 0 THEN <<>>
  ELSE LET digit == IF e > 9 THEN 0 ELSE value \div 10^e
           rest  == IF e > 9 THEN value ELSE value % 10^e
       IN  IF leading_zero /\ digit = 0
             THEN PowerDigits(rest, e - 1, room, TRUE)
             ELSE <<DigitChar(digit)>> \o PowerDigits(rest, e - 1, room - 1, FALSE)

vga_ulltoa(value, base, buf_size) ==
  IF buf_size = 0 THEN <<>>
  ELSE IF base = 16
    THEN IF value = 0 THEN (IF buf_size > 1 THEN <<"0">> ELSE <<>>)
         ELSE Reverse(LowDigitsFirst(value, 16, buf_size - 1))
  ELSE IF base = 10
    THEN IF value = 0 THEN (IF buf_size > 1 THEN <<"0">> ELSE <<>>)
         ELSE PowerDigits(value, 19, buf_size - 1, TRUE)
  ELSE IF buf_size > 1 THEN <<"?">> ELSE <<>>

(* vga_itoa: a negative decimal is converted by magnitude and the '-'      *)
(* shifted in front when it fits.  (-INT_MIN is not modelled: the values   *)
(* stop at -(2^31 - 1).)                                                   *)
vga_itoa(value, base, buf_size) ==
  LET neg == base = 10 /\ value < 0
      s   == vga_utoa(IF neg THEN -value ELSE value, base, buf_size)
  IN  IF buf_size = 0 THEN <<>>
      ELSE IF neg /\ Len(s) + 1 < buf_size THEN <<"-">> \o s ELSE s

(* Chapter 07's vga_itoa: digits of the magnitude low first, the '-'       *)
(* appended when it fits, then the whole reversed.                         *)
vga07_itoa(value, base, buf_size) ==
  LET neg    == base = 10 /\ value < 0
      digits == LowDigitsFirst(IF neg THEN -value ELSE value, base, buf_size - 1)
  IN  IF buf_size = 0 THEN <<>>
      ELSE Reverse(IF neg /\ Len(digits) < buf_size - 1 THEN digits \o <<"-">> ELSE digits)

-----------------------------------------------------------------------------
UNITS == <<"B", "K", "M", "G", "T">>

(* The unit loop of vga_human_size: scale counts the thresholds 2^10,      *)
(* 2^20, 2^30 reached; the fourth, 2^40, is above every modelled size.     *)
HumanScale(bytes) == Cardinality({i \in 0 .. 2 : bytes >= 2^(10 * (i + 1))})

(* (remainder * 10) >> k for k >= 10, split at bit 10 so that the product  *)
(* stays below 2^31: floor(10r / 2^k) = floor((10a + floor(10b / 2^10)) /  *)
(* 2^(k-10)) where r = a * 2^10 + b.                                        *)
TenthsShift(remainder, k) ==
  (10 * (remainder \div 2^10) + (10 * (remainder % 2^10)) \div 2^10) \div 2^(k - 10)

vga_human_size(bytes, buf_size) ==
  LET scale     == HumanScale(bytes)
      whole     == bytes \div 2^(scale * 10)
      remainder == bytes % 2^(scale * 10)
      frac      == IF scale > 0 /\ remainder > 0 THEN TenthsShift(remainder, scale * 10) ELSE 0
      tmp       == vga_ulltoa(whole, 10, 32)
      len       == Len(tmp)
      withFrac  == IF frac > 0 /\ len + 3 < buf_size THEN tmp \o <<".", DigitChar(frac)>> ELSE tmp
  IN  IF len >= buf_size THEN <<>>
      ELSE IF Len(withFrac) + 2 <= buf_size THEN withFrac \o <<UNITS[scale + 1]>> ELSE withFrac

=============================================================================

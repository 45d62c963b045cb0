-------------------------------- MODULE Pit --------------------------------
(***************************************************************************)
(* Channel 0 of the 8254 timer as init_timer programs it                   *)
(* (src/07.kernel-idt/kernel/interrupt/timer.c, the port and command-bit  *)
(* names of src/08.kernel-mm/kernel/include/ports.h, CLOCK_TICK_RATE of    *)
(* src/07.kernel-idt/kernel/include/timer.h).                              *)
(*                                                                         *)
(* The chip is the environment: a control word selects BCD or binary       *)
(* counting and, with access "low byte then high byte", makes the next two *)
(* writes to the channel's port the low and the high byte of the count.    *)
(* The channel divides the input clock by the count, 0 standing for the   *)
(* largest count (2^16 in binary, 10^4 in BCD); a BCD count with a digit   *)
(* above 9 has no defined meaning, and BCD counting cannot divide by more  *)
(* than 10^4, so the model lets such a count be any period in 1..10^4.     *)
(***************************************************************************)
EXTENDS Integers, Bitwise

VARIABLE pit   \* [bcd, count, lo, next]: channel 0's mode, count and byte flip-flop

(* ports.h: the 8254's ports and control-word bits.                       *)
PIT_CH0 == 64
PIT_CMD == 67
PIT_CHANNEL0 == 0
PIT_ACCESS_BOTH == 48
PIT_MODE3 == 6
PIT_BCD == 1

CLOCK_TICK_RATE == 1193180

(* The firmware leaves channel 0 counting 2^16 in binary (18.2 Hz).        *)
PitInit == pit = [bcd |-> FALSE, count |-> 0, lo |-> 0, next |-> "lo"]

(* outb to the 8254; the code only writes channel-0 control words with     *)
(* access "low then high", and channel 0's data port.                      *)
PitOutb(p, port, v) ==
  CASE port = PIT_CMD -> [p EXCEPT !.bcd = (v % 2 = PIT_BCD), !.next = "lo"]
    [] p.next = "lo"  -> [p EXCEPT !.lo = v, !.next = "hi"]
    [] OTHER          -> [p EXCEPT !.count = p.lo + 256 * v, !.next = "lo"]

(* The input clocks between two IRQ 0 edges the channel may produce.      *)
BcdDigits(c) == {(c \div 16^i) % 16 : i \in 0 .. 3}
BcdValue(c) == LET digit(i) == (c \div 16^i) % 16
               IN  digit(0) + 10 * digit(1) + 100 * digit(2) + 1000 * digit(3)
PitPeriods(p) ==
  IF ~p.bcd THEN {IF p.count = 0 THEN 65536 ELSE p.count}
  ELSE IF \A d \in BcdDigits(p.count) : d <= 9
         THEN {IF p.count = 0 THEN 10000 ELSE BcdValue(p.count)}
  ELSE 1 .. 10000

(* init_timer's divisor: frequency 0 is taken as 1, and the quotient is    *)
(* rounded to nearest.                                                     *)
TimerDivisor(frequency) ==
  LET f == IF frequency = 0 THEN 1 ELSE frequency
  IN  (CLOCK_TICK_RATE + f \div 2) \div f

(* The control word init_timer sends: channel 0, square wave, low then     *)
(* high byte, BCD counting.                                                 *)
TIMER_PIT_CMD == PIT_CHANNEL0 | PIT_MODE3 | PIT_ACCESS_BOTH | PIT_BCD

(* init_timer after the registration: the control word, then the low and  *)
(* the high byte of the divisor (the uint8_t casts keep bits 0..15).       *)
init_timer(frequency) ==
  LET divisor == TimerDivisor(frequency)
  IN  pit' = PitOutb(PitOutb(PitOutb(pit, PIT_CMD, TIMER_PIT_CMD),
                              PIT_CH0, divisor % 256),
                      PIT_CH0, (divisor \div 256) % 256)

=============================================================================

-------------------------------- MODULE Rand --------------------------------
(***************************************************************************)
(* The pseudo-random generator of src/08.kernel-mm/kernel/lib/rand.c that  *)
(* drives kheap_killer, with the timer tick it seeds itself from           *)
(* (interrupt/timer.c).  rand() is the linear congruence                   *)
(*     seed := (seed * 33550336 + 8128) % 2^31                             *)
(* in uint32_t arithmetic.  Because 2^31 divides 2^32 the wrap of the      *)
(* product changes nothing, so the step is exact arithmetic modulo 2^31;   *)
(* it is computed here in pieces that stay below TLC's 2^31 - 1.           *)
(***************************************************************************)
EXTENDS Naturals

CONSTANTS
  Seeds,              \* arguments passed to rand_seed
  MAX_TICK            \* bound on the timer ticks counted

VARIABLES
  seed,               \* rand.c's static seed
  tick,               \* timer.c's tick, incremented by the IRQ0 callback
  rand_ret            \* the value of the last rand_range call

rand_vars == <<seed, tick, rand_ret>>

rand_a == 33550336    \* = 8191 * 2^12
rand_c == 8128

(* 2^31 - 1, the largest residue modulo rand_m = 2^31.                     *)
TOP31 == (2^30 - 1) + 2^30

(* (x * rand_a) % 2^31: only x % 2^19 matters since rand_a = 8191 * 2^12, *)
(* and x % 2^19 * 8191 is taken modulo 2^19 in two halves.                 *)
MulA(x) ==
  LET hi == (x % 2^19) \div 2^10
      lo == x % 2^10
  IN  ((((hi * 8191) % 2^9) * 2^10 + lo * 8191) % 2^19) * 2^12

(* (seed * rand_a + rand_c) % rand_m.                                      *)
Lcg(x) ==
  LET p == MulA(x)
  IN  IF p <= TOP31 - rand_c THEN p + rand_c ELSE p - (TOP31 - rand_c) - 1

(* rand(): a zero seed is first replaced by the tick count.                *)
RandNext(s) == Lcg(IF s = 0 THEN tick ELSE s)

(* Mutant: the span computed as min - max.                                *)
ScaleToRangeSwapped(r, min, max) ==
  LET q == r \div 2^21
      u == (r % 2^21) * (min - max)
  IN  (q * (min - max) + u \div 2^21) \div 2^10 + min

(* Mutant: +1 after truncation, so max itself can be returned.             *)
ScaleToRangeRoundUp(r, min, max) ==
  LET q == r \div 2^21
      u == (r % 2^21) * (max - min)
  IN  (q * (max - min) + u \div 2^21) \div 2^10 + min + 1

(* (uint32_t)((double)r / rand_m * (max - min) + min).  r / 2^31 is exact *)
(* in a double and so is its product with max - min < 2^10, so the cast    *)
(* truncates the exact value (r * (max - min)) / 2^31 + min; the product   *)
(* is split at bit 21 to stay below 2^31.                                  *)
ScaleToRange(r, min, max) ==
  LET q == r \div 2^21
      u == (r % 2^21) * (max - min)
  IN  (q * (max - min) + u \div 2^21) \div 2^10 + min

-----------------------------------------------------------------------------
Init == seed = 0 /\ tick = 0 /\ rand_ret = 0

rand_seed(new_seed) ==
  /\ seed' = new_seed
  /\ UNCHANGED <<tick, rand_ret>>

rand_seed_with_time ==
  /\ seed' = tick
  /\ UNCHANGED <<tick, rand_ret>>

(* rand_range(min, max): one rand() step scaled into [min, max).           *)
rand_range(min, max) ==
  /\ seed' = RandNext(seed)
  /\ rand_ret' = ScaleToRange(RandNext(seed), min, max)
  /\ UNCHANGED tick

(* timer_callback: tick++ (at most MAX_TICK ticks are counted).            *)
timer_callback ==
  /\ tick < MAX_TICK
  /\ tick' = tick + 1
  /\ UNCHANGED <<seed, rand_ret>>

(* kheap_killer only ever calls rand_range(1, 1000).                       *)
Next ==
  \/ \E s \in Seeds : rand_seed(s)
  \/ rand_seed_with_time
  \/ rand_range(1, 1000)
  \/ timer_callback

Spec == Init /\ [][Next]_rand_vars

-----------------------------------------------------------------------------
RandTypeOK ==
  /\ seed \in Nat /\ seed <= TOP31
  /\ tick \in 0 .. MAX_TICK
  /\ rand_ret \in Nat

(* Every size kheap_killer draws lies in [1, 1000): the truncating cast    *)
(* never yields max, and never falls below min.                            *)
RandRangeWithinBounds ==
  rand_ret # 0 => rand_ret \in 1 .. 999

(* The stress test's sizes are pseudo-random (spec.md 8: "random sizes in *)
(* [1,1000]"; kheap_killer: a random, fragmented sequence): a call of      *)
(* rand_range never leaves the generator where it was: the seed is never  *)
(* a fixed point of rand(), as no full-period congruential generator has   *)
(* one.                                                                    *)
RandNeverStuck ==
  seed # 0 => RandNext(seed) # seed

=============================================================================

--------------------------- MODULE HeapAllocator ---------------------------
(***************************************************************************)
(* What a heap promises its callers (spec.md 4.3, 8): every allocation is  *)
(* a range of bytes inside the heap's bounds that overlaps no range still  *)
(* allocated; an allocation adds one range and a free removes one, and     *)
(* nothing else ever changes a range a caller holds.  Which range is       *)
(* picked, and the bytes kept between ranges, are left open.               *)
(***************************************************************************)
EXTENDS Integers

CONSTANTS
  LO,                 \* first byte the heap may hand out
  HI                  \* one past the last byte it may hand out

VARIABLE allocated    \* set of [ptr, size] ranges held by callers

InBounds(b) == LO <= b.ptr /\ b.ptr + b.size <= HI /\ b.size > 0

Disjoint(b, c) == b.ptr + b.size <= c.ptr \/ c.ptr + c.size <= b.ptr

Init == allocated = {}

(* One new range, in bounds and apart from every range still held.        *)
Alloc ==
  /\ allocated \subseteq allocated'
  /\ \E b \in allocated' \ allocated :
       /\ allocated' = allocated \cup {b}
       /\ InBounds(b)
       /\ \A c \in allocated : Disjoint(b, c)

(* One range given back.                                                   *)
Free ==
  \E b \in allocated : allocated' = allocated \ {b}

Spec == Init /\ [][Alloc \/ Free]_allocated

=============================================================================

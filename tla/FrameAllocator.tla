--------------------------- MODULE FrameAllocator ---------------------------
(***************************************************************************)
(* What a physical page allocator promises its callers (spec.md 4.1, 8):   *)
(* an allocation hands out one frame that is free and marks it used, it    *)
(* reports "none" only when no frame is free, and a free makes a used      *)
(* frame available again.  Nothing is said about which free frame is       *)
(* chosen.                                                                 *)
(***************************************************************************)
CONSTANT NONE        \* the "none" sentinel of an allocation

VARIABLES
  free,              \* allocatable frames that are free
  used,              \* allocatable frames that are handed out
  ret                \* what the last allocation returned

vars == <<free, used, ret>>

Init == free \cap used = {}

Alloc ==
  \E f \in free :
    /\ free' = free \ {f}
    /\ used' = used \cup {f}
    /\ ret' = f

AllocNone ==
  /\ free = {}
  /\ ret' = NONE
  /\ UNCHANGED <<free, used>>

Free ==
  \E f \in used :
    /\ free' = free \cup {f}
    /\ used' = used \ {f}
    /\ UNCHANGED ret

Next == Alloc \/ AllocNone \/ Free

Spec == Init /\ [][Next]_vars

=============================================================================

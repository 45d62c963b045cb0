------------------------------ MODULE MC_KHeap ------------------------------
(***************************************************************************)
(* The heap driven the way kheap_killer drives it: kmalloc and             *)
(* kmalloc_aligned of sizes from a small set, and kfree of any pointer     *)
(* still live, in every order, with at most MAX_LIVE allocations live.    *)
(* live records each pointer with the size and alignment asked for.        *)
(***************************************************************************)
EXTENDS KHeap

CONSTANTS
  Sizes,              \* request sizes kmalloc(_aligned) is called with
  MAX_LIVE,           \* bound on simultaneously live allocations
  DOUBLE_FREE         \* TRUE: the caller may also kfree a pointer twice

VARIABLES live, freed

vars == <<heap_vars, live, freed>>

MCInit == init_kheap /\ live = {} /\ freed = {}

(* A caller's kmalloc: a NULL result (size 0) is not recorded.             *)
Malloc(size, align) ==
  /\ Cardinality(live) < MAX_LIVE
  /\ kmalloc_impl(size, align)
  /\ LET p == KMallocCall(size, align).ptr IN
       live' = IF size = 0 \/ heap_panic' # "none" THEN live
               ELSE live \cup {[ptr |-> p, size |-> size, aligned |-> align]}
  /\ UNCHANGED freed

(* A caller's kfree of a live pointer, of NULL, or (with DOUBLE_FREE) of a *)
(* pointer it already freed whose header is still a block header.          *)
Free(ptr) ==
  /\ kfree(ptr)
  /\ live' = {l \in live : l.ptr # ptr}
  /\ freed' = IF ptr = 0 \/ ~DOUBLE_FREE THEN freed ELSE freed \cup {ptr}

FreeTargets ==
  {l.ptr : l \in live} \cup {0} \cup
  (IF DOUBLE_FREE THEN {p \in freed : p - HEADER_SIZE \in DOMAIN blocks} ELSE {})

MCNext ==
  \/ \E size \in Sizes, align \in BOOLEAN : Malloc(size, align)
  \/ \E ptr \in FreeTargets : Free(ptr)
  \/ HeapHalted /\ UNCHANGED <<live, freed>>

MCSpec == MCInit /\ [][MCNext]_vars

-----------------------------------------------------------------------------
(* kheap_validate_print's assertions hold after every kmalloc and kfree:   *)
(* the blocks chain from start_address to exactly end_address with valid   *)
(* magic, every hole met is in the index, and the index holds exactly as   *)
(* many entries as there are holes.                                        *)
KHeapValidates ==
  heap_panic = "none" =>
    /\ \A k \in 1 .. Len(HeapWalk) : HeapWalk[k] # -1
    /\ Range(index) = {h \in Range(HeapWalk) : blocks[h].is_hole}
    /\ Len(index) = Cardinality(Range(index))

(* The stress test's oracle (spec.md 8): the allocated blocks are exactly  *)
(* the live allocations, each with at least the bytes asked for and page-  *)
(* aligned when asked, so validate() counts the live pointers.             *)
LiveAllocationsIntact ==
  heap_panic = "none" =>
    /\ {h \in Range(HeapWalk) : ~blocks[h].is_hole} = {l.ptr - HEADER_SIZE : l \in live}
    /\ \A l \in live :
         /\ blocks[l.ptr - HEADER_SIZE].size >= l.size
         /\ l.aligned => l.ptr % PAGE_SIZE = 0

(* The index stays sorted by hole size, across the in-place size changes   *)
(* of the growth and of the merges, so find_hole's first fit is the        *)
(* smallest hole that fits.                                                *)
IndexSortedBySize ==
  IsSorted(index, LAMBDA a, b : blocks[a].size <= blocks[b].size)

(* Coalescing is complete: no two holes are ever adjacent after a kfree,   *)
(* a split or a growth.                                                    *)
NoAdjacentHoles ==
  \A h \in Holes : BlockEnd(blocks, h) \in DOMAIN blocks => ~blocks[BlockEnd(blocks, h)].is_hole

(* No ASSERT of kheap.c fires: the only PANIC is running out of heap.      *)
NoAssertionFails == heap_panic # "assert"

(* kmalloc, kmalloc_aligned and kfree implement the abstract heap: the     *)
(* ranges held by callers are the payloads of the allocated blocks on the  *)
(* chain, and every call adds or removes exactly one of them, leaving the  *)
(* others untouched, while splits, growth and merges rearrange the holes.  *)
Abstract == INSTANCE HeapAllocator WITH
  LO <- start_address + HEADER_SIZE,
  HI <- KHEAP_MAX,
  allocated <- {[ptr |-> h + HEADER_SIZE, size |-> blocks[h].size] :
                  h \in DOMAIN blocks \ Holes}

ImplementsHeapAllocator == Abstract!Spec

-----------------------------------------------------------------------------
(* Spec.md 7 and 9: a free of an already-free block is silently ignored.   *)
DoubleFreeIgnored ==
  [][\A ptr \in freed : Free(ptr) /\ ptr - HEADER_SIZE \in Holes => UNCHANGED heap_vars]_vars

=============================================================================

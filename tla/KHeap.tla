------------------------------- MODULE KHeap -------------------------------
(***************************************************************************)
(* The boundary-tag kernel heap of src/08.kernel-mm/kernel/mem/kheap.c.    *)
(*                                                                         *)
(* Memory is abstracted to its tags: blocks maps the address of every      *)
(* header reachable in the heap to the header's size and is_hole fields.   *)
(* A footer is not stored: it sits at header + HEADER_SIZE + size and      *)
(* points back to its header, which is what make_block writes.  Writing a  *)
(* block drops the headers it now covers, so blocks is the chain           *)
(* kheap_validate_print walks.  The hole index is the ordered_array of     *)
(* header addresses, sorted by the size kheap_block_comparator reads: the  *)
(* key passed to the ordered_array operators is SizeKey(bl).              *)
(*                                                                         *)
(* Addresses are byte offsets; HEADER_SIZE and FOOTER_SIZE keep the        *)
(* packed struct sizes (9 and 8) and PAGE_SIZE is scaled down so that a    *)
(* page-aligned request, a heap growth and the heap limit are a few bytes  *)
(* apart.                                                                  *)
(***************************************************************************)
EXTENDS Integers, FiniteSets, SequencesExt, OrderedArray

CONSTANTS
  PAGE_SIZE,
  HEADER_SIZE,        \* sizeof(kheap_block_header_t)
  FOOTER_SIZE,        \* sizeof(kheap_block_footer_t)
  KHEAP_START,        \* create_kheap's start (page aligned)
  INDEX_STORAGE,      \* sizeof(type_t) * KHEAP_INDEX_NUM, the index array in front of the data
  KHEAP_MIN_SIZE,     \* init_kheap: end = KHEAP_START + KHEAP_MIN_SIZE
  KHEAP_MAX,          \* max_address
  KHEAP_INDEX_NUM     \* capacity of the hole index

ASSUME (KHEAP_START + INDEX_STORAGE) % PAGE_SIZE = 0

BLOCK_META_SIZE == HEADER_SIZE + FOOTER_SIZE

VARIABLES
  blocks,             \* header address -> [size, is_hole]
  index,              \* kheap.index: sequence of hole header addresses
  end_address,        \* kheap.end_address
  heap_panic          \* "none", or why PANIC() halted the kernel

heap_vars == <<blocks, index, end_address, heap_panic>>

(* create_kheap moves the start past the index array.                      *)
start_address == KHEAP_START + INDEX_STORAGE

align_to_page(num) ==
  IF num % PAGE_SIZE # 0 THEN num - (num % PAGE_SIZE) + PAGE_SIZE ELSE num

(* kheap_block_comparator's key: the size field of each header.          *)
SizeKey(bl) == [h \in DOMAIN bl |-> bl[h].size]

(* The end of the block whose header is at h.                              *)
BlockEnd(bl, h) == h + BLOCK_META_SIZE + bl[h].size

(* make_block: header at start, footer at the end; the headers the new     *)
(* block covers are payload from now on.                                   *)
make_block(bl, start, size, is_hole) ==
  LET kept == {b \in DOMAIN bl : b < start \/ b >= start + BLOCK_META_SIZE + size}
  IN  [a \in kept \cup {start} |->
         IF a = start THEN [size |-> size, is_hole |-> is_hole] ELSE bl[a]]

(* The header whose footer ends just before address a (footer->header).    *)
HeaderEndingAt(bl, a) == {h \in DOMAIN bl : BlockEnd(bl, h) = a}

-----------------------------------------------------------------------------
(* find_hole for one hole: the alloc_pos it accepts, or -1.  A page-       *)
(* aligned request walks the page boundaries of the hole and takes the     *)
(* first with more than BLOCK_META_SIZE bytes in front of it.              *)
HoleFitPos(bl, h, size, page_align) ==
  LET start == h + HEADER_SIZE
      end   == start + bl[h].size
      pages == {align_to_page(start) + k * PAGE_SIZE : k \in 0 .. bl[h].size \div PAGE_SIZE + 1}
      ok    == {a \in pages : a + size <= end /\ a - start > BLOCK_META_SIZE}
  IN  IF page_align THEN (IF ok = {} THEN -1 ELSE Min(ok))
      ELSE IF bl[h].size >= size THEN start ELSE -1

(* find_hole: the first index position (1-based) whose hole fits, or 0.    *)
find_hole(bl, ix, size, page_align) ==
  LET fits == {i \in 1 .. Len(ix) : HoleFitPos(bl, ix[i], size, page_align) # -1}
  IN  IF fits = {} THEN 0 ELSE Min(fits)

(* Mutant: ASSERT compiled out (NDEBUG): the growth is never refused.      *)
ExpandFitsNDEBUG(end, ext) == TRUE

(* kheap_expand's ASSERT(new_end <= max_address).                           *)
ExpandFits(end, ext) == end + ext <= KHEAP_MAX

(* Mutant: the grown hole keeps its old place in the index.                *)
ExtendLastHoleInPlace(st, h, ext) ==
  [st EXCEPT !.blocks = make_block(st.blocks, h, st.blocks[h].size + ext, TRUE),
             !.end = st.end + ext]

(* The last block is a hole: it absorbs the growth, and since its key      *)
(* changed it is taken out of the index (ASSERT(remove)) and put back.     *)
ExtendLastHole(st, h, ext) ==
  LET bl == make_block(st.blocks, h, st.blocks[h].size + ext, TRUE)
      ix == ordered_array_remove_element(st.index, h)
  IN  [st EXCEPT !.blocks = bl, !.end = st.end + ext,
         !.index = ordered_array_insert(ix, KHEAP_INDEX_NUM, h, SizeKey(bl)),
         !.panic = IF ordered_array_remove_element_ok(st.index, h) THEN @ ELSE "assert"]

(* Mutant: the growth is added to the last block, allocated or not.         *)
AppendHoleToLastBlock(st, ext) ==
  LET h == CHOOSE x \in HeaderEndingAt(st.blocks, st.end) : TRUE
  IN  [st EXCEPT !.blocks = make_block(st.blocks, h, st.blocks[h].size + ext, FALSE),
                 !.end = st.end + ext]

(* The last block is allocated: a new hole is appended at the old end.     *)
AppendHole(st, ext) ==
  LET bl == make_block(st.blocks, st.end, ext - BLOCK_META_SIZE, TRUE)
  IN  [st EXCEPT !.blocks = bl, !.end = st.end + ext,
         !.index = ordered_array_insert(st.index, KHEAP_INDEX_NUM, st.end, SizeKey(bl))]

(* The growth branch of alloc: kheap_expand by the page-rounded request    *)
(* plus metadata, then the last block (found through the footer before     *)
(* the old end) takes the growth.                                          *)
GrowHeap(st, size) ==
  LET ext  == align_to_page(size + BLOCK_META_SIZE)
      last == HeaderEndingAt(st.blocks, st.end)
      h    == CHOOSE x \in last : TRUE
  IN  IF ~ExpandFits(st.end, ext) THEN [st EXCEPT !.panic = "heap_max"]
      ELSE IF last = {} THEN [st EXCEPT !.panic = "assert"]
      ELSE IF st.blocks[h].is_hole THEN ExtendLastHole(st, h, ext)
      ELSE AppendHole(st, ext)

(* Mutant: a rest of exactly BLOCK_META_SIZE bytes is split off.           *)
TooSmallToSplitOffByOne(rest) == rest < BLOCK_META_SIZE

(* alloc keeps the whole block when what would remain after the request    *)
(* is no larger than a block's metadata.                                   *)
TooSmallToSplit(rest) == rest <= BLOCK_META_SIZE

(* The part of alloc after find_hole succeeded at index position i with    *)
(* alloc_pos pos: remove the hole, carve a front hole for an aligned       *)
(* request, take size bytes (or the whole block when the rest would be     *)
(* BLOCK_META_SIZE or less) and carve a trailing hole from the rest.       *)
UseHole(st, i, pos, size, page_align) ==
  LET h0    == st.index[i]
      ix0   == ordered_array_remove(st.index, i)
      front == page_align /\ pos - HEADER_SIZE > h0
      cut   == pos - HEADER_SIZE - h0
      bl1   == IF front THEN make_block(st.blocks, h0, cut - BLOCK_META_SIZE, TRUE) ELSE st.blocks
      ix1   == IF front THEN ordered_array_insert(ix0, KHEAP_INDEX_NUM, h0, SizeKey(bl1)) ELSE ix0
      bsize == IF front THEN st.blocks[h0].size - cut ELSE st.blocks[h0].size
      h1    == IF front THEN pos - HEADER_SIZE ELSE h0
      whole == TooSmallToSplit(bsize - size)
      asize == IF whole THEN bsize ELSE size
      rest  == IF whole THEN 0 ELSE bsize - size
      bl2   == make_block(bl1, h1, asize, FALSE)
      tail  == h1 + BLOCK_META_SIZE + asize
      bl3   == IF rest > 0 THEN make_block(bl2, tail, rest - BLOCK_META_SIZE, TRUE) ELSE bl2
      ix3   == IF rest > 0 THEN ordered_array_insert(ix1, KHEAP_INDEX_NUM, tail, SizeKey(bl3)) ELSE ix1
      asserts == /\ front => cut > BLOCK_META_SIZE
                 /\ bsize >= size
                 /\ rest > 0 => rest > BLOCK_META_SIZE
  IN  [blocks |-> bl3, index |-> ix3, end |-> st.end, ptr |-> pos,
       panic |-> IF asserts THEN st.panic ELSE "assert"]

(* alloc(this, size, page_align): find a hole, or grow and try again.      *)
(* Every growth adds at least a page, so the recursion ends at KHEAP_MAX.  *)
RECURSIVE alloc(_, _, _)
alloc(st, size, page_align) ==
  LET i == find_hole(st.blocks, st.index, size, page_align)
  IN  IF i # 0
        THEN UseHole(st, i, HoleFitPos(st.blocks, st.index[i], size, page_align), size, page_align)
      ELSE LET grown == GrowHeap(st, size)
           IN  IF grown.panic # "none" THEN grown ELSE alloc(grown, size, page_align)

(* Mutant: free never merges with its left neighbour.                     *)
SurvivingHeaderNoLeftMerge(bl, h) == h

(* Mutant: the left neighbour absorbs h whether or not it is a hole.       *)
SurvivingHeaderAnyLeft(bl, h) ==
  LET lefts == HeaderEndingAt(bl, h)
  IN  IF lefts = {} THEN h ELSE CHOOSE l \in lefts : TRUE

(* The header that survives free's left merge: the left neighbour (found   *)
(* through the footer just before h) when it is a hole, else h itself.     *)
(* Nothing is stored in front of start_address, so the first block has no  *)
(* left neighbour.                                                         *)
SurvivingHeader(bl, h) ==
  LET lefts == {l \in HeaderEndingAt(bl, h) : bl[l].is_hole}
  IN  IF lefts = {} THEN h ELSE CHOOSE l \in lefts : TRUE

(* free(this, ptr): mark the block a hole, absorb a right neighbour that   *)
(* is a hole, then let a left neighbour that is a hole absorb it, and put  *)
(* the surviving hole into the index once.  Nothing is stored at           *)
(* end_address, so the last block has no right neighbour.                 *)
FreeBlock(st, ptr) ==
  LET h      == ptr - HEADER_SIZE
      bl0    == [st.blocks EXCEPT ![h].is_hole = TRUE]
      right  == BlockEnd(bl0, h)
      mergeR == right \in DOMAIN bl0 /\ bl0[right].is_hole
      bl1    == IF mergeR
                  THEN make_block(bl0, h, bl0[h].size + bl0[right].size + BLOCK_META_SIZE, TRUE)
                  ELSE bl0
      ix1    == IF mergeR THEN ordered_array_remove_element(st.index, right) ELSE st.index
      hole   == SurvivingHeader(bl1, h)
      mergeL == hole # h
      bl2    == IF mergeL
                  THEN make_block(bl1, hole, bl1[hole].size + bl1[h].size + BLOCK_META_SIZE, TRUE)
                  ELSE bl1
      ix2    == IF mergeL THEN ordered_array_remove_element(ix1, hole) ELSE ix1
      asserts == /\ mergeR => ordered_array_remove_element_ok(st.index, right)
                 /\ mergeL => ordered_array_remove_element_ok(ix1, hole)
  IN  [blocks |-> bl2, end |-> st.end,
       index |-> ordered_array_insert(ix2, KHEAP_INDEX_NUM, hole, SizeKey(bl2)),
       panic |-> IF asserts THEN st.panic ELSE "assert"]

-----------------------------------------------------------------------------
HeapState == [blocks |-> blocks, index |-> index, end |-> end_address, panic |-> heap_panic]

(* init_kheap / create_kheap: one hole spanning [start_address, end).     *)
init_kheap ==
  /\ blocks = make_block(<<>>, start_address,
                         KHEAP_START + KHEAP_MIN_SIZE - start_address - BLOCK_META_SIZE, TRUE)
  /\ index = << start_address >>
  /\ end_address = KHEAP_START + KHEAP_MIN_SIZE
  /\ heap_panic = "none"

(* The heap after a step that computed the state st.                       *)
Become(st) ==
  /\ blocks' = st.blocks
  /\ index' = st.index
  /\ end_address' = st.end
  /\ heap_panic' = st.panic

(* Mutant: kmalloc_aligned passes align 0 down to alloc.                  *)
KMallocCallUnaligned(size, align) == alloc(HeapState, size, FALSE)

(* The call kmalloc_impl makes; its .ptr is the pointer returned.          *)
KMallocCall(size, align) == alloc(HeapState, size, align)

(* kmalloc / kmalloc_aligned (kmalloc_impl under the heap lock): size 0    *)
(* returns NULL and changes nothing.                                       *)
kmalloc_impl(size, align) ==
  /\ heap_panic = "none"
  /\ \/ size = 0 /\ UNCHANGED heap_vars
     \/ size > 0 /\ Become(KMallocCall(size, align))

(* kfree: NULL is ignored, anything else goes to free().                   *)
kfree(ptr) ==
  /\ heap_panic = "none"
  /\ \/ ptr = 0 /\ UNCHANGED heap_vars
     \/ ptr # 0 /\ Become(FreeBlock(HeapState, ptr))

(* kernel_panic, reached through PANIC() or a failed ASSERT (the debug   *)
(* build): interrupts off and hlt for ever.                               *)
HeapHalted == heap_panic # "none" /\ UNCHANGED heap_vars

-----------------------------------------------------------------------------
(* kheap_validate_print's walk: the headers met from start_address while   *)
(* below end_address; a missing header (bad magic) or a walk that passes   *)
(* end_address ends it with -1.                                            *)
RECURSIVE WalkFrom(_, _)
WalkFrom(bl, a) ==
  IF a = end_address THEN << >>
  ELSE IF a > end_address \/ a \notin DOMAIN bl THEN << -1 >>
  ELSE << a >> \o WalkFrom(bl, BlockEnd(bl, a))

HeapWalk == WalkFrom(blocks, start_address)

Holes == {h \in DOMAIN blocks : blocks[h].is_hole}

HeapTypeOK ==
  /\ DOMAIN blocks \subseteq start_address .. end_address
  /\ \A h \in DOMAIN blocks : blocks[h].size \in Nat /\ blocks[h].is_hole \in BOOLEAN
  /\ index \in Seq(DOMAIN blocks)
  /\ end_address \in start_address .. KHEAP_MAX
  /\ heap_panic \in {"none", "heap_max", "assert"}

=============================================================================

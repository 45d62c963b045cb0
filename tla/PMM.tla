-------------------------------- MODULE PMM --------------------------------
(***************************************************************************)
(* The physical memory manager of src/08.kernel-mm/kernel/mem/pmm.c: one   *)
(* bit per physical page frame, a free-page counter and a next-fit cursor. *)
(*                                                                         *)
(* Addresses are integers in a scaled unit: PAGE_SIZE and LOW_MEMORY_SIZE  *)
(* are constants, so a model with a 4-unit page keeps every rounding of    *)
(* the code (floor of the total, ceiling of a reserved region's end,       *)
(* misaligned frees) while the machine has a dozen frames.                 *)
(*                                                                         *)
(* The bitmap is the set of frame indices whose bit is set (used).         *)
(***************************************************************************)
EXTENDS Integers, FiniteSets, SequencesExt

CONSTANTS
  PAGE_SIZE,              \* pmm.h PAGE_SIZE
  LOW_MEMORY_SIZE,        \* pmm.c LOW_MEMORY_SIZE: bytes from 0 always reserved
  MAX_BITMAP_SIZE_BYTES,  \* pmm.c: capacity of the static pmm_bitmap array
  BootInfos               \* the boot_info records the loader can hand over

ASSUME PAGE_SIZE \in Nat \ {0} /\ LOW_MEMORY_SIZE % PAGE_SIZE = 0

(* One E820 entry and the part of boot_info that pmm_init reads.           *)
E820Entry == [addr : Nat, size : Nat, type : Nat]
ASSUME \A bi \in BootInfos :
         /\ bi.e820_map \in Seq(E820Entry)
         /\ bi.kernel_phys_base \in Nat /\ bi.kernel_size \in Nat

VARIABLES
  boot_info,              \* the boot_info pmm_init was called with
  pmm_bitmap,             \* SUBSET of frame indices whose bit is set
  pmm_total_pages,
  pmm_max_ram_page,
  pmm_free_pages,
  pmm_last_alloc_index,
  pmm_halted              \* PANIC() in pmm_init: the CPU halts forever

pmm_vars == <<boot_info, pmm_bitmap, pmm_total_pages, pmm_max_ram_page,
              pmm_free_pages, pmm_last_alloc_index, pmm_halted>>

LOW_PAGES == LOW_MEMORY_SIZE \div PAGE_SIZE

EntryEnd(e) == e.addr + e.size

(* The highest end address over a set of entries (0 if none).            *)
HighestEnd(entries) == Max({0} \cup {EntryEnd(e) : e \in entries})

(* Mutant: the end of the region is not clipped to the bitmap.           *)
RegionPagesUnclipped(total, start, size) ==
  IF start \div PAGE_SIZE >= total THEN {}
  ELSE (start \div PAGE_SIZE) .. ((start + size + PAGE_SIZE - 1) \div PAGE_SIZE - 1)

(* The frames pmm_mark_region_used touches: floor of the start, ceiling of *)
(* the end, clipped to the bitmap; nothing if the start is past it.        *)
RegionPages(total, start, size) ==
  IF start \div PAGE_SIZE >= total THEN {}
  ELSE (start \div PAGE_SIZE) ..
         (Min({(start + size + PAGE_SIZE - 1) \div PAGE_SIZE, total}) - 1)

(* Mutant: every frame of the region is counted, already set or not.     *)
MarkRegionUsedCountAll(total, acc, region) ==
  LET pages == RegionPages(total, region.addr, region.size)
  IN  [bitmap |-> acc.bitmap \cup pages, free |-> acc.free - Cardinality(pages)]

(* pmm_mark_region_used on the accumulator [bitmap, free]: a frame whose   *)
(* bit was already set is not counted again.                              *)
MarkRegionUsed(total, acc, region) ==
  LET pages == RegionPages(total, region.addr, region.size)
  IN  [bitmap |-> acc.bitmap \cup pages,
       free   |-> acc.free - Cardinality(pages \ acc.bitmap)]

(* The regions pmm_init locks, in the order it locks them: every non-RAM  *)
(* E820 entry, the kernel image, then the low memory.                      *)
LockedRegions(bi) ==
  SelectSeq(bi.e820_map, LAMBDA e : e.type # 1)
    \o << [addr |-> bi.kernel_phys_base, size |-> bi.kernel_size, type |-> 0],
          [addr |-> 0, size |-> LOW_MEMORY_SIZE, type |-> 0] >>

(* pmm_init(boot_info): the state it leaves, or the halt when the bitmap   *)
(* would not fit its static storage.  boot_info_init always writes the     *)
(* magic, so the magic check never fires.                                  *)
pmm_init(bi) ==
  LET total  == HighestEnd(ToSet(bi.e820_map)) \div PAGE_SIZE
      maxRam == HighestEnd({e \in ToSet(bi.e820_map) : e.type = 1}) \div PAGE_SIZE
      Mark(acc, r) == MarkRegionUsed(total, acc, r)
      locked == FoldLeft(Mark, [bitmap |-> {}, free |-> total], LockedRegions(bi))
  IN  /\ boot_info = bi
      /\ pmm_total_pages = total
      /\ pmm_max_ram_page = maxRam
      /\ pmm_last_alloc_index = 0
      /\ pmm_halted = ((total + 7) \div 8 > MAX_BITMAP_SIZE_BYTES)
      /\ pmm_bitmap = IF pmm_halted THEN {} ELSE locked.bitmap
      /\ pmm_free_pages = IF pmm_halted THEN 0 ELSE locked.free

Init == \E bi \in BootInfos : pmm_init(bi)

-----------------------------------------------------------------------------
(* Where the scan of pmm_alloc_page starts.                                *)
AllocScanStart == pmm_last_alloc_index % pmm_max_ram_page

(* Mutant: the scan runs from its start to pmm_max_ram_page, no wrap.     *)
AllocCandidatesNoWrap ==
  {i \in AllocScanStart .. pmm_max_ram_page - 1 : i >= LOW_PAGES /\ i \notin pmm_bitmap}

(* pmm_alloc_page: the frames its do-while loop accepts.                   *)
AllocCandidates ==
  {i \in 0 .. pmm_max_ram_page - 1 : i >= LOW_PAGES /\ i \notin pmm_bitmap}

(* The first of cands met scanning upwards from start and wrapping at      *)
(* pmm_max_ram_page.                                                       *)
FirstCyclicFrom(start, cands) ==
  CHOOSE i \in cands :
    \A j \in cands : (i - start) % pmm_max_ram_page <= (j - start) % pmm_max_ram_page

(* The frame pmm_alloc_page picks; meaningful when AllocFails is false.    *)
AllocFrame == FirstCyclicFrom(AllocScanStart, AllocCandidates)

(* pmm_alloc_page returns 0: the early return, or a full lap of the scan   *)
(* without a free frame.                                                   *)
AllocFails ==
  pmm_free_pages = 0 \/ pmm_max_ram_page = 0 \/ AllocCandidates = {}

(* The physical address pmm_alloc_page returns in this state.              *)
AllocResult == IF AllocFails THEN 0 ELSE AllocFrame * PAGE_SIZE

pmm_alloc_page ==
  /\ ~pmm_halted
  /\ \/ AllocFails /\ UNCHANGED pmm_vars
     \/ /\ ~AllocFails
        /\ pmm_bitmap' = pmm_bitmap \cup {AllocFrame}
        /\ pmm_free_pages' = pmm_free_pages - 1
        /\ pmm_last_alloc_index' = AllocFrame
        /\ UNCHANGED <<boot_info, pmm_total_pages, pmm_max_ram_page, pmm_halted>>

(* Mutant: the low-memory check is missing.                              *)
FreeIgnoredNoLowCheck(paddr) ==
  \/ paddr % PAGE_SIZE # 0
  \/ paddr \div PAGE_SIZE >= pmm_max_ram_page
  \/ paddr \div PAGE_SIZE \notin pmm_bitmap

(* pmm_free_page ignores a misaligned address, a frame in low memory or   *)
(* at or above pmm_max_ram_page, and a frame whose bit is clear.           *)
FreeIgnored(paddr) ==
  \/ paddr % PAGE_SIZE # 0
  \/ paddr \div PAGE_SIZE < LOW_PAGES
  \/ paddr \div PAGE_SIZE >= pmm_max_ram_page
  \/ paddr \div PAGE_SIZE \notin pmm_bitmap

pmm_free_page(paddr) ==
  /\ ~pmm_halted
  /\ \/ FreeIgnored(paddr) /\ UNCHANGED pmm_vars
     \/ /\ ~FreeIgnored(paddr)
        /\ pmm_bitmap' = pmm_bitmap \ {paddr \div PAGE_SIZE}
        /\ pmm_free_pages' = pmm_free_pages + 1
        /\ UNCHANGED <<boot_info, pmm_total_pages, pmm_max_ram_page,
                       pmm_last_alloc_index, pmm_halted>>

(* kernel_panic: hlt in a loop.                                            *)
Halted == pmm_halted /\ UNCHANGED pmm_vars

(* Any address the callers may pass to pmm_free_page.                      *)
PhysAddrs == 0 .. pmm_total_pages * PAGE_SIZE

Next ==
  \/ pmm_alloc_page
  \/ \E paddr \in PhysAddrs : pmm_free_page(paddr)
  \/ Halted

Spec == Init /\ [][Next]_pmm_vars

-----------------------------------------------------------------------------
(* pmm_dump_regions prints one line per run of target frames: its first   *)
(* and last byte and its size (in pages here; the code prints KiB and MiB). *)
DumpLine(first_page, end_page) ==
  [first |-> first_page * PAGE_SIZE, last |-> end_page * PAGE_SIZE - 1,
   pages |-> end_page - first_page]

(* Mutant: no line for a run still open when the scan ends.                *)
RECURSIVE DumpLoopNoFlush(_, _, _, _, _)
DumpLoopNoFlush(targets, scan_limit, p, run_start, in_run) ==
  IF p >= scan_limit THEN << >>
  ELSE IF p \in targets /\ ~in_run THEN DumpLoopNoFlush(targets, scan_limit, p + 1, p, TRUE)
  ELSE IF p \notin targets /\ in_run
    THEN << DumpLine(run_start, p) >> \o DumpLoopNoFlush(targets, scan_limit, p + 1, run_start, FALSE)
  ELSE DumpLoopNoFlush(targets, scan_limit, p + 1, run_start, in_run)

(* The while loop from frame p: a run opens at a target frame met outside  *)
(* one and is printed at the first frame after it that is not a target    *)
(* (run_end = p - 1); a run still open at scan_limit is printed after the  *)
(* loop, ending at p.                                                      *)
RECURSIVE DumpLoop(_, _, _, _, _)
DumpLoop(targets, scan_limit, p, run_start, in_run) ==
  IF p >= scan_limit THEN IF in_run THEN << DumpLine(run_start, p) >> ELSE << >>
  ELSE IF p \in targets /\ ~in_run THEN DumpLoop(targets, scan_limit, p + 1, p, TRUE)
  ELSE IF p \notin targets /\ in_run
    THEN << DumpLine(run_start, p) >> \o DumpLoop(targets, scan_limit, p + 1, run_start, FALSE)
  ELSE DumpLoop(targets, scan_limit, p + 1, run_start, in_run)

(* pmm_dump_regions(TRUE) (pmm_dump_used): used frames below              *)
(* pmm_total_pages; pmm_dump_regions(FALSE) (pmm_dump_free): clear frames *)
(* below pmm_max_ram_page.                                                 *)
pmm_dump_regions(dump_used_regions) ==
  LET scan_limit == IF dump_used_regions THEN pmm_total_pages ELSE pmm_max_ram_page
      targets    == IF dump_used_regions THEN pmm_bitmap
                    ELSE (0 .. scan_limit - 1) \ pmm_bitmap
  IN  DumpLoop(targets, scan_limit, 0, 0, FALSE)

-----------------------------------------------------------------------------
PmmTypeOK ==
  /\ pmm_bitmap \subseteq 0 .. pmm_total_pages - 1
  /\ pmm_total_pages \in Nat /\ pmm_max_ram_page \in Nat
  /\ pmm_free_pages \in Nat /\ pmm_last_alloc_index \in Nat
  /\ pmm_halted \in BOOLEAN
  /\ boot_info \in BootInfos

(* Reference definition, independent of the code's rounding: the frames   *)
(* that share at least one address with a region pmm_init must lock.      *)
Overlaps(p, r) == p * PAGE_SIZE < r.addr + r.size /\ r.addr < (p + 1) * PAGE_SIZE
MustStayUsed ==
  {p \in 0 .. pmm_total_pages - 1 :
     \E k \in 1 .. Len(LockedRegions(boot_info)) : Overlaps(p, LockedRegions(boot_info)[k])}

(* Frames wholly inside some usable-RAM (type 1) E820 entry.               *)
UsableRam ==
  {p \in 0 .. pmm_total_pages - 1 :
     \E e \in ToSet(boot_info.e820_map) :
        e.type = 1 /\ e.addr <= p * PAGE_SIZE /\ (p + 1) * PAGE_SIZE <= EntryEnd(e)}

=============================================================================

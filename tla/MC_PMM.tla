------------------------------- MODULE MC_PMM -------------------------------
(***************************************************************************)
(* The PMM driven by one caller that keeps the frames it was handed        *)
(* (held) and the last return value of pmm_alloc_page (last_ret).  The     *)
(* caller frees its own frames, and also passes the junk pmm_free_page is  *)
(* written to ignore: misaligned addresses, low memory, frames at or above *)
(* the RAM limit and frames already free (double frees).  It never frees   *)
(* a frame that another owner holds (the kernel image, a reserved region   *)
(* inside RAM): pmm_free_page cannot tell those from its own.              *)
(***************************************************************************)
EXTENDS PMM, BootInfo

CONSTANT NONE

VARIABLES held, last_ret

(* What the loader leaves at E820_BUFFER_PHYS, in a 4-unit page with 2     *)
(* pages of low memory, and what the linker says of the kernel image;     *)
(* boot_info_init turns them into the boot_info pmm_init reads.  With      *)
(* E820_MAX_ENTRIES = 4 both ends of the copy loop happen: QemuLike and    *)
(* HoleInRam fill boot_info.e820_map, TooBig stops at its terminator and   *)
(* leaves the stale entry after it unread.                                 *)
(* QemuLike: RAM up to 32, a reserved sliver inside low memory, an         *)
(* unlisted gap (frames 8..9) below a reserved entry ending mid-page at    *)
(* the top; the kernel image ends mid-page.  HoleInRam: a RAM entry ending *)
(* mid-page next to an unlisted gap, an ACPI entry inside the RAM range,   *)
(* more RAM above.  TooBig: more frames than the 2-byte bitmap holds, so   *)
(* pmm_init panics.                                                        *)
E(a, s, t) == [addr |-> a, size |-> s, type |-> t]
END == E(0, 0, 0)
Image(base, size) == [kernel_phys_offset |-> base, kernel_size |-> size]
QemuLike ==
  boot_info_init(<< E(0, 7, 1), E(7, 1, 2), E(8, 24, 1), E(40, 7, 2), END >>, Image(8, 5))
HoleInRam ==
  boot_info_init(<< E(0, 8, 1), E(8, 10, 1), E(20, 2, 3), E(24, 12, 1), END >>, Image(8, 4))
TooBig ==
  boot_info_init(<< E(0, 60, 1), E(60, 8, 2), END, E(4, 4, 2) >>, Image(8, 4))
MCBootInfos == {QemuLike, HoleInRam, TooBig}

vars == <<pmm_vars, held, last_ret>>

(* Frames that belong to someone other than the caller and that           *)
(* pmm_free_page would accept.                                             *)
ForeignFrames == MustStayUsed \cap (LOW_PAGES .. pmm_max_ram_page - 1)

FreeInputs ==
  {a \in PhysAddrs : a % PAGE_SIZE # 0 \/ a \div PAGE_SIZE \notin ForeignFrames \ held}

MCInit == Init /\ held = {} /\ last_ret = 0

CallerAlloc ==
  /\ pmm_alloc_page
  /\ last_ret' = AllocResult
  /\ held' = IF AllocResult = 0 THEN held ELSE held \cup {AllocResult \div PAGE_SIZE}

CallerFree(paddr) ==
  /\ pmm_free_page(paddr)
  /\ held' = IF paddr % PAGE_SIZE = 0 THEN held \ {paddr \div PAGE_SIZE} ELSE held
  /\ UNCHANGED last_ret

MCNext ==
  \/ CallerAlloc
  \/ \E paddr \in FreeInputs : CallerFree(paddr)
  \/ Halted /\ UNCHANGED <<held, last_ret>>

MCSpec == MCInit /\ [][MCNext]_vars

-----------------------------------------------------------------------------
(* The frame-count conservation of spec.md 8: pmm_free_pages always equals *)
(* the number of clear bits, across pmm_init's overlapping locked regions, *)
(* double frees and frees of junk addresses.                               *)
FreeCountConsistent ==
  ~pmm_halted => pmm_free_pages = pmm_total_pages - Cardinality(pmm_bitmap)

(* Every frame that shares a byte with a non-RAM E820 entry, the kernel    *)
(* image or the low 2 MiB is locked by pmm_init and stays used for ever,   *)
(* whatever the caller frees and allocates.                                *)
ReservedStayUsed ==
  ~pmm_halted => MustStayUsed \subseteq pmm_bitmap

(* pmm_alloc_page and pmm_free_page implement the abstract allocator: the  *)
(* free frames are the ones the scan may take, and "none" (0) is returned  *)
(* only when no such frame exists.                                         *)
Abstract == INSTANCE FrameAllocator WITH
  free <- AllocCandidates,
  used <- (LOW_PAGES .. pmm_max_ram_page - 1) \cap pmm_bitmap,
  ret  <- IF last_ret = 0 THEN NONE ELSE last_ret \div PAGE_SIZE

ImplementsFrameAllocator == Abstract!Spec

-----------------------------------------------------------------------------
(* Spec.md 4.1: pmm_alloc_page scans "starting at the index following the  *)
(* last successful allocation"; the returned frame is the first free frame *)
(* after pmm_last_alloc_index in cyclic order.                             *)
NextFitFromFollowing ==
  [][ CallerAlloc /\ AllocResult # 0 =>
        AllocFrame = FirstCyclicFrom((pmm_last_alloc_index + 1) % pmm_max_ram_page,
                                     AllocCandidates) ]_vars

(* pmm_get_free_page_count is documented (pmm.h) as the number of pages    *)
(* available for allocation: the free frames pmm_alloc_page can hand out.  *)
FreeCountIsAllocatable ==
  ~pmm_halted => pmm_free_pages = Cardinality(AllocCandidates)

(* Spec.md 3: frames outside usable RAM are permanently marked used, so    *)
(* every frame a caller holds lies wholly inside a type-1 E820 entry.      *)
HeldFramesAreRam ==
  held \subseteq UsableRam


(* pmm_dump_used and pmm_dump_free describe the bitmap exactly: one line   *)
(* per maximal run of used frames below pmm_total_pages (of clear frames   *)
(* below pmm_max_ram_page), in address order, with the run's first and     *)
(* last byte and its size.  The run that reaches the end of the scan is    *)
(* printed by the code after the loop, with an end formula of its own.     *)
MaximalRuns(S, limit) ==
  LET starts == {a \in S : a < limit /\ (a = 0 \/ a - 1 \notin S)}
      EndOf(a) == CHOOSE b \in a .. limit - 1 :
                    /\ a .. b \subseteq S
                    /\ (b = limit - 1 \/ b + 1 \notin S)
      order == SetToSortSeq(starts, <)
  IN  [k \in 1 .. Len(order) |->
         [first |-> order[k] * PAGE_SIZE, last |-> (EndOf(order[k]) + 1) * PAGE_SIZE - 1,
          pages |-> EndOf(order[k]) + 1 - order[k]]]
DumpShowsMaximalRuns ==
  ~pmm_halted =>
    /\ pmm_dump_regions(TRUE) = MaximalRuns(pmm_bitmap, pmm_total_pages)
    /\ pmm_dump_regions(FALSE) =
         MaximalRuns((0 .. pmm_max_ram_page - 1) \ pmm_bitmap, pmm_max_ram_page)

=============================================================================

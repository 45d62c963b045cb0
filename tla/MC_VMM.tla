------------------------------- MODULE MC_VMM -------------------------------
(***************************************************************************)
(* The kernel thread touching virtual addresses: a touch of a page that is *)
(* not present raises a page fault and runs vmm_page_fault_handler with    *)
(* CR2 = the address, after which the access is retried.  vmm_unmap_page   *)
(* may be called on any page at or above the kernel base that the boot    *)
(* page tables did not map.                                                *)
(*                                                                         *)
(* Memory is scaled: pages of 4 units, tables of 4 entries, 3 directory    *)
(* entries of which the third has no table.  Virtual page 0 (the null      *)
(* page) is unmapped, page 1 direct-maps frame 0 below the kernel base,    *)
(* pages 2 and 3 map the kernel image; pages 4 to 7 are demand-paged.  The *)
(* boot map leaves two allocatable frames (4 and 5), fewer than the pages  *)
(* that can fault.                                                         *)
(***************************************************************************)
EXTENDS VMM, BootInfo

VARIABLE touched      \* the last address touched, 0 before any

vars == <<pmm_vars, vmm_vars, touched>>

E(a, s, t) == [addr |-> a, size |-> s, type |-> t]
(* The loader's buffer, terminated, and the kernel image.                 *)
VmmBootInfos ==
  {boot_info_init(<< E(0, 7, 1), E(7, 1, 2), E(8, 16, 1), E(0, 0, 0) >>,
                  [kernel_phys_offset |-> 8, kernel_size |-> 5])}
MCBootMappings == (1 :> 0) @@ (2 :> 2) @@ (3 :> 3)

(* Page-aligned and unaligned addresses in every page.                     *)
VAddrs == {v * PAGE_SIZE + o : v \in VPages, o \in {0, PAGE_SIZE - 1}}

MCInit == VmmInit /\ touched = 0

(* An access to a page that is not present faults.                         *)
Access(a) ==
  /\ ~page_table[PageOf(a)].present
  /\ vmm_page_fault_handler(a)
  /\ touched' = a

Unmap(a) ==
  /\ a >= KERNEL_LOAD_VIRTUAL_ADDR
  /\ PageOf(a) \notin DOMAIN BootMappings
  /\ vmm_unmap_page(a)
  /\ UNCHANGED touched

MCNext ==
  \/ \E a \in VAddrs : Access(a)
  \/ \E a \in VAddrs : Unmap(a)
  \/ VmmHalted /\ UNCHANGED touched

MCSpec == MCInit /\ [][MCNext]_vars

-----------------------------------------------------------------------------
(* Demand paging never hands one frame to two pages, nor a frame the PMM   *)
(* still counts as free: every present entry maps a frame whose bit is     *)
(* set, and no two present entries map the same frame, across faults,      *)
(* unmaps and exhaustion.                                                  *)
FramesMappedExclusively ==
  /\ \A v \in VPages : page_table[v].present => page_table[v].frame \in pmm_bitmap
  /\ \A v, w \in VPages :
       v # w /\ page_table[v].present /\ page_table[w].present
         => page_table[v].frame # page_table[w].frame

(* Spec.md 8, demand paging: a fault the handler survives leaves exactly   *)
(* one more frame used and the faulting address translated.               *)
DemandPagingMapsFaultingPage ==
  [][\A a \in VAddrs :
       Access(a) /\ vmm_panic' = "none" =>
         /\ vmm_get_phys_addr(page_table', a) # 0
         /\ Cardinality(pmm_bitmap') = Cardinality(pmm_bitmap) + 1]_vars

-----------------------------------------------------------------------------
(* Spec.md 4.2: the handler halts with "Out of memory" when allocation     *)
(* fails because memory is exhausted; no frame can then be allocatable.    *)
OutOfMemoryMeansExhausted ==
  vmm_panic = "out_of_memory" => AllocCandidates = {}

=============================================================================

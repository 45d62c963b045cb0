-------------------------------- MODULE VMM ---------------------------------
(***************************************************************************)
(* The virtual memory manager of src/08.kernel-mm/kernel/mem/vmm.c over    *)
(* the physical page allocator it takes frames from.                       *)
(*                                                                         *)
(* Virtual memory is a range of page numbers, PAGE_ENTRIES to a page       *)
(* table; the page directory is fixed and only the tables in               *)
(* PresentTables exist (they are provisioned before the kernel runs and    *)
(* vmm.c never creates one).  A page-table entry keeps the present bit and *)
(* the frame number; every mapping vmm.c makes uses PAGE_KERNEL_FLAGS, so  *)
(* the other flags never tell two entries apart and are left out.  The     *)
(* TLB flush (invlpg) follows every write and is not modelled.            *)
(***************************************************************************)
EXTENDS PMM

CONSTANTS
  PAGE_ENTRIES,              \* entries of a page table (1024)
  NUM_TABLES,                \* page-directory entries modelled
  PresentTables,             \* directory entries whose table exists
  KERNEL_LOAD_VIRTUAL_ADDR,  \* faults below it are null-pointer accesses
  BootMappings               \* virtual page -> frame, mapped before entry

VARIABLES
  page_table,                \* virtual page -> [present, frame]
  vmm_panic                  \* "none", or the handler's reason for PANIC()

vmm_vars == <<page_table, vmm_panic>>

VPages == 0 .. PAGE_ENTRIES * NUM_TABLES - 1

NoEntry == [present |-> FALSE, frame |-> 0]

(* get_page: the directory index of a page, and whether its table exists. *)
HasTable(vpage) == vpage \div PAGE_ENTRIES \in PresentTables

PageOf(vaddr) == vaddr \div PAGE_SIZE

(* Mutant: PAGE_ALIGN_UP where PAGE_ALIGN_DOWN was meant.                 *)
PageAlignUp(addr) == (addr + PAGE_SIZE - 1) - ((addr + PAGE_SIZE - 1) % PAGE_SIZE)

PageAlignDown(addr) == addr - (addr % PAGE_SIZE)

(* Mutant: the physical address stored without the shift by 12.            *)
MapEntryNoShift(phys) == [present |-> TRUE, frame |-> phys]

(* The entry vmm_map_page writes with PAGE_KERNEL_FLAGS.                   *)
MapEntry(phys) == [present |-> TRUE, frame |-> phys \div PAGE_SIZE]

(* vmm_map_page: fails, writing nothing, when the page table is absent.   *)
vmm_map_page_ok(vaddr) == HasTable(PageOf(vaddr))

vmm_map_page(pt, vaddr, phys) ==
  IF vmm_map_page_ok(vaddr) THEN [pt EXCEPT ![PageOf(vaddr)] = MapEntry(phys)] ELSE pt

(* Mutant: the "return false on 0" check is missing.                       *)
AllocAndMapNoZeroCheck(pt, vaddr, phys) == vmm_map_page(pt, vaddr, phys)

(* vmm_alloc_and_map_page after pmm_alloc_page returned phys: nothing is  *)
(* mapped when it returned 0; the frame is not given back when the map     *)
(* fails.                                                                  *)
AllocAndMap(pt, vaddr, phys) ==
  IF phys = 0 THEN pt ELSE vmm_map_page(pt, vaddr, phys)

AllocAndMapOk(vaddr, phys) == phys # 0 /\ vmm_map_page_ok(vaddr)

(* vmm_get_phys_addr: 0 for an absent table or a page not present.        *)
vmm_get_phys_addr(pt, vaddr) ==
  IF HasTable(PageOf(vaddr)) /\ pt[PageOf(vaddr)].present
    THEN pt[PageOf(vaddr)].frame * PAGE_SIZE + (vaddr % PAGE_SIZE)
    ELSE 0

-----------------------------------------------------------------------------
(* pmm_init, then vmm_init (which only records the directory and registers *)
(* the handler) over the boot page tables.                                 *)
VmmInit ==
  /\ Init
  /\ page_table = [v \in VPages |->
                     IF v \in DOMAIN BootMappings
                       THEN [present |-> TRUE, frame |-> BootMappings[v]]
                       ELSE NoEntry]
  /\ vmm_panic = "none"

Running == ~pmm_halted /\ vmm_panic = "none"

(* vmm_page_fault_handler(faulting_addr): a fault below the kernel base    *)
(* panics; otherwise one frame is allocated and mapped at the page, and a  *)
(* failure of either panics with "Out of memory".                         *)
vmm_page_fault_handler(faulting_addr) ==
  /\ Running
  /\ \/ /\ faulting_addr < KERNEL_LOAD_VIRTUAL_ADDR
        /\ vmm_panic' = "null_pointer"
        /\ UNCHANGED <<pmm_vars, page_table>>
     \/ /\ faulting_addr >= KERNEL_LOAD_VIRTUAL_ADDR
        /\ pmm_alloc_page
        /\ LET aligned == PageAlignDown(faulting_addr) IN
             /\ page_table' = AllocAndMap(page_table, aligned, AllocResult)
             /\ vmm_panic' = IF AllocAndMapOk(aligned, AllocResult)
                               THEN "none" ELSE "out_of_memory"

(* vmm_unmap_page: nothing for an absent table or page; otherwise the      *)
(* entry is zeroed.  The frame is not returned to the PMM.                *)
vmm_unmap_page(vaddr) ==
  /\ Running
  /\ page_table' = IF HasTable(PageOf(vaddr)) /\ page_table[PageOf(vaddr)].present
                     THEN [page_table EXCEPT ![PageOf(vaddr)] = NoEntry]
                     ELSE page_table
  /\ UNCHANGED <<pmm_vars, vmm_panic>>

(* PANIC(): the kernel halts.                                              *)
VmmHalted == ~Running /\ UNCHANGED <<pmm_vars, vmm_vars>>

-----------------------------------------------------------------------------
VmmTypeOK ==
  /\ page_table \in [VPages -> [present : BOOLEAN, frame : 0 .. pmm_total_pages - 1]]
  /\ vmm_panic \in {"none", "null_pointer", "out_of_memory"}

=============================================================================

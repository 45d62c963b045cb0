----------------------------- MODULE Descriptors -----------------------------
(***************************************************************************)
(* The descriptor tables the kernel builds at boot: the GDT and the TSS    *)
(* of gdt_init (src/08.kernel-mm/kernel/mem/gdt.c, with the encodings of  *)
(* src/07.kernel-idt/kernel/include/gdt.h) and the IDT of idt_init         *)
(* (src/07.kernel-idt/kernel/interrupt/interrupt.c, interrupt.h).          *)
(*                                                                         *)
(* Entries keep their packed fields, filled by the code's masks and        *)
(* shifts.  A 32-bit address is a Word of two 16-bit halves, so that no    *)
(* value leaves TLC's integers; address & 0xFFFF is its lo half and        *)
(* address >> 16 its hi half.  The addresses of tss and of the assembly    *)
(* entry stubs are constants.                                              *)
(***************************************************************************)
EXTENDS Integers, SequencesExt, Bitwise

CONSTANTS
  TSS_ADDR,       \* (uint32_t)&tss
  ISR_STUBS,      \* n \in 0..31 -> the address of isr<n>
  IRQ_STUBS       \* n \in 0..15 -> the address of irq<n>

VARIABLES
  gdt,            \* 0..GDT_ENTRY_COUNT-1 -> gdt_entry_t
  gdt_ptr_limit,  \* gdt_ptr.limit, what lgdt bounds selectors with
  tss,            \* the fields of tss that gdt_init writes (memset leaves the rest 0)
  idt,            \* 0..IDT_ENTRIES-1 -> idt_entry_t
  idt_ptr_limit   \* idt_ptr.limit

desc_vars == <<gdt, gdt_ptr_limit, tss, idt, idt_ptr_limit>>

Word(hi, lo) == [hi |-> hi, lo |-> lo]
ZERO == Word(0, 0)

(* gdt.h: the access byte, the flags nibble and the selector.             *)
GDT_ACCESS_P == 128
GDT_ACCESS_DPL0 == 0
GDT_ACCESS_DPL3 == 96
GDT_ACCESS_S_SYSTEM == 0
GDT_ACCESS_S_CODEDATA == 16
GDT_DATA_RW == 2
GDT_CODE_XR == 10
GDT_TYPE_TSS_AVAIL == 9
GDT_GRAN_4K == 128
GDT_GRAN_1B == 0
GDT_OP_SIZE_32 == 64
GDT_OP_SIZE_16 == 0
GDT_CODE_KERNEL == GDT_ACCESS_P | GDT_ACCESS_DPL0 | GDT_ACCESS_S_CODEDATA | GDT_CODE_XR
GDT_DATA_KERNEL == GDT_ACCESS_P | GDT_ACCESS_DPL0 | GDT_ACCESS_S_CODEDATA | GDT_DATA_RW
GDT_CODE_USER == GDT_ACCESS_P | GDT_ACCESS_DPL3 | GDT_ACCESS_S_CODEDATA | GDT_CODE_XR
GDT_DATA_USER == GDT_ACCESS_P | GDT_ACCESS_DPL3 | GDT_ACCESS_S_CODEDATA | GDT_DATA_RW
GDT_TSS_AVAIL == GDT_ACCESS_P | GDT_ACCESS_DPL0 | GDT_ACCESS_S_SYSTEM | GDT_TYPE_TSS_AVAIL
GDT_FLAGS_KERNEL == GDT_GRAN_4K | GDT_OP_SIZE_32
GDT_FLAGS_USER == GDT_GRAN_4K | GDT_OP_SIZE_32
GDT_FLAGS_VEDIO == GDT_GRAN_1B | GDT_OP_SIZE_16
GDT_FLAGS_TSS == GDT_GRAN_1B | GDT_OP_SIZE_32
GDT_SELECTOR(index, rpl) == (index * 8) | (rpl & 3)
GDT_KERNEL_CODE_SEL == GDT_SELECTOR(1, 0)
GDT_KERNEL_DATA_SEL == GDT_SELECTOR(2, 0)
GDT_USER_CODE_SEL == GDT_SELECTOR(4, 3)
GDT_USER_DATA_SEL == GDT_SELECTOR(5, 3)
GDT_TSS_SEL == GDT_SELECTOR(6, 0)
GDT_TSS_ESP0 == Word(61439, 65520)   \* 0xF0000000-16

(* sizeof(struct tss_struct), packed: 25 uint32_t and 2 uint16_t.          *)
TSS_SIZE == 25 * 4 + 2 * 2

GDT_ENTRY_COUNT == 7
GdtEntry == [limit_low : Nat, base_low : Nat, base_mid : Nat, access : Nat,
             granularity : Nat, base_high : Nat]
ZeroGdtEntry == [limit_low |-> 0, base_low |-> 0, base_mid |-> 0, access |-> 0,
                 granularity |-> 0, base_high |-> 0]
ZeroTss == [esp0 |-> ZERO, ss0 |-> 0, cs |-> 0, ss |-> 0, ds |-> 0, es |-> 0,
            fs |-> 0, gs |-> 0, iomap_base |-> 0]

(* interrupt.h: the gate attribute byte.                                  *)
IDT_ENTRIES == 256
IDT_TYPE_INTERRUPT == 14
IDT_PRESENT == 128
IDT_DPL0 == 0
IDT_MAKE_ATTR(present, dpl, type) == (IF present THEN IDT_PRESENT ELSE 0) | dpl | (type & 15)

-----------------------------------------------------------------------------
(* Mutant: the flags nibble is not merged into the granularity byte.       *)
GdtSetGateNoFlags(t, num, base, limit, access, gran) ==
  [t EXCEPT ![num] = [base_low |-> base.lo,
                      base_mid |-> base.hi & 255,
                      base_high |-> shiftR(base.hi, 8) & 255,
                      limit_low |-> limit & 65535,
                      granularity |-> shiftR(limit, 16) & 15,
                      access |-> access]]

(* gdt_set_gate: base and limit split over the entry; the limit's bits     *)
(* 16..19 share the granularity byte with the high nibble of gran.         *)
gdt_set_gate(t, num, base, limit, access, gran) ==
  [t EXCEPT ![num] = [base_low |-> base.lo,
                      base_mid |-> base.hi & 255,
                      base_high |-> shiftR(base.hi, 8) & 255,
                      limit_low |-> limit & 65535,
                      granularity |-> (shiftR(limit, 16) & 15) | (gran & 240),
                      access |-> access]]

(* The seven calls of gdt_init, in order: <<num, base, limit, access, gran>>. *)
GdtGates ==
  << <<0, ZERO, 0, 0, 0>>,
     <<1, ZERO, 1048575, GDT_CODE_KERNEL, GDT_FLAGS_KERNEL>>,
     <<2, ZERO, 1048575, GDT_DATA_KERNEL, GDT_FLAGS_KERNEL>>,
     <<3, Word(11, 32768), 32767, GDT_DATA_KERNEL, GDT_FLAGS_VEDIO>>,
     <<4, ZERO, 1048575, GDT_CODE_USER, GDT_FLAGS_USER>>,
     <<5, ZERO, 1048575, GDT_DATA_USER, GDT_FLAGS_USER>>,
     <<6, TSS_ADDR, TSS_SIZE - 1, GDT_TSS_AVAIL, GDT_FLAGS_TSS>> >>

(* gdt_init: clear gdt and tss, set the limit lgdt will use, fill the      *)
(* seven entries and the TSS.  gdt_flush and tss_flush load what was built *)
(* and change none of it.                                                   *)
gdt_init ==
  /\ gdt_ptr_limit' = 8 * GDT_ENTRY_COUNT - 1
  /\ gdt' = FoldLeft(LAMBDA t, g : gdt_set_gate(t, g[1], g[2], g[3], g[4], g[5]),
                     [n \in 0 .. GDT_ENTRY_COUNT - 1 |-> ZeroGdtEntry], GdtGates)
  /\ tss' = [ZeroTss EXCEPT !.cs = GDT_KERNEL_CODE_SEL,
                            !.ss = GDT_KERNEL_DATA_SEL, !.ds = GDT_KERNEL_DATA_SEL,
                            !.es = GDT_KERNEL_DATA_SEL, !.fs = GDT_KERNEL_DATA_SEL,
                            !.gs = GDT_KERNEL_DATA_SEL,
                            !.ss0 = GDT_KERNEL_DATA_SEL,
                            !.esp0 = GDT_TSS_ESP0,
                            !.iomap_base = TSS_SIZE]
  /\ UNCHANGED <<idt, idt_ptr_limit>>

-----------------------------------------------------------------------------
(* idt_set_gate's entry: base split into its halves, reserved zero.        *)
IdtEntry(base, sel, flags) ==
  [offset_low |-> base.lo, offset_high |-> base.hi, selector |-> sel, reserved |-> 0,
   type_attr |-> flags]

KernelInterruptGate == IDT_MAKE_ATTR(TRUE, IDT_DPL0, IDT_TYPE_INTERRUPT)

(* SET_ISR(n) fills vector n, SET_IRQ(n) vector 32 + n.                    *)
SET_ISR(n) == n

(* Mutant: the IRQ stubs are put at the line numbers, as if the PICs were  *)
(* not remapped.                                                            *)
SetIrqUnremapped(n) == n

SET_IRQ(n) == 32 + n

(* idt_init up to its call of pic_init: every gate cleared by             *)
(* idt_set_gate(i, 0, 0, 0), then SET_ISR(0..31) and SET_IRQ(0..15), each  *)
(* idt_set_gate(vector, stub, GDT_KERNEL_CODE_SEL, the kernel interrupt    *)
(* attribute).  A slot keeps the last of the calls that wrote it.          *)
IdtGates ==
  [v \in 0 .. IDT_ENTRIES - 1 |->
     IF \E n \in 0 .. 15 : SET_IRQ(n) = v
       THEN IdtEntry(IRQ_STUBS[CHOOSE n \in 0 .. 15 : SET_IRQ(n) = v],
                     GDT_KERNEL_CODE_SEL, KernelInterruptGate)
     ELSE IF \E n \in 0 .. 31 : SET_ISR(n) = v
       THEN IdtEntry(ISR_STUBS[CHOOSE n \in 0 .. 31 : SET_ISR(n) = v],
                     GDT_KERNEL_CODE_SEL, KernelInterruptGate)
     ELSE IdtEntry(ZERO, 0, 0)]

idt_init_tables ==
  /\ idt_ptr_limit' = 8 * IDT_ENTRIES - 1
  /\ idt' = IdtGates
  /\ UNCHANGED <<gdt, gdt_ptr_limit, tss>>

(* The tables before main runs: static storage is zero.                    *)
DescInit ==
  /\ gdt = [n \in 0 .. GDT_ENTRY_COUNT - 1 |-> ZeroGdtEntry]
  /\ gdt_ptr_limit = 0
  /\ tss = ZeroTss
  /\ idt = [v \in 0 .. IDT_ENTRIES - 1 |-> IdtEntry(ZERO, 0, 0)]
  /\ idt_ptr_limit = 0

-----------------------------------------------------------------------------
(* What gdt_dump reads back from an entry (print_gdt_entry and            *)
(* get_access_type_str); the base is reassembled as a Word.               *)
EntryBase(e) == Word(e.base_mid + e.base_high * 256, e.base_low)
EntryLimit(e) == e.limit_low | ((e.granularity & 15) * 65536)
EntryDpl(e) == shiftR(e.access, 5) & 3
EntryGran4K(e) == (e.granularity & 128) # 0
EntrySize32(e) == (e.granularity & 64) # 0
AccessType(access) ==
  CASE (access & 128) = 0 -> "Not Present"
    [] (access & 16) # 0 /\ (access & 8) # 0 ->
         IF (access & 2) # 0 THEN "Code, Readable" ELSE "Code, Execute-Only"
    [] (access & 16) # 0 ->
         IF (access & 2) # 0 THEN "Data, Read/Write" ELSE "Data, Read-Only"
    [] (access & 15) = 9 -> "TSS (Available 32-bit)"
    [] (access & 15) = 11 -> "TSS (Busy 32-bit)"
    [] OTHER -> "System (Other)"

GateOffset(g) == Word(g.offset_high, g.offset_low)

=============================================================================

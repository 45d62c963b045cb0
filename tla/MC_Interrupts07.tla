--------------------------- MODULE MC_Interrupts07 ---------------------------
(***************************************************************************)
(* Chapter 07's boot with interrupts: a timer (IRQ 0), a keyboard (IRQ 1) *)
(* and a device on the slave PIC (IRQ 8) on a three-by-two console.  The   *)
(* messages keep what matters of their text: the warning and the timer's   *)
(* line start with a printed character, the "Unhandled IRQ" line with a    *)
(* newline, and all of them end with one.                                  *)
(***************************************************************************)
EXTENDS Interrupts07

MCWarn      == <<"w", "w", NL>>
MCTick      == <<"t", NL>>
MCUnhandled == <<NL, "u", NL>>
MCGdt       == <<"g", NL>>
MCPic       == <<"p", NL>>
MCIdt       == <<"i", NL>>

(* Higher-half addresses, so that every byte of a base is non-zero: the    *)
(* 48 entry stubs of the assembly file, 16 bytes apart, and tss after them. *)
MCIsrStubs == [n \in 0 .. 31 |-> Word(49168, 4096 + 16 * n)]
MCIrqStubs == [n \in 0 .. 15 |-> Word(49168, 4608 + 16 * n)]
MCTssAddr  == Word(49168, 8192)

GdtEntryType == [limit_low : 0 .. 65535, base_low : 0 .. 65535, base_mid : 0 .. 255,
                 access : 0 .. 255, granularity : 0 .. 255, base_high : 0 .. 255]
IdtEntryType == [offset_low : 0 .. 65535, offset_high : 0 .. 65535, selector : 0 .. 65535,
                 reserved : {0}, type_attr : 0 .. 255]

Interrupts07TypeOK ==
  /\ VGA_BUF \in [Cells -> STRING \X Nat]
  /\ gdt \in [0 .. GDT_ENTRY_COUNT - 1 -> GdtEntryType]
  /\ idt \in [0 .. IDT_ENTRIES - 1 -> IdtEntryType]
  /\ gdt_ptr_limit \in 0 .. 65535 /\ idt_ptr_limit \in 0 .. 65535
  /\ cursor_row \in 0 .. VGA_HEIGHT
  /\ cursor_col \in 0 .. VGA_WIDTH
  /\ crtc \in [hi : 0 .. 255, lo : 0 .. 255]
  /\ interrupt_handlers \in [HandlerVectors -> {TIMER_CALLBACK, NULL}]
  /\ pic \in [irr : SUBSET Lines, isr : SUBSET (Lines \cup {2})]
  /\ eflags_if \in BOOLEAN
  /\ handling \in Lines \cup {NONE}
  /\ pc \in {"gdt", "idt", "sti", "register", "warn", "pit", "idle"}
  /\ putc_pc \in {"start", "nl_col", "inc", "wrap", "wrap_row", "scroll", "sync"}
  /\ raised \in [Lines -> 0 .. MAX_RAISES]
  /\ tick \in 0 .. MAX_RAISES
  /\ lost \in BOOLEAN
  /\ pit \in [bcd : BOOLEAN, count : 0 .. 65535, lo : 0 .. 255, next : {"lo", "hi"}]

(* Whenever main runs, irq_handler's EOIs have cleared every in-service    *)
(* bit of both PICs, the cascade bit 2 of a slave interrupt included;      *)
(* a bit left set would block that line, and all lines of lower priority, *)
(* for good.                                                                *)
EoiClearsInService == handling = NONE => pic.isr = {}

(* Every request on an unmasked line is eventually acknowledged by the     *)
(* CPU: pic_send_eoi never leaves a chip blocked, and main's while (1)     *)
(* keeps interrupts enabled.                                                *)
IrqEventuallyServiced == \A l \in Lines \cap Unmasked : (l \in pic.irr) ~> (l \notin pic.irr)

(* register_interrupt_handler warns "Overwriting handler" only when the   *)
(* vector already had a handler (interrupt.c:298).                        *)
WarnOnlyOnOverwrite == pc = "warn" => replaced # NULL

(* Every character printed reaches the screen and stays there until it   *)
(* scrolls: none of main's is overwritten by an interrupt handler's output, *)
(* and no handler stores one outside VGA_BUF.  vga_putc is entered from    *)
(* irq_handler (timer_callback's vga_printf) while main is inside it, so   *)
(* the handler works from main's half-updated cursor: a column not yet     *)
(* advanced, or a row advanced past the last line and not yet scrolled.    *)
NoCharacterLost == ~lost /\ ~vga_fault

(* A selector as the CPU reads it: the descriptor it indexes, which must   *)
(* lie inside the limit lgdt was given, and its requested privilege.       *)
SelIndex(sel) == shiftR(sel, 3)
SelRpl(sel) == sel & 3
InGdt(sel) == SelIndex(sel) * 8 + 7 <= gdt_ptr_limit /\ SelIndex(sel) \in DOMAIN gdt
Descriptor(sel) == gdt[SelIndex(sel)]
FlatSegment(e) ==
  EntryBase(e) = ZERO /\ EntryLimit(e) = 1048575 /\ EntryGran4K(e) /\ EntrySize32(e)
Resolves(sel, type) ==
  /\ InGdt(sel)
  /\ AccessType(Descriptor(sel).access) = type
  /\ EntryDpl(Descriptor(sel)) = SelRpl(sel)

(* When main reaches enable_interrupts (and from then on, since nothing    *)
(* writes the tables again), every selector the kernel hands to the CPU       *)
(* (gdt.h's code and data selectors, those gdt_init stores in the TSS, and *)
(* the selector of every present IDT gate) indexes a descriptor inside     *)
(* gdt_ptr.limit of the kind its use needs, at the privilege it requests,  *)
(* and the code and data segments are flat 4 GiB 32-bit segments; the TSS  *)
(* descriptor covers exactly tss, and tss.iomap_base lies past its limit,  *)
(* so user mode has no I/O port.  It takes gdt_set_gate's packing of base, *)
(* limit and flags, gdt_init's arguments and the limit of gdt_ptr to agree. *)
SelectorsResolve ==
  pc = "sti" =>
    /\ \A sel \in {GDT_KERNEL_CODE_SEL, GDT_USER_CODE_SEL, tss.cs} :
         Resolves(sel, "Code, Readable") /\ FlatSegment(Descriptor(sel))
    /\ \A sel \in {GDT_KERNEL_DATA_SEL, GDT_USER_DATA_SEL, tss.ss0, tss.ss, tss.ds,
                    tss.es, tss.fs, tss.gs} :
         Resolves(sel, "Data, Read/Write") /\ FlatSegment(Descriptor(sel))
    /\ \A v \in DOMAIN idt : (idt[v].type_attr & 128) # 0 =>
         Resolves(idt[v].selector, "Code, Readable") /\ EntryDpl(Descriptor(idt[v].selector)) = 0
    /\ LET t == Descriptor(GDT_TSS_SEL)
       IN  /\ Resolves(GDT_TSS_SEL, "TSS (Available 32-bit)")
           /\ EntryBase(t) = TSS_ADDR /\ ~EntryGran4K(t)
           /\ EntryLimit(t) + 1 = TSS_SIZE
           /\ tss.iomap_base > EntryLimit(t)

(* When main reaches enable_interrupts, each vector the CPU can be sent lies   *)
(* inside the IDT's limit and holds a present 32-bit interrupt gate to its *)
(* own entry stub: isr<n> for exception n, and for a device line l the     *)
(* stub irq<l> at the vector pic_init programmed the PICs to send for l.   *)
(* The stub's number is what irq_handler turns back into the line it       *)
(* acknowledges, so SET_IRQ's placement, the offsets passed to pic_init    *)
(* and VectorOf must agree.                                                 *)
VectorsReachTheirStubs ==
  LET Gate(v, stub) == /\ v * 8 + 7 <= idt_ptr_limit
                       /\ (idt[v].type_attr & 128) # 0
                       /\ (idt[v].type_attr & 15) = IDT_TYPE_INTERRUPT
                       /\ GateOffset(idt[v]) = stub
  IN  pc = "sti" =>
        /\ \A n \in 0 .. 31 : Gate(n, ISR_STUBS[n])
        /\ \A l \in Lines : Gate(VectorOf(l), IRQ_STUBS[l])

(* Once init_timer has returned, channel 0 of the PIT divides its 1193180 *)
(* Hz input by the divisor init_timer computed for TIMER_FREQUENCY, so IRQ *)
(* 0 arrives TIMER_FREQUENCY times a second (timer.h: the divisor is a     *)
(* 16-bit value, and 50 means an interrupt every 20 ms).  It takes the     *)
(* control word's counting mode and the two data bytes to agree.           *)
PitRateAsRequested ==
  pc = "idle" => PitPeriods(pit) = {TimerDivisor(TIMER_FREQUENCY)}

=============================================================================

----------------------------- MODULE Interrupts07 -----------------------------
(***************************************************************************)
(* Interrupt dispatch of chapter 07 (src/07.kernel-idt/kernel/interrupt/   *)
(* interrupt.c, timer.c and kernel.c) on one CPU, with the two cascaded    *)
(* 8259 PICs as its environment.                                           *)
(*                                                                         *)
(* main runs idt_init with interrupts disabled, executes sti, and calls    *)
(* init_timer, which registers timer_callback for vector 32 and prints     *)
(* through vga_printf; then it spins in while (1).  Its vga_putc calls are *)
(* taken statement by statement, because an interrupt may be accepted      *)
(* between any two of them.  A device raises its line; the PIC passes the  *)
(* highest-priority request that is neither masked nor blocked by a line   *)
(* in service to the CPU, which accepts it when IF is set.  irq_handler    *)
(* runs with IF clear and nothing can interrupt it, so it is one step: the *)
(* EOI, the registered callback or the "Unhandled IRQ" message, and the    *)
(* iret.  (in_interrupt_context is set and cleared inside that step and   *)
(* has no reader, so it is not a variable.)                                *)
(*                                                                         *)
(* The PIC model: fully nested mode, edge triggered, non-specific EOI      *)
(* (which clears the highest-priority in-service bit of the chip it is     *)
(* sent to); slave lines 8..15 enter the master on line 2.                 *)
(***************************************************************************)
EXTENDS Vga07, Descriptors, Pit

CONSTANTS
  Lines,                \* IRQ lines with a device behind them
  Unmasked,             \* lines the firmware left unmasked (pic_init restores its masks)
  PIC1_VECTOR_OFFSET,   \* 0x20
  PIC2_VECTOR_OFFSET,   \* 0x28
  TIMER_CALLBACK,       \* &timer_callback
  NULL,
  MAX_RAISES,           \* bound on the requests each device makes
  WARN_TEXT,            \* what "[WARN] Overwriting handler for vector %d\n" prints
  TICK_TEXT,            \* what "tick=%d\n" prints
  UNHANDLED_TEXT,       \* what "\nUnhandled IRQ: 0x%x\n" prints
  GDT_TEXT,             \* what "[GDT] Initialized.\n" prints
  PIC_TEXT,             \* what "[PIC] Initialized: master offset=..." prints
  IDT_TEXT,             \* what "[IDT] Initialized with %d entries.\n" prints
  TIMER_FREQUENCY       \* the frequency main passes to init_timer

VARIABLES
  interrupt_handlers,   \* vector -> registered handler or NULL
  pic,                  \* [irr, isr]: requested and in-service lines of both chips
  eflags_if,            \* the CPU's interrupt flag
  handling,             \* the line whose irq_handler runs, or NONE
  pc,                   \* where main is
  putc_pc,              \* the statement of main's current vga_putc
  pending,              \* what main has still to print
  tick,                 \* timer.c's tick
  replaced,             \* the handler the registration replaced
  raised,               \* line -> requests made so far
  lost                  \* a printed character was overwritten by another

irq_vars == <<interrupt_handlers, pic, eflags_if, handling, pc, putc_pc, pending,
              tick, replaced, raised, lost>>
vars == <<vga_vars, irq_vars, desc_vars, pit>>

NONE == -1

IRQ0_INT_NUM == 32

MasterLines == 0 .. 7
SlaveLines  == 8 .. 15

(* The vectors pic_init programs: ICW2 of each chip plus the line.         *)
VectorOf(l) == IF l \in SlaveLines THEN PIC2_VECTOR_OFFSET + l - 8 ELSE PIC1_VECTOR_OFFSET + l

HandlerVectors == {VectorOf(l) : l \in Lines} \cup {IRQ0_INT_NUM}

-----------------------------------------------------------------------------
(* The PICs.  A slave line is seen by the master as line 2, and within    *)
(* a chip a lower line number has the higher priority.                     *)
MasterLevel(l) == IF l \in SlaveLines THEN 2 ELSE l

Rank(l) == IF l \in SlaveLines THEN 2 * 16 + l - 7 ELSE l * 16

Blocked(isr, l) ==
  \/ \E s \in isr \cap MasterLines : s <= MasterLevel(l)
  \/ l \in SlaveLines /\ \E s \in isr \cap SlaveLines : s <= l

Deliverable ==
  {l \in pic.irr \cap Unmasked : MasterLevel(l) \in Unmasked /\ ~Blocked(pic.isr, l)}

(* A non-specific EOI to one chip.                                         *)
EoiChip(isr, chip) == IF isr \cap chip = {} THEN isr ELSE isr \ {Min(isr \cap chip)}

(* Mutant: the slave is never told.                                        *)
SendEoiMasterOnly(isr, irq) == EoiChip(isr, MasterLines)

(* pic_send_eoi: the slave first for irq >= 8, then always the master.     *)
pic_send_eoi(isr, irq) ==
  EoiChip(IF irq >= 8 THEN EoiChip(isr, SlaveLines) ELSE isr, MasterLines)

(* A device raises its line: the edge sets the request bit.               *)
Raise(l) ==
  /\ l \notin pic.irr
  /\ raised[l] < MAX_RAISES
  /\ pic' = [pic EXCEPT !.irr = @ \cup {l}]
  /\ raised' = [raised EXCEPT ![l] = @ + 1]
  /\ UNCHANGED <<vga_vars, interrupt_handlers, eflags_if, handling, pc, putc_pc,
                 pending, tick, replaced, lost>>

(* At an instruction boundary with IF set, the CPU acknowledges the        *)
(* highest-priority deliverable line and enters its gate, an interrupt     *)
(* gate that clears IF.                                                    *)
AcceptInterrupt ==
  /\ eflags_if
  /\ handling = NONE
  /\ Deliverable # {}
  /\ LET l == CHOOSE l \in Deliverable : \A m \in Deliverable : Rank(l) <= Rank(m)
     IN  /\ pic' = [irr |-> pic.irr \ {l},
                    isr |-> pic.isr \cup (IF l \in SlaveLines THEN {l, 2} ELSE {l})]
         /\ handling' = l
  /\ eflags_if' = FALSE
  /\ UNCHANGED <<vga_vars, interrupt_handlers, pc, putc_pc, pending, tick, replaced,
                 raised, lost>>

-----------------------------------------------------------------------------
(* A store of a character onto a cell that already shows one.  Printing    *)
(* alone never does this: the cursor only moves forward over blank cells. *)
OnText(st, c) ==
  LET i == st.row * VGA_WIDTH + st.col
  IN  c # NL /\ i \in Cells /\ st.buf[i][1] # " "

(* vga_printf from interrupt context: vga_write of the text, recording     *)
(* whether one of its stores hit a character.                             *)
PrintInInterrupt(st, s) ==
  FoldLeft(LAMBDA acc, c : [st |-> vga07_putc(acc.st, c), lost |-> acc.lost \/ OnText(acc.st, c)],
           [st |-> st, lost |-> FALSE], s)

(* Mutant: the handler looked up is the timer's whatever the vector.      *)
IrqHandlerWrongSlot ==
  /\ handling # NONE
  /\ LET vector == VectorOf(handling)
         irq    == (vector - 32) % 256
         timer  == interrupt_handlers[IRQ0_INT_NUM] = TIMER_CALLBACK
         out    == PrintInInterrupt(Console, IF timer THEN TICK_TEXT ELSE UNHANDLED_TEXT)
     IN  /\ pic' = [pic EXCEPT !.isr = pic_send_eoi(@, irq)]
         /\ tick' = IF timer THEN tick + 1 ELSE tick
         /\ Become(out.st)
         /\ lost' = (lost \/ out.lost)
  /\ handling' = NONE
  /\ eflags_if' = TRUE
  /\ UNCHANGED <<interrupt_handlers, pc, putc_pc, pending, replaced, raised>>

(* irq_handler with the iret that ends the stub: irq = int_no - 32 as a    *)
(* uint8_t, the EOI, then timer_callback (tick++, far from its 2^32 wrap  *)
(* under MAX_RAISES, and its message) or the "Unhandled IRQ" message.    *)
irq_handler ==
  /\ handling # NONE
  /\ LET vector == VectorOf(handling)
         irq    == (vector - 32) % 256
         timer  == interrupt_handlers[vector] = TIMER_CALLBACK
         out    == PrintInInterrupt(Console, IF timer THEN TICK_TEXT ELSE UNHANDLED_TEXT)
     IN  /\ pic' = [pic EXCEPT !.isr = pic_send_eoi(@, irq)]
         /\ tick' = IF timer THEN tick + 1 ELSE tick
         /\ Become(out.st)
         /\ lost' = (lost \/ out.lost)
  /\ handling' = NONE
  /\ eflags_if' = TRUE
  /\ UNCHANGED <<interrupt_handlers, pc, putc_pc, pending, replaced, raised>>

-----------------------------------------------------------------------------
(* main, from gdt_init() on; it runs when no handler does.                 *)
Running == handling = NONE

(* gdt_init with its closing vga_printf; IF is still clear.                *)
boot_gdt_init ==
  /\ Running /\ pc = "gdt"
  /\ gdt_init
  /\ Become(vga07_write(Console, GDT_TEXT))
  /\ pc' = "idt"
  /\ UNCHANGED <<interrupt_handlers, pic, eflags_if, handling, putc_pc, pending, tick,
                 replaced, raised, lost>>

(* idt_init: the gates, then pic_init (whose ICW1 leaves both chips with   *)
(* nothing requested or in service, and which prints its line), the lidt  *)
(* and idt_init's own line.                                                *)
idt_init ==
  /\ Running /\ pc = "idt"
  /\ idt_init_tables
  /\ pic' = [irr |-> {}, isr |-> {}]
  /\ Become(vga07_write(vga07_write(Console, PIC_TEXT), IDT_TEXT))
  /\ pc' = "sti"
  /\ UNCHANGED <<interrupt_handlers, eflags_if, handling, putc_pc, pending, tick,
                 replaced, raised, lost>>

(* Mutant: the sti is left out, so the interrupt flag stays clear.          *)
EnableInterruptsMissing ==
  /\ Running /\ pc = "sti"
  /\ eflags_if' = FALSE
  /\ pc' = "register"
  /\ UNCHANGED <<vga_vars, interrupt_handlers, pic, handling, putc_pc, pending, tick,
                 replaced, raised, lost>>

enable_interrupts ==
  /\ Running /\ pc = "sti"
  /\ eflags_if' = TRUE
  /\ pc' = "register"
  /\ UNCHANGED <<vga_vars, interrupt_handlers, pic, handling, putc_pc, pending, tick,
                 replaced, raised, lost>>

(* register_interrupt_handler(IRQ0_INT_NUM, &timer_callback): the store    *)
(* (vector < IDT_ENTRIES holds for every uint8_t), then the check of the   *)
(* slot just written, which decides whether the warning is printed.        *)
register_interrupt_handler ==
  /\ Running /\ pc = "register"
  /\ interrupt_handlers' = [interrupt_handlers EXCEPT ![IRQ0_INT_NUM] = TIMER_CALLBACK]
  /\ replaced' = interrupt_handlers[IRQ0_INT_NUM]
  /\ IF interrupt_handlers'[IRQ0_INT_NUM] # NULL
       THEN pc' = "warn" /\ pending' = WARN_TEXT
       ELSE pc' = "pit" /\ pending' = pending
  /\ UNCHANGED <<vga_vars, pic, eflags_if, handling, putc_pc, tick, raised, lost>>

(* The statements of chapter 07's vga_putc, one step each; the two scroll  *)
(* loops are one step.                                                      *)
PutcStep(from, to, st) ==
  /\ Running /\ pc = "warn" /\ putc_pc = from
  /\ Become(st)
  /\ putc_pc' = to
  /\ UNCHANGED <<interrupt_handlers, pic, eflags_if, handling, pc, pending, tick,
                 replaced, raised>>

PutcStart ==
  /\ pc = "warn" /\ putc_pc = "start"
  /\ LET c == Head(pending)
     IN  IF c = NL
           THEN PutcStep("start", "nl_col", [Console EXCEPT !.row = @ + 1]) /\ lost' = lost
           ELSE /\ PutcStep("start", "inc", Store(Console, cursor_row, cursor_col, <<c, current_color>>))
                /\ lost' = (lost \/ OnText(Console, c))

PutcNewlineCol == PutcStep("nl_col", "scroll", [Console EXCEPT !.col = 0]) /\ lost' = lost

PutcAdvance == PutcStep("inc", "wrap", [Console EXCEPT !.col = @ + 1]) /\ lost' = lost

PutcWrap ==
  IF cursor_col >= VGA_WIDTH
    THEN PutcStep("wrap", "wrap_row", [Console EXCEPT !.col = 0]) /\ lost' = lost
    ELSE PutcStep("wrap", "scroll", Console) /\ lost' = lost

PutcWrapRow == PutcStep("wrap_row", "scroll", [Console EXCEPT !.row = @ + 1]) /\ lost' = lost

PutcScroll == PutcStep("scroll", "sync", Scroll(Console)) /\ lost' = lost

(* vga_sync_cursor ends the call; vga_write's loop stops at the end of the  *)
(* text.                                                                    *)
PutcSync ==
  /\ Running /\ pc = "warn" /\ putc_pc = "sync"
  /\ Become(vga_sync_cursor(Console))
  /\ putc_pc' = "start"
  /\ pending' = Tail(pending)
  /\ pc' = IF Tail(pending) = <<>> THEN "pit" ELSE "warn"
  /\ UNCHANGED <<interrupt_handlers, pic, eflags_if, handling, tick, replaced, raised, lost>>

(* The rest of init_timer: the divisor and the three writes to the PIT.   *)
init_timer_pit ==
  /\ Running /\ pc = "pit"
  /\ init_timer(TIMER_FREQUENCY)
  /\ pc' = "idle"
  /\ UNCHANGED <<vga_vars, interrupt_handlers, pic, eflags_if, handling, putc_pc, pending,
                 tick, replaced, raised, lost>>

(* while (1);                                                               *)
Idle == Running /\ pc = "idle" /\ UNCHANGED vars

-----------------------------------------------------------------------------
(* main is about to call gdt_init with interrupts disabled: no handler is *)
(* registered, the tables are zero, and the console is as vga_clear left   *)
(* it (main's two earlier lines are not modelled).                         *)
Init ==
  /\ VgaInit
  /\ DescInit
  /\ PitInit
  /\ interrupt_handlers = [v \in HandlerVectors |-> NULL]
  /\ pic = [irr |-> {}, isr |-> {}]
  /\ eflags_if = FALSE
  /\ handling = NONE
  /\ pc = "gdt"
  /\ putc_pc = "start"
  /\ pending = <<>>
  /\ tick = 0
  /\ replaced = NULL
  /\ raised = [l \in Lines |-> 0]
  /\ lost = FALSE

Boot == boot_gdt_init \/ idt_init

MainStep ==
  /\ \/ /\ \/ enable_interrupts
           \/ register_interrupt_handler
           \/ PutcStart \/ PutcNewlineCol \/ PutcAdvance \/ PutcWrap \/ PutcWrapRow
           \/ PutcScroll \/ PutcSync
           \/ Idle
        /\ UNCHANGED pit
     \/ init_timer_pit
  /\ UNCHANGED desc_vars

Next ==
  \/ /\ \/ \E l \in Lines : Raise(l)
        \/ AcceptInterrupt
        \/ irq_handler
     /\ UNCHANGED <<desc_vars, pit>>
  \/ Boot /\ UNCHANGED pit
  \/ MainStep

(* irq_handler is enabled exactly when a handler runs, and it is the only *)
(* step that ends one; so a step ending a handler is an irq_handler step, *)
(* and fairness for it is fairness for irq_handler, stated in a form whose *)
(* enabledness TLC decides from handling alone.                           *)
HandlerReturns == handling # NONE /\ handling' = NONE

(* Likewise the boot steps are the only ones that move main past "gdt" and *)
(* "idt".                                                                   *)
BootAdvances == pc \in {"gdt", "idt"} /\ pc' = IF pc = "gdt" THEN "idt" ELSE "sti"

(* The CPU keeps executing main, takes a deliverable interrupt at an       *)
(* instruction boundary while IF is set, and runs a handler to its end.    *)
(* Devices are not obliged to raise their lines.                           *)
Fairness ==
  /\ WF_pc(BootAdvances)
  /\ WF_vars(MainStep)
  /\ WF_vars(AcceptInterrupt /\ UNCHANGED <<desc_vars, pit>>)
  /\ WF_handling(HandlerReturns)

Spec == Init /\ [][Next]_vars

FairSpec == Spec /\ Fairness

=============================================================================

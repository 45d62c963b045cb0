# TLA+ models of the kernel memory-management core

This directory holds TLA+ models of the kernel of `src/08.kernel-mm/kernel`
and of the interrupt chapter it grew from, `src/07.kernel-idt/kernel`. The
parts modelled are:

- the physical page allocator;
- the kernel heap with its hole index;
- the virtual memory manager;
- the pseudo-random generator that drives the heap's stress test;
- the VGA text console and `vga_printf` with its number conversions;
- the descriptor tables built at boot: the GDT and TSS of `gdt_init` and the
  IDT of `idt_init`;
- chapter 07's interrupt path: the PIC pair, `irq_handler`, the timer and
  `main`'s printing with interrupts enabled.

Every definition is translated from the C source. `PROJECT.json` maps each definition to the lines it models and
lists the runs, the mutants, the findings and the hazards.

## The system

`main()` (kernel.c) sets up the GDT, the IDT and the timer, then calls these in order:

1. `boot_info_init()` copies the loader's E820 map and the kernel's linker
   symbols into `boot_info`.
2. `pmm_init(&boot_info)` builds the frame bitmap. It sizes the bitmap from the
   highest E820 end and panics if the bitmap does not fit its static storage.
   It then locks every non-RAM entry, the kernel image and the low 2 MiB.
   `pmm_alloc_page` is a next-fit scan below the RAM limit. `pmm_free_page`
   silently ignores addresses it considers invalid.
3. `vmm_init()` registers the page-fault handler. On a fault at or above the
   kernel base, the handler takes a frame from the PMM and maps it into the
   pre-provisioned page tables.
4. `init_kheap()` creates the boundary-tag heap at `KHEAP_START`. Every block
   has a 9-byte header (magic, is_hole, size) and an 8-byte footer (magic,
   header pointer). The holes are kept in an `ordered_array` sorted by size,
   which lives in front of the heap.
   - `kmalloc` and `kmalloc_aligned` take the smallest fitting hole, cutting a
     front hole for page alignment and a trailing hole from what remains. If no
     hole fits, they grow the heap and retry.
   - `kfree` marks the block a hole, merges it with a right and then a left
     neighbouring hole, and indexes the result.
   - The heap's memory is demand-paged: touching a new heap page faults and
     pulls a frame from the PMM.
5. `kheap_killer()` is the stress test. After every call it checks that
   `kheap_validate_print(0)` equals the number of live blocks. Its sizes come
   from `rand_range(1, 1000)`, which is seeded with 5 and later with the
   timer tick.

In chapter 08 everything runs on one core in one kernel thread. The timer
interrupt only increments `tick`. The page-fault handler runs synchronously
inside the heap code that touched the page, and never calls the heap.
`kheap_lock` (a yieldlock) is therefore never contended, so no chapter 08
model interleaves threads. The nondeterminism these models explore is:

- the caller's choice of calls and arguments;
- the boot map;
- when the timer ticks relative to the seeding of `rand`.

### The console and chapter 07's interrupts

`drivers/vga.c` writes 16-bit cells (character, colour) into the flat buffer
`VGA_BUF`. It keeps a software cursor `(cursor_row, cursor_col)` and copies it
to the CRT controller's cursor-location registers in `vga_sync_cursor`.

- `vga_putc` interprets `\n`, `\r`, `\t` and `\b`, stores any other
  character, wraps at the right edge and scrolls at the bottom.
- `vga_printf` scans its format and converts numbers with `vga_itoa`,
  `vga_utoa`, `vga_ulltoa` and `vga_human_size` into a 64-byte buffer.

Chapter 07 has an older console with the same store and scroll code. Its
`main` enables interrupts and then registers the timer callback, which prints
a line on every tick. The 8259 PIC pair delivers IRQs 0 to 15 at vectors 32 to
47. `irq_handler` sends the end-of-interrupt (EOI) to the PICs, then calls the
registered handler, or prints "Unhandled IRQ". An interrupt gate clears IF, so
handlers never nest. `main` prints with IF set, so a handler's output can land
in the middle of `main`'s `vga_putc`.

Before that, with IF still clear, `main` calls `gdt_init` (08 `mem/gdt.c`,
with the encodings of 07 `include/gdt.h`) and `idt_init`. `gdt_init` builds
seven descriptors: null, kernel code and data, video, user code and data, and
the TSS. It also fills the TSS's selectors. `idt_init` points vectors 0-31 at
the stubs `isr0..31` and vectors 32-47 at `irq0..15`, all through the kernel
code selector as 32-bit interrupt gates. It then calls `pic_init(0x20, 0x28)`,
which programs the PICs to send line l at vector 0x20 + l (0x28 + l - 8 on the
slave).

## Modules

| Module | Models | State | Actions |
|---|---|---|---|
| `PMM` | `mem/pmm.c` | `pmm_bitmap` (set of used frames), `pmm_free_pages`, `pmm_total_pages`, `pmm_max_ram_page`, `pmm_last_alloc_index`, `pmm_halted`, `boot_info` | `pmm_init` (the `Init`), `pmm_alloc_page`, `pmm_free_page(paddr)`, `Halted` (after the bitmap-size panic) |
| `BootInfo` | 08 `mem/boot_info.c`: `boot_info_init` | (pure operators) | `E820Scan` (the copy loop), `boot_info_init(buffer, sections)` |
| `FrameAllocator` | the allocator's contract (spec.md 4.1, 8) | `free`, `used`, `ret` | `Alloc`, `AllocNone`, `Free` |
| `MC_PMM` | a caller of the PMM | `held`, `last_ret` | `CallerAlloc`, `CallerFree` |
| `OrderedArray` | `lib/ordered_array.c` | (pure operators) | insert, remove, remove_element |
| `KHeap` | `mem/kheap.c` | `blocks` (header address -> size, is_hole), `index`, `end_address`, `heap_panic` | `kmalloc_impl(size, align)` (covers `kmalloc` and `kmalloc_aligned`), `kfree(ptr)`, `HeapHalted` |
| `HeapAllocator` | the heap's contract: disjoint, in-bounds caller ranges | `allocated` | `Alloc`, `Free` |
| `MC_KHeap` | the stress test's pattern of use | `live`, `freed` | `Malloc`, `Free` |
| `VMM` | `mem/vmm.c` (extends `PMM`) | `page_table` (virtual page -> present, frame), `vmm_panic` | `VmmInit`, `vmm_page_fault_handler(addr)` (with the whole `pmm_alloc_page` call), `vmm_unmap_page(addr)`, `VmmHalted` |
| `MC_VMM` | the kernel thread touching memory | `touched` | `Access` (a touch of a non-present page faults), `Unmap` |
| `Rand` | `lib/rand.c`, `interrupt/timer.c` | `seed`, `tick`, `rand_ret` | `rand_seed`, `rand_seed_with_time`, `rand_range(1, 1000)`, `timer_callback` |
| `Vga` | 08 `drivers/vga.c`: the console | `VGA_BUF`, `cursor_row`, `cursor_col`, `current_color`, `crtc`, `vga_fault` | operators on a console record: `vga_putc`, `vga_write`, `vga_clear`, `vga_set_color`, `vga_move_cursor`, `vga_sync_cursor` |
| `Terminal` | the console's contract: a grid and a cursor | `lines`, `cursor` | `Clear`, `Move`, `Store`, `Erase`, each with or without a scroll |
| `MC_Vga` | the console's callers | (those of `Vga`) | `Putc(c)`, `Clear`, `SetColor`, `MoveCursor` |
| `Fmt` | 08 `vga_ulltoa`, `vga_utoa`, `vga_itoa`, `vga_human_size`; 07 `vga_itoa` | (pure operators) | |
| `MC_Fmt` | a caller converting values | `n` | `Convert` |
| `Printf` | the format loop of 08 and 07 `vga_printf` | (pure operators) | |
| `MC_Printf` | callers of `vga_printf` with short formats | `fmt`, `printed` | `Printf08`, `Printf07` |
| `Vga07` | 07 `drivers/vga.c` (extends `Vga`) | (those of `Vga`) | `vga07_putc`, `vga07_move_cursor` |
| `MC_Vga07` | the 07 console's callers | (those of `Vga`) | `Putc07`, `MoveCursor07` |
| `Interrupts07` | 07 `interrupt/interrupt.c`, `interrupt/timer.c`, `kernel.c`, `vga_putc` statement by statement (extends `Vga07`, `Descriptors` and `Pit`) | `interrupt_handlers`, `pic` (irr, isr), `eflags_if`, `handling`, `pc`, `putc_pc`, `pending`, `tick`, `raised`, `replaced`, `lost` | `boot_gdt_init`, `idt_init`, `Raise(l)` (a device), `AcceptInterrupt`, `irq_handler`, `enable_interrupts`, `register_interrupt_handler`, the seven `Putc*` statements, `init_timer_pit`, `Idle` |
| `Descriptors` | 08 `mem/gdt.c`, 07 `include/gdt.h`, `idt_set_gate` and `idt_init` of 07 `interrupt.c`, 07 `include/interrupt.h` | `gdt`, `gdt_ptr_limit`, `tss`, `idt`, `idt_ptr_limit` | `gdt_init`, `idt_init_tables`; operators `gdt_set_gate`, `IdtEntry`, `SET_ISR`, `SET_IRQ`, `IDT_MAKE_ATTR`, and `gdt_dump`'s decoders |
| `Pit` | channel 0 of the 8254 timer as its environment; `init_timer`'s divisor and writes (07 `interrupt/timer.c`, the PIT names of 08 `include/ports.h`) | `pit` (counting mode, count, low byte, byte flip-flop) | operator `init_timer(frequency)`; `PitOutb` (the chip taking a byte), `PitPeriods` (the periods a count gives) |
| `MC_Interrupts07` | instance with three IRQ lines, short messages and higher-half stub addresses | | |

### PMM

Frames are numbered and the bitmap is the set of used frames. `pmm_init` folds
`MarkRegionUsed` over the regions it locks, in the code's order. For each region
it takes the floor of the start and the ceiling of the end, clips the end to the
bitmap, and decrements the free count only for bits that were clear.

Next-fit is computed as a set: `AllocCandidates` holds the frames the do-while
loop would accept. `FirstCyclicFrom` picks the first of them counting up from
`pmm_last_alloc_index % pmm_max_ram_page`, wrapping at the RAM limit.

Addresses are scaled: a page is 4 units and low memory is 8 units (2 pages).
`MC_PMM` has three boot maps. Each is built by applying `BootInfo`'s
`boot_info_init` to a loader buffer, with `E820_MAX_ENTRIES = 4`:

- `QemuLike`: a reserved sliver in low memory, an unlisted gap, and a reserved
  entry above RAM that ends mid-page.
- `HoleInRam`: a RAM entry ending mid-page, a gap, and an ACPI entry between
  RAM entries.
- `TooBig`: more frames than the 2-byte bitmap holds.

The buffers of `QemuLike` and `HoleInRam` hold four entries before their
terminator, so the copy loop stops at the cap. `TooBig`'s buffer has an entry
after the terminator, which the loop must not copy.

`pmm_dump_regions` (behind `pmm_dump_used` and `pmm_dump_free`) is the
recursive operator `DumpLoop`. It follows the while loop's open-run and
close-run branches and the flush after the loop. `DumpShowsMaximalRuns`
compares its lines with a reference: the maximal runs of used frames below
`pmm_total_pages`, and of clear frames below `pmm_max_ram_page`, in address
order.

The caller frees its own frames and also every kind of junk `pmm_free_page`
filters out: misaligned addresses, low memory, frames beyond RAM, and double
frees. It never frees a frame held by another owner.

`FrameAllocator` is the abstract allocator. `MC_PMM` instantiates it with this
refinement mapping:

- `free <- AllocCandidates`
- `used <-` the used frames in `[low, RAM limit)`
- `ret <-` the last return, with `NONE` for 0

and checks `ImplementsFrameAllocator`.

### KHeap and OrderedArray

The heap is abstracted to its tags. `blocks` maps every header on the chain to
its size and hole flag. A footer is implied, because it always points back to
its header. `make_block` overwrites the headers a new block covers, as writing
the block does in memory. The index is a sequence of header addresses, and the
comparator is passed to the `OrderedArray` operators as the key function `SizeKey(bl)`,
which maps each header to its size.
Ties are inserted after equal keys, as the C loop does.

`alloc` is a RECURSIVE operator over a state record, mirroring the C recursion
after a growth. It ends because each growth adds at least a page and the heap
stops at `KHEAP_MAX`.

`heap_panic` records why the kernel halted:

- `"heap_max"`: the growth ASSERT, i.e. out of heap;
- `"assert"`: any other ASSERT of kheap.c.

The header (9 bytes) and footer (8 bytes) keep their real sizes. The page is
scaled to 32 bytes, with a 32-byte index storage in front of a 96-byte initial
heap and the maximum at 224. At these sizes:

- a 30-byte aligned request needs a front cut;
- a 30-byte request in the 47-byte initial hole leaves exactly
  `BLOCK_META_SIZE` behind, so the whole hole is consumed;
- a few requests exhaust the heap.

`MC_KHeap` also maps the heap onto `HeapAllocator`. The abstract `allocated`
is the set of payload ranges `[ptr, size]` of the non-hole blocks. The run
`kheap` checks `Abstract!Spec` as a property. It shows that a split,
a growth or a merge only rearranges holes, and that each call adds or removes
exactly one caller range, disjoint from the others.

### VMM

`VMM` EXTENDS `PMM`, because the fault handler calls `pmm_alloc_page`. The
handler action therefore contains the allocator's whole step: bitmap, count and
next-fit index.

- A page-table entry keeps only the present bit and the frame. Every mapping
  vmm.c makes uses `PAGE_KERNEL_FLAGS`, so the other flags never differ.
- `get_page`'s NULL for a missing table is `HasTable`. Tables are provisioned
  before the kernel runs and vmm.c never creates one, so `PresentTables` is a
  constant.
- `vmm_alloc_and_map_page` is `AllocAndMap` applied to `AllocResult`. When the
  map fails, the frame stays taken, as in the code.

`MC_VMM` uses pages of 4 units and tables of 4 entries, with 3 directory
entries. The third directory entry has no table.

- Page 0 is the unmapped null page.
- Page 1 direct-maps frame 0 below the kernel base.
- Pages 2 and 3 map the kernel image.
- Pages 4 to 7 are demand-paged.

Its boot map also comes from `boot_info_init`, here with the code's
`E820_MAX_ENTRIES = 128`. The boot map leaves two allocatable frames, so exhaustion is reachable.
Addresses are touched both page-aligned and unaligned.

### Rand

`rand()` is exact arithmetic modulo 2^31, because 2^31 divides the uint32 wrap.
The product with `rand_a = 8191 * 2^12` is computed in pieces that stay below
TLC's integer limit. `rand_range` truncates `r * (max - min) / 2^31 + min`.
That value is exact in a double: `r / 2^31` is exact, and `max - min` has fewer
than 10 bits. The decomposition was cross-checked against direct arithmetic for
the seeds the run reaches.

### Vga and Terminal

Each function of vga.c is an operator from a console record
`[buf, row, col, color, crtc, fault]` to the next, and `Become(st)` makes a
record the current state. Because the functions are operators, `vga_write` is
a fold of `vga_putc` over a text, and chapter 07's handlers can print with it.

- `Store` writes `VGA_BUF[row * VGA_WIDTH + col]`. An index outside the
  buffer sets `fault` instead, since in C it would overwrite what follows.
- `vga_sync_cursor` computes `row * 80 + col` with the literal 80 and sends
  it as two bytes. `crtc` keeps those bytes.
- `vga_putc` is `PutChar`, then `Scroll`, then `vga_sync_cursor`, as in the
  code.

`MC_Vga` drives the console on a 5-by-2 screen. Width 5 is not a multiple of 4,
so a tab can pass the right edge. Its callers use:

- `vga_putc` of one printable character and every control character;
- `vga_clear` and `vga_set_color`;
- `vga_move_cursor` to the last cell and to a row off the screen.

`Terminal` states the console's promise over a grid of lines and a cursor. A
call stores one cell at the cursor, or erases the cell before it, or clears,
or moves. A scroll may follow, and no other cell changes. `MC_Vga` maps the
flat buffer to the grid, line `r` being cells `r * VGA_WIDTH ..`, and checks
`Screen!Spec`.

### Fmt and Printf

A C string is the sequence of its one-character strings. Each conversion
returns what it leaves in the buffer. The digit loops are RECURSIVE operators,
and the reversal is `Reverse` from SequencesExt.

TLC's integers stop at 2^31 - 1, so the modelled values are below that. Where
vga.c compares with larger constants, each operator takes the comparison as
every modelled value gives it, and says so:

- `vga_ulltoa`'s powers 10^10 to 10^19 give the digit 0;
- `vga_human_size`'s 2^40 threshold is never reached.

`vga_human_size`'s `(remainder * 10) >> k` is computed in two parts, so that
the product stays in range.

`MC_Fmt` checks the conversions for every value in -130..130 and at the edges
of digits, units and widths. The reference it checks against is positional
notation, defined recursively and read back.

`Printf` models the format as a C string. Position `Len(fmt) + 1` is the
terminator, and a read beyond it is recorded as `overread`, where the C loop
would go on through whatever memory follows. The arguments are three
integers. `MC_Printf` enumerates every format of at most three characters
over `{%, l, d, a}`.

### Descriptors

Entries keep their packed fields, and each field is filled by the code's own
masks and shifts, using the `Bitwise` community module. A 32-bit address is
a `Word` of two 16-bit halves, because TLC's integers stop at 2^31. The
halves are exactly what `& 0xFFFF` and `>> 16` produce. The addresses of
`tss` and of the assembly stubs are constants.

- `gdt_set_gate` splits base and limit and merges the limit's bits 16..19
  with the high nibble of `gran`. `gdt_init` clears the table (the
  `memset`), folds the seven calls of `GdtGates` over it in order, sets
  `gdt_ptr.limit` to 8*7-1, and writes the TSS's selectors, `esp0` and
  `iomap_base`. `gdt_flush` and `tss_flush` only load what was built.
- `idt_init_tables` is `idt_init` up to its call of `pic_init`. It sets
  `idt_ptr.limit` and builds the table. The clearing loop and the 48
  `SET_ISR` and `SET_IRQ` calls write distinct slots, so `IdtGates` states
  the result slot by slot: a slot holds the last call that wrote it.
  `SET_ISR(n)` and `SET_IRQ(n)` are the vectors the macros pass.
- `EntryBase`, `EntryLimit`, `EntryDpl`, `EntryGran4K`, `EntrySize32` and
  `AccessType` are `gdt_dump`'s reading of an entry (`print_gdt_entry` and
  `get_access_type_str`). The properties use them to read the table back.

### Interrupts07

The module composes the chapter 07 console (`Vga07`), the PIC pair and the CPU.

- **PIC.** `pic.irr` is the set of requested lines and `pic.isr` the set in
  service, with lines 8 to 15 on the slave.
  - `Raise(l)` is a device. It is edge-triggered, so a line already requested
    stays one request. `MAX_RAISES` bounds the requests per line.
  - In fully nested mode a line is delivered only when no line of higher or
    equal priority is in service on its chip. A slave line also needs
    master line 2 to be free. `Rank` orders the lines as the cascade does.
  - `pic_send_eoi` is a non-specific EOI. It clears the highest-priority
    in-service line of the slave (for IRQ 8 and up), then that of the master.
- **CPU.** `AcceptInterrupt` takes the highest-priority deliverable line when
  IF is set and no handler runs. It moves the line from irr to isr (adding
  line 2 for a slave line) and clears IF, as the interrupt gate does.
  `irq_handler` is one atomic step: IF is clear, so nothing interleaves with
  it. The step is the EOI, then `timer_callback` (`tick++` and its line of
  text through `vga07_write`) or the "Unhandled IRQ" text, then the `iret`,
  which restores IF.
- **main.** `main` starts at `gdt_init`, with IF clear, no handler and
  zeroed tables (main's two earlier messages are not modelled).
  `boot_gdt_init` is `gdt_init` with its closing message. `idt_init` is the
  tables of `Descriptors` plus `pic_init`. Its ICW1 leaves both chips with
  nothing requested or in service. The step also prints `pic_init`'s and
  `idt_init`'s lines. Both steps are atomic, since IF is clear. A device may
  already raise its line during them. Then `main`
  runs `enable_interrupts`, then `register_interrupt_handler` for the timer,
  whose slot test comes after the store. Next it prints the warning text,
  then runs the rest of `init_timer` (`init_timer_pit`: the divisor, the
  control word and the divisor's two bytes, through `Pit`), then `while (1)`. The warning is
  printed one `vga_putc` statement at a time: store, `cursor_col++`, wrap,
  wrap row, newline column, scroll and sync, each a step. An interrupt can
  therefore land between any two of them.
- **Lost characters.** `lost` records that a handler wrote over a cell holding
  a non-blank character that `main` had stored in its current call.

`MC_Interrupts07` uses a 2-by-2 screen and IRQ lines 0 (the timer), 1 and 8,
all unmasked, with two requests per line. The texts keep what matters of the
real messages: each ends with a newline; the warning and the tick line start
with a printed character, the "Unhandled" line with a newline. The two-column
screen makes `main`'s warning wrap and scroll. The stubs and `tss` get
higher-half addresses (0xC010xxxx), so the high byte of a base is non-zero.
`TIMER_FREQUENCY` is 50, the value of timer.h. `MC_Interrupts07_PitRate.cfg`
keeps only line 0 and one request, since the PIT is programmed once, in
`main`.

`Pit` models channel 0 of the 8254 as the datasheet describes it, since no
code of the repository implements the chip. A control word sets the
counting mode and resets the byte flip-flop. The next two bytes written to
port 0x40 form the count. The channel divides its 1193180 Hz input by the
count, with 0 standing for 2^16 in binary or 10^4 in BCD. A BCD count with a
digit above 9 is left undefined by the part, so it may give any period up to
10^4. `init_timer`'s `& 0xFF` and `>> 8` are written as `% 256` and
`\div 256`.

## Runs

| Run | Checks | Result |
|---|---|---|
| `pmm` (MC_PMM.cfg) | `PmmTypeOK`, `FreeCountConsistent`, `ReservedStayUsed`, `ImplementsFrameAllocator`, `DumpShowsMaximalRuns` | pass, 451 states |
| `pmm_gap_frames` | `HeldFramesAreRam` (spec.md 3) | violation |
| `kheap` (MC_KHeap.cfg) | `HeapTypeOK`, `KHeapValidates`, `LiveAllocationsIntact`, `IndexSortedBySize`, `NoAdjacentHoles`, `NoAssertionFails`, `ImplementsHeapAllocator` | pass, 64,539 states |
| `kheap_double_free` | `DoubleFreeIgnored` (spec.md 7, 9) | violation |
| `vmm` (MC_VMM.cfg) | `VmmTypeOK`, `FramesMappedExclusively`, `DemandPagingMapsFaultingPage` | pass, 415 states |
| `rand_fixed_point` (Rand_NeverStuck.cfg) | `RandNeverStuck` (spec.md 8) | violation |
| `vga` (MC_Vga.cfg) | `VgaTypeOK`, `NoWriteOutsideBuffer`, `HardwareCursorTracksCursor`, `ImplementsTerminal` | pass, 140,007 states |
| `fmt` (MC_Fmt.cfg) | `FormattingMatchesNotation` | pass, 284 states |
| `printf_overread` (MC_Printf_Overread.cfg) | `PrintfStaysInFormat` for chapter 08 | violation |
| `irq` (MC_Interrupts07.cfg) | `Interrupts07TypeOK`, `EoiClearsInService`, `SelectorsResolve`, `VectorsReachTheirStubs`, `IrqEventuallyServiced` under `FairSpec` | pass, 76,290 states |
| `irq_console_race` (MC_Interrupts07_Race.cfg) | `NoCharacterLost` | violation |
| `pit_bcd_rate` (MC_Interrupts07_PitRate.cfg) | `PitRateAsRequested` (timer.h) | violation |

What the violations show:

- **`pmm_gap_frames`**: a gap between E820 entries below the RAM limit is never
  locked, so its frames are allocated as RAM.
- **`kheap_double_free`**: a second `kfree` of a block re-inserts the hole, so
  the index holds it twice.
- **`rand_fixed_point`**: after three calls every seed reaches 1040457664, and
  `rand_range(1, 1000)` returns 485 from then on. The stress test therefore
  exercises only a handful of sizes.
- **`printf_overread`**: for a format ending in `%l` or `%ll`, the `'l'` case
  leaves `p` on the terminator, and the loop's `p++` steps past it. The next
  `*p` reads the byte after the string.
- **`irq_console_race`**: `main` stores a character of its warning, and IRQ 0
  arrives before `cursor_col++`. `timer_callback`'s line then starts at the
  same cell and overwrites the character. On the last line, an IRQ 0 between
  `cursor_row++` and the scroll makes the handler store at row `VGA_HEIGHT`,
  outside `VGA_BUF`. `NoCharacterLost` covers both: no character lost, and
  no store outside the buffer. `vga_putc` is not reentrant, and `main` prints
  with interrupts enabled.
- **`pit_bcd_rate`**: `init_timer(50)` sends the control word with `PIT_BCD`
  set, then the binary divisor (1193180 + 25) / 50 = 23864 = 0x5D38. A BCD
  count divides by at most 10^4, and 0xD is no decimal digit, so channel 0
  cannot produce the 50 Hz that timer.h promises. `Pit` lets an invalid BCD
  count give any period in 1..10^4, and none of them is 23864. Chapter 08's
  `init_timer` sends the same control word. Emulators that ignore the BCD bit
  hide the bug.

Each run answers one question. The passing runs of the heap, the console and
the interrupt path each check the module's invariants together with its
refinement or liveness property.

`irq` also checks the tables boot builds, at the moment `main` reaches `sti`.
Nothing writes them afterwards.
- `SelectorsResolve` reads every selector back through `gdt_dump`'s decoders.
  These are the selectors of gdt.h, those stored in the TSS, and that of each
  present gate. Each must index a descriptor inside `gdt_ptr.limit`, of the
  kind its use needs and at its RPL, and every code and data segment must be
  flat. The TSS descriptor must cover exactly `tss`, with `iomap_base` past
  its limit.
- `VectorsReachTheirStubs` needs each exception vector, and the vector the
  PICs send for each line, to hold a present 32-bit interrupt gate to that
  vector's own stub.
Their mutants drop the flags nibble in `gdt_set_gate`, or place `irq<n>` at
vector n.

### Further configurations

These configurations are kept beside the runs. Each still shows what it
states: the violations are violated and `Rand.cfg` passes.

- `MC_PMM_NextFitFromFollowing.cfg` violates `NextFitFromFollowing`.
  `pmm_alloc_page` starts its scan at the last allocated frame, not the
  following one that spec.md 4.1 names. A frame freed in between is handed
  out again first.
- `MC_PMM_FreeCountIsAllocatable.cfg` violates `FreeCountIsAllocatable`.
  `pmm_free_pages` counts frames of unlisted gaps and above the RAM limit,
  which pmm.h's "pages available" does not include.
- `MC_VMM_OutOfMemory.cfg` violates `OutOfMemoryMeansExhausted`. A fault in a
  range without a page table takes a frame, leaks it, and halts with
  "Out of memory" while other frames are free.
- `Rand.cfg` passes `RandTypeOK` and `RandRangeWithinBounds`, with 87,913
  states: `rand_range(1, 1000)` stays in `[1, 1000)`.
- `MC_Vga07_Cursor.cfg` violates `HardwareCursorTracksCursor`. Chapter 07's
  `vga_move_cursor` does not call `vga_sync_cursor`; chapter 08 (vga.c:29)
  adds the call.
- `MC_Printf07_Overread.cfg` violates `PrintfStaysInFormat`. Chapter 07 skips
  the `'%'` without testing for the terminator. A trailing `'%'` prints `'%'`
  and the NUL, and the loop continues past the string.
- `MC_KHeap_IndexFull.cfg` violates `KHeapValidates`.
  `ordered_array_insert`'s refusal is ignored (kheap.c:222), so the new hole
  is lost from the index. With `KHEAP_INDEX_NUM = 1`, one aligned allocation
  shows it. The real capacity is 0x20000 entries, which the heap (over
  500 MiB) can reach with small blocks.
- `MC_Interrupts07_Warn.cfg` violates `WarnOnlyOnOverwrite`.
  `register_interrupt_handler` tests the slot after storing the new handler,
  so the "Overwriting handler" warning is printed on every registration, the
  first one included.

Every property of a passing run has a mutant in `PROJECT.json`. A mutant is a
plausible bug in the modelled code, such as a dropped guard, an off-by-one or a
missing reinsertion, and TLC finds it violates the property under the run's
own configuration. Examples:

- a scroll test that waits one row too long;
- a store scaled by the CRTC's 80 instead of `VGA_WIDTH`;
- an EOI sent to the master only;
- a growth added to the allocated last block;
- a `sti` left out.

## Bounds and fairness

- **PMM**: three boot maps of up to 12 frames. The three cover every branch of
  `pmm_mark_region_used`, the wrap of the scan, exhaustion and the bitmap panic.
- **Heap**: request sizes {0, 8, 30}, aligned or not, with at most three live
  blocks. This reaches growth of a hole and of an allocated last block, the
  heap-limit panic, front cuts, whole-block consumption, and merges on both
  sides.
- **Rand**: seed 5 (kheap_killer's) and every tick from 0 to 64. Tick 64 is the
  smallest seed whose next draw is 999, the top of the range.
- **Console**: a 5-by-2 screen. One line scrolls, a tab passes the edge, and
  the last cell is reachable by a print and by a move.
- **Conversions**: the interval -130..130 covers every one- to three-digit
  case. The listed edges cover 2^k - 1, 2^k and 2^k + 1 at the unit and digit
  boundaries, and the extremes of 32 bits.
- **Interrupts**: three lines, two on the master and one on the slave, cover
  priority, the cascade bit and both EOIs. Two requests per line let a line be
  requested again while its handler runs. On a 2-by-2 screen `main`'s warning
  wraps, and the tick line scrolls. The descriptor tables are fixed by the
  code, so their checks cover all seven GDT entries and all 256 gates.

Only `irq` checks liveness. `FairSpec` assumes weak fairness of:

- `main`'s steps, since the CPU keeps executing;
- the two boot steps (`BootAdvances`, the only steps that move `pc` past
  "gdt" and "idt");
- `AcceptInterrupt`, since the CPU takes a pending interrupt at the next
  instruction boundary while IF is set;
- the return of a running handler (`HandlerReturns`, which is enabled exactly
  when `irq_handler` is).

The devices are not assumed fair, so a line need not be requested again. Every
other operation is a call that returns or halts the kernel, and nothing waits
on another actor.

## Not modelled, and why

- **Parts of the VMM**: `vmm_switch_page_directory` and the CR3 read have no
  caller. The model raises only not-present faults. A protection fault on a
  present page, which the handler would also treat as a miss, cannot happen
  with kernel read/write mappings.
- **Heap over demand paging**: the heap's page faults are not yet composed with
  `KHeap`. Growth and the read past `end_address` would each fault a page in.
- **The locks**: the heap's yieldlock is taken by `kmalloc` and `kfree` on
  the single kernel thread only, and no interrupt handler calls the heap, so
  it is never contended and the heap's atomic actions are exact. The spinlock has no
  caller; its header even declares other names.
- **`boot_info_dump`, ports, string and math helpers**: pure I/O or straight-line
  copying, with no state a property tells apart.
- **Descriptor details**: `tss_set_stack` has no caller. The `lgdt`, `ltr`
  and `lidt` loads and the register dump of `gdt_dump` are not modelled:
  they change no modelled state or only print.
- **Chapter 07's `isr_handler`** (CPU exceptions and NMI): `main` raises none,
  so the handler's endless re-fault on an unhandled exception other than 8,
  13 and 14 is listed as a hazard without a property.
  `is_in_interrupt_context` has no caller.
- **Console details**: `vga_test_printf` is a demonstration. `vga_printf` is
  not an action of `MC_Vga`, because its output is `vga_write` of its text.
  Unsigned conversions of negative arguments are not modelled: the values stay
  in -(2^31 - 1) .. 2^31 - 1.
- **Chapters 05 and 06**: earlier snapshots with only boot output and
  descriptor tables.
- **Heap details outside the model**: the stale-header double free, the reads
  past the heap's ends and the 32-bit wrap of huge request sizes. They are
  listed as hazards in `PROJECT.json`, each with the reason it is not covered.

## Plan for later work

- Compose `KHeap` with `VMM`, so that heap growth faults pages in through
  `vmm_page_fault_handler`.
- Model the 32-bit wrap of `size + BLOCK_META_SIZE` for huge requests.
- Model the stale-header double free: a `kfree` of a pointer whose header was
  overwritten by a later block.

CONSTANTS
  VGA_WIDTH = 2
  VGA_HEIGHT = 2
  VGA_WHITE_ON_BLACK = 15
  BOOT_CELL = BOOT_CELL
  Lines = {0, 1, 8}
  Unmasked = {0, 1, 2, 8}
  PIC1_VECTOR_OFFSET = 32
  PIC2_VECTOR_OFFSET = 40
  TIMER_CALLBACK = TIMER_CALLBACK
  NULL = NULL
  MAX_RAISES = 2
  WARN_TEXT <- MCWarn
  TICK_TEXT <- MCTick
  UNHANDLED_TEXT <- MCUnhandled
  GDT_TEXT <- MCGdt
  PIC_TEXT <- MCPic
  IDT_TEXT <- MCIdt
  TSS_ADDR <- MCTssAddr
  ISR_STUBS <- MCIsrStubs
  IRQ_STUBS <- MCIrqStubs
  TIMER_FREQUENCY = 50
SPECIFICATION FairSpec
INVARIANTS
  Interrupts07TypeOK
  EoiClearsInService
  SelectorsResolve
  VectorsReachTheirStubs
PROPERTY IrqEventuallyServiced

CONSTANTS
  PAGE_SIZE = 4
  LOW_MEMORY_SIZE = 8
  MAX_BITMAP_SIZE_BYTES = 2
  BootInfos <- VmmBootInfos
  E820_MAX_ENTRIES = 128
  PAGE_ENTRIES = 4
  NUM_TABLES = 3
  PresentTables = {0, 1}
  KERNEL_LOAD_VIRTUAL_ADDR = 8
  BootMappings <- MCBootMappings

SPECIFICATION MCSpec

INVARIANT OutOfMemoryMeansExhausted

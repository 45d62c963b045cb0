CONSTANTS
  PAGE_SIZE = 4
  LOW_MEMORY_SIZE = 8
  MAX_BITMAP_SIZE_BYTES = 2
  BootInfos <- MCBootInfos
  E820_MAX_ENTRIES = 4
  NONE = NONE

SPECIFICATION MCSpec

PROPERTY NextFitFromFollowing

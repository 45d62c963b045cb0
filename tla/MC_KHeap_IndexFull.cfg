CONSTANTS
  PAGE_SIZE = 32
  HEADER_SIZE = 9
  FOOTER_SIZE = 8
  KHEAP_START = 0
  INDEX_STORAGE = 32
  KHEAP_MIN_SIZE = 96
  KHEAP_MAX = 224
  KHEAP_INDEX_NUM = 1
  Sizes = {0, 8, 30}
  MAX_LIVE = 3
  DOUBLE_FREE = FALSE

SPECIFICATION MCSpec

INVARIANT
  KHeapValidates

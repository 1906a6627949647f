\* The same heap: a free block that fits a request exactly.
CONSTANTS
  OVERHEAD = 8
  TLSF_ALIGN_SIZE = 4
  SL_INDEX_BITS = 3
  FL_INDEX_MAX = 7
  SIZE_MOD = 65536
  PAGE_SIZE = 128
  HEAP_GROW_PAGES = 1
  GROW_SLACK = 64
  HeapStart = 0
  InitialPages = 1
  HeapLimit = 256
  Sizes = {0, 13, 32, 68, 130}
  NULL = NULL
SPECIFICATION TlsfSpec
INVARIANTS
  SplitRefusesSmall

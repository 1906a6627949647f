\* Every memory map of SmallMaps, blocks of one to three pages.
CONSTANTS
  PAGE_SIZE = 2
  BITMAP_BITS = 12
  LowPages = 2
  KernelStart = 5
  KernelEnd = 7
  MemoryMaps <- SmallMaps
  HeapRegions <- SmallHeap
  MaxCount = 3
SPECIFICATION PmmSpec
INVARIANTS PmmIInv

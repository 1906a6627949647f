\* Two programs; memory for one and a half of them, the last frames beyond the
\* identity map.
CONSTANTS
  NFRAMES = 18
  PAGE_SIZE = 2
  PT_ENTRIES = 4
  PD_ENTRIES = 7
  IDENT_TABLES = 4
  USER_PD_ENTRY = 4
  TempPage = 15
  BootDir = 1
  BootTables <- Tables
  Reserved = {0, 1, 2, 3, 4, 5, 8}
  HeapTop = 9
  HeapLimit = 10
  KernelHeapBase = 8
  KernelVirtualBase = 24
  Device = {24, 25}
  Image <- Program
  Stack <- UserStack
  Breaks = {1, 37}
  FaultPages = {17, 26}
  Programs = {p1, p2}
  NULL = NULL
SPECIFICATION VmmSpec
SYMMETRY ProgramSymmetry
INVARIANTS FramesSound  Isolated

SPECIFICATION ProgramsSpec
CONSTANTS
  W = 8
  MAX_LOCALS = 4
  DISP_SLOTS = 3
  MAX_PATCHES = 4
  MAX_PC_MAP = 64
  JIT_SIZE = 265
  FUEL = 60
  MAX_STACK = 6
  HEAP_SIZE = 1000
  OBJ_BYTES = 16
  SB_CAP = 5
  MAX_CLASSES = 4
  JIT_THRESHOLD = 3
  MaxFrames = 8
  Files <- JvmFiles
  Disk <- JvmDisk
  Launches <- JvmLaunches
  HDR = 8  MIN_SPLIT = 4  ALIGN = 4  PAGE = 64  FILE_SIZE = 20  FILE_BUF = 3  LINE = 3
  IntBits = 8  SORT_STACK = 64  INSERTION = 2
  BLOCK = 3  FNAME_MAX = 255  PRINTF_BUF = 4  RECV = 3
  Crc <- MCCrc
  Launches_ <- MCLaunches
  Limits = {128, 1000}
  DiskAtStart <- MCDisk
  Streams <- MCStreams
  AllocSizes = {0, 4, 20, 41, 52}
  MaxAllocs = 4
  Prints <- MCPrints
  Arrays <- MCArrays
  MaxPrograms = 2
CHECK_DEADLOCK FALSE
INVARIANTS  VmSound HeapTiled ToolsExact NumbersReadBack SortsAndFinds

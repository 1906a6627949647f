SPECIFICATION Spec
VIEW View
CONSTANTS
  LBUF_MAX = 5
  Columns = 6
  Rows = 2
  MaxChars = 2
  TEMP_SIZE = 12
  PATH_SIZE = 6
  ARGV_MAX = 4
  Names <- WalkerNames
  NameSize <- WalkerNameSize
  NameStart <- WalkerNameStart
  ReadSizes = {4}
  Outputs <- ConsoleOutputs
  Users <- ConsoleUsers
CHECK_DEADLOCK FALSE
INVARIANTS TextKept  OutputSound 

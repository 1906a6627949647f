SPECIFICATION Spec
CONSTANTS
  Names <- MCNames
  Sfn <- MCSfn
  Lfns <- MCLfns
  ITEMS = 8
  FAT_SECTS = 1
  SLOTS = 4
  BYTES = 2
  SECT_PER_CLUST = 1
  EOC = 99
  LOOPS = 24
  FilePaths <- MCFilePaths
  DirPaths <- MCDirPaths
  FDS = {3, 4}
  NODES = 2
  FlagSets <- MCFlagSets
  Texts <- MCTexts
  Lens <- MCLens
  Seeks <- MCSeeks
  Disks <- MCDisks
  Careful = TRUE
  MaxSteps = 5
  MaxCrashes = 1
CHECK_DEADLOCK FALSE
VIEW View
INVARIANTS VolumeSound DiskSound CursorOnChain
PROPERTIES  StoreRefined

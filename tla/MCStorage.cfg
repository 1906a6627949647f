SPECIFICATION StartSpec
CONSTANTS
  Ports = {1, 2}
  Kinds = {"null", "ata", "atapi"}
  DiskSize <- MCDiskSize
  Lba48 <- MCLba48
  BYTE = 2
  LBA28 = 4
  SLOTS = 2
  AHCI_MAX_DEVICES = 2
  Frames = {1, 3, 5, 9, 12}
  Blocks = {1, 3, 4}
  Lbas = {0, 9}
  Sizes = {1, 2}
  MaxCalls = 2
  Images <- MCImages
  SECTOR = 2
  ELF_BUF_MAX = 8
  Ram = {0, 1, 2, 3, 4, 5}
  DEVICES = 2
  FUNCTIONS = 3
  Machines <- MCMachines
  MAX_PCI_DEVICES = 4
INVARIANTS DevicesUsable StartSound
PROPERTIES  CallEnds
VIEW StartView
CHECK_DEADLOCK FALSE

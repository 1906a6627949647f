------------------------------ MODULE Startup ------------------------------
(***************************************************************************)
(* From power-on to the disks: the second stage loader brings kernel.elf   *)
(* from the disk into memory and jumps to it (src/loader/loader.c), kmain  *)
(* looks for devices on the PCI bus (src/drivers/pci.c), and init_ahci     *)
(* takes the disk controller from what was found; the rest is Storage.     *)
(*                                                                         *)
(* Memory and the file are counted in cells, SECTOR of them in a sector;   *)
(* the ELF header is cell 0 and an entry of the program header table is a  *)
(* cell.  What the machine holds is chosen where the code first looks at   *)
(* it.  Left out: messages, and the other fields of a PCI device.          *)
(* X_Y before X is a faulty variant of X.                                  *)
(***************************************************************************)
EXTENDS Storage

CONSTANTS
  Images,           \* kernel.elf: [bad, phoff, phdr], no segment in the buffer or over another
  SECTOR, ELF_BUF_MAX,
  Ram,              \* addresses that segments go to
  DEVICES, FUNCTIONS,   \* on the PCI bus; a device is a bus and a number on it
  Machines,         \* [id, multi]: who answers, and the devices with the multi-function bit
  MAX_PCI_DEVICES

ASSUME StartAssumption ==
  /\ SECTOR \in Nat \ {0} /\ ELF_BUF_MAX \in Nat \ {0} /\ ELF_BUF_MAX % SECTOR = 0
  /\ \A f \in Images :
       /\ f.phoff \in Nat /\ f.bad # "LERR_BUF_OVERFLOW"
       /\ f.phdr \in Seq([load : BOOLEAN, offset : Nat, paddr : Nat, filesz : Nat, memsz : Nat])
       /\ \A i \in DOMAIN f.phdr : f.phdr[i].load =>
            LET Its(p) == p.paddr .. p.paddr + p.memsz - 1
            IN  /\ Its(f.phdr[i]) \subseteq Ram
                /\ \A j \in DOMAIN f.phdr \ {i} : f.phdr[j].load => Its(f.phdr[i]) \cap Its(f.phdr[j]) = {}
  /\ DEVICES \in Nat \ {0} /\ FUNCTIONS \in Nat \ {0} /\ MAX_PCI_DEVICES \in Nat
  /\ \A m \in Machines : DOMAIN m.id = (0 .. DEVICES - 1) \X (0 .. FUNCTIONS - 1)

VARIABLES
  image,            \* the file on the disk
  elf_buf, sectors_read,
  segment,          \* of load_elf_kernel's loop
  ram, error,
  machine, pci_devices,
  slot              \* where the scan of the bus is

loaderVars == <<image, elf_buf, sectors_read, segment, ram, error>>
pciVars == <<machine, pci_devices, slot>>
storageVars == <<hba, disk, ahci_devices, registry, memory, at, cmd, call, buffer, result, moved, calls>>
startVars == <<vars, loaderVars, pciVars>>
\* What later steps depend on.
StartView ==
  CASE pc \in {"load", "rest", "check", "segments", "halted"} -> <<pc, loaderVars>>
    [] pc \in {"kmain", "pci", "ahci"} -> <<pc, pciVars>>
    [] OTHER -> vars

-----------------------------------------------------------------------------
NoBus == [id |-> <<>>, multi |-> {}]
\* The file: cell k holds k + 1, which is also how a cell is told from a
\* cleared one and from what was in memory before.
Zero == 0
Stale == -1
NotLoad == [load |-> FALSE, offset |-> 0, paddr |-> 0, filesz |-> 0, memsz |-> 0]
\* The i-th program header as the buffer has it.
phdr(i) ==
  LET cell == image.phoff + i - 1
  IN  IF cell > 0 /\ cell < ELF_BUF_MAX /\ elf_buf[cell] = cell + 1 THEN image.phdr[i] ELSE NotLoad
phnum == Len(image.phdr)

Sectors_Floor(cells) == cells \div SECTOR

Sectors(cells) == (cells + SECTOR - 1) \div SECTOR

LoaderFails(err) ==
  /\ pc' = "halted" /\ error' = err
  /\ UNCHANGED <<image, elf_buf, sectors_read, segment, ram, pciVars, storageVars>>
\* A sector that is not ready in time fails.
ata_read_sector ==
  /\ elf_buf' = [c \in DOMAIN elf_buf |-> IF c \div SECTOR = sectors_read THEN c + 1 ELSE elf_buf[c]]
  /\ sectors_read' = sectors_read + 1
  /\ UNCHANGED <<pc, image, segment, ram, error, pciVars, storageVars>>
\* One more sector, if the buffer has room for it.
ReadMore ==
  IF sectors_read * SECTOR >= ELF_BUF_MAX THEN LoaderFails("LERR_BUF_OVERFLOW")
  ELSE ata_read_sector \/ LoaderFails("LERR_DISK")
Goes(to) == pc' = to /\ UNCHANGED <<loaderVars, pciVars, storageVars>>

\* The first sector, then the sectors of the program header table.
load_first ==
  /\ pc = "load" /\ sectors_read = 0
  /\ ata_read_sector \/ LoaderFails("LERR_DISK")
load_table ==
  /\ pc = "load" /\ sectors_read > 0
  /\ IF image.bad = "magic" THEN LoaderFails("LERR_NOT_ELF")
     ELSE IF sectors_read < Sectors(image.phoff + phnum) THEN ReadMore
     ELSE Goes("rest")

\* The end of the last segment in the file, and the sectors up to it.
max_extent ==
  LET ends == {phdr(i).offset + phdr(i).filesz : i \in {j \in 1 .. phnum : phdr(j).load /\ phdr(j).filesz > 0}}
  IN  Max(ends \cup {0})
load_rest ==
  /\ pc = "rest"
  /\ IF max_extent = 0 THEN LoaderFails("LERR_NO_LOAD_SEG")
     ELSE IF sectors_read < Sectors(max_extent) THEN ReadMore
     ELSE Goes("check")

check_elf ==
  /\ pc = "check"
  /\ IF image.bad # "" THEN LoaderFails(image.bad)
     ELSE IF phnum = 0 \/ image.phoff = 0 THEN LoaderFails("LERR_NO_PHDRS")
     ELSE Goes("segments")

\* One program header: its bytes, then zeros for the rest of its memory.
Placed(p) ==
  [a \in DOMAIN ram |->
     IF a - p.paddr \in 0 .. p.filesz - 1 THEN elf_buf[p.offset + a - p.paddr]
     ELSE IF a - p.paddr \in p.filesz .. p.memsz - 1 THEN Zero
     ELSE ram[a]]
load_elf_kernel ==
  /\ pc = "segments" /\ segment <= phnum
  /\ LET p == phdr(segment)
     IN  IF p.load /\ p.memsz < p.filesz THEN LoaderFails("LERR_BAD_MEMSZ")
         ELSE /\ ram' = IF p.load THEN Placed(p) ELSE ram
              /\ segment' = segment + 1
              /\ UNCHANGED <<pc, image, elf_buf, sectors_read, error, pciVars, storageVars>>
\* The jump to the kernel, up to init_pci.
loader_main ==
  /\ pc = "segments" /\ segment > phnum
  /\ Goes("kmain")

-----------------------------------------------------------------------------
\* Without the configuration ports nothing is scanned.
init_pci ==
  /\ pc = "kmain"
  /\ \/ pc' = "pci" /\ machine' \in Machines
     \/ pc' = "ahci" /\ machine' = machine
  /\ pci_devices' = <<>> /\ slot' = <<0, 0>>
  /\ UNCHANGED <<loaderVars, storageVars>>

\* pci_scan_bus: one function at a time; when a device has no first function,
\* or only that one, the others are not asked.
Answers(s) == machine.id[s] # "none"
ScanGoes(to) ==
  IF to[1] = DEVICES THEN pc' = "ahci" /\ slot' = <<0, 0>> ELSE pc' = pc /\ slot' = to
NextDevice == <<slot[1] + 1, 0>>
NextFunction == IF slot[2] + 1 < FUNCTIONS THEN <<slot[1], slot[2] + 1>> ELSE NextDevice

pci_read_device_info ==
  IF Len(pci_devices) >= MAX_PCI_DEVICES THEN pci_devices
  ELSE Append(pci_devices, [at |-> slot, id |-> machine.id[slot]])
pci_scan_absent ==
  /\ pc = "pci" /\ ~Answers(slot)
  /\ ScanGoes(IF slot[2] = 0 THEN NextDevice ELSE NextFunction)
  /\ UNCHANGED <<machine, pci_devices, loaderVars, storageVars>>
pci_scan_present ==
  /\ pc = "pci" /\ Answers(slot)
  /\ pci_devices' = pci_read_device_info
  /\ ScanGoes(IF slot[2] = 0 /\ slot[1] \notin machine.multi THEN NextDevice ELSE NextFunction)
  /\ UNCHANGED <<machine, loaderVars, storageVars>>

\* The first device of the kind, 0 if there is none.
pci_find_device(id) ==
  LET found == {i \in DOMAIN pci_devices : pci_devices[i].id = id}
  IN  IF found = {} THEN 0 ELSE Min(found)
\* The controller the driver knows, or any of its class, if it has an address;
\* then its ports are started.
Controller == IF pci_find_device("ich9") # 0 THEN pci_find_device("ich9") ELSE pci_find_device("sata")
init_ahci ==
  /\ pc = "ahci"
  /\ \/ /\ pc' = "register"
        /\ UNCHANGED <<hba, memory>>
     \/ /\ Controller # 0
        /\ pc' = "port"
        /\ \E kind \in [Ports -> Kinds] : hba' = Attached(kind)
        /\ frames' \in Frames /\ blocks' \in Blocks
  /\ UNCHANGED <<loaderVars, pciVars, disk, ahci_devices, registry, at, cmd, call, buffer, result, moved, calls>>

-----------------------------------------------------------------------------
StartInit ==
  /\ image \in Images
  /\ elf_buf = [c \in 0 .. ELF_BUF_MAX - 1 |-> Stale]
  /\ sectors_read = 0 /\ segment = 1
  /\ ram = [a \in Ram |-> Stale] /\ error = ""
  /\ machine = NoBus /\ pci_devices = <<>> /\ slot = <<0, 0>>
  /\ pc = "load"
  /\ hba = Attached([p \in Ports |-> "null"]) /\ frames = 0 /\ blocks = 0
  /\ Idle

StartNext ==
  \/ load_first \/ load_table \/ load_rest \/ check_elf \/ load_elf_kernel \/ loader_main \/ init_pci
  \/ pci_scan_absent \/ pci_scan_present \/ init_ahci
  \/ Next /\ UNCHANGED <<loaderVars, pciVars>>
StartSpec == StartInit /\ [][StartNext]_startVars /\ Fairness

-----------------------------------------------------------------------------
Segments == {image.phdr[i] : i \in {j \in 1 .. phnum : image.phdr[j].load}}

\* When the loader jumps, every segment of the file is in memory with all its
\* bytes, and with zeros behind them, for all that only the sectors in use
\* were read (the four phases of load_kernel_image, load_elf_kernel).
KernelWhole ==
  pc = "segments" /\ segment > phnum =>
    \A p \in Segments : \A i \in 0 .. p.memsz - 1 :
      ram[p.paddr + i] = IF i < p.filesz THEN p.offset + i + 1 ELSE Zero
\* Only a file that does not fit is refused as too large.
RefusedRightly ==
  error = "LERR_BUF_OVERFLOW" => Max({image.phoff + phnum} \cup {p.offset + p.filesz : p \in Segments}) > ELF_BUF_MAX

\* What answers on the bus: a first function, and the others of a device that
\* says it has several, whatever the gaps between them.
Reachable ==
  {s \in DOMAIN machine.id : Answers(s) /\ (s[2] = 0 \/ (Answers(<<s[1], 0>>) /\ s[1] \in machine.multi))}
Earlier(s) == {t \in Reachable : t[1] < s[1] \/ (t[1] = s[1] /\ t[2] <= s[2])}
\* The scan lists each of them once, in order, up to the size of the table.
DevicesFound ==
  pc = "ahci" =>
    {<<i, pci_devices[i].at>> : i \in DOMAIN pci_devices}
      = {<<Cardinality(Earlier(s)), s>> : s \in {t \in Reachable : Cardinality(Earlier(t)) <= MAX_PCI_DEVICES}}

\* The kernel and its devices are there before the disks are used.
StartSound == KernelWhole /\ RefusedRightly /\ DevicesFound
=============================================================================

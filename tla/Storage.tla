------------------------------ MODULE Storage ------------------------------
(***************************************************************************)
(* The disks of ParinOS: the AHCI driver (src/drivers/ahci.c), the block   *)
(* devices (src/storage/sda.c, ahci_adaptor.c), the file system's access   *)
(* to the first of them (src/fs/fs.c), and the part of kmain that sets     *)
(* them up.  The controller runs beside the driver, which polls it.        *)
(*                                                                         *)
(* A number on the wire has digits to the base BYTE; a sector is one       *)
(* value.  A controller that reports an error stops and keeps the command  *)
(* (the standard), or drops the command and goes on (some emulators).      *)
(* Left out: statistics, names of vendors, and the listings.               *)
(* X_Y before X is a faulty variant of X.                                  *)
(***************************************************************************)
EXTENDS Integers, SequencesExt

CONSTANTS
  Ports,            \* implemented ports, 1 .. n
  Kinds,            \* what may be attached to a port: "null", "ata" or "atapi"
  DiskSize(_), Lba48(_),   \* sectors of a disk, and whether it reports them with 48 bits
  BYTE, LBA28,      \* base of a digit, and one more than the largest 28-bit number
  SLOTS, AHCI_MAX_DEVICES,
  Frames,           \* page frames that may be free at boot
  Blocks,           \* structures that the heap may have room for
  Lbas, Sizes,      \* of the calls
  MaxCalls          \* bound

\* The file system numbers sectors with 32 bits, block devices have fewer than 2^48.
ASSUME StorageAssumption ==
  /\ BYTE \in Nat \ {0, 1} /\ LBA28 \in Nat /\ SLOTS \in Nat \ {0} /\ AHCI_MAX_DEVICES \in Nat
  /\ Ports \subseteq Nat /\ 1 \in Ports
  /\ \A p \in Ports : DiskSize(p) \in Nat \ {0}
  /\ Frames \subseteq Nat
  /\ Lbas \subseteq 0 .. BYTE * BYTE * BYTE * BYTE * BYTE * BYTE - 1
  /\ Sizes \subseteq Nat

VARIABLES
  hba,              \* per port: kind, registers and command tables
  disk,             \* contents
  ahci_devices,
  device_list, next_device_id,
  frames, blocks,   \* free memory
  pc, at,           \* where the kernel is in its boot, and at which port or device
  cmd,              \* the command that is polled
  call, buffer, result,
  moved, calls      \* history: the call's data have moved; number of calls

vars == <<hba, disk, ahci_devices, device_list, next_device_id, frames, blocks, pc, at, cmd, call, buffer, result, moved, calls>>
memory == <<frames, blocks>>
registry == <<device_list, next_device_id>>

NoCall == [op |-> "none"]
NoCmd == [op |-> "none"]
Slots == 1 .. SLOTS
Fresh == [p \in Ports |-> [b \in 0 .. DiskSize(p) - 1 |-> b]]

-----------------------------------------------------------------------------
\* Numbers in a command, the lowest digit first.
LbaBytes(n) ==
  LET n1 == n \div BYTE
      n2 == n1 \div BYTE
      n3 == n2 \div BYTE
      n4 == n3 \div BYTE
      n5 == n4 \div BYTE
  IN  <<n % BYTE, n1 % BYTE, n2 % BYTE, n3 % BYTE, n4 % BYTE, n5 % BYTE>>
CountBytes(n) == <<n % BYTE, (n \div BYTE) % BYTE>>
Lba(fis) ==
  LET d == fis.lba
  IN  d[1] + BYTE * (d[2] + BYTE * (d[3] + BYTE * (d[4] + BYTE * (d[5] + BYTE * d[6]))))
Count(fis) == fis.count[1] + BYTE * fis.count[2]
UInt16(n) == n % (BYTE * BYTE)
Least(a, b) == IF a < b THEN a ELSE b

Fis_NoLba3(lba, count) == [lba |-> [LbaBytes(lba) EXCEPT ![4] = 0], count |-> CountBytes(count)]
Fis(lba, count) == [lba |-> LbaBytes(lba), count |-> CountBytes(count)]

\* A slot that is neither active nor issued; 0 is none.
ahci_find_cmdslot(p) ==
  IF Slots = hba[p].ci THEN 0 ELSE CHOOSE s \in Slots \ hba[p].ci : \A t \in Slots \ hba[p].ci : s <= t

\* Errors of earlier commands are cleared, then the table is filled and the
\* command issued; pc is where its result goes.
Issue(p, op, lba, count, then) ==
  LET slot == ahci_find_cmdslot(p)
      table == [op |-> op, fis |-> Fis(lba, count), dbc |-> count]
  IN  IF slot = 0
      THEN /\ hba' = [hba EXCEPT ![p].is = FALSE]
           /\ cmd' = [op |-> "failed", then |-> then]
      ELSE /\ hba' = [hba EXCEPT ![p].is = FALSE, ![p].tables[slot] = table, ![p].ci = @ \cup {slot}]
           /\ cmd' = [op |-> op, port |-> p, slot |-> slot, then |-> then]

\* The command has ended: 1 for success.
Done_NoError(c) == c.op # "failed" => c.slot \notin hba[c.port].ci
Done(c) == c.op # "failed" => (c.slot \notin hba[c.port].ci \/ hba[c.port].is)
Outcome(c) == IF c.op = "failed" \/ hba[c.port].is THEN 0 ELSE 1

-----------------------------------------------------------------------------
\* The controller.  A command that fails may have moved a part of its sectors;
\* a command without a table (its frame was never given) moves nothing.
Running(p) == hba[p].st /\ ~hba[p].halted
CanMove(p, s) ==
  LET t == hba[p].tables[s]
  IN  /\ hba[p].kind = "ata"
      /\ s + 2 <= hba[p].given
      /\ t.op = "identify" \/ Lba(t.fis) + Count(t.fis) <= DiskSize(p)
Transfer(p, t, n) ==
  LET lba == Lba(t.fis)
  IN  /\ disk' = IF t.op = "write"
                 THEN [disk EXCEPT ![p] = [b \in DOMAIN @ |-> IF b - lba \in 0 .. n - 1 THEN buffer[b - lba + 1] ELSE @[b]]]
                 ELSE disk
      /\ buffer' = IF t.op = "read" THEN [i \in 1 .. n |-> disk[p][lba + i - 1]] ELSE buffer
HbaComplete(p, s) ==
  LET t == hba[p].tables[s]
      n == Least(Count(t.fis), t.dbc)
  IN  /\ Running(p) /\ s \in hba[p].ci
      /\ CanMove(p, s)
      /\ hba' = [hba EXCEPT ![p].ci = @ \ {s}]
      /\ moved' = (call # NoCall)
      /\ Transfer(p, t, n)
      /\ UNCHANGED <<ahci_devices, registry, memory, pc, at, cmd, call, result, calls>>
HbaError(p, s) ==
  LET t == hba[p].tables[s]
  IN  /\ Running(p) /\ s \in hba[p].ci
      /\ \E stops \in BOOLEAN :
           hba' = [hba EXCEPT ![p].is = TRUE, ![p].halted = stops, ![p].ci = IF stops THEN @ ELSE @ \ {s}]
      /\ \/ UNCHANGED <<disk, buffer>>
         \/ /\ CanMove(p, s)
            /\ \E n \in 1 .. Count(t.fis) - 1 : Transfer(p, t, n)
      /\ UNCHANGED <<ahci_devices, registry, memory, pc, at, cmd, call, result, moved, calls>>

-----------------------------------------------------------------------------
\* init_ahci: one port after the other.
NextPort == IF at + 1 \in Ports THEN pc' = "port" /\ at' = at + 1 ELSE pc' = "register" /\ at' = 1

\* A port needs a frame for the command list, one for what the disk sends and
\* one for each table.  What a port without tables has taken stays taken.
FramesLeft(n) == CASE n < 2 -> n
                   [] n >= 2 /\ n < 2 + SLOTS -> 0
                   [] OTHER -> n - 2 - SLOTS
TablesFit_Partly(n) == n >= 3
TablesFit(n) == n >= 2 + SLOTS
ahci_init_port_skip ==
  /\ pc = "port"
  /\ \/ hba[at].kind = "null"
     \/ Len(ahci_devices) >= AHCI_MAX_DEVICES
  /\ NextPort
  /\ UNCHANGED <<hba, disk, ahci_devices, registry, memory, cmd, call, buffer, result, moved, calls>>
ahci_init_port_fail ==
  /\ pc = "port"
  /\ hba[at].kind # "null"
  /\ Len(ahci_devices) < AHCI_MAX_DEVICES
  /\ ~TablesFit(frames)
  /\ hba' = [hba EXCEPT ![at].st = FALSE]
  /\ frames' = FramesLeft(frames)
  /\ NextPort
  /\ UNCHANGED <<disk, ahci_devices, registry, blocks, cmd, call, buffer, result, moved, calls>>

Device(p, total) ==
  [port |-> p, total_sectors |-> total]
\* The tables are there: the port is started and the disk asked for its size,
\* if there is a frame for the answer.
ahci_init_port ==
  /\ pc = "port"
  /\ hba[at].kind # "null"
  /\ Len(ahci_devices) < AHCI_MAX_DEVICES
  /\ TablesFit(frames)
  /\ frames' = FramesLeft(frames)
  /\ LET given == frames - FramesLeft(frames)
     IN  IF frames' > 0
         THEN LET slot == ahci_find_cmdslot(at)
                  table == [op |-> "identify", fis |-> Fis(0, 0), dbc |-> 1]
              IN  /\ hba' = [hba EXCEPT ![at].st = TRUE, ![at].given = given, ![at].is = FALSE,
                                        ![at].tables[slot] = table, ![at].ci = @ \cup {slot}]
                  /\ cmd' = [op |-> "identify", port |-> at, slot |-> slot, then |-> "port"]
         ELSE /\ hba' = [hba EXCEPT ![at].st = TRUE, ![at].given = given]
              /\ cmd' = [op |-> "failed", then |-> "port"]
  /\ pc' = "poll"
  /\ UNCHANGED <<disk, ahci_devices, registry, blocks, at, call, buffer, result, moved, calls>>

Identified(p) == IF Lba48(p) THEN DiskSize(p) ELSE Least(DiskSize(p), LBA28 - 1)
ahci_identify_done ==
  /\ pc = "poll" /\ cmd.then = "port"
  /\ Done(cmd)
  /\ ahci_devices' = Append(ahci_devices, Device(at, IF Outcome(cmd) = 1 THEN Identified(at) ELSE 0))
  /\ cmd' = NoCmd
  /\ NextPort
  /\ UNCHANGED <<hba, disk, registry, memory, call, buffer, result, moved, calls>>

-----------------------------------------------------------------------------
block_device_register(device, total) ==
  /\ device_list' = <<[id |-> next_device_id, device |-> device, total_sectors |-> total]>> \o device_list
  /\ next_device_id' = next_device_id + 1
\* ahci_adapter_register_devices: each device needs two structures.
ahci_adapter_create_device ==
  /\ pc = "register" /\ at <= Len(ahci_devices)
  /\ IF blocks >= 2
     THEN /\ blocks' = blocks - 2
          /\ block_device_register(at, ahci_devices[at].total_sectors)
     ELSE UNCHANGED <<blocks, registry>>
  /\ at' = at + 1
  /\ UNCHANGED <<hba, disk, ahci_devices, frames, pc, cmd, call, buffer, result, moved, calls>>
init_fs ==
  /\ pc = "register" /\ at > Len(ahci_devices)
  /\ pc' = "ready" /\ at' = 0
  /\ UNCHANGED <<hba, disk, ahci_devices, registry, memory, cmd, call, buffer, result, moved, calls>>

-----------------------------------------------------------------------------
\* Calls, one at a time.
New(op, p, lba, count) ==
  [op |-> op, disk |-> p, lba |-> lba, count |-> count,
   data |-> IF op = "write" THEN [i \in 1 .. count |-> 100 + (10 * calls) + i] ELSE <<>>]
Call(new) ==
  /\ call' = new
  /\ buffer' = new.data
  /\ pc' = "poll"
  /\ calls' = calls + 1
  /\ moved' = FALSE
  /\ UNCHANGED <<disk, ahci_devices, registry, memory, at, result>>
Refuse == UNCHANGED hba /\ cmd' = [op |-> "failed", then |-> "ready"]

\* The file system uses the first device, one sector at a time, and is there
\* only if there is a device.
ahci_disk(op, lba) ==
  /\ pc = "ready" /\ calls < MaxCalls
  /\ ahci_devices # <<>>
  /\ Call(New(op, ahci_devices[1].port, lba, 1))
  /\ Issue(ahci_devices[1].port, op, lba, 1, "ready")

validate_lba(d, lba, count) == lba < d.total_sectors /\ lba + count <= d.total_sectors
\* The layer above any driver; the driver takes the count as 16 bits.
block_device(op, id, lba, count) ==
  /\ pc = "ready" /\ calls < MaxCalls
  /\ \/ /\ ~\E i \in DOMAIN device_list : device_list[i].id = id
        /\ Call(New(op, 0, lba, count))
        /\ Refuse
     \/ \E i \in DOMAIN device_list :
          LET d == device_list[i]
              p == ahci_devices[d.device].port
          IN  /\ d.id = id
              /\ Call(New(op, p, lba, count))
              /\ IF op # "identify" /\ (~validate_lba(d, lba, count) \/ UInt16(count) = 0)
                 THEN Refuse
                 ELSE Issue(p, op, lba, UInt16(count), "ready")
block_device_unregister(id) ==
  /\ pc = "ready"
  /\ \E i \in DOMAIN device_list :
       /\ device_list[i].id = id
       /\ device_list' = RemoveAt(device_list, i)
  /\ blocks' = blocks + 1
  /\ UNCHANGED <<hba, disk, ahci_devices, next_device_id, frames, pc, at, cmd, call, buffer, result, moved, calls>>

CallReturns ==
  /\ pc = "poll" /\ cmd.then = "ready"
  /\ Done(cmd)
  /\ result' = Outcome(cmd)
  /\ pc' = "ready" /\ cmd' = NoCmd
  /\ call' = NoCall /\ moved' = FALSE
  /\ UNCHANGED <<hba, disk, ahci_devices, registry, memory, at, buffer, calls>>

-----------------------------------------------------------------------------
Attached(kind) ==
  [p \in Ports |-> [kind |-> kind[p], st |-> FALSE, halted |-> FALSE, is |-> FALSE, ci |-> {},
                    given |-> 0, tables |-> [s \in Slots |-> NoCmd]]]
\* Before the driver starts.
Idle ==
  /\ disk = Fresh
  /\ ahci_devices = <<>>
  /\ device_list = <<>> /\ next_device_id = 1
  /\ at = 1
  /\ cmd = NoCmd
  /\ call = NoCall /\ buffer = <<>> /\ result = 0
  /\ moved = FALSE /\ calls = 0
Init ==
  /\ \E kind \in [Ports -> Kinds] : hba = Attached(kind)
  /\ frames \in Frames /\ blocks \in Blocks
  /\ pc = "port"
  /\ Idle

Boot == ahci_init_port_skip \/ ahci_init_port_fail \/ ahci_init_port \/ ahci_identify_done
        \/ ahci_adapter_create_device \/ init_fs
Request ==
  \/ \E op \in {"read", "write"}, lba \in Lbas : ahci_disk(op, lba)
  \/ \E id \in 1 .. next_device_id, lba \in Lbas, count \in Sizes, op \in {"read", "write"} : block_device(op, id, lba, count)
  \/ \E id \in 1 .. next_device_id : block_device("identify", id, 0, 1)
  \/ \E id \in 1 .. next_device_id : block_device_unregister(id)
Hba(p, s) == HbaComplete(p, s) \/ HbaError(p, s)
Next == Boot \/ Request \/ CallReturns \/ \E p \in Ports, s \in Slots : Hba(p, s)

\* The controller serves every port; the kernel polls.
Fairness == WF_vars(CallReturns) /\ \A p \in Ports, s \in Slots : WF_vars(Hba(p, s))
Spec == Init /\ [][Next]_vars /\ Fairness

-----------------------------------------------------------------------------
\* Every call moves the sectors it names, of the disk it names, between that
\* disk and its buffer before it succeeds; a call that fails leaves every
\* other sector alone (the FIS, the bounds check and the end of the polling
\* in ahci_read_sectors and ahci_write_sectors).
Disk == INSTANCE BlockDisk WITH contents <- disk
ImplementsDisk == Disk!Spec

\* A call on a controller that runs returns, with or without an error; only
\* a controller stopped by an earlier error keeps the kernel polling.
CallEnds ==
  \A p \in Ports : (call # NoCall /\ call.disk = p /\ ~hba[p].halted) ~> (call = NoCall)

\* A device that the driver offers has been given memory for every slot and
\* was started, whatever the frames left at boot (ahci_init_port).
DevicesUsable ==
  \A i \in DOMAIN ahci_devices :
    LET d == ahci_devices[i]
    IN  hba[d.port].st /\ hba[d.port].given = 2 + SLOTS
=============================================================================

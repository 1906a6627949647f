---------------------------- MODULE StorageProofs ----------------------------
(***************************************************************************)
(* Proofs about Storage, from power-on on: the disks do what BlockDisk     *)
(* promises and only complete devices are offered, for every number of     *)
(* ports, slots, frames, devices and sectors.                              *)
(*                                                                         *)
(* At most one command is outstanding on a controller that runs, the one   *)
(* that is polled, and its table carries the call; commands that an error  *)
(* left behind sit on controllers that have stopped and never start        *)
(* again.  That a table carries what the call asks for rests on the        *)
(* digits of the numbers in the FIS (LbaExact, CountExact).                *)
(*                                                                         *)
(* Before that, each phase of the loader knows how much of the file it     *)
(* needs and reads no more (LoaderInv), and the scan of the bus has listed *)
(* what answers before the slot it has come to (PciInv).                   *)
(***************************************************************************)
EXTENDS Startup, Numbers

-----------------------------------------------------------------------------
\* The inductive invariant.
Early == {"load", "rest", "check", "segments", "halted", "kmain", "pci", "ahci"}
Phases == Early \cup {"port", "poll", "register", "ready"}
Fields == {"kind", "st", "halted", "is", "ci", "given", "tables"}

Shape ==
  /\ DOMAIN hba = Ports
  /\ \A p \in Ports : /\ DOMAIN hba[p] = Fields /\ DOMAIN hba[p].tables = Slots
                      /\ hba[p].st \in BOOLEAN /\ hba[p].halted \in BOOLEAN /\ hba[p].is \in BOOLEAN
  /\ DOMAIN disk = Ports
  /\ \A p \in Ports : DOMAIN disk[p] = 0 .. DiskSize(p) - 1
  /\ frames \in Nat

Unstarted(p) == ~hba[p].st /\ hba[p].ci = {}
Started(p) == hba[p].st /\ hba[p].given = 2 + SLOTS

Devices == [port : Ports, total_sectors : Int]
Registered == [id : Int, device : DOMAIN ahci_devices, total_sectors : Int]

DevicesReady ==
  /\ ahci_devices \in Seq(Devices) /\ device_list \in Seq(Registered) /\ next_device_id \in Int
  /\ \A i \in DOMAIN ahci_devices : Started(ahci_devices[i].port)

\* Ports are started in their order.
Before(p) == /\ \A q \in Ports : q > p => Unstarted(q)
             /\ \A i \in DOMAIN ahci_devices : ahci_devices[i].port < p
             /\ device_list = <<>>
Place ==
  /\ pc \in Phases
  /\ pc \in Early => at = 1 /\ ahci_devices = <<>> /\ device_list = <<>> /\ \A p \in Ports : Unstarted(p)
  /\ pc = "port" => at \in Ports /\ Before(at) /\ Unstarted(at)
  /\ pc = "poll" /\ call = NoCall => at \in Ports /\ Before(at) /\ Started(at)
  /\ pc = "register" => at \in Nat \ {0}

OneCommand ==
  /\ moved \in BOOLEAN /\ (call = NoCall => ~moved)
  /\ pc # "poll" => cmd = NoCmd /\ call = NoCall
  /\ pc = "poll" => /\ cmd.then = IF call = NoCall THEN "port" ELSE "ready"
                    /\ cmd.op # "failed" => cmd.port \in Ports
  /\ \A p \in Ports : Running(p) =>
       /\ \A s \in hba[p].ci : pc = "poll" /\ cmd.op # "failed" /\ cmd.port = p /\ cmd.slot = s
       /\ hba[p].is => hba[p].ci = {}

\* What a call asks for, and the table of the command that carries it.
Asks == call.lba \in Nat /\ call.count \in Sizes \cup {1} /\ UInt16(call.count) \in Nat \ {0}
        /\ (call.op = "identify" => call.lba = 0 /\ UInt16(call.count) = 1)
Carries(t) ==
  /\ t.op = call.op /\ call.disk = cmd.port
  /\ Lba(t.fis) = call.lba /\ Count(t.fis) = UInt16(call.count) /\ t.dbc = UInt16(call.count)
  /\ call.op = "write" => buffer = call.data

Pending ==
  pc = "poll" /\ cmd.op # "failed" =>
    LET p == cmd.port
        t == hba[p].tables[cmd.slot]
    IN  /\ call = NoCall /\ cmd.slot \in hba[p].ci => t.op = "identify"
        /\ call # NoCall => Asks
        /\ call # NoCall /\ cmd.slot \in hba[p].ci /\ Running(p) => ~moved /\ Carries(t)
        /\ call # NoCall /\ cmd.slot \notin hba[p].ci /\ ~hba[p].is => moved

StorageIInv == Shape /\ DevicesReady /\ Place /\ OneCommand /\ Pending

-----------------------------------------------------------------------------
(***************************************************************************)
(* The digits of a number.                                                 *)
(***************************************************************************)
LEMMA Base == BYTE \in Nat \ {0} /\ BYTE > 1
BY StorageAssumption

LEMMA QuotientLess ==
  ASSUME NEW n \in Nat, NEW k \in Nat \ {0}, NEW m \in Nat, n < m * k
  PROVE  n \div k \in Nat /\ n \div k < m
<1> DEFINE q == n \div k
<1>1. q \in Nat /\ n % k \in 0 .. k - 1 /\ n = k * q + (n % k)
  BY DivisionWithRest
<1> HIDE DEF q
<1>2. ASSUME q >= m PROVE FALSE
  <2>1. k * (q - m) \in Nat /\ k * (q - m) = k * q - m * k
    BY <1>1, <1>2
  <2> QED
    BY <1>1, <2>1
<1>3. q < m
  BY <1>1, <1>2
<1> QED
  BY <1>1, <1>3 DEF q

LEMMA SmallRest == ASSUME NEW n \in Nat, NEW k \in Nat \ {0}, n < k PROVE n % k = n
<1>1. n \in 0 .. k - 1 /\ 0 \in Nat
  OBVIOUS
<1>2. (k * 0 + n) % k = n
  BY <1>1, RestUnique
<1> QED
  BY <1>2

\* An LBA below 2^48 survives the six registers of the FIS.
LEMMA LbaExact ==
  ASSUME NEW n \in 0 .. BYTE * BYTE * BYTE * BYTE * BYTE * BYTE - 1, NEW c
  PROVE  Lba(Fis(n, c)) = n
<1> DEFINE B == BYTE
           M2 == B * B
           M3 == M2 * B
           M4 == M3 * B
           M5 == M4 * B
           n1 == n \div B
           n2 == n1 \div B
           n3 == n2 \div B
           n4 == n3 \div B
           n5 == n4 \div B
<1>0. B \in Nat \ {0} /\ n \in Nat
  <2>1. BYTE * BYTE * BYTE * BYTE * BYTE * BYTE - 1 \in Int
    BY Base
  <2> QED
    BY Base
<1>1. M2 \in Nat /\ M3 \in Nat /\ M4 \in Nat /\ M5 \in Nat
  BY <1>0
<1>2. n < M5 * B
  <2>1. M5 * B \in Int
    BY <1>0, <1>1
  <2> QED
    BY <1>0, <2>1
<1>3. Lba(Fis(n, c)) = (n % B) + B * ((n1 % B) + B * ((n2 % B) + B * ((n3 % B) + B * ((n4 % B) + B * (n5 % B)))))
  BY DEF Lba, Fis, LbaBytes
<1> HIDE DEF B
<1>4. n1 \in Nat /\ n1 < M5
  BY <1>0, <1>1, <1>2, QuotientLess
<1> HIDE DEF M5
<1>5. n2 \in Nat /\ n2 < M4
  <2> HIDE DEF n1
  <2> QED
    BY <1>0, <1>1, <1>4, QuotientLess DEF M5
<1> HIDE DEF M4
<1>6. n3 \in Nat /\ n3 < M3
  <2> HIDE DEF n2
  <2> QED
    BY <1>0, <1>1, <1>5, QuotientLess DEF M4
<1> HIDE DEF M3
<1>7. n4 \in Nat /\ n4 < M2
  <2> HIDE DEF n3
  <2> QED
    BY <1>0, <1>1, <1>6, QuotientLess DEF M3
<1>8. n5 \in Nat /\ n5 < B
  <2> HIDE DEF n4
  <2> QED
    BY <1>0, <1>7, QuotientLess
<1>9. ASSUME NEW x \in Nat
      PROVE  x = (x % B) + B * (x \div B)
  <2>1. x = B * (x \div B) + (x % B) /\ x % B \in Int /\ B * (x \div B) \in Int
    BY <1>0, DivisionWithRest
  <2> QED
    BY <2>1
<1>10. /\ n = (n % B) + B * n1 /\ n1 = (n1 % B) + B * n2 /\ n2 = (n2 % B) + B * n3
       /\ n3 = (n3 % B) + B * n4 /\ n4 = (n4 % B) + B * n5
  BY <1>0, <1>4, <1>5, <1>6, <1>7, <1>9
<1> HIDE DEF n1, n2, n3, n4, n5
<1>11. n5 % B = n5
  BY <1>0, <1>8, SmallRest
<1> QED
  BY <1>3, <1>10, <1>11

\* The two registers of the count hold its lowest 16 bits.
LEMMA CountExact ==
  ASSUME NEW c \in Nat, NEW n
  PROVE  Count(Fis(n, c)) = UInt16(c) /\ UInt16(c) \in Nat
<1> DEFINE B == BYTE
           q == c \div B
           d == c % B
           p == q \div B
           e == q % B
<1>0. B \in Nat \ {0} /\ B * B \in Nat \ {0}
  BY Base
<1>1. Count(Fis(n, c)) = d + B * e
  BY DEF Count, Fis, CountBytes
<1>2. UInt16(c) = c % (B * B)
  BY DEF UInt16
<1> HIDE DEF B
<1>3. q \in Nat /\ d \in 0 .. B - 1 /\ c = B * q + d
  BY <1>0, DivisionWithRest
<1> HIDE DEF q, d
<1>4. p \in Nat /\ e \in 0 .. B - 1 /\ q = B * p + e
  BY <1>0, <1>3, DivisionWithRest
<1> HIDE DEF p, e
<1>5. c = (B * B) * p + (d + B * e)
  BY <1>0, <1>3, <1>4
<1>6. d + B * e \in 0 .. B * B - 1
  <2>1. B * e \in Nat /\ B * (B - 1 - e) \in Nat
    BY <1>0, <1>4
  <2>2. B * (B - 1 - e) = B * B - B - B * e
    BY <1>0, <1>4
  <2> QED
    BY <1>0, <1>3, <2>1, <2>2
<1>7. ((B * B) * p + (d + B * e)) % (B * B) = d + B * e
  BY <1>0, <1>4, <1>6, RestUnique
<1>8. c % (B * B) = d + B * e
  BY <1>5, <1>7
<1> QED
  BY <1>1, <1>2, <1>6, <1>8

LEMMA SmallCount == ASSUME NEW c \in 0 .. BYTE * BYTE - 1 PROVE UInt16(c) = c
<1>1. BYTE * BYTE \in Nat \ {0}
  BY Base
<1> QED
  BY <1>1, SmallRest DEF UInt16

-----------------------------------------------------------------------------
(***************************************************************************)
(* Up to the controller.                                                   *)
(***************************************************************************)
LEMMA AttachedPorts ==
  ASSUME NEW kind
  PROVE  /\ DOMAIN Attached(kind) = Ports
         /\ \A p \in Ports :
              /\ DOMAIN Attached(kind)[p] = Fields /\ DOMAIN Attached(kind)[p].tables = Slots
              /\ Attached(kind)[p].st = FALSE /\ Attached(kind)[p].halted = FALSE
              /\ Attached(kind)[p].is = FALSE /\ Attached(kind)[p].ci = {}
BY DEF Attached, Fields

LEMMA StartSoundInit == StartInit => StorageIInv
<1> SUFFICES ASSUME StartInit PROVE StorageIInv
  OBVIOUS
<1> DEFINE kind == [p \in Ports |-> "null"]
<1>1. hba = Attached(kind) /\ pc = "load" /\ frames = 0
  BY DEF StartInit
<1>2. /\ disk = Fresh /\ ahci_devices = <<>> /\ device_list = <<>> /\ next_device_id = 1 /\ at = 1
      /\ cmd = NoCmd /\ call = NoCall /\ moved = FALSE
  BY DEF StartInit, Idle
<1>3. DOMAIN disk = Ports /\ \A p \in Ports : DOMAIN disk[p] = 0 .. DiskSize(p) - 1
  BY <1>2 DEF Fresh
<1> HIDE DEF kind
<1>4. \A p \in Ports : Unstarted(p) /\ ~Running(p)
  BY <1>1, AttachedPorts DEF Unstarted, Running
<1>5. Shape
  BY <1>1, <1>3, AttachedPorts DEF Shape
<1>6. DevicesReady
  BY <1>2 DEF DevicesReady
<1>7. Place
  BY <1>1, <1>2, <1>4 DEF Place, Early, Phases
<1>8. OneCommand /\ Pending
  BY <1>1, <1>2, <1>4 DEF OneCommand, Pending
<1> QED
  BY <1>5, <1>6, <1>7, <1>8 DEF StorageIInv

\* The loader and the scan of the bus leave the disks alone.
LEMMA EarlyKeeps ==
  ASSUME StorageIInv, pc \in Early, pc' \in Early, UNCHANGED storageVars
  PROVE  StorageIInv'
<1>1. /\ hba' = hba /\ disk' = disk /\ ahci_devices' = ahci_devices /\ device_list' = device_list
      /\ next_device_id' = next_device_id /\ frames' = frames /\ at' = at /\ cmd' = cmd /\ call' = call
      /\ moved' = moved
  BY DEF storageVars, registry, memory
<1>2. Shape' /\ DevicesReady'
  BY <1>1 DEF StorageIInv, Shape, DevicesReady, Registered, Started
<1>3. pc # "poll" /\ pc' # "poll" /\ pc' # "port" /\ pc' # "register" /\ pc' \in Phases
  BY DEF Early, Phases
<1>4. Place'
  BY <1>1, <1>3 DEF StorageIInv, Place, Unstarted, Before
<1>5. OneCommand' /\ Pending'
  BY <1>1, <1>3 DEF StorageIInv, OneCommand, Pending, Running
<1> QED
  BY <1>2, <1>4, <1>5 DEF StorageIInv

LEMMA LoaderKeeps ==
  ASSUME StorageIInv,
         \/ load_first \/ load_table \/ load_rest \/ check_elf \/ load_elf_kernel \/ loader_main
         \/ init_pci \/ pci_scan_absent \/ pci_scan_present
  PROVE  StorageIInv' /\ UNCHANGED storageVars
<1>1. pc \in Early /\ pc' \in Early /\ UNCHANGED storageVars
  <2>1. ASSUME NEW err, LoaderFails(err) PROVE pc' \in Early /\ UNCHANGED storageVars
    BY <2>1 DEF LoaderFails, Early
  <2>2. ASSUME ata_read_sector, pc \in Early PROVE pc' \in Early /\ UNCHANGED storageVars
    BY <2>2 DEF ata_read_sector
  <2>3. ASSUME ReadMore, pc \in Early PROVE pc' \in Early /\ UNCHANGED storageVars
    BY <2>1, <2>2, <2>3 DEF ReadMore
  <2>4. ASSUME NEW to, Goes(to) PROVE pc' = to /\ UNCHANGED storageVars
    BY <2>4 DEF Goes
  <2>5. CASE load_first
    BY <2>1, <2>2, <2>5 DEF load_first, Early
  <2>6. CASE load_table
    BY <2>1, <2>3, <2>4, <2>6 DEF load_table, Early
  <2>7. CASE load_rest
    BY <2>1, <2>3, <2>4, <2>7 DEF load_rest, Early
  <2>8. CASE check_elf
    BY <2>1, <2>4, <2>8 DEF check_elf, Early
  <2>9. CASE load_elf_kernel
    BY <2>1, <2>9 DEF load_elf_kernel, Early
  <2>10. CASE loader_main
    BY <2>4, <2>10 DEF loader_main, Early
  <2>11. CASE init_pci
    BY <2>11 DEF init_pci, Early
  <2>12. ASSUME NEW to, ScanGoes(to), pc = "pci" PROVE pc' \in Early
    BY <2>12 DEF ScanGoes, Early
  <2>13. CASE pci_scan_absent
    BY <2>12, <2>13 DEF pci_scan_absent, Early
  <2>14. CASE pci_scan_present
    BY <2>12, <2>14 DEF pci_scan_present, Early
  <2> QED
    BY <2>5, <2>6, <2>7, <2>8, <2>9, <2>10, <2>11, <2>13, <2>14
<1> QED
  BY <1>1, EarlyKeeps

LEMMA ControllerKeeps ==
  ASSUME StorageIInv, init_ahci
  PROVE  StorageIInv' /\ UNCHANGED <<disk, buffer, call, moved, result>>
<1>1. /\ disk' = disk /\ ahci_devices' = ahci_devices /\ device_list' = device_list
      /\ next_device_id' = next_device_id /\ at' = at /\ cmd' = cmd /\ call' = call
      /\ moved' = moved /\ buffer' = buffer /\ result' = result /\ pc = "ahci"
  BY DEF init_ahci, registry
<1>2. /\ DOMAIN disk = Ports /\ \A p \in Ports : DOMAIN disk[p] = 0 .. DiskSize(p) - 1
      /\ ahci_devices = <<>> /\ device_list = <<>> /\ at = 1 /\ cmd = NoCmd /\ call = NoCall
      /\ ~moved /\ moved \in BOOLEAN /\ next_device_id \in Int /\ \A p \in Ports : Unstarted(p)
  BY <1>1 DEF StorageIInv, Shape, Place, OneCommand, DevicesReady, Early
<1>3. CASE pc' = "register" /\ UNCHANGED <<hba, memory>>
  <2>1. hba' = hba /\ frames' = frames /\ pc' = "register"
    BY <1>3 DEF memory
  <2>2. Shape' /\ DevicesReady'
    BY <1>1, <2>1 DEF StorageIInv, Shape, DevicesReady, Registered, Started
  <2>3. Place'
    BY <1>1, <1>2, <2>1 DEF Place, Phases, Early
  <2>4. OneCommand' /\ Pending'
    BY <1>1, <2>1 DEF StorageIInv, OneCommand, Pending, Running
  <2> QED
    BY <1>1, <2>2, <2>3, <2>4 DEF StorageIInv
<1>4. ASSUME pc' = "port", NEW kind \in [Ports -> Kinds], hba' = Attached(kind), frames' \in Frames
      PROVE  StorageIInv'
  <2>1. frames' \in Nat
    BY <1>4, StorageAssumption
  <2>2. (DOMAIN disk = Ports)' /\ (\A p \in Ports : DOMAIN disk[p] = 0 .. DiskSize(p) - 1)'
    BY <1>1, <1>2
  <2>3. \A p \in Ports : Unstarted(p)' /\ ~Running(p)'
    BY <1>4, AttachedPorts DEF Unstarted, Running
  <2>4. Shape'
    BY <1>4, <2>1, <2>2, AttachedPorts DEF Shape
  <2>5. DevicesReady'
    BY <1>1, <1>2 DEF DevicesReady
  <2>6. Place'
    <3>1. 1 \in Ports /\ pc' \notin Early /\ pc' \in Phases
      BY <1>4, StorageAssumption DEF Early, Phases
    <3> QED
      BY <1>1, <1>2, <1>4, <2>3, <3>1 DEF Place, Before
  <2>7. OneCommand' /\ Pending'
    BY <1>1, <1>2, <1>4, <2>3 DEF OneCommand, Pending
  <2> QED
    BY <2>4, <2>5, <2>6, <2>7 DEF StorageIInv
<1> QED
  BY <1>1, <1>3, <1>4 DEF init_ahci

-----------------------------------------------------------------------------
(***************************************************************************)
(* The ports are started.                                                  *)
(***************************************************************************)
LEMMA FramesTaken ==
  ASSUME NEW n \in Nat
  PROVE  /\ FramesLeft(n) \in Nat
         /\ TablesFit(n) => n - FramesLeft(n) = 2 + SLOTS
<1>1. SLOTS \in Nat
  BY StorageAssumption
<1> QED
  BY <1>1 DEF FramesLeft, TablesFit

\* The next port, or the devices.
LEMMA PortDone ==
  ASSUME at \in Ports, Before(at), NextPort, hba' = hba \/ \E r : hba' = [hba EXCEPT ![at] = r],
         DOMAIN hba = Ports, device_list' = device_list, ahci_devices' \in Seq(Devices),
         \A i \in DOMAIN ahci_devices' : \/ ahci_devices'[i].port = at
                                         \/ i \in DOMAIN ahci_devices /\ ahci_devices'[i] = ahci_devices[i]
  PROVE  Place' /\ pc' \in {"port", "register"}
<1>1. Ports \subseteq Nat /\ at \in Nat
  BY StorageAssumption
<1>2. \A q \in Ports : q # at => hba'[q] = hba[q]
  OBVIOUS
<1>3. \A q \in Ports : q > at => Unstarted(q)'
  BY <1>1, <1>2 DEF Before, Unstarted
<1>4. \A i \in DOMAIN ahci_devices' : ahci_devices'[i].port \in Nat /\ ahci_devices'[i].port <= at
  <2> SUFFICES ASSUME NEW i \in DOMAIN ahci_devices'
               PROVE  ahci_devices'[i].port \in Nat /\ ahci_devices'[i].port <= at
    OBVIOUS
  <2>1. ahci_devices'[i] \in Devices
    OBVIOUS
  <2>2. ahci_devices'[i].port \in Nat
    BY <1>1, <2>1 DEF Devices
  <2> QED
    BY <1>1, <2>2 DEF Before
<1>5. device_list' = <<>>
  BY DEF Before
<1>6. CASE at + 1 \in Ports /\ pc' = "port" /\ at' = at + 1
  <2>1. \A q \in Ports : q > at' => Unstarted(q)'
    BY <1>1, <1>3, <1>6 DEF Unstarted
  <2>2. \A i \in DOMAIN ahci_devices' : ahci_devices'[i].port < at'
    BY <1>1, <1>4, <1>6
  <2>3. at' \in Ports /\ at' > at
    BY <1>1, <1>6
  <2>4. Before(at)'
    BY <1>5, <2>1, <2>2 DEF Before
  <2>5. Unstarted(at)'
    BY <1>3, <2>3 DEF Unstarted
  <2>6. pc' \in Phases /\ pc' \notin Early /\ pc' # "poll" /\ pc' # "register"
    BY <1>6 DEF Phases, Early
  <2> QED
    BY <1>6, <2>3, <2>4, <2>5, <2>6 DEF Place
<1>7. CASE pc' = "register" /\ at' = 1
  BY <1>7 DEF Place, Phases, Early
<1> QED
  BY <1>6, <1>7 DEF NextPort

\* While a port is looked at nothing is outstanding.
LEMMA AtPort ==
  ASSUME StorageIInv, pc = "port"
  PROVE  /\ at \in Ports /\ Before(at) /\ Unstarted(at) /\ cmd = NoCmd /\ call = NoCall /\ ~moved
         /\ moved \in BOOLEAN /\ \A p \in Ports : Running(p) => hba[p].ci = {}
BY DEF StorageIInv, Place, OneCommand

\* A step that writes at most the registers and tables of port p.
Touches(p) ==
  /\ p \in Ports /\ DOMAIN hba' = Ports
  /\ \A q \in Ports : q # p => hba'[q] = hba[q]
  /\ DOMAIN hba'[p] = Fields /\ DOMAIN hba'[p].tables = Slots
  /\ hba'[p].st \in BOOLEAN /\ hba'[p].halted \in BOOLEAN /\ hba'[p].is \in BOOLEAN

LEMMA ShapeKept ==
  ASSUME Shape, NEW p, Touches(p), frames' \in Nat, DOMAIN disk' = DOMAIN disk,
         \A q \in Ports : DOMAIN disk'[q] = DOMAIN disk[q]
  PROVE  Shape'
<1>1. ASSUME NEW q \in Ports
      PROVE  /\ DOMAIN hba'[q] = Fields /\ DOMAIN hba'[q].tables = Slots
             /\ hba'[q].st \in BOOLEAN /\ hba'[q].halted \in BOOLEAN /\ hba'[q].is \in BOOLEAN
  <2>1. CASE q = p
    BY <2>1 DEF Touches
  <2>2. CASE q # p
    BY <2>2 DEF Touches, Shape
  <2> QED
    BY <2>1, <2>2
<1>2. DOMAIN hba' = Ports /\ DOMAIN disk' = Ports
      /\ \A q \in Ports : DOMAIN disk'[q] = 0 .. DiskSize(q) - 1
  BY DEF Touches, Shape
<1> QED
  BY <1>1, <1>2 DEF Shape

LEMMA DevicePorts ==
  ASSUME DevicesReady
  PROVE  \A i \in DOMAIN ahci_devices : ahci_devices[i].port \in Ports
<1>1. \A d \in Devices : d.port \in Ports
  BY DEF Devices
<1> QED
  BY <1>1 DEF DevicesReady

\* The devices stay as they are, if the port stays started or is not theirs.
LEMMA DevicesKept ==
  ASSUME DevicesReady, NEW p, Touches(p), ahci_devices' = ahci_devices,
         device_list' \in Seq(Registered), next_device_id' \in Int,
         \/ hba'[p].st = hba[p].st /\ hba'[p].given = hba[p].given
         \/ \A i \in DOMAIN ahci_devices : ahci_devices[i].port # p
  PROVE  DevicesReady'
<1>1. ASSUME NEW i \in DOMAIN ahci_devices
      PROVE  hba'[ahci_devices[i].port].st /\ hba'[ahci_devices[i].port].given = 2 + SLOTS
  <2> DEFINE q == ahci_devices[i].port
  <2>1. q \in Ports /\ hba[q].st /\ hba[q].given = 2 + SLOTS
    BY DevicePorts DEF DevicesReady, Started
  <2>2. q = p => hba'[p].st = hba[p].st /\ hba'[p].given = hba[p].given
    OBVIOUS
  <2> HIDE DEF q
  <2>3. hba'[q].st /\ hba'[q].given = 2 + SLOTS
    BY <2>1, <2>2 DEF Touches
  <2> QED
    BY <2>3 DEF q
<1>2. Registered' = Registered
  BY DEF Registered
<1>3. \A i \in DOMAIN ahci_devices' : Started(ahci_devices[i].port)'
  BY <1>1 DEF Started
<1> QED
  BY <1>2, <1>3 DEF DevicesReady

LEMMA SkipKeeps ==
  ASSUME StorageIInv, ahci_init_port_skip
  PROVE  StorageIInv' /\ UNCHANGED <<disk, buffer, call, moved, result>>
<1>1. /\ pc = "port" /\ hba' = hba /\ disk' = disk /\ ahci_devices' = ahci_devices
      /\ device_list' = device_list /\ next_device_id' = next_device_id /\ frames' = frames
      /\ cmd' = cmd /\ call' = call /\ buffer' = buffer /\ result' = result /\ moved' = moved
      /\ NextPort
  BY DEF ahci_init_port_skip, registry, memory
<1>2. Shape' /\ DevicesReady'
  BY <1>1 DEF StorageIInv, Shape, DevicesReady, Registered, Started
<1>3. Place' /\ pc' \in {"port", "register"}
  <2>1. DOMAIN hba = Ports /\ ahci_devices' \in Seq(Devices)
    BY <1>1 DEF StorageIInv, Shape, DevicesReady
  <2> QED
    BY <1>1, <2>1, AtPort, PortDone
<1>4. OneCommand' /\ Pending'
  BY <1>1, <1>3, AtPort DEF OneCommand, Pending, Running
<1> QED
  BY <1>1, <1>2, <1>3, <1>4 DEF StorageIInv

LEMMA FailKeeps ==
  ASSUME StorageIInv, ahci_init_port_fail
  PROVE  StorageIInv' /\ UNCHANGED <<disk, buffer, call, moved, result>>
<1>1. /\ pc = "port" /\ hba' = [hba EXCEPT ![at].st = FALSE] /\ disk' = disk /\ ahci_devices' = ahci_devices
      /\ device_list' = device_list /\ next_device_id' = next_device_id /\ frames' = FramesLeft(frames)
      /\ cmd' = cmd /\ call' = call /\ buffer' = buffer /\ result' = result /\ moved' = moved
      /\ NextPort
  BY DEF ahci_init_port_fail, registry
<1>2. /\ at \in Ports /\ Before(at) /\ Unstarted(at) /\ cmd = NoCmd /\ call = NoCall /\ ~moved
      /\ moved \in BOOLEAN /\ \A p \in Ports : Running(p) => hba[p].ci = {}
  BY <1>1, AtPort
<1>3. Shape /\ DevicesReady
  BY DEF StorageIInv
<1>4. /\ DOMAIN hba' = Ports
      /\ \A p \in Ports : p # at => hba'[p] = hba[p]
      /\ DOMAIN hba'[at] = Fields /\ hba'[at].tables = hba[at].tables
      /\ hba'[at].st = FALSE /\ hba'[at].halted = hba[at].halted /\ hba'[at].is = hba[at].is
      /\ hba'[at].ci = hba[at].ci
  BY <1>1, <1>2, <1>3 DEF Shape, Fields
<1>5. Touches(at)
  BY <1>2, <1>3, <1>4 DEF Touches, Shape
<1>6. Shape'
  <2>1. frames' \in Nat
    BY <1>1, <1>3, FramesTaken DEF Shape
  <2> QED
    BY <1>1, <1>3, <1>5, <2>1, ShapeKept
<1>7. DevicesReady'
  <2>1. \A i \in DOMAIN ahci_devices : ahci_devices[i].port # at
    BY <1>2, <1>3, DevicePorts, StorageAssumption DEF Before
  <2>2. device_list' \in Seq(Registered) /\ next_device_id' \in Int
    BY <1>1, <1>3 DEF DevicesReady
  <2> QED
    BY <1>1, <1>3, <1>5, <2>1, <2>2, DevicesKept
<1>8. Place' /\ pc' \in {"port", "register"}
  <2>1. \E r : hba' = [hba EXCEPT ![at] = r]
    BY <1>1
  <2>2. DOMAIN hba = Ports /\ ahci_devices' \in Seq(Devices)
    BY <1>1, <1>3 DEF Shape, DevicesReady
  <2> QED
    BY <1>1, <1>2, <2>1, <2>2, PortDone
<1>9. \A p \in Ports : Running(p)' => Running(p) /\ hba'[p] = hba[p]
  BY <1>4 DEF Running
<1>10. OneCommand' /\ Pending'
  BY <1>1, <1>2, <1>8, <1>9 DEF OneCommand, Pending
<1> QED
  BY <1>1, <1>6, <1>7, <1>8, <1>10 DEF StorageIInv

LEMMA FindSlot == ASSUME NEW p, hba[p].ci = {} PROVE ahci_find_cmdslot(p) \in Slots
<1>1. 1 \in Slots /\ \A t \in Slots : 1 <= t
  BY StorageAssumption DEF Slots
<1>2. Slots # hba[p].ci /\ Slots \ hba[p].ci = Slots
  BY <1>1
<1>3. \E s \in Slots : \A t \in Slots : s <= t
  BY <1>1
<1>4. (CHOOSE s \in Slots : \A t \in Slots : s <= t) \in Slots
  BY <1>3
<1> QED
  BY <1>2, <1>4 DEF ahci_find_cmdslot

LEMMA BeforeKept ==
  ASSUME Before(at), Touches(at), at' = at, ahci_devices' = ahci_devices, device_list' = device_list
  PROVE  Before(at)'
<1>1. Ports \subseteq Nat
  BY StorageAssumption
<1> QED
  BY <1>1 DEF Before, Touches, Unstarted

LEMMA InitPortKeeps ==
  ASSUME StorageIInv, ahci_init_port
  PROVE  StorageIInv' /\ UNCHANGED <<disk, buffer, call, moved, result>>
<1> DEFINE slt == ahci_find_cmdslot(at)
           given == frames - FramesLeft(frames)
           table == [op |-> "identify", fis |-> Fis(0, 0), dbc |-> 1]
<1>1. /\ pc = "port" /\ pc' = "poll" /\ disk' = disk /\ ahci_devices' = ahci_devices
      /\ device_list' = device_list /\ next_device_id' = next_device_id /\ frames' = FramesLeft(frames)
      /\ at' = at /\ call' = call /\ buffer' = buffer /\ result' = result /\ moved' = moved
      /\ TablesFit(frames)
  BY DEF ahci_init_port, registry
<1>2. /\ at \in Ports /\ Before(at) /\ Unstarted(at) /\ cmd = NoCmd /\ call = NoCall /\ ~moved
      /\ moved \in BOOLEAN /\ \A p \in Ports : Running(p) => hba[p].ci = {}
  BY <1>1, AtPort
<1>3. Shape /\ DevicesReady /\ frames \in Nat
  BY DEF StorageIInv, Shape
<1>4. given = 2 + SLOTS /\ frames' \in Nat
  BY <1>1, <1>3, FramesTaken
<1>5. slt \in Slots /\ hba[at].ci = {}
  BY <1>2, FindSlot DEF Unstarted
<1>6. \/ /\ hba' = [hba EXCEPT ![at].st = TRUE, ![at].given = given, ![at].is = FALSE,
                               ![at].tables[slt] = table, ![at].ci = @ \cup {slt}]
         /\ cmd' = [op |-> "identify", port |-> at, slot |-> slt, then |-> "port"]
      \/ /\ hba' = [hba EXCEPT ![at].st = TRUE, ![at].given = given]
         /\ cmd' = [op |-> "failed", then |-> "port"]
  BY DEF ahci_init_port
<1> HIDE DEF slt, given
<1>7. /\ Touches(at) /\ hba'[at].st = TRUE /\ hba'[at].given = 2 + SLOTS
      /\ \/ /\ hba'[at].is = FALSE /\ hba'[at].ci = {slt} /\ hba'[at].tables[slt] = table
            /\ cmd' = [op |-> "identify", port |-> at, slot |-> slt, then |-> "port"]
         \/ /\ hba'[at].ci = {}
            /\ cmd' = [op |-> "failed", then |-> "port"]
  <2>0. /\ DOMAIN hba = Ports /\ DOMAIN hba[at] = Fields /\ DOMAIN hba[at].tables = Slots
        /\ hba[at].is \in BOOLEAN /\ hba[at].halted \in BOOLEAN
    BY <1>2, <1>3 DEF Shape
  <2> HIDE DEF table
  <2>1. CASE /\ hba' = [hba EXCEPT ![at].st = TRUE, ![at].given = given, ![at].is = FALSE,
                                   ![at].tables[slt] = table, ![at].ci = @ \cup {slt}]
             /\ cmd' = [op |-> "identify", port |-> at, slot |-> slt, then |-> "port"]
    <3>1. /\ DOMAIN hba' = Ports /\ DOMAIN hba'[at] = Fields /\ DOMAIN hba'[at].tables = Slots
          /\ \A q \in Ports : q # at => hba'[q] = hba[q]
      BY <1>2, <2>0, <2>1 DEF Fields
    <3>2. /\ hba'[at].st = TRUE /\ hba'[at].given = given /\ hba'[at].is = FALSE
          /\ hba'[at].halted = hba[at].halted
          /\ hba'[at].tables[slt] = table /\ hba'[at].ci = hba[at].ci \cup {slt}
      BY <1>2, <1>5, <2>0, <2>1 DEF Fields
    <3>3. cmd' = [op |-> "identify", port |-> at, slot |-> slt, then |-> "port"]
      BY <2>1
    <3> QED
      BY <1>2, <1>4, <1>5, <2>0, <3>1, <3>2, <3>3 DEF Touches
  <2>2. CASE /\ hba' = [hba EXCEPT ![at].st = TRUE, ![at].given = given]
             /\ cmd' = [op |-> "failed", then |-> "port"]
    <3>1. /\ DOMAIN hba' = Ports /\ DOMAIN hba'[at] = Fields /\ DOMAIN hba'[at].tables = Slots
          /\ \A q \in Ports : q # at => hba'[q] = hba[q]
      BY <1>2, <2>0, <2>2 DEF Fields
    <3>2. /\ hba'[at].st = TRUE /\ hba'[at].given = given /\ hba'[at].is = hba[at].is
          /\ hba'[at].halted = hba[at].halted /\ hba'[at].ci = hba[at].ci
      BY <1>2, <2>0, <2>2 DEF Fields
    <3>3. cmd' = [op |-> "failed", then |-> "port"]
      BY <2>2
    <3> QED
      BY <1>2, <1>4, <1>5, <2>0, <3>1, <3>2, <3>3 DEF Touches
  <2> QED
    BY <1>6, <2>1, <2>2
<1>8. Shape'
  BY <1>1, <1>3, <1>4, <1>7, ShapeKept
<1>9. DevicesReady'
  <2>1. \A i \in DOMAIN ahci_devices : ahci_devices[i].port # at
    BY <1>2, <1>3, DevicePorts, StorageAssumption DEF Before
  <2>2. device_list' \in Seq(Registered) /\ next_device_id' \in Int
    BY <1>1, <1>3 DEF DevicesReady
  <2> QED
    BY <1>1, <1>3, <1>7, <2>1, <2>2, DevicesKept
<1>10. Place'
  <2>1. Before(at)' /\ Started(at)'
    BY <1>1, <1>2, <1>7, BeforeKept DEF Started
  <2>2. pc' \in Phases /\ pc' \notin Early /\ pc' # "port" /\ pc' # "register" /\ at' \in Ports
    BY <1>1, <1>2 DEF Phases, Early
  <2> QED
    BY <2>1, <2>2 DEF Place
<1>11. /\ cmd'.then = "port"
       /\ \/ cmd'.op = "failed" /\ hba'[at].ci = {}
          \/ /\ cmd'.op = "identify" /\ cmd'.port = at /\ cmd'.slot = slt
             /\ hba'[at].is = FALSE /\ hba'[at].ci = {slt} /\ hba'[at].tables[slt].op = "identify"
  BY <1>7
<1>12. \A p \in Ports : p # at => hba'[p] = hba[p] /\ (Running(p)' => hba[p].ci = {})
  BY <1>2, <1>7 DEF Touches, Running
<1>13. OneCommand'
  BY <1>1, <1>2, <1>11, <1>12 DEF OneCommand
<1>14. Pending'
  BY <1>1, <1>2, <1>11 DEF Pending
<1> QED
  BY <1>1, <1>8, <1>9, <1>10, <1>13, <1>14 DEF StorageIInv

\* When a command has ended, nothing is outstanding.
LEMMA NothingLeft ==
  ASSUME StorageIInv, pc = "poll", Done(cmd)
  PROVE  \A p \in Ports : Running(p) => hba[p].ci = {}
<1> SUFFICES ASSUME NEW p \in Ports, Running(p), hba[p].ci # {} PROVE FALSE
  OBVIOUS
<1>1. PICK s \in hba[p].ci : TRUE
  OBVIOUS
<1>2. cmd.op # "failed" /\ cmd.port = p /\ cmd.slot = s /\ ~hba[p].is
  BY <1>1 DEF StorageIInv, OneCommand
<1> QED
  BY <1>1, <1>2 DEF Done

LEMMA IdentifyKeeps ==
  ASSUME StorageIInv, ahci_identify_done
  PROVE  StorageIInv' /\ UNCHANGED <<disk, buffer, call, moved, result>>
<1> DEFINE d == Device(at, IF Outcome(cmd) = 1 THEN Identified(at) ELSE 0)
<1>1. /\ pc = "poll" /\ cmd.then = "port" /\ Done(cmd) /\ hba' = hba /\ disk' = disk
      /\ ahci_devices' = Append(ahci_devices, d)
      /\ device_list' = device_list /\ next_device_id' = next_device_id /\ frames' = frames
      /\ cmd' = NoCmd /\ call' = call /\ buffer' = buffer /\ result' = result /\ moved' = moved
      /\ NextPort
  BY DEF ahci_identify_done, registry, memory
<1>2. call = NoCall /\ moved \in BOOLEAN /\ ~moved
  BY <1>1 DEF StorageIInv, OneCommand
<1>3. at \in Ports /\ Before(at) /\ Started(at)
  BY <1>1, <1>2 DEF StorageIInv, Place
<1>4. Shape /\ DevicesReady /\ device_list = <<>>
  BY <1>3 DEF StorageIInv, Before
<1>5. d \in Devices /\ d.port = at
  <2>1. Identified(at) \in Int
    BY <1>3, StorageAssumption DEF Identified, Least
  <2> QED
    BY <1>3, <2>1 DEF Device, Devices
<1> HIDE DEF d
<1>6. /\ ahci_devices' \in Seq(Devices)
      /\ \A i \in DOMAIN ahci_devices' : \/ ahci_devices'[i] = d
                                         \/ i \in DOMAIN ahci_devices /\ ahci_devices'[i] = ahci_devices[i]
  BY <1>1, <1>4, <1>5 DEF DevicesReady
<1>7. Shape'
  BY <1>1, <1>4 DEF Shape
<1>8. DevicesReady'
  <2>1. \A i \in DOMAIN ahci_devices' : Started(ahci_devices[i].port)'
    BY <1>1, <1>3, <1>4, <1>5, <1>6 DEF DevicesReady, Started
  <2>2. device_list' \in Seq(Registered') /\ next_device_id' \in Int
    BY <1>1, <1>4 DEF DevicesReady
  <2> QED
    BY <1>6, <2>1, <2>2 DEF DevicesReady
<1>9. Place' /\ pc' \in {"port", "register"}
  <2>1. \A i \in DOMAIN ahci_devices' : \/ ahci_devices'[i].port = at
                                        \/ i \in DOMAIN ahci_devices /\ ahci_devices'[i] = ahci_devices[i]
    BY <1>5, <1>6
  <2>2. DOMAIN hba = Ports
    BY <1>4 DEF Shape
  <2> QED
    BY <1>1, <1>3, <1>6, <2>1, <2>2, PortDone
<1>10. OneCommand' /\ Pending'
  <2>1. \A p \in Ports : Running(p)' => hba'[p].ci = {}
    BY <1>1, NothingLeft DEF Running
  <2> QED
    BY <1>1, <1>2, <1>9, <2>1 DEF OneCommand, Pending
<1> QED
  BY <1>1, <1>7, <1>8, <1>9, <1>10 DEF StorageIInv

-----------------------------------------------------------------------------
(***************************************************************************)
(* The devices are registered, and unregistered.                           *)
(***************************************************************************)
LEMMA RegistryKeeps ==
  ASSUME StorageIInv, pc \in {"register", "ready"}, pc' \in {"register", "ready"},
         pc' = "register" => at' \in Nat \ {0},
         device_list' \in Seq(Registered), next_device_id' \in Int,
         UNCHANGED <<hba, disk, ahci_devices, frames, cmd, call, buffer, result, moved>>
  PROVE  StorageIInv' /\ UNCHANGED <<disk, buffer, call, moved, result>>
<1>1. /\ hba' = hba /\ disk' = disk /\ ahci_devices' = ahci_devices /\ frames' = frames
      /\ cmd' = cmd /\ call' = call /\ moved' = moved
  OBVIOUS
<1>2. Shape'
  BY <1>1 DEF StorageIInv, Shape
<1>3. DevicesReady'
  BY <1>1 DEF StorageIInv, DevicesReady, Registered, Started
<1>4. Place'
  BY DEF Place, Phases, Early
<1>5. OneCommand' /\ Pending'
  BY <1>1 DEF StorageIInv, OneCommand, Pending, Running
<1> QED
  BY <1>2, <1>3, <1>4, <1>5 DEF StorageIInv

LEMMA RegisterKeeps ==
  ASSUME StorageIInv, ahci_adapter_create_device \/ init_fs \/ \E id \in 1 .. next_device_id : block_device_unregister(id)
  PROVE  StorageIInv' /\ UNCHANGED <<disk, buffer, call, moved, result>>
<1>1. DevicesReady /\ Place
  BY DEF StorageIInv
<1>2. CASE ahci_adapter_create_device
  <2>1. /\ pc = "register" /\ at <= Len(ahci_devices) /\ at' = at + 1 /\ pc' = pc
        /\ UNCHANGED <<hba, disk, ahci_devices, frames, cmd, call, buffer, result, moved>>
    BY <1>2 DEF ahci_adapter_create_device
  <2>2. at \in DOMAIN ahci_devices /\ at \in Nat \ {0}
    BY <1>1, <2>1 DEF Place, DevicesReady
  <2>3. device_list' \in Seq(Registered) /\ next_device_id' \in Int
    <3>1. CASE UNCHANGED registry
      BY <1>1, <3>1 DEF registry, DevicesReady
    <3>2. CASE block_device_register(at, ahci_devices[at].total_sectors)
      <4> DEFINE new == [id |-> next_device_id, device |-> at, total_sectors |-> ahci_devices[at].total_sectors]
      <4>1. ahci_devices[at] \in Devices /\ next_device_id \in Int
        BY <1>1, <2>2 DEF DevicesReady
      <4>2. new \in Registered
        BY <2>2, <4>1 DEF Registered, Devices
      <4>3. device_list' = <<new>> \o device_list /\ next_device_id' = next_device_id + 1
        BY <3>2 DEF block_device_register
      <4>4. device_list \in Seq(Registered)
        BY <1>1 DEF DevicesReady
      <4> HIDE DEF new
      <4> QED
        BY <4>1, <4>2, <4>3, <4>4
    <3> QED
      BY <1>2, <3>1, <3>2 DEF ahci_adapter_create_device
  <2> QED
    BY <2>1, <2>2, <2>3, RegistryKeeps
<1>3. CASE init_fs
  <2>1. device_list' \in Seq(Registered) /\ next_device_id' \in Int
    BY <1>1, <1>3 DEF init_fs, registry, DevicesReady
  <2> QED
    BY <1>3, <2>1, RegistryKeeps DEF init_fs, memory
<1>4. CASE \E id \in 1 .. next_device_id : block_device_unregister(id)
  <2>1. PICK i \in DOMAIN device_list : device_list' = RemoveAt(device_list, i)
    BY <1>4 DEF block_device_unregister
  <2>2. device_list' \in Seq(Registered)
    <3>1. ASSUME NEW S, NEW s \in Seq(S), NEW j \in DOMAIN s PROVE RemoveAt(s, j) \in Seq(S)
      BY DEF RemoveAt
    <3>2. device_list \in Seq(Registered)
      BY <1>1 DEF DevicesReady
    <3> QED
      BY <2>1, <3>1, <3>2
  <2>3. next_device_id' \in Int /\ pc = "ready" /\ pc' = "ready"
        /\ UNCHANGED <<hba, disk, ahci_devices, frames, cmd, call, buffer, result, moved>>
    BY <1>1, <1>4 DEF block_device_unregister, DevicesReady
  <2> QED
    BY <2>2, <2>3, RegistryKeeps
<1> QED
  BY <1>2, <1>3, <1>4

-----------------------------------------------------------------------------
(***************************************************************************)
(* A call is taken.                                                        *)
(***************************************************************************)
LEMMA Truncated ==
  ASSUME NEW c \in Nat
  PROVE  UInt16(c) \in Nat /\ UInt16(UInt16(c)) = UInt16(c)
<1>1. BYTE * BYTE \in Nat \ {0}
  BY Base
<1>2. UInt16(c) \in 0 .. BYTE * BYTE - 1
  BY <1>1, DivisionWithRest DEF UInt16
<1>3. UInt16(c) \in Nat
  BY <1>1, <1>2
<1> QED
  BY <1>2, <1>3, SmallCount

LEMMA UInt16Of1 == UInt16(1) = 1
<1>1. 1 \in 0 .. BYTE * BYTE - 1
  <2>1. BYTE * BYTE > 1
    BY Base
  <2> QED
    BY Base, <2>1
<1> QED
  BY <1>1, SmallCount

\* What the layers above the driver hand to it.
Sensible(new) ==
  /\ new.op \in {"read", "write", "identify"}
  /\ new.lba \in 0 .. BYTE * BYTE * BYTE * BYTE * BYTE * BYTE - 1
  /\ new.count \in Sizes \cup {1} /\ UInt16(new.count) # 0
  /\ new.op = "identify" => new.lba = 0 /\ new.count = 1

\* The driver refuses the call, or issues it to the call's disk.
Handed(new) ==
  \/ Refuse
  \/ Sensible(new) /\ new.disk \in Ports /\ Issue(new.disk, new.op, new.lba, UInt16(new.count), "ready")

\* A command in a slot carries the call that it was made for.
LEMMA FisExact ==
  ASSUME NEW new, Sensible(new)
  PROVE  /\ new.lba \in Nat /\ UInt16(new.count) \in Nat
         /\ Lba(Fis(new.lba, UInt16(new.count))) = new.lba
         /\ Count(Fis(new.lba, UInt16(new.count))) = UInt16(new.count)
<1>1. new.count \in Nat
  BY StorageAssumption DEF Sensible
<1>2. UInt16(new.count) \in Nat /\ UInt16(UInt16(new.count)) = UInt16(new.count)
  BY <1>1, Truncated
<1>3. new.lba \in 0 .. BYTE * BYTE * BYTE * BYTE * BYTE * BYTE - 1 /\ new.lba \in Nat
  <2>1. BYTE * BYTE * BYTE * BYTE * BYTE * BYTE - 1 \in Int
    BY Base
  <2> QED
    BY <2>1 DEF Sensible
<1> QED
  BY <1>2, <1>3, LbaExact, CountExact

LEMMA CallKeeps ==
  ASSUME StorageIInv, pc = "ready", NEW new, new # NoCall, Call(new), Handed(new)
  PROVE  StorageIInv' /\ Disk!Begin
<1>1. /\ call' = new /\ buffer' = new.data /\ pc' = "poll" /\ moved' = FALSE
      /\ disk' = disk /\ ahci_devices' = ahci_devices /\ device_list' = device_list
      /\ next_device_id' = next_device_id /\ frames' = frames /\ result' = result
  BY DEF Call, registry, memory
<1>2. /\ Shape /\ DevicesReady /\ call = NoCall
      /\ \A p \in Ports : Running(p) => hba[p].ci = {}
  BY DEF StorageIInv, OneCommand
<1>3. Disk!Begin
  BY <1>1, <1>2 DEF Disk!Begin
<1>4. device_list' \in Seq(Registered) /\ next_device_id' \in Int /\ Registered' = Registered
  BY <1>1, <1>2 DEF DevicesReady, Registered
<1>5. Place'
  BY <1>1 DEF Place, Phases, Early
<1>6. CASE UNCHANGED hba /\ cmd' = [op |-> "failed", then |-> "ready"]
  <2>1. hba' = hba /\ cmd'.op = "failed" /\ cmd'.then = "ready"
    BY <1>6
  <2>2. Shape'
    BY <1>1, <1>2, <2>1 DEF Shape
  <2>3. DevicesReady'
    BY <1>1, <1>2, <1>4, <2>1 DEF DevicesReady, Started
  <2>4. OneCommand' /\ Pending'
    BY <1>1, <1>2, <2>1 DEF OneCommand, Pending, Running
  <2> QED
    BY <1>3, <1>5, <2>2, <2>3, <2>4 DEF StorageIInv
<1>7. ASSUME NEW p \in Ports, NEW n, new.disk = p, n = UInt16(new.count), Sensible(new),
             Issue(p, new.op, new.lba, n, "ready")
      PROVE  StorageIInv'
  <2> DEFINE slt == ahci_find_cmdslot(p)
             table == [op |-> new.op, fis |-> Fis(new.lba, n), dbc |-> n]
  <2>1. \/ /\ hba' = [hba EXCEPT ![p].is = FALSE]
           /\ cmd' = [op |-> "failed", then |-> "ready"]
        \/ /\ hba' = [hba EXCEPT ![p].is = FALSE, ![p].tables[slt] = table, ![p].ci = @ \cup {slt}]
           /\ cmd' = [op |-> new.op, port |-> p, slot |-> slt, then |-> "ready"]
    BY <1>7 DEF Issue
  <2>2. Running(p) => slt \in Slots
    BY <1>2, FindSlot
  <2> HIDE DEF slt
  <2>4. /\ DOMAIN hba = Ports /\ DOMAIN hba[p] = Fields /\ DOMAIN hba[p].tables = Slots
        /\ hba[p].is \in BOOLEAN /\ hba[p].halted \in BOOLEAN /\ hba[p].st \in BOOLEAN
    BY <1>2, <1>7 DEF Shape
  <2> HIDE DEF table
  <2>5. /\ Touches(p) /\ hba'[p].st = hba[p].st /\ hba'[p].given = hba[p].given
        /\ hba'[p].halted = hba[p].halted /\ hba'[p].is = FALSE
        /\ \/ /\ hba'[p].ci = hba[p].ci
              /\ cmd'.op = "failed" /\ cmd'.then = "ready"
           \/ /\ hba'[p].ci = hba[p].ci \cup {slt} /\ (slt \in Slots => hba'[p].tables[slt] = table)
              /\ cmd'.op = new.op /\ cmd'.port = p /\ cmd'.slot = slt /\ cmd'.then = "ready"
    <3>1. CASE /\ hba' = [hba EXCEPT ![p].is = FALSE]
               /\ cmd' = [op |-> "failed", then |-> "ready"]
      <4>1. /\ DOMAIN hba' = Ports /\ DOMAIN hba'[p] = Fields /\ DOMAIN hba'[p].tables = Slots
            /\ \A q \in Ports : q # p => hba'[q] = hba[q]
        BY <2>4, <3>1 DEF Fields
      <4>2. /\ hba'[p].st = hba[p].st /\ hba'[p].given = hba[p].given /\ hba'[p].is = FALSE
            /\ hba'[p].halted = hba[p].halted /\ hba'[p].ci = hba[p].ci
        BY <2>4, <3>1 DEF Fields
      <4>3. cmd'.op = "failed" /\ cmd'.then = "ready"
        BY <3>1
      <4> QED
        BY <1>7, <2>4, <4>1, <4>2, <4>3 DEF Touches
    <3>2. CASE /\ hba' = [hba EXCEPT ![p].is = FALSE, ![p].tables[slt] = table, ![p].ci = @ \cup {slt}]
               /\ cmd' = [op |-> new.op, port |-> p, slot |-> slt, then |-> "ready"]
      <4>1. /\ DOMAIN hba' = Ports /\ DOMAIN hba'[p] = Fields /\ DOMAIN hba'[p].tables = Slots
            /\ \A q \in Ports : q # p => hba'[q] = hba[q]
        BY <2>4, <3>2 DEF Fields
      <4>2. /\ hba'[p].st = hba[p].st /\ hba'[p].given = hba[p].given /\ hba'[p].is = FALSE
            /\ hba'[p].halted = hba[p].halted /\ hba'[p].ci = hba[p].ci \cup {slt}
        BY <2>4, <3>2 DEF Fields
      <4>3. slt \in Slots => hba'[p].tables[slt] = table
        BY <2>4, <3>2 DEF Fields
      <4>4. cmd'.op = new.op /\ cmd'.port = p /\ cmd'.slot = slt /\ cmd'.then = "ready"
        BY <3>2
      <4> QED
        BY <1>7, <2>4, <4>1, <4>2, <4>3, <4>4 DEF Touches
    <3> QED
      BY <2>1, <3>1, <3>2
  <2>6. Shape'
    <3>1. frames' \in Nat
      BY <1>1, <1>2 DEF Shape
    <3> QED
      BY <1>1, <1>2, <2>5, <3>1, ShapeKept
  <2>7. DevicesReady'
    BY <1>1, <1>2, <1>4, <2>5, DevicesKept
  <2>8. /\ new.lba \in Nat /\ n \in Nat /\ Lba(Fis(new.lba, n)) = new.lba /\ Count(Fis(new.lba, n)) = n
        /\ n # 0 /\ new.op # "failed"
    BY <1>7, FisExact DEF Sensible
  <2>9. /\ table.op = new.op /\ Lba(table.fis) = new.lba /\ Count(table.fis) = n /\ table.dbc = n
    BY <2>8 DEF table
  <2>10. \A q \in Ports : Running(q)' => /\ Running(q)
                                         /\ q # p => hba'[q] = hba[q]
    BY <2>5 DEF Running, Touches
  <2>11. OneCommand'
    BY <1>1, <1>2, <1>7, <2>5, <2>8, <2>10 DEF OneCommand
  <2>12. Asks'
    BY <1>1, <1>7, <2>8, UInt16Of1 DEF Asks, Sensible
  <2>13. Pending'
    <3>1. CASE cmd'.op = "failed"
      BY <3>1 DEF Pending
    <3>2. CASE cmd'.op # "failed"
      <4>1. /\ cmd'.op = new.op /\ cmd'.port = p /\ cmd'.slot = slt /\ slt \in hba'[p].ci
            /\ slt \in Slots => hba'[p].tables[slt] = table
        BY <2>5, <3>2
      <4>2. Running(p)' => hba'[p].tables[slt] = table
        BY <1>7, <2>2, <2>10, <4>1
      <4>3. Running(p)' => Carries(hba[cmd.port].tables[cmd.slot])'
        BY <1>1, <1>7, <2>9, <4>1, <4>2 DEF Carries
      <4> QED
        BY <1>1, <2>12, <4>1, <4>3 DEF Pending
    <3> QED
      BY <3>1, <3>2
  <2> QED
    BY <1>5, <2>6, <2>7, <2>11, <2>13 DEF StorageIInv
<1> QED
  BY <1>3, <1>6, <1>7 DEF Handed, Refuse

LEMMA RequestKeeps ==
  ASSUME StorageIInv,
         \/ \E op \in {"read", "write"}, lba \in Lbas : ahci_disk(op, lba)
         \/ \E id \in 1 .. next_device_id, lba \in Lbas, count \in Sizes, op \in {"read", "write"} : block_device(op, id, lba, count)
         \/ \E id \in 1 .. next_device_id : block_device("identify", id, 0, 1)
  PROVE  StorageIInv' /\ Disk!Begin
<1>1. DevicesReady
  BY DEF StorageIInv
<1>2. ASSUME NEW op, NEW p, NEW lba, NEW count, op \in {"read", "write", "identify"}
      PROVE  /\ New(op, p, lba, count) # NoCall
             /\ New(op, p, lba, count).op = op /\ New(op, p, lba, count).disk = p
             /\ New(op, p, lba, count).lba = lba /\ New(op, p, lba, count).count = count
  <2>1. New(op, p, lba, count).op # NoCall.op
    BY <1>2 DEF New, NoCall
  <2> QED
    BY <2>1 DEF New
<1>3. 0 \in 0 .. BYTE * BYTE * BYTE * BYTE * BYTE * BYTE - 1
  <2>1. BYTE * BYTE \in Nat \ {0}
    BY Base
  <2>2. BYTE * BYTE * BYTE \in Nat \ {0}
    BY Base, <2>1
  <2>3. BYTE * BYTE * BYTE * BYTE \in Nat \ {0}
    BY Base, <2>2
  <2>4. BYTE * BYTE * BYTE * BYTE * BYTE \in Nat \ {0}
    BY Base, <2>3
  <2>5. BYTE * BYTE * BYTE * BYTE * BYTE * BYTE \in Nat \ {0}
    BY Base, <2>4
  <2> QED
    BY <2>5
<1>4. ASSUME NEW op \in {"read", "write"}, NEW lba \in Lbas, ahci_disk(op, lba)
      PROVE  StorageIInv' /\ Disk!Begin
  <2> DEFINE p == ahci_devices[1].port
             new == New(op, p, lba, 1)
  <2>1. /\ pc = "ready" /\ Call(new) /\ Issue(p, op, lba, 1, "ready") /\ ahci_devices # <<>>
    BY <1>4 DEF ahci_disk
  <2>2. p \in Ports
    <3>1. 1 \in DOMAIN ahci_devices
      BY <1>1, <2>1 DEF DevicesReady
    <3> QED
      BY <1>1, <3>1, DevicePorts
  <2> HIDE DEF p
  <2>3. new # NoCall /\ new.op = op /\ new.disk = p /\ new.lba = lba /\ new.count = 1
    BY <1>2
  <2> HIDE DEF new
  <2>4. Sensible(new)
    BY <2>3, UInt16Of1, StorageAssumption DEF Sensible
  <2>5. Handed(new)
    BY <2>1, <2>2, <2>3, <2>4, UInt16Of1 DEF Handed
  <2> QED
    BY <2>1, <2>3, <2>5, CallKeeps
<1>5. ASSUME NEW op \in {"read", "write", "identify"}, NEW id, NEW lba, NEW count, block_device(op, id, lba, count),
             lba \in 0 .. BYTE * BYTE * BYTE * BYTE * BYTE * BYTE - 1, count \in Sizes \cup {1},
             op = "identify" => lba = 0 /\ count = 1
      PROVE  StorageIInv' /\ Disk!Begin
  <2>1. pc = "ready"
    BY <1>5 DEF block_device
  <2>2. CASE Call(New(op, 0, lba, count)) /\ Refuse
    <3> DEFINE new == New(op, 0, lba, count)
    <3>1. new # NoCall
      BY <1>2
    <3>2. Handed(new) /\ Call(new)
      BY <2>2 DEF Handed
    <3> HIDE DEF new
    <3> QED
      BY <2>1, <3>1, <3>2, CallKeeps
  <2>3. ASSUME NEW i \in DOMAIN device_list, NEW p, p = ahci_devices[device_list[i].device].port,
               Call(New(op, p, lba, count)),
               IF op # "identify" /\ (~validate_lba(device_list[i], lba, count) \/ UInt16(count) = 0)
               THEN Refuse
               ELSE Issue(p, op, lba, UInt16(count), "ready")
        PROVE  StorageIInv' /\ Disk!Begin
    <3> DEFINE new == New(op, p, lba, count)
    <3>1. new # NoCall /\ new.op = op /\ new.disk = p /\ new.lba = lba /\ new.count = count
      BY <1>2
    <3> HIDE DEF new
    <3>2. p \in Ports
      <4>1. device_list[i] \in Registered
        BY <1>1 DEF DevicesReady
      <4>2. device_list[i].device \in DOMAIN ahci_devices
        BY <4>1 DEF Registered
      <4> QED
        BY <1>1, <2>3, <4>2, DevicePorts
    <3>3. ASSUME Refuse PROVE Handed(new)
      BY <3>3 DEF Handed
    <3>4. ASSUME Issue(p, op, lba, UInt16(count), "ready"), op = "identify" \/ UInt16(count) # 0
          PROVE  Handed(new)
      <4>1. Sensible(new)
        BY <1>5, <3>1, <3>4, UInt16Of1 DEF Sensible
      <4> QED
        BY <3>1, <3>2, <3>4, <4>1 DEF Handed
    <3>5. Handed(new) /\ Call(new)
      BY <2>3, <3>3, <3>4 DEF new
    <3> QED
      BY <2>1, <3>1, <3>5, CallKeeps
  <2> QED
    BY <1>5, <2>2, <2>3 DEF block_device
<1>6. ASSUME NEW id, NEW lba \in Lbas, NEW count \in Sizes, NEW op \in {"read", "write"}, block_device(op, id, lba, count)
      PROVE  StorageIInv' /\ Disk!Begin
  BY <1>5, <1>6, StorageAssumption
<1>7. ASSUME NEW id, block_device("identify", id, 0, 1)
      PROVE  StorageIInv' /\ Disk!Begin
  BY <1>3, <1>5, <1>7
<1> QED
  BY <1>4, <1>6, <1>7

LEMMA ReturnKeeps ==
  ASSUME StorageIInv, CallReturns
  PROVE  StorageIInv' /\ Disk!End
<1>1. /\ pc = "poll" /\ cmd.then = "ready" /\ Done(cmd) /\ result' = Outcome(cmd) /\ pc' = "ready" /\ cmd' = NoCmd
      /\ call' = NoCall /\ moved' = FALSE /\ hba' = hba /\ disk' = disk /\ ahci_devices' = ahci_devices
      /\ device_list' = device_list /\ next_device_id' = next_device_id /\ frames' = frames /\ buffer' = buffer
  BY DEF CallReturns, registry, memory
<1>2. call # NoCall
  BY <1>1 DEF StorageIInv, OneCommand
<1>3. result' = 1 => moved
  <2>1. result' = 1 => cmd.op # "failed" /\ ~hba[cmd.port].is /\ cmd.slot \notin hba[cmd.port].ci
    BY <1>1 DEF Outcome, Done
  <2> QED
    BY <1>1, <1>2, <2>1 DEF StorageIInv, Pending
<1>4. Disk!End
  BY <1>1, <1>2, <1>3 DEF Disk!End
<1>5. Shape' /\ DevicesReady'
  BY <1>1 DEF StorageIInv, Shape, DevicesReady, Registered, Started
<1>6. Place'
  BY <1>1 DEF Place, Phases, Early
<1>7. OneCommand' /\ Pending'
  <2>1. \A p \in Ports : Running(p)' => hba'[p].ci = {}
    BY <1>1, NothingLeft DEF Running
  <2> QED
    BY <1>1, <2>1 DEF OneCommand, Pending
<1> QED
  BY <1>4, <1>5, <1>6, <1>7 DEF StorageIInv

-----------------------------------------------------------------------------
(***************************************************************************)
(* The controller serves a command.                                        *)
(***************************************************************************)
\* The command that a running controller has is the one that is polled.
LEMMA Polled ==
  ASSUME StorageIInv, NEW p \in Ports, NEW s \in hba[p].ci, Running(p)
  PROVE  /\ pc = "poll" /\ cmd.op # "failed" /\ cmd.port = p /\ cmd.slot = s
         /\ hba[p].ci = {s} /\ hba[p].is = FALSE
         /\ call = NoCall => hba[p].tables[s].op = "identify" /\ ~moved
         /\ call # NoCall => Asks /\ ~moved /\ Carries(hba[p].tables[s])
<1>1. pc = "poll" /\ cmd.op # "failed" /\ cmd.port = p /\ cmd.slot = s
  BY DEF StorageIInv, OneCommand
<1>2. hba[p].ci = {s}
  BY DEF StorageIInv, OneCommand
<1>3. hba[p].is = FALSE
  BY DEF StorageIInv, OneCommand, Shape
<1>4. call = NoCall => hba[p].tables[s].op = "identify" /\ ~moved
  BY <1>1 DEF StorageIInv, OneCommand, Pending
<1>5. call # NoCall => Asks /\ ~moved /\ Carries(hba[p].tables[s])
  BY <1>1 DEF StorageIInv, Pending
<1> QED
  BY <1>1, <1>2, <1>3, <1>4, <1>5

\* A step of the controller of a port with one command, the polled one: the
\* command is gone without an error, gone with one, or kept by a controller
\* that stops.
LEMMA ServedKeeps ==
  ASSUME StorageIInv, NEW p \in Ports, NEW s \in hba[p].ci, Running(p), Touches(p),
         hba'[p].st = hba[p].st, hba'[p].given = hba[p].given, hba'[p].tables = hba[p].tables,
         \/ hba'[p].ci = {} /\ hba'[p].is = FALSE /\ moved' = (call # NoCall)
         \/ hba'[p].ci = {} /\ hba'[p].is = TRUE /\ moved' = moved
         \/ hba'[p].halted = TRUE /\ hba'[p].ci = {s} /\ hba'[p].is = TRUE /\ moved' = moved,
         DOMAIN disk' = DOMAIN disk, \A q \in Ports : DOMAIN disk'[q] = DOMAIN disk[q],
         UNCHANGED <<ahci_devices, registry, memory, pc, at, cmd, call>>
  PROVE  StorageIInv'
<1>1. /\ ahci_devices' = ahci_devices /\ device_list' = device_list /\ next_device_id' = next_device_id
      /\ frames' = frames /\ pc' = pc /\ at' = at /\ cmd' = cmd /\ call' = call
  BY DEF registry, memory
<1>2. /\ pc = "poll" /\ cmd.op # "failed" /\ cmd.port = p /\ cmd.slot = s
      /\ hba[p].ci = {s} /\ ~moved
      /\ call = NoCall => hba[p].tables[s].op = "identify"
      /\ call # NoCall => Asks
  BY Polled
<1>3. Shape /\ DevicesReady
  BY DEF StorageIInv
<1>4. Shape'
  BY <1>1, <1>3, ShapeKept DEF Shape
<1>5. DevicesReady'
  <2>1. device_list' \in Seq(Registered) /\ next_device_id' \in Int
    BY <1>1, <1>3 DEF DevicesReady
  <2> QED
    BY <1>1, <1>3, <2>1, DevicesKept
<1>6. Place'
  <2>1. CASE call # NoCall
    BY <1>1, <1>2, <2>1 DEF Place, Phases, Early
  <2>2. CASE call = NoCall
    <3>1. at \in Ports /\ Before(at) /\ Started(at)
      BY <1>2, <2>2 DEF StorageIInv, Place
    <3>2. \A q \in Ports : q > at => Unstarted(q)'
      <4>1. ASSUME NEW q \in Ports, q > at PROVE q # p /\ Unstarted(q)
        BY <3>1, <4>1 DEF Before, Unstarted, Running
      <4>2. \A q \in Ports : q # p => hba'[q] = hba[q]
        BY DEF Touches
      <4> QED
        BY <4>1, <4>2 DEF Unstarted
    <3>3. Before(at)' /\ Started(at)'
      <4>1. Before(at)'
        BY <1>1, <3>1, <3>2 DEF Before
      <4>2. Started(at)'
        BY <1>1, <3>1 DEF Started, Touches
      <4> QED
        BY <4>1, <4>2
    <3> QED
      BY <1>1, <1>2, <2>2, <3>1, <3>3 DEF Place, Phases, Early
  <2> QED
    BY <2>1, <2>2
<1>7. \A q \in Ports : q # p => hba'[q] = hba[q] /\ (Running(q) => hba[q].ci = {})
  <2>1. \A q \in Ports : q # p => hba'[q] = hba[q]
    BY DEF Touches
  <2>2. ASSUME NEW q \in Ports, q # p, Running(q) PROVE hba[q].ci = {}
    BY <1>2, <2>2 DEF StorageIInv, OneCommand
  <2> QED
    BY <2>1, <2>2
<1>8. OneCommand'
  <2>1. moved' \in BOOLEAN /\ (call = NoCall => ~moved')
    <3>1. moved = FALSE
      BY <1>2 DEF StorageIInv, OneCommand
    <3>2. moved' = FALSE \/ (moved' = TRUE /\ call # NoCall)
      BY <3>1
    <3> QED
      BY <3>2
  <2>2. \A q \in Ports : Running(q)' => hba'[q].ci = {}
    BY <1>7 DEF Running
  <2>3. cmd.then = IF call = NoCall THEN "port" ELSE "ready"
    BY <1>2 DEF StorageIInv, OneCommand
  <2> QED
    BY <1>1, <1>2, <2>1, <2>2, <2>3 DEF OneCommand
<1>9. Pending'
  <2>1. Running(p)' => hba'[p].ci = {}
    BY DEF Running
  <2>2. Asks' = Asks
    BY <1>1 DEF Asks
  <2>3. hba'[p].ci = {} => \/ hba'[p].is = TRUE
                           \/ moved' = (call # NoCall)
    OBVIOUS
  <2>4. s \notin hba'[p].ci => hba'[p].ci = {}
    BY <1>2
  <2> QED
    BY <1>1, <1>2, <2>1, <2>2, <2>3, <2>4 DEF Pending
<1> QED
  BY <1>4, <1>5, <1>6, <1>8, <1>9 DEF StorageIInv

LEMMA TransferShape ==
  ASSUME NEW p, NEW t, NEW n, Transfer(p, t, n)
  PROVE  DOMAIN disk' = DOMAIN disk /\ \A q \in DOMAIN disk : DOMAIN disk'[q] = DOMAIN disk[q]
BY DEF Transfer

LEMMA HbaKeeps ==
  ASSUME StorageIInv, NEW p \in Ports, NEW s \in Slots, Hba(p, s)
  PROVE  StorageIInv'
<1>1. Shape /\ DOMAIN disk = Ports /\ DOMAIN hba = Ports /\ DOMAIN hba[p] = Fields /\ DOMAIN hba[p].tables = Slots
      /\ hba[p].st \in BOOLEAN /\ hba[p].halted \in BOOLEAN
  BY DEF StorageIInv, Shape
<1>2. CASE HbaComplete(p, s)
  <2>1. /\ Running(p) /\ s \in hba[p].ci /\ hba' = [hba EXCEPT ![p].ci = @ \ {s}] /\ moved' = (call # NoCall)
        /\ UNCHANGED <<ahci_devices, registry, memory, pc, at, cmd, call>>
        /\ \E t, n : Transfer(p, t, n)
    BY <1>2 DEF HbaComplete
  <2>2. hba[p].ci = {s} /\ hba[p].is = FALSE
    BY <2>1, Polled
  <2>3. /\ DOMAIN hba' = Ports /\ DOMAIN hba'[p] = Fields /\ \A q \in Ports : q # p => hba'[q] = hba[q]
    BY <1>1, <2>1 DEF Fields
  <2>4. /\ hba'[p].st = hba[p].st /\ hba'[p].given = hba[p].given /\ hba'[p].tables = hba[p].tables
        /\ hba'[p].halted = hba[p].halted /\ hba'[p].is = hba[p].is /\ hba'[p].ci = hba[p].ci \ {s}
    BY <1>1, <2>1 DEF Fields
  <2>5. Touches(p) /\ hba'[p].ci = {} /\ hba'[p].is = FALSE
    BY <1>1, <2>2, <2>3, <2>4 DEF Touches
  <2>6. DOMAIN disk' = DOMAIN disk /\ \A q \in Ports : DOMAIN disk'[q] = DOMAIN disk[q]
    BY <1>1, <2>1, TransferShape
  <2> QED
    BY <2>1, <2>4, <2>5, <2>6, ServedKeeps
<1>3. CASE HbaError(p, s)
  <2>1. /\ Running(p) /\ s \in hba[p].ci /\ moved' = moved
        /\ UNCHANGED <<ahci_devices, registry, memory, pc, at, cmd, call>>
        /\ (UNCHANGED disk \/ \E t, n : Transfer(p, t, n))
    BY <1>3 DEF HbaError
  <2>2. PICK stops \in BOOLEAN : hba' = [hba EXCEPT ![p].is = TRUE, ![p].halted = stops, ![p].ci = IF stops THEN @ ELSE @ \ {s}]
    BY <1>3 DEF HbaError
  <2>3. hba[p].ci = {s}
    BY <2>1, Polled
  <2>4. /\ DOMAIN hba' = Ports /\ DOMAIN hba'[p] = Fields /\ \A q \in Ports : q # p => hba'[q] = hba[q]
    BY <1>1, <2>2 DEF Fields
  <2>5. /\ hba'[p].st = hba[p].st /\ hba'[p].given = hba[p].given /\ hba'[p].tables = hba[p].tables
        /\ hba'[p].halted = stops /\ hba'[p].is = TRUE
        /\ hba'[p].ci = IF stops THEN hba[p].ci ELSE hba[p].ci \ {s}
    BY <1>1, <2>2 DEF Fields
  <2>6. Touches(p) /\ (hba'[p].ci = {} \/ (hba'[p].halted = TRUE /\ hba'[p].ci = {s}))
    BY <1>1, <2>3, <2>4, <2>5 DEF Touches
  <2>7. DOMAIN disk' = DOMAIN disk /\ \A q \in Ports : DOMAIN disk'[q] = DOMAIN disk[q]
    BY <1>1, <2>1, TransferShape
  <2> QED
    BY <2>1, <2>5, <2>6, <2>7, ServedKeeps
<1> QED
  BY <1>2, <1>3 DEF Hba

\* The counts of the calls keep their value in 16 bits (BlockDisk promises
\* all the sectors of a call; the driver is handed only the lowest 16 bits).
CountsFit == Sizes \subseteq 0 .. BYTE * BYTE - 1

LEMMA TransferMoves ==
  ASSUME StorageIInv, CountsFit, NEW p \in Ports, NEW s, CanMove(p, s),
         Asks, Carries(hba[p].tables[s]), call.disk = p, ~moved,
         NEW n \in 1 .. call.count, Transfer(p, hba[p].tables[s], n), moved' = (n = call.count),
         UNCHANGED <<call, result>>
  PROVE  Disk!Move(n)
<1> DEFINE t == hba[p].tables[s]
<1>1. call.count \in Nat /\ UInt16(call.count) = call.count
  <2>1. call.count \in 0 .. BYTE * BYTE - 1 \/ call.count = 1
    BY DEF Asks, CountsFit
  <2> QED
    BY <2>1, Base, SmallCount, UInt16Of1
<1>2. t.op = call.op /\ Lba(t.fis) = call.lba /\ Count(t.fis) = call.count /\ (call.op = "write" => buffer = call.data)
  BY <1>1 DEF Carries
<1>3. call.lba \in Nat /\ call.count # 0 /\ (call.op = "identify" => call.lba = 0 /\ call.count = 1)
  BY <1>1 DEF Asks
<1>4. t.op = "identify" \/ Lba(t.fis) + Count(t.fis) <= DiskSize(p)
  BY DEF CanMove
<1> HIDE DEF t
<1>5. DOMAIN disk[p] = 0 .. DiskSize(p) - 1 /\ DiskSize(p) \in Nat \ {0}
  BY StorageAssumption DEF StorageIInv, Shape
<1>6. call.lba + call.count - 1 \in DOMAIN disk[p]
  BY <1>1, <1>2, <1>3, <1>4, <1>5
<1>7. buffer' = IF call.op = "read" THEN [i \in 1 .. n |-> disk[call.disk][call.lba + i - 1]] ELSE buffer
  BY <1>2 DEF Transfer, t
<1>8. disk' = IF call.op = "write"
              THEN [disk EXCEPT ![call.disk] =
                      [b \in DOMAIN @ |-> IF b - call.lba \in 0 .. n - 1 THEN call.data[b - call.lba + 1] ELSE @[b]]]
              ELSE disk
  BY <1>2 DEF Transfer, t
<1> QED
  BY <1>6, <1>7, <1>8 DEF Disk!Move

\* A step of the controller is a step of the disk, or none.
LEMMA HbaMoves ==
  ASSUME StorageIInv, CountsFit, NEW p \in Ports, NEW s \in Slots, Hba(p, s)
  PROVE  Disk!Next \/ UNCHANGED Disk!vars
<1> DEFINE t == hba[p].tables[s]
<1>1. Running(p) /\ s \in hba[p].ci /\ UNCHANGED <<call, result>>
  BY DEF Hba, HbaComplete, HbaError
<1>2. /\ cmd.port = p /\ ~moved
      /\ call = NoCall => t.op = "identify"
      /\ call # NoCall => Asks /\ Carries(t)
  BY <1>1, Polled
<1>3. call # NoCall => call.disk = p
  BY <1>2 DEF Carries
<1>4. moved = FALSE
  BY <1>2 DEF StorageIInv, OneCommand
<1>5. CASE call = NoCall
  <2>1. ASSUME NEW n, Transfer(p, t, n) PROVE disk' = disk /\ buffer' = buffer
    BY <1>2, <1>5, <2>1 DEF Transfer
  <2>2. disk' = disk /\ buffer' = buffer
    BY <2>1 DEF Hba, HbaComplete, HbaError
  <2>3. moved' = FALSE
    BY <1>4, <1>5 DEF Hba, HbaComplete, HbaError
  <2> QED
    BY <1>1, <1>4, <2>2, <2>3 DEF Disk!vars
<1>6. CASE call # NoCall
  <2>1. call.count \in Nat \ {0} /\ Count(t.fis) = call.count /\ t.dbc = call.count
    <3>1. call.count \in 0 .. BYTE * BYTE - 1 \/ call.count = 1
      BY <1>2, <1>6 DEF Asks, CountsFit
    <3>2. UInt16(call.count) = call.count /\ call.count \in Nat
      BY <3>1, Base, SmallCount, UInt16Of1
    <3> QED
      BY <1>2, <1>6, <3>2 DEF Asks, Carries
  <2>2. p \in DOMAIN disk
    BY DEF StorageIInv, Shape
  <2>3. ASSUME NEW n \in 1 .. call.count, CanMove(p, s), Transfer(p, t, n), moved' = (n = call.count)
        PROVE  Disk!Next
    <3>1. Disk!Move(n)
      BY <1>1, <1>2, <1>3, <1>6, <2>3, TransferMoves
    <3> QED
      BY <1>3, <1>6, <2>2, <3>1 DEF Disk!Next
  <2>4. CASE HbaComplete(p, s)
    <3>1. Least(Count(t.fis), t.dbc) = call.count /\ call.count \in 1 .. call.count
      BY <2>1 DEF Least
    <3>2. CanMove(p, s) /\ Transfer(p, t, call.count) /\ moved' = TRUE
      BY <1>6, <2>4, <3>1 DEF HbaComplete
    <3> HIDE DEF t
    <3> QED
      BY <2>3, <3>1, <3>2
  <2>5. CASE HbaError(p, s)
    <3>1. moved' = FALSE
      BY <1>4, <2>5 DEF HbaError
    <3>2. CASE UNCHANGED <<disk, buffer>>
      BY <1>1, <1>4, <3>1, <3>2 DEF Disk!vars
    <3>3. ASSUME CanMove(p, s), NEW n \in 1 .. Count(t.fis) - 1, Transfer(p, t, n)
          PROVE  Disk!Next
      <4>1. n \in 1 .. call.count /\ n # call.count
        BY <2>1, <3>3
      <4>2. moved' = (n = call.count)
        BY <3>1, <4>1
      <4> QED
        BY <2>3, <3>3, <4>1, <4>2
    <3> QED
      BY <2>5, <3>2, <3>3 DEF HbaError
  <2> QED
    BY <2>4, <2>5 DEF Hba
<1> QED
  BY <1>5, <1>6

-----------------------------------------------------------------------------
(***************************************************************************)
(* What follows for the disks.                                             *)
(***************************************************************************)
\* What a step does to the disks, as BlockDisk sees it.
LEMMA StepKeeps ==
  ASSUME StorageIInv, StartNext
  PROVE  /\ StorageIInv'
         /\ \/ UNCHANGED Disk!vars
            \/ Disk!Begin \/ Disk!End
            \/ \E p \in Ports, s \in Slots : Hba(p, s)
<1>1. CASE \/ load_first \/ load_table \/ load_rest \/ check_elf \/ load_elf_kernel \/ loader_main
           \/ init_pci \/ pci_scan_absent \/ pci_scan_present
  BY <1>1, LoaderKeeps DEF Disk!vars, storageVars
<1>2. CASE init_ahci
  BY <1>2, ControllerKeeps DEF Disk!vars
<1>3. CASE Boot
  <2>1. CASE ahci_init_port_skip
    BY <2>1, SkipKeeps DEF Disk!vars
  <2>2. CASE ahci_init_port_fail
    BY <2>2, FailKeeps DEF Disk!vars
  <2>3. CASE ahci_init_port
    BY <2>3, InitPortKeeps DEF Disk!vars
  <2>4. CASE ahci_identify_done
    BY <2>4, IdentifyKeeps DEF Disk!vars
  <2>5. CASE ahci_adapter_create_device \/ init_fs
    BY <2>5, RegisterKeeps DEF Disk!vars
  <2> QED
    BY <1>3, <2>1, <2>2, <2>3, <2>4, <2>5 DEF Boot
<1>4. CASE Request
  <2>1. CASE \E id \in 1 .. next_device_id : block_device_unregister(id)
    BY <2>1, RegisterKeeps DEF Disk!vars
  <2>2. CASE \/ \E op \in {"read", "write"}, lba \in Lbas : ahci_disk(op, lba)
             \/ \E id \in 1 .. next_device_id, lba \in Lbas, count \in Sizes, op \in {"read", "write"} : block_device(op, id, lba, count)
             \/ \E id \in 1 .. next_device_id : block_device("identify", id, 0, 1)
    BY <2>2, RequestKeeps
  <2> QED
    BY <1>4, <2>1, <2>2 DEF Request
<1>5. CASE CallReturns
  BY <1>5, ReturnKeeps
<1>6. CASE \E p \in Ports, s \in Slots : Hba(p, s)
  BY <1>6, HbaKeeps
<1> QED
  BY <1>1, <1>2, <1>3, <1>4, <1>5, <1>6 DEF StartNext, Next

LEMMA StutterKeeps ==
  ASSUME StorageIInv, UNCHANGED startVars
  PROVE  StorageIInv' /\ UNCHANGED Disk!vars
<1>1. /\ hba' = hba /\ disk' = disk /\ ahci_devices' = ahci_devices /\ device_list' = device_list
      /\ next_device_id' = next_device_id /\ frames' = frames /\ pc' = pc /\ at' = at /\ cmd' = cmd
      /\ call' = call /\ buffer' = buffer /\ result' = result /\ moved' = moved
  BY DEF startVars, vars
<1>2. Shape' /\ DevicesReady'
  BY <1>1 DEF StorageIInv, Shape, DevicesReady, Registered, Started
<1>3. Place'
  BY <1>1 DEF StorageIInv, Place, Before, Unstarted, Started
<1>4. OneCommand'
  BY <1>1 DEF StorageIInv, OneCommand, Running
<1>5. Pending'
  BY <1>1 DEF StorageIInv, Pending, Asks, Carries, Running
<1> QED
  BY <1>1, <1>2, <1>3, <1>4, <1>5 DEF StorageIInv, Disk!vars

\* At any time a running controller has at most one command, the one that is
\* polled, in a slot whose table says what the call asks for; commands left
\* behind by an error are on stopped controllers (ahci_find_cmdslot, the FIS,
\* and the polling in ahci_read_sectors and ahci_write_sectors).
THEOREM StorageInvariant == StartSpec => []StorageIInv
<1>1. StorageIInv /\ [StartNext]_startVars => StorageIInv'
  BY StepKeeps, StutterKeeps
<1> QED
  BY StartSoundInit, <1>1, PTL DEF StartSpec

\* Every device that the driver offers was started and given memory for every
\* slot, for any number of ports and frames (ahci_init_port, which gives up
\* the port when a frame is missing).
THEOREM DevicesAreUsable == StartSpec => []DevicesUsable
<1>1. StorageIInv => DevicesUsable
  BY DEF StorageIInv, DevicesReady, Started, DevicesUsable
<1> QED
  BY <1>1, StorageInvariant, PTL

\* When the counts of the calls fit in 16 bits, every call moves exactly its
\* sectors between its disk and its buffer before it succeeds, and a call that
\* fails a part of them, from the first, for any number of ports, slots and
\* sectors and whatever errors the controllers report.
THEOREM DiskImplemented ==
  ASSUME CountsFit
  PROVE  StartSpec => ImplementsDisk
<1>1. StartInit => Disk!Init
  BY DEF StartInit, Idle, Disk!Init
<1>2. StorageIInv /\ [StartNext]_startVars => [Disk!Next]_(Disk!vars)
  <2> SUFFICES ASSUME StorageIInv, [StartNext]_startVars PROVE Disk!Next \/ UNCHANGED Disk!vars
    OBVIOUS
  <2>1. CASE UNCHANGED startVars
    BY <2>1, StutterKeeps
  <2>2. CASE Disk!Begin \/ Disk!End
    BY <2>2 DEF Disk!Next
  <2>3. CASE \E p \in Ports, s \in Slots : Hba(p, s)
    BY <2>3, HbaMoves
  <2> QED
    BY <2>1, <2>2, <2>3, StepKeeps
<1> QED
  BY <1>1, <1>2, StorageInvariant, PTL DEF StartSpec, ImplementsDisk, Disk!Spec

-----------------------------------------------------------------------------
(***************************************************************************)
(* The loader.                                                             *)
(***************************************************************************)
Header == [load : BOOLEAN, offset : Nat, paddr : Nat, filesz : Nat, memsz : Nat]
Read == sectors_read * SECTOR

\* The buffer holds the sectors read, and nothing else of the file.
BufferRead ==
  /\ image \in Images
  /\ sectors_read \in Nat /\ Read <= ELF_BUF_MAX
  /\ DOMAIN elf_buf = 0 .. ELF_BUF_MAX - 1
  /\ \A c \in 0 .. ELF_BUF_MAX - 1 : elf_buf[c] = IF c < Read THEN c + 1 ELSE Stale

\* A program header has its segment in memory.
InPlace(p) ==
  p.load => /\ p.filesz <= p.memsz
            /\ \A i \in 0 .. p.memsz - 1 : ram[p.paddr + i] = IF i < p.filesz THEN p.offset + i + 1 ELSE Zero

TooLarge ==
  \/ image.phoff + phnum > ELF_BUF_MAX
  \/ \E i \in 1 .. phnum : image.phdr[i].load /\ image.phdr[i].offset + image.phdr[i].filesz > ELF_BUF_MAX

LoaderInv ==
  /\ BufferRead
  /\ segment \in Nat \ {0} /\ DOMAIN ram = Ram
  /\ pc \in {"load", "rest", "check"} => segment = 1
  /\ pc \in {"rest", "check", "segments"} => image.phoff + phnum <= Read
  /\ pc \in {"check", "segments"} =>
       \A i \in 1 .. phnum : phdr(i).load /\ phdr(i).filesz > 0 => phdr(i).offset + phdr(i).filesz <= Read
  /\ pc = "segments" => image.phoff # 0 /\ \A i \in 1 .. phnum : i < segment => InPlace(image.phdr[i])
  /\ error = "LERR_BUF_OVERFLOW" => TooLarge

LEMMA ImageType ==
  ASSUME image \in Images
  PROVE  /\ image.phoff \in Nat /\ phnum \in Nat /\ DOMAIN image.phdr = 1 .. phnum
         /\ \A i \in 1 .. phnum : image.phdr[i] \in Header
         /\ image.bad # "LERR_BUF_OVERFLOW"
<1>1. image.phoff \in Nat /\ image.bad # "LERR_BUF_OVERFLOW" /\ image.phdr \in Seq(Header)
  BY StartAssumption, Zenon DEF Header
<1>2. phnum \in Nat /\ DOMAIN image.phdr = 1 .. phnum /\ \A i \in 1 .. phnum : image.phdr[i] \in Header
  BY <1>1 DEF phnum
<1> QED
  BY <1>1, <1>2

\* Numbers that are bounded have a largest among them.
LEMMA Greatest ==
  ASSUME NEW S \in SUBSET Nat, NEW s0 \in S, NEW m \in Nat, \A u \in S : u <= m
  PROVE  Max(S) \in S /\ \A u \in S : u <= Max(S)
<1> DEFINE T == {m - u : u \in S}
<1>1. T \in SUBSET Nat /\ m - s0 \in T
  OBVIOUS
<1>2. PICK t \in T : \A v \in T : t <= v
  BY <1>1, LeastElement
<1>3. PICK x \in S : t = m - x
  OBVIOUS
<1>4. \A y \in S : x >= y
  <2> SUFFICES ASSUME NEW y \in S PROVE x >= y
    OBVIOUS
  <2>1. m - y \in T
    OBVIOUS
  <2>2. m - x <= m - y
    BY <1>2, <1>3, <2>1
  <2> QED
    BY <2>2
<1> HIDE DEF T
<1>5. \E z \in S : \A y \in S : z >= y
  BY <1>4
<1>6. Max(S) \in S /\ \A y \in S : Max(S) >= y
  BY <1>5 DEF Max
<1> QED
  BY <1>6

\* The values of a function on 1 .. n are bounded.
LEMMA Bounded ==
  ASSUME NEW n \in Nat, NEW f \in [1 .. n -> Nat]
  PROVE  \E m \in Nat : \A i \in 1 .. n : f[i] <= m
<1> DEFINE IsBounded(k) == \A g \in [1 .. k -> Nat] : \E m \in Nat : \A i \in 1 .. k : g[i] <= m
           S == {k \in Nat : IsBounded(k)}
<1>1. 0 \in S
  OBVIOUS
<1>2. ASSUME NEW k \in S PROVE k + 1 \in S
  <2>1. k \in Nat
    OBVIOUS
  <2>2. ASSUME NEW g \in [1 .. k + 1 -> Nat] PROVE \E m \in Nat : \A i \in 1 .. k + 1 : g[i] <= m
    <3> DEFINE h == [i \in 1 .. k |-> g[i]]
    <3>1. h \in [1 .. k -> Nat]
      BY <2>1
    <3>2. PICK m \in Nat : \A i \in 1 .. k : h[i] <= m
      BY <3>1
    <3>3. g[k + 1] \in Nat
      BY <2>1
    <3>4. \A i \in 1 .. k + 1 : g[i] \in Nat /\ (i \in 1 .. k \/ i = k + 1)
      BY <2>1
    <3>5. \A i \in 1 .. k + 1 : g[i] <= m + g[k + 1]
      BY <3>2, <3>3, <3>4
    <3>6. m + g[k + 1] \in Nat
      BY <3>3
    <3> QED
      BY <3>5, <3>6
  <2>3. IsBounded(k + 1)
    BY <2>2, Zenon
  <2> HIDE DEF IsBounded
  <2> QED
    BY <2>1, <2>3
<1>3. S \in SUBSET Nat
  OBVIOUS
<1> HIDE DEF S
<1>4. S = Nat
  BY <1>1, <1>2, <1>3, Induct
<1> HIDE DEF IsBounded
<1>5. IsBounded(n)
  BY <1>4 DEF S
<1> QED
  BY <1>5, Zenon DEF IsBounded

\* A program header that the buffer does not hold counts as none.
LEMMA HeadersRead ==
  ASSUME BufferRead
  PROVE  /\ \A i \in 1 .. phnum : phdr(i) \in Header /\ phdr(i) \in {image.phdr[i], NotLoad}
         /\ image.phoff + phnum <= Read /\ image.phoff # 0 => \A i \in 1 .. phnum : phdr(i) = image.phdr[i]
<1>1. image.phoff \in Nat /\ phnum \in Nat /\ \A i \in 1 .. phnum : image.phdr[i] \in Header
  BY ImageType DEF BufferRead
<1>2. NotLoad \in Header
  BY DEF NotLoad, Header
<1>3. \A i \in 1 .. phnum : phdr(i) \in {image.phdr[i], NotLoad}
  BY DEF phdr
<1>4. ASSUME image.phoff + phnum <= Read, image.phoff # 0, NEW i \in 1 .. phnum
      PROVE  phdr(i) = image.phdr[i]
  <2> DEFINE cell == image.phoff + i - 1
  <2>1. cell \in Nat /\ cell > 0 /\ cell < image.phoff + phnum
    BY <1>1, <1>4
  <2>2. Read \in Nat /\ ELF_BUF_MAX \in Nat /\ Read <= ELF_BUF_MAX
    BY StartAssumption DEF BufferRead, Read
  <2>3. cell < Read /\ cell \in 0 .. ELF_BUF_MAX - 1
    BY <1>1, <1>4, <2>1, <2>2
  <2>4. elf_buf[cell] = cell + 1
    BY <2>3 DEF BufferRead
  <2>5. cell > 0 /\ cell < ELF_BUF_MAX
    BY <2>1, <2>2, <2>3
  <2> QED
    BY <2>4, <2>5 DEF phdr
<1> QED
  BY <1>1, <1>2, <1>3, <1>4

\* max_extent is the end of the last segment in the file.
LEMMA ExtentIs ==
  ASSUME BufferRead
  PROVE  /\ max_extent \in Nat
         /\ \A i \in 1 .. phnum : phdr(i).load /\ phdr(i).filesz > 0 => phdr(i).offset + phdr(i).filesz <= max_extent
         /\ \/ max_extent = 0
            \/ \E i \in 1 .. phnum : phdr(i).load /\ max_extent = phdr(i).offset + phdr(i).filesz
<1> DEFINE J == {j \in 1 .. phnum : phdr(j).load /\ phdr(j).filesz > 0}
           ends == {phdr(i).offset + phdr(i).filesz : i \in J}
           f == [i \in 1 .. phnum |-> phdr(i).offset + phdr(i).filesz]
<1>1. phnum \in Nat /\ \A i \in 1 .. phnum : phdr(i).offset \in Nat /\ phdr(i).filesz \in Nat
  BY ImageType, HeadersRead DEF BufferRead, Header
<1>2. f \in [1 .. phnum -> Nat]
  BY <1>1
<1>3. PICK m \in Nat : \A i \in 1 .. phnum : f[i] <= m
  BY <1>1, <1>2, Bounded
<1>4. \A u \in ends \cup {0} : u \in Nat /\ u <= m
  BY <1>1, <1>3
<1>5. max_extent = Max(ends \cup {0})
  BY DEF max_extent
<1>6. \A i \in J : phdr(i).offset + phdr(i).filesz \in ends \cup {0}
  OBVIOUS
<1>7. \A u \in ends \cup {0} : u = 0 \/ \E i \in J : u = phdr(i).offset + phdr(i).filesz
  OBVIOUS
<1> HIDE DEF ends
<1>8. /\ Max(ends \cup {0}) \in ends \cup {0}
      /\ \A u \in ends \cup {0} : u <= Max(ends \cup {0})
  BY <1>4, Greatest
<1> QED
  BY <1>4, <1>5, <1>6, <1>7, <1>8

\* The sectors for a number of cells are enough for them, and no sector too many.
LEMMA SectorsCover ==
  ASSUME NEW n \in Nat, NEW k \in Nat
  PROVE  k < Sectors(n) <=> k * SECTOR < n
<1> DEFINE q == (n + SECTOR - 1) \div SECTOR
           r == (n + SECTOR - 1) % SECTOR
<1>0. SECTOR \in Nat \ {0}
  BY StartAssumption
<1>1. n + SECTOR - 1 \in Nat
  BY <1>0
<1>2. q \in Nat /\ r \in 0 .. SECTOR - 1 /\ n + SECTOR - 1 = SECTOR * q + r
  BY <1>0, <1>1, DivisionWithRest
<1>3. Sectors(n) = q
  BY DEF Sectors
<1> HIDE DEF q, r
<1>4. ASSUME k < q PROVE k * SECTOR < n
  <2>1. q - 1 - k \in Nat /\ SECTOR * (q - 1 - k) \in Nat
    BY <1>0, <1>2, <1>4
  <2>2. SECTOR * (q - 1 - k) = SECTOR * q - SECTOR - k * SECTOR
    BY <1>0, <1>2
  <2>3. k * SECTOR \in Int /\ SECTOR * q \in Int
    BY <1>0, <1>2
  <2> QED
    BY <1>0, <1>2, <2>1, <2>2, <2>3
<1>5. ASSUME k >= q PROVE k * SECTOR >= n
  <2>1. k - q \in Nat /\ SECTOR * (k - q) \in Nat
    BY <1>0, <1>2, <1>5
  <2>2. SECTOR * (k - q) = k * SECTOR - SECTOR * q
    BY <1>0, <1>2
  <2>3. k * SECTOR \in Int /\ SECTOR * q \in Int
    BY <1>0, <1>2
  <2> QED
    BY <1>0, <1>2, <2>1, <2>2, <2>3
<1>6. k * SECTOR \in Int
  BY <1>0
<1> QED
  BY <1>2, <1>3, <1>4, <1>5, <1>6

\* The cells of a sector.
LEMMA CellsOf ==
  ASSUME NEW c \in Nat, NEW k \in Nat
  PROVE  c \div SECTOR = k <=> k * SECTOR <= c /\ c < (k + 1) * SECTOR
<1> DEFINE q == c \div SECTOR
           r == c % SECTOR
<1>0. SECTOR \in Nat \ {0}
  BY StartAssumption
<1>1. q \in Nat /\ r \in 0 .. SECTOR - 1 /\ c = SECTOR * q + r
  BY <1>0, DivisionWithRest
<1>2. k * SECTOR \in Int /\ (k + 1) * SECTOR = k * SECTOR + SECTOR /\ k * SECTOR = SECTOR * k
  BY <1>0
<1>3. ASSUME q = k PROVE k * SECTOR <= c /\ c < (k + 1) * SECTOR
  <2> HIDE DEF q, r
  <2> QED
    BY <1>0, <1>1, <1>2, <1>3
<1>4. ASSUME k * SECTOR <= c, c < (k + 1) * SECTOR PROVE q = k
  <2> DEFINE d == c - SECTOR * k
  <2>1. d \in 0 .. SECTOR - 1 /\ c = SECTOR * k + d
    BY <1>0, <1>2, <1>4
  <2> HIDE DEF d
  <2>2. (SECTOR * k + d) \div SECTOR = k
    BY <1>0, <2>1, RestUnique
  <2> QED
    BY <2>1, <2>2
<1> QED
  BY <1>3, <1>4

\* Whole sectors fit in the buffer.
LEMMA RoomForOne ==
  ASSUME NEW k \in Nat, k * SECTOR < ELF_BUF_MAX
  PROVE  (k + 1) * SECTOR <= ELF_BUF_MAX
<1> DEFINE q == ELF_BUF_MAX \div SECTOR
<1>0. SECTOR \in Nat \ {0} /\ ELF_BUF_MAX \in Nat /\ ELF_BUF_MAX % SECTOR = 0
  BY StartAssumption
<1>1. q \in Nat /\ ELF_BUF_MAX = SECTOR * q
  BY <1>0, DivisionWithRest
<1> HIDE DEF q
<1>2. ASSUME q <= k PROVE FALSE
  <2>1. SECTOR * (k - q) \in Nat /\ SECTOR * (k - q) = k * SECTOR - SECTOR * q
    BY <1>0, <1>1, <1>2
  <2> QED
    BY <1>0, <1>1, <2>1
<1>3. q - (k + 1) \in Nat
  BY <1>1, <1>2
<1>4. SECTOR * (q - (k + 1)) \in Nat /\ SECTOR * (q - (k + 1)) = SECTOR * q - (k + 1) * SECTOR
  BY <1>0, <1>1, <1>3
<1>5. (k + 1) * SECTOR \in Int
  BY <1>0
<1> QED
  BY <1>0, <1>1, <1>4, <1>5

\* A sector read is where its number says.
LEMMA SectorRead ==
  ASSUME BufferRead, ata_read_sector, Read < ELF_BUF_MAX
  PROVE  BufferRead' /\ Read' \in Nat /\ Read <= Read'
<1>0. SECTOR \in Nat \ {0} /\ ELF_BUF_MAX \in Nat /\ sectors_read \in Nat
  BY StartAssumption DEF BufferRead
<1>1. /\ image' = image /\ sectors_read' = sectors_read + 1
      /\ elf_buf' = [c \in DOMAIN elf_buf |-> IF c \div SECTOR = sectors_read THEN c + 1 ELSE elf_buf[c]]
  BY DEF ata_read_sector
<1>2. Read \in Nat /\ Read' = Read + SECTOR /\ Read' = (sectors_read + 1) * SECTOR
  BY <1>0, <1>1 DEF Read
<1>3. Read' <= ELF_BUF_MAX
  BY <1>0, <1>2, RoomForOne DEF Read
<1>4. ASSUME NEW c \in 0 .. ELF_BUF_MAX - 1
      PROVE  elf_buf'[c] = IF c < Read' THEN c + 1 ELSE Stale
  <2>1. c \in Nat /\ elf_buf[c] = (IF c < Read THEN c + 1 ELSE Stale)
    BY <1>0 DEF BufferRead
  <2>2. c \div SECTOR = sectors_read <=> Read <= c /\ c < Read'
    BY <1>0, <1>2, <2>1, CellsOf DEF Read
  <2>3. elf_buf'[c] = IF c \div SECTOR = sectors_read THEN c + 1 ELSE elf_buf[c]
    BY <1>1 DEF BufferRead
  <2> DEFINE its == c \div SECTOR
  <2> HIDE DEF its
  <2>4. /\ its = sectors_read <=> Read <= c /\ c < Read'
        /\ elf_buf'[c] = IF its = sectors_read THEN c + 1 ELSE elf_buf[c]
    BY <2>2, <2>3 DEF its
  <2>5. Read \in Nat /\ Read' \in Nat /\ Read <= Read'
    BY <1>0, <1>2
  <2>6. CASE its = sectors_read
    BY <2>4, <2>5, <2>6
  <2>7. CASE its # sectors_read
    <3>1. c < Read <=> c < Read'
      BY <2>1, <2>4, <2>5, <2>7
    <3>2. elf_buf'[c] = IF c < Read THEN c + 1 ELSE Stale
      BY <2>1, <2>4, <2>7
    <3> QED
      BY <3>1, <3>2
  <2> QED
    BY <2>6, <2>7
<1>5. DOMAIN elf_buf' = 0 .. ELF_BUF_MAX - 1
  BY <1>1 DEF BufferRead
<1>6. BufferRead' <=> /\ image' \in Images
                      /\ sectors_read' \in Nat /\ Read' <= ELF_BUF_MAX
                      /\ DOMAIN elf_buf' = 0 .. ELF_BUF_MAX - 1
                      /\ \A c \in 0 .. ELF_BUF_MAX - 1 : elf_buf'[c] = IF c < Read' THEN c + 1 ELSE Stale
  BY DEF BufferRead
<1> QED
  BY <1>0, <1>1, <1>2, <1>3, <1>4, <1>5, <1>6 DEF BufferRead

\* The buffer is not written otherwise.
LEMMA BufferKept ==
  ASSUME BufferRead, UNCHANGED <<image, elf_buf, sectors_read>>
  PROVE  BufferRead' /\ Read' = Read /\ (\A i : phdr(i)' = phdr(i)) /\ phnum' = phnum
BY DEF BufferRead, Read, phdr, phnum

LEMMA TooLargeKept == ASSUME TooLarge, image' = image PROVE TooLarge'
BY DEF TooLarge, phnum

\* The loader gives up.
LEMMA LoaderFailsKeeps ==
  ASSUME LoaderInv, NEW err, LoaderFails(err), err = "LERR_BUF_OVERFLOW" => TooLarge
  PROVE  LoaderInv'
<1>1. /\ pc' = "halted" /\ error' = err /\ segment' = segment /\ ram' = ram
      /\ UNCHANGED <<image, elf_buf, sectors_read>>
  BY DEF LoaderFails
<1>2. BufferRead'
  BY <1>1, BufferKept DEF LoaderInv
<1>3. error' = "LERR_BUF_OVERFLOW" => TooLarge'
  BY <1>1, TooLargeKept
<1> QED
  BY <1>1, <1>2, <1>3 DEF LoaderInv

\* The loader reads on.
LEMMA ReadMoreKeeps ==
  ASSUME LoaderInv, pc \in {"load", "rest"},
         \/ ReadMore /\ (Read >= ELF_BUF_MAX => TooLarge)
         \/ ata_read_sector /\ Read < ELF_BUF_MAX
         \/ LoaderFails("LERR_DISK")
  PROVE  LoaderInv'
<1>0. Read \in Nat /\ ELF_BUF_MAX \in Nat /\ image.phoff \in Nat /\ phnum \in Nat
  BY StartAssumption, ImageType DEF LoaderInv, BufferRead, Read
<1>1. CASE LoaderFails("LERR_DISK")
  BY <1>1, LoaderFailsKeeps
<1>2. CASE LoaderFails("LERR_BUF_OVERFLOW") /\ TooLarge
  BY <1>2, LoaderFailsKeeps
<1>3. CASE ata_read_sector /\ Read < ELF_BUF_MAX
  <2>1. BufferRead' /\ Read' \in Nat /\ Read <= Read'
    BY <1>3, SectorRead DEF LoaderInv
  <2>2. pc' = pc /\ image' = image /\ segment' = segment /\ ram' = ram /\ error' = error /\ phnum' = phnum
    BY <1>3 DEF ata_read_sector, phnum
  <2>3. pc' = "rest" => image'.phoff + phnum' <= Read'
    BY <1>0, <2>1, <2>2 DEF LoaderInv
  <2>4. error' = "LERR_BUF_OVERFLOW" => TooLarge'
    BY <2>2, TooLargeKept DEF LoaderInv
  <2> QED
    BY <2>1, <2>2, <2>3, <2>4 DEF LoaderInv
<1>4. ReadMore => \/ LoaderFails("LERR_BUF_OVERFLOW") /\ Read >= ELF_BUF_MAX
                  \/ ata_read_sector /\ Read < ELF_BUF_MAX
                  \/ LoaderFails("LERR_DISK")
  BY <1>0 DEF ReadMore, Read
<1> QED
  BY <1>1, <1>2, <1>3, <1>4

\* On to the next phase.
LEMMA PhaseKeeps ==
  ASSUME LoaderInv, NEW to, pc' = to, UNCHANGED loaderVars,
         to \in {"rest", "check", "segments"} => segment = 1 /\ image.phoff + phnum <= Read,
         to \in {"check", "segments"} =>
           \A i \in 1 .. phnum : phdr(i).load /\ phdr(i).filesz > 0 => phdr(i).offset + phdr(i).filesz <= Read,
         to = "segments" => image.phoff # 0,
         to # "load"
  PROVE  LoaderInv'
<1>1. /\ UNCHANGED <<image, elf_buf, sectors_read>> /\ image' = image
      /\ segment' = segment /\ ram' = ram /\ error' = error
  BY DEF loaderVars
<1>2. BufferRead' /\ Read' = Read /\ (\A i : phdr(i)' = phdr(i)) /\ phnum' = phnum
  BY <1>1, BufferKept DEF LoaderInv
<1>3. error' = "LERR_BUF_OVERFLOW" => TooLarge'
  BY <1>1, TooLargeKept DEF LoaderInv
<1>4. pc' \in {"check", "segments"} =>
        \A i \in 1 .. phnum' : phdr(i)'.load /\ phdr(i)'.filesz > 0 => phdr(i)'.offset + phdr(i)'.filesz <= Read'
  BY <1>2
<1>5. ASSUME pc' = "segments", NEW i \in 1 .. phnum', i < segment' PROVE FALSE
  <2>1. phnum \in Nat
    BY ImageType DEF LoaderInv, BufferRead
  <2>2. i \in Nat /\ i >= 1 /\ segment = 1
    BY <1>2, <1>5, <2>1
  <2> QED
    BY <1>1, <1>5, <2>2
<1>6. pc' \in {"rest", "check", "segments"} => segment' = 1 /\ image'.phoff + phnum' <= Read'
  BY <1>1, <1>2
<1> QED
  BY <1>1, <1>2, <1>3, <1>4, <1>5, <1>6 DEF LoaderInv

LEMMA LoadFirstKeeps == ASSUME LoaderInv, load_first PROVE LoaderInv'
<1>1. Read = 0 /\ Read < ELF_BUF_MAX
  BY StartAssumption DEF load_first, Read
<1> QED
  BY <1>1, ReadMoreKeeps DEF load_first

LEMMA LoadTableKeeps == ASSUME LoaderInv, load_table PROVE LoaderInv'
<1>0. /\ pc = "load" /\ segment = 1 /\ image.phoff \in Nat /\ phnum \in Nat
      /\ sectors_read \in Nat /\ Read \in Nat /\ ELF_BUF_MAX \in Nat
  BY StartAssumption, ImageType DEF LoaderInv, BufferRead, Read, load_table
<1>1. sectors_read < Sectors(image.phoff + phnum) <=> Read < image.phoff + phnum
  BY <1>0, SectorsCover DEF Read
<1>2. CASE LoaderFails("LERR_NOT_ELF")
  BY <1>2, LoaderFailsKeeps
<1>3. CASE ReadMore /\ Read < image.phoff + phnum
  <2>1. Read >= ELF_BUF_MAX => TooLarge
    BY <1>0, <1>3 DEF TooLarge
  <2> QED
    BY <1>0, <1>3, <2>1, ReadMoreKeeps
<1>4. CASE Goes("rest") /\ ~(Read < image.phoff + phnum)
  BY <1>0, <1>4, PhaseKeeps DEF Goes
<1> QED
  BY <1>1, <1>2, <1>3, <1>4 DEF load_table

LEMMA LoadRestKeeps == ASSUME LoaderInv, load_rest PROVE LoaderInv'
<1>0. /\ pc = "rest" /\ segment = 1 /\ BufferRead /\ image.phoff + phnum <= Read
      /\ sectors_read \in Nat /\ Read \in Nat /\ ELF_BUF_MAX \in Nat
  BY StartAssumption DEF LoaderInv, BufferRead, Read, load_rest
<1>1. /\ max_extent \in Nat
      /\ \A i \in 1 .. phnum : phdr(i).load /\ phdr(i).filesz > 0 => phdr(i).offset + phdr(i).filesz <= max_extent
      /\ \/ max_extent = 0
         \/ \E i \in 1 .. phnum : phdr(i).load /\ max_extent = phdr(i).offset + phdr(i).filesz
  BY <1>0, ExtentIs
<1>2. \A i \in 1 .. phnum : phdr(i) \in Header /\ phdr(i) \in {image.phdr[i], NotLoad}
  BY <1>0, HeadersRead
<1>3. sectors_read < Sectors(max_extent) <=> Read < max_extent
  BY <1>0, <1>1, SectorsCover DEF Read
<1>4. CASE LoaderFails("LERR_NO_LOAD_SEG")
  BY <1>4, LoaderFailsKeeps
<1>5. CASE ReadMore /\ Read < max_extent /\ max_extent # 0
  <2>1. ASSUME Read >= ELF_BUF_MAX PROVE TooLarge
    <3>1. PICK i \in 1 .. phnum : phdr(i).load /\ max_extent = phdr(i).offset + phdr(i).filesz
      BY <1>1, <1>5
    <3>2. phdr(i) = image.phdr[i]
      BY <1>2, <3>1 DEF NotLoad
    <3>3. max_extent > ELF_BUF_MAX
      BY <1>0, <1>1, <1>5, <2>1
    <3> QED
      BY <3>1, <3>2, <3>3 DEF TooLarge
  <2> QED
    BY <1>0, <1>5, <2>1, ReadMoreKeeps
<1>6. CASE Goes("check") /\ ~(Read < max_extent)
  <2>1. \A i \in 1 .. phnum : phdr(i).load /\ phdr(i).filesz > 0 => phdr(i).offset + phdr(i).filesz <= Read
    BY <1>0, <1>1, <1>2, <1>6 DEF Header
  <2>2. pc' = "check" /\ UNCHANGED loaderVars
    BY <1>6 DEF Goes
  <2> QED
    BY <1>0, <2>1, <2>2, PhaseKeeps
<1> QED
  BY <1>3, <1>4, <1>5, <1>6 DEF load_rest

LEMMA CheckKeeps == ASSUME LoaderInv, check_elf PROVE LoaderInv'
<1>0. pc = "check" /\ segment = 1 /\ image.bad # "LERR_BUF_OVERFLOW"
  BY ImageType DEF LoaderInv, BufferRead, check_elf
<1>1. CASE LoaderFails(image.bad)
  BY <1>0, <1>1, LoaderFailsKeeps
<1>2. CASE LoaderFails("LERR_NO_PHDRS")
  BY <1>2, LoaderFailsKeeps
<1>3. CASE Goes("segments") /\ image.phoff # 0
  <2>1. pc' = "segments" /\ UNCHANGED loaderVars
    BY <1>3 DEF Goes
  <2> QED
    BY <1>0, <1>3, <2>1, PhaseKeeps DEF LoaderInv
<1> QED
  BY <1>1, <1>2, <1>3 DEF check_elf

\* Segments are in memory and apart from each other.
LEMMA SegmentsApart ==
  ASSUME image \in Images, NEW i \in 1 .. phnum, image.phdr[i].load
  PROVE  LET Its(p) == p.paddr .. p.paddr + p.memsz - 1
         IN  /\ Its(image.phdr[i]) \subseteq Ram
             /\ \A j \in 1 .. phnum : j # i /\ image.phdr[j].load => Its(image.phdr[i]) \cap Its(image.phdr[j]) = {}
<1> DEFINE Its(p) == p.paddr .. p.paddr + p.memsz - 1
<1>1. DOMAIN image.phdr = 1 .. phnum
  BY ImageType
<1>2. \A f \in Images : \A k \in DOMAIN f.phdr : f.phdr[k].load =>
        /\ Its(f.phdr[k]) \subseteq Ram
        /\ \A j \in DOMAIN f.phdr \ {k} : f.phdr[j].load => Its(f.phdr[k]) \cap Its(f.phdr[j]) = {}
  BY StartAssumption, Zenon
<1> HIDE DEF Its
<1>3. /\ Its(image.phdr[i]) \subseteq Ram
      /\ \A j \in DOMAIN image.phdr \ {i} : image.phdr[j].load => Its(image.phdr[i]) \cap Its(image.phdr[j]) = {}
  BY <1>1, <1>2
<1>4. \A j \in 1 .. phnum : j # i /\ image.phdr[j].load => Its(image.phdr[i]) \cap Its(image.phdr[j]) = {}
  BY <1>1, <1>3
<1> QED
  BY <1>3, <1>4, Zenon DEF Its

\* One segment is placed, the ones before stay.
LEMMA SegmentPlaced ==
  ASSUME LoaderInv, pc = "segments", segment <= phnum, ram' = Placed(phdr(segment)),
         phdr(segment).load, phdr(segment).filesz <= phdr(segment).memsz,
         NEW i \in 1 .. phnum, i <= segment, image' = image
  PROVE  InPlace(image.phdr[i])'
<1> SUFFICES ASSUME image.phdr[i].load PROVE InPlace(image.phdr[i])'
  BY DEF InPlace
<1> DEFINE p == image.phdr[segment]
           q == image.phdr[i]
<1>1. /\ BufferRead /\ image \in Images /\ segment \in Nat \ {0} /\ DOMAIN ram = Ram
      /\ image.phoff + phnum <= Read /\ image.phoff # 0
      /\ phnum \in Nat /\ \A j \in 1 .. phnum : image.phdr[j] \in Header
  BY ImageType DEF LoaderInv, BufferRead
<1>2. segment \in 1 .. phnum /\ phdr(segment) = p /\ p \in Header /\ q \in Header /\ p.load
  BY <1>1, HeadersRead
<1>3. /\ p.paddr \in Nat /\ p.memsz \in Nat /\ p.filesz \in Nat /\ p.offset \in Nat /\ p.filesz <= p.memsz
      /\ q.paddr \in Nat /\ q.memsz \in Nat /\ q.filesz \in Nat /\ q.offset \in Nat
  BY <1>2 DEF Header
<1>4. Read \in Nat /\ Read <= ELF_BUF_MAX /\ ELF_BUF_MAX \in Nat
  BY <1>1, StartAssumption DEF BufferRead, Read
<1>5. p.filesz > 0 => p.offset + p.filesz <= Read
  BY <1>2 DEF LoaderInv
<1>6. q.paddr .. q.paddr + q.memsz - 1 \subseteq Ram
  BY <1>1, SegmentsApart
<1>7. i # segment => (q.paddr .. q.paddr + q.memsz - 1) \cap (p.paddr .. p.paddr + p.memsz - 1) = {}
  BY <1>1, <1>2, SegmentsApart
<1> HIDE DEF p, q
<1>8. \A a \in Ram : ram'[a] = IF a - p.paddr \in 0 .. p.filesz - 1 THEN elf_buf[p.offset + a - p.paddr]
                               ELSE IF a - p.paddr \in p.filesz .. p.memsz - 1 THEN Zero
                               ELSE ram[a]
  BY <1>1, <1>2 DEF Placed
<1>9. ASSUME NEW k \in 0 .. q.memsz - 1
      PROVE  ram'[q.paddr + k] = IF k < q.filesz THEN q.offset + k + 1 ELSE Zero
  <2> DEFINE a == q.paddr + k
  <2>1. a \in Nat /\ a \in q.paddr .. q.paddr + q.memsz - 1 /\ a \in Ram /\ k \in Nat /\ k < q.memsz
    BY <1>3, <1>6
  <2>2. CASE i = segment
    <3>1. p = q
      BY <2>2 DEF p, q
    <3>2. a - p.paddr = k /\ p.offset + a - p.paddr = p.offset + k
      BY <1>3, <2>1, <3>1
    <3>3. ASSUME k < p.filesz PROVE elf_buf[p.offset + k] = p.offset + k + 1
      <4>1. p.offset + k < Read /\ p.offset + k \in 0 .. ELF_BUF_MAX - 1
        BY <1>3, <1>4, <1>5, <2>1, <3>3
      <4> QED
        BY <1>1, <4>1 DEF BufferRead
    <3>4. CASE k < p.filesz
      <4>1. k \in 0 .. p.filesz - 1
        BY <1>3, <2>1, <3>4
      <4>2. ram'[a] = elf_buf[p.offset + k]
        BY <1>8, <2>1, <3>2, <4>1
      <4> QED
        BY <3>1, <3>3, <3>4, <4>2
    <3>5. CASE ~(k < p.filesz)
      <4>1. k \notin 0 .. p.filesz - 1 /\ k \in p.filesz .. p.memsz - 1
        BY <1>3, <2>1, <3>1, <3>5
      <4>2. ram'[a] = Zero
        BY <1>8, <2>1, <3>2, <4>1
      <4> QED
        BY <3>1, <3>5, <4>2
    <3> QED
      BY <3>4, <3>5
  <2>3. CASE i # segment
    <3>1. a \notin p.paddr .. p.paddr + p.memsz - 1
      BY <1>7, <2>1, <2>3
    <3>2. a - p.paddr \notin 0 .. p.filesz - 1 /\ a - p.paddr \notin p.filesz .. p.memsz - 1
      BY <1>3, <2>1, <3>1
    <3>3. ram'[a] = ram[a]
      BY <1>8, <2>1, <3>2
    <3>4. i < segment
      BY <1>1, <2>3
    <3>5. InPlace(q) /\ q.load
      BY <3>4 DEF LoaderInv, q
    <3> QED
      BY <3>3, <3>5 DEF InPlace
  <2> QED
    BY <2>2, <2>3
<1>10. q.filesz <= q.memsz
  <2>1. CASE i = segment
    BY <1>3, <2>1 DEF p, q
  <2>2. CASE i # segment
    <3>1. InPlace(q) /\ q.load
      BY <1>1, <2>2 DEF LoaderInv, q
    <3> QED
      BY <3>1 DEF InPlace
  <2> QED
    BY <2>1, <2>2
<1> QED
  BY <1>9, <1>10 DEF InPlace, q

LEMMA SegmentKeeps == ASSUME LoaderInv, load_elf_kernel PROVE LoaderInv'
<1> DEFINE p == phdr(segment)
<1>0. /\ pc = "segments" /\ segment <= phnum /\ segment \in 1 .. phnum /\ BufferRead /\ phnum \in Nat
      /\ image.phoff # 0 /\ image.phoff + phnum <= Read
  BY ImageType DEF LoaderInv, BufferRead, load_elf_kernel
<1>1. p = image.phdr[segment] /\ p \in Header
  BY <1>0, HeadersRead
<1>2. CASE LoaderFails("LERR_BAD_MEMSZ")
  BY <1>2, LoaderFailsKeeps
<1>3. CASE ~LoaderFails("LERR_BAD_MEMSZ")
  <2>1. /\ ~(p.load /\ p.memsz < p.filesz)
        /\ ram' = IF p.load THEN Placed(p) ELSE ram
        /\ segment' = segment + 1
        /\ pc' = pc /\ image' = image /\ elf_buf' = elf_buf /\ sectors_read' = sectors_read /\ error' = error
    BY <1>3 DEF load_elf_kernel
  <2>2. BufferRead' /\ Read' = Read /\ (\A i : phdr(i)' = phdr(i)) /\ phnum' = phnum
    BY <1>0, <2>1, BufferKept
  <2>3. error' = "LERR_BUF_OVERFLOW" => TooLarge'
    BY <2>1, TooLargeKept DEF LoaderInv
  <2>4. DOMAIN ram' = Ram
    BY <2>1 DEF Placed, LoaderInv
  <2>5. ASSUME NEW i \in 1 .. phnum, i < segment + 1 PROVE InPlace(image.phdr[i])'
    <3>1. i <= segment
      BY <1>0, <2>5
    <3>2. CASE p.load
      <4>1. p.filesz <= p.memsz /\ ram' = Placed(p)
        BY <1>1, <2>1, <3>2 DEF Header
      <4> QED
        BY <1>0, <2>1, <3>1, <3>2, <4>1, SegmentPlaced
    <3>3. CASE ~p.load
      <4>1. ram' = ram
        BY <2>1, <3>3
      <4>2. i < segment => InPlace(image.phdr[i])
        BY <1>0 DEF LoaderInv
      <4>3. i = segment => ~image.phdr[i].load
        BY <1>1, <3>3
      <4>4. i < segment \/ i = segment
        BY <1>0, <3>1
      <4> QED
        BY <2>1, <4>1, <4>2, <4>3, <4>4 DEF InPlace
    <3> QED
      BY <3>2, <3>3
  <2>6. \A i \in 1 .. phnum' : i < segment' => InPlace(image.phdr[i])'
    BY <2>1, <2>2, <2>5
  <2>7. pc' \in {"check", "segments"} =>
          \A i \in 1 .. phnum' : phdr(i)'.load /\ phdr(i)'.filesz > 0 => phdr(i)'.offset + phdr(i)'.filesz <= Read'
    BY <1>0, <2>2 DEF LoaderInv
  <2>8. segment' \in Nat \ {0} /\ pc' = "segments" /\ image'.phoff + phnum' <= Read' /\ image'.phoff # 0
    BY <1>0, <2>1, <2>2
  <2> QED
    BY <2>2, <2>3, <2>4, <2>6, <2>7, <2>8 DEF LoaderInv
<1> QED
  BY <1>2, <1>3

LEMMA LoaderInvInit == StartInit => LoaderInv
<1> SUFFICES ASSUME StartInit PROVE LoaderInv
  OBVIOUS
<1>1. image \in Images /\ sectors_read = 0 /\ segment = 1 /\ pc = "load" /\ error # "LERR_BUF_OVERFLOW"
  BY Zenon DEF StartInit
<1>2. SECTOR \in Nat /\ ELF_BUF_MAX \in Nat
  BY StartAssumption
<1>3. Read = 0
  BY <1>1, <1>2 DEF Read
<1>4. \A c \in 0 .. ELF_BUF_MAX - 1 : ~(c < 0)
  BY <1>2
<1>5. DOMAIN ram = Ram /\ DOMAIN elf_buf = 0 .. ELF_BUF_MAX - 1 /\ \A c \in 0 .. ELF_BUF_MAX - 1 : elf_buf[c] = Stale
  BY Zenon DEF StartInit
<1>6. sectors_read \in Nat /\ Read <= ELF_BUF_MAX
  BY <1>1, <1>2, <1>3
<1>7. BufferRead
  BY <1>1, <1>3, <1>4, <1>5, <1>6, Zenon DEF BufferRead
<1> QED
  BY <1>1, <1>5, <1>7 DEF LoaderInv

\* The steps after the loader leave what it loaded, and none goes back to it.
Loading == {"load", "rest", "check", "segments", "halted"}

LEMMA AfterLoader == ASSUME LoaderInv, UNCHANGED loaderVars, pc' = pc \/ pc' \notin Loading PROVE LoaderInv'
<1>1. CASE pc' \notin Loading
  BY <1>1, PhaseKeeps DEF Loading
<1>2. CASE pc' = pc
  <2>1. /\ UNCHANGED <<image, elf_buf, sectors_read>> /\ image' = image
        /\ segment' = segment /\ ram' = ram /\ error' = error
    BY DEF loaderVars
  <2>2. BufferRead' /\ Read' = Read /\ (\A i : phdr(i)' = phdr(i)) /\ phnum' = phnum
    BY <2>1, BufferKept DEF LoaderInv
  <2>3. error' = "LERR_BUF_OVERFLOW" => TooLarge'
    BY <2>1, TooLargeKept DEF LoaderInv
  <2>4. \A i : InPlace(image.phdr[i])' <=> InPlace(image.phdr[i])
    BY <2>1 DEF InPlace
  <2>5. pc' \in {"check", "segments"} =>
          \A i \in 1 .. phnum' : phdr(i)'.load /\ phdr(i)'.filesz > 0 => phdr(i)'.offset + phdr(i)'.filesz <= Read'
    BY <1>2, <2>2 DEF LoaderInv
  <2>6. pc' = "segments" => image'.phoff # 0 /\ \A i \in 1 .. phnum' : i < segment' => InPlace(image.phdr[i])'
    BY <1>2, <2>1, <2>2, <2>4 DEF LoaderInv
  <2>7. /\ pc' \in {"load", "rest", "check"} => segment' = 1
        /\ pc' \in {"rest", "check", "segments"} => image'.phoff + phnum' <= Read'
        /\ segment' \in Nat \ {0} /\ DOMAIN ram' = Ram
    BY <1>2, <2>1, <2>2 DEF LoaderInv
  <2> QED
    BY <2>2, <2>3, <2>5, <2>6, <2>7 DEF LoaderInv
<1> QED
  BY <1>1, <1>2

\* What the invariant says of a kernel that is started, and of one refused.
LEMMA KernelLoaded == ASSUME LoaderInv PROVE KernelWhole /\ RefusedRightly
<1>0. image \in Images /\ phnum \in Nat /\ image.phoff \in Nat /\ segment \in Nat /\ ELF_BUF_MAX \in Nat
  BY ImageType, StartAssumption DEF LoaderInv, BufferRead
<1>1. KernelWhole
  <2> SUFFICES ASSUME pc = "segments", segment > phnum, NEW i \in 1 .. phnum, image.phdr[i].load
               PROVE  \A k \in 0 .. image.phdr[i].memsz - 1 :
                        ram[image.phdr[i].paddr + k]
                          = IF k < image.phdr[i].filesz THEN image.phdr[i].offset + k + 1 ELSE Zero
    BY DEF KernelWhole, Segments
  <2>1. i < segment
    BY <1>0
  <2>2. InPlace(image.phdr[i])
    BY <2>1 DEF LoaderInv
  <2> QED
    BY <2>2 DEF InPlace
<1>2. ASSUME error = "LERR_BUF_OVERFLOW"
      PROVE  Max({image.phoff + phnum} \cup {p.offset + p.filesz : p \in Segments}) > ELF_BUF_MAX
  <2> DEFINE all == {image.phoff + phnum} \cup {p.offset + p.filesz : p \in Segments}
             f == [i \in 1 .. phnum |-> image.phdr[i].offset + image.phdr[i].filesz]
  <2>1. \A i \in 1 .. phnum : image.phdr[i].offset \in Nat /\ image.phdr[i].filesz \in Nat
    BY <1>0, ImageType DEF Header
  <2>2. f \in [1 .. phnum -> Nat]
    BY <2>1
  <2>3. PICK m \in Nat : \A i \in 1 .. phnum : f[i] <= m
    BY <1>0, <2>2, Bounded
  <2>4. PICK u \in all : u > ELF_BUF_MAX
    BY <1>2 DEF LoaderInv, TooLarge, Segments
  <2>5. \A v \in all : v \in Nat /\ v <= m + image.phoff + phnum
    <3> SUFFICES ASSUME NEW v \in all PROVE v \in Nat /\ v <= m + image.phoff + phnum
      OBVIOUS
    <3>1. CASE v = image.phoff + phnum
      BY <1>0, <3>1
    <3>2. CASE \E i \in 1 .. phnum : v = image.phdr[i].offset + image.phdr[i].filesz
      <4>1. PICK i \in 1 .. phnum : v = image.phdr[i].offset + image.phdr[i].filesz
        BY <3>2
      <4>2. v \in Nat /\ v <= m
        BY <2>1, <2>3, <4>1
      <4> QED
        BY <1>0, <4>2
    <3> QED
      BY <3>1, <3>2 DEF Segments
  <2> HIDE DEF all
  <2>6. all \in SUBSET Nat /\ m + image.phoff + phnum \in Nat
    BY <1>0, <2>5
  <2>7. Max(all) \in all /\ u <= Max(all)
    BY <2>4, <2>5, <2>6, Greatest
  <2>8. Max(all) \in Nat /\ u \in Nat
    BY <2>4, <2>6, <2>7
  <2>9. Max(all) > ELF_BUF_MAX
    BY <1>0, <2>4, <2>7, <2>8
  <2> QED
    BY <2>9 DEF all
<1> QED
  BY <1>1, <1>2 DEF RefusedRightly

-----------------------------------------------------------------------------
(***************************************************************************)
(* The scan of the bus.                                                    *)
(***************************************************************************)
Bus == (0 .. DEVICES - 1) \X (0 .. FUNCTIONS - 1)
\* What a scan that has come to a slot has passed.
Passed(s) == {t \in Reachable : t[1] < s[1] \/ (t[1] = s[1] /\ t[2] < s[2])}

\* A list has a set of functions, each at its place, up to the size of the table.
Listed(P, list) ==
  /\ list \in Seq([at : Bus, id : {machine.id[s] : s \in Bus}])
  /\ Len(list) = IF Cardinality(P) <= MAX_PCI_DEVICES THEN Cardinality(P) ELSE MAX_PCI_DEVICES
  /\ \A i \in 1 .. Len(list) : list[i].at \in P /\ Cardinality(Earlier(list[i].at)) = i
  /\ \A s \in P : Cardinality(Earlier(s)) <= MAX_PCI_DEVICES =>
       Cardinality(Earlier(s)) \in 1 .. Len(list) /\ list[Cardinality(Earlier(s))].at = s

Scanning ==
  /\ machine \in Machines /\ slot \in Bus
  /\ slot[2] # 0 => Answers(<<slot[1], 0>>) /\ slot[1] \in machine.multi
  /\ Listed(Passed(slot), pci_devices)
PciInv ==
  /\ pc \in Loading \cup {"kmain"} => machine = NoBus
  /\ pc = "pci" => Scanning
  /\ pc = "ahci" => Listed(Reachable, pci_devices)

LEMMA BusSlots ==
  ASSUME machine \in Machines
  PROVE  /\ DEVICES \in Nat \ {0} /\ FUNCTIONS \in Nat \ {0} /\ MAX_PCI_DEVICES \in Nat
         /\ DOMAIN machine.id = Bus
         /\ \A s \in Bus : /\ s[1] \in Nat /\ s[1] < DEVICES /\ s[2] \in Nat /\ s[2] < FUNCTIONS
                           /\ s = <<s[1], s[2]>>
BY StartAssumption DEF Bus

LEMMA ReachableFinite ==
  ASSUME machine \in Machines
  PROVE  /\ Reachable \subseteq Bus /\ IsFiniteSet(Reachable)
         /\ \A s : /\ Passed(s) \subseteq Reachable /\ IsFiniteSet(Passed(s))
                   /\ Cardinality(Passed(s)) \in Nat
<1>0. 0 \in Int /\ DEVICES - 1 \in Int /\ FUNCTIONS - 1 \in Int
  BY BusSlots
<1>1. IsFiniteSet(0 .. DEVICES - 1) /\ IsFiniteSet(0 .. FUNCTIONS - 1)
  BY <1>0, FS_Interval
<1>2. IsFiniteSet(Bus)
  BY <1>1, FS_Product DEF Bus
<1>3. Reachable \subseteq Bus
  BY BusSlots DEF Reachable
<1>4. IsFiniteSet(Reachable)
  BY <1>2, <1>3, FS_Subset
<1>5. \A s : Passed(s) \subseteq Reachable
  BY DEF Passed
<1> QED
  BY <1>3, <1>4, <1>5, FS_Subset, FS_CardinalityType

\* The functions up to one are those before it and the function itself.
LEMMA UpTo ==
  ASSUME machine \in Machines, NEW s \in Reachable
  PROVE  /\ Earlier(s) = Passed(s) \cup {s}
         /\ Cardinality(Earlier(s)) = Cardinality(Passed(s)) + 1
         /\ Cardinality(Passed(s) \cup {s}) = Cardinality(Passed(s)) + 1
<1>1. \A t \in Reachable : t \in Bus
  BY ReachableFinite
<1>2. \A t \in Reachable : /\ t[1] \in Nat /\ t[2] \in Nat /\ s[1] \in Nat /\ s[2] \in Nat
                           /\ (t[1] = s[1] /\ t[2] = s[2] => t = s)
  BY <1>1, BusSlots
<1>3. Earlier(s) = Passed(s) \cup {s}
  <2>1. ASSUME NEW t \in Reachable PROVE t \in Earlier(s) <=> t \in Passed(s) \/ t = s
    BY <1>2 DEF Earlier, Passed
  <2> QED
    BY <2>1 DEF Earlier, Passed
<1>4. s \notin Passed(s)
  BY <1>2 DEF Passed
<1>5. Cardinality(Passed(s) \cup {s}) = Cardinality(Passed(s)) + 1
  BY <1>4, ReachableFinite, FS_AddElement
<1> QED
  BY <1>3, <1>5

\* The function in the slot goes to the end of the list, if there is room.
LEMMA OneMore ==
  ASSUME Scanning, slot \in Reachable
  PROVE  Listed(Passed(slot) \cup {slot}, pci_read_device_info)
<1> DEFINE P == Passed(slot)
           C == Cardinality(P)
           new == [at |-> slot, id |-> machine.id[slot]]
<1>1. MAX_PCI_DEVICES \in Nat /\ C \in Nat /\ Listed(P, pci_devices) /\ slot \in Bus
  BY BusSlots, ReachableFinite DEF Scanning
<1>2. Cardinality(P \cup {slot}) = C + 1 /\ Cardinality(Earlier(slot)) = C + 1
  BY UpTo DEF Scanning
<1> HIDE DEF P, C
<1>3. /\ pci_devices \in Seq([at : Bus, id : {machine.id[s] : s \in Bus}])
      /\ Len(pci_devices) \in Nat
      /\ Len(pci_devices) = IF C <= MAX_PCI_DEVICES THEN C ELSE MAX_PCI_DEVICES
      /\ \A i \in 1 .. Len(pci_devices) : pci_devices[i].at \in P /\ Cardinality(Earlier(pci_devices[i].at)) = i
      /\ \A s \in P : Cardinality(Earlier(s)) <= MAX_PCI_DEVICES =>
           /\ Cardinality(Earlier(s)) \in 1 .. Len(pci_devices)
           /\ pci_devices[Cardinality(Earlier(s))].at = s
  BY <1>1 DEF Listed, C
<1>4. CASE Len(pci_devices) >= MAX_PCI_DEVICES
  <2>1. Len(pci_devices) = MAX_PCI_DEVICES /\ ~(C + 1 <= MAX_PCI_DEVICES)
    BY <1>1, <1>3, <1>4
  <2>2. pci_read_device_info = pci_devices
    BY <1>4 DEF pci_read_device_info
  <2>3. Len(pci_devices) =
          IF Cardinality(P \cup {slot}) <= MAX_PCI_DEVICES THEN Cardinality(P \cup {slot}) ELSE MAX_PCI_DEVICES
    BY <1>2, <2>1
  <2>4. \A s \in P \cup {slot} : Cardinality(Earlier(s)) <= MAX_PCI_DEVICES => s \in P
    BY <1>2, <2>1
  <2>5. Listed(P \cup {slot}, pci_devices)
    BY <1>3, <2>3, <2>4, Zenon DEF Listed
  <2> QED
    BY <2>2, <2>5 DEF P
<1>5. CASE ~(Len(pci_devices) >= MAX_PCI_DEVICES)
  <2> DEFINE list == Append(pci_devices, new)
  <2>1. Len(pci_devices) = C /\ C + 1 <= MAX_PCI_DEVICES
    BY <1>1, <1>3, <1>5
  <2>2. pci_read_device_info = list
    BY <1>5 DEF pci_read_device_info
  <2>3. new \in [at : Bus, id : {machine.id[s] : s \in Bus}]
    BY <1>1
  <2>4. /\ list \in Seq([at : Bus, id : {machine.id[s] : s \in Bus}])
        /\ Len(list) = C + 1 /\ list[C + 1] = new
        /\ \A i \in 1 .. C : list[i] = pci_devices[i]
    <3> HIDE DEF new
    <3> QED
      BY <1>3, <2>1, <2>3
  <2>5. new.at = slot
    OBVIOUS
  <2> HIDE DEF list, new
  <2>6. ASSUME NEW i \in 1 .. Len(list)
        PROVE  list[i].at \in P \cup {slot} /\ Cardinality(Earlier(list[i].at)) = i
    <3>1. i \in 1 .. C \/ i = C + 1
      BY <1>1, <2>4
    <3>2. CASE i \in 1 .. C
      BY <1>3, <2>1, <2>4, <3>2
    <3>3. CASE i = C + 1
      BY <1>2, <2>4, <2>5, <3>3
    <3> QED
      BY <3>1, <3>2, <3>3
  <2>7. ASSUME NEW s \in P \cup {slot}, Cardinality(Earlier(s)) <= MAX_PCI_DEVICES
        PROVE  Cardinality(Earlier(s)) \in 1 .. Len(list) /\ list[Cardinality(Earlier(s))].at = s
    <3>1. CASE s \in P
      <4>1. Cardinality(Earlier(s)) \in 1 .. C /\ pci_devices[Cardinality(Earlier(s))].at = s
        BY <1>3, <2>1, <2>7, <3>1
      <4> QED
        BY <1>1, <2>4, <4>1
    <3>2. CASE s = slot
      BY <1>1, <1>2, <2>4, <2>5, <3>2
    <3> QED
      BY <3>1, <3>2
  <2>8. Len(list) =
          IF Cardinality(P \cup {slot}) <= MAX_PCI_DEVICES THEN Cardinality(P \cup {slot}) ELSE MAX_PCI_DEVICES
    BY <1>2, <2>1, <2>4
  <2>9. Listed(P \cup {slot}, list)
    BY <2>4, <2>6, <2>7, <2>8, Zenon DEF Listed
  <2> QED
    BY <2>2, <2>9 DEF P
<1> QED
  BY <1>4, <1>5

\* The next slot: nothing that answers lies between.
LEMMA NothingBetween ==
  ASSUME Scanning, NEW to,
         \/ to = NextFunction /\ (slot[2] = 0 => Answers(slot) /\ slot[1] \in machine.multi)
         \/ to = NextDevice /\ slot[2] = 0 /\ ~(Answers(slot) /\ slot[1] \in machine.multi)
  PROVE  /\ Passed(to) = Passed(slot) \cup ({slot} \cap Reachable)
         /\ to[1] = DEVICES => Passed(to) = Reachable
         /\ to[1] # DEVICES => to \in Bus
         /\ to[2] # 0 => Answers(<<to[1], 0>>) /\ to[1] \in machine.multi
<1>0. /\ machine \in Machines /\ slot \in Bus
      /\ slot[2] # 0 => Answers(<<slot[1], 0>>) /\ slot[1] \in machine.multi
  BY DEF Scanning
<1>1. /\ DEVICES \in Nat \ {0} /\ FUNCTIONS \in Nat \ {0}
      /\ slot[1] \in Nat /\ slot[1] < DEVICES /\ slot[2] \in Nat /\ slot[2] < FUNCTIONS /\ slot = <<slot[1], slot[2]>>
  BY <1>0, BusSlots
<1>2. \A t \in Reachable : t \in Bus /\ t[1] \in Nat /\ t[1] < DEVICES /\ t[2] \in Nat /\ t[2] < FUNCTIONS /\ t = <<t[1], t[2]>>
  BY <1>0, BusSlots, ReachableFinite
<1>3. \A t \in Reachable : t[2] # 0 => Answers(<<t[1], 0>>) /\ t[1] \in machine.multi
  BY DEF Reachable
<1>4. \/ to[1] = slot[1] /\ to[2] = slot[2] + 1 /\ to[2] < FUNCTIONS /\ to = <<slot[1], slot[2] + 1>>
      \/ /\ to[1] = slot[1] + 1 /\ to[2] = 0 /\ to = <<slot[1] + 1, 0>>
         /\ slot[2] + 1 = FUNCTIONS \/ (slot[2] = 0 /\ ~(Answers(slot) /\ slot[1] \in machine.multi))
  BY <1>1 DEF NextFunction, NextDevice
<1>5. ASSUME NEW t \in Reachable
      PROVE  t \in Passed(to) <=> t \in Passed(slot) \/ t = slot
  <2>1. t = slot <=> t[1] = slot[1] /\ t[2] = slot[2]
    BY <1>1, <1>2
  <2>2. slot[2] = 0 /\ ~(Answers(slot) /\ slot[1] \in machine.multi) /\ t[1] = slot[1] => t[2] = 0
    BY <1>1, <1>3
  <2>3. /\ t[1] \in Nat /\ t[2] \in Nat /\ t[2] < FUNCTIONS
        /\ t \in Passed(to) <=> t[1] < to[1] \/ (t[1] = to[1] /\ t[2] < to[2])
        /\ t \in Passed(slot) <=> t[1] < slot[1] \/ (t[1] = slot[1] /\ t[2] < slot[2])
    BY <1>2 DEF Passed
  <2>4. CASE to[1] = slot[1] /\ to[2] = slot[2] + 1
    BY <1>1, <2>1, <2>3, <2>4
  <2>5. CASE to[1] = slot[1] + 1 /\ to[2] = 0 /\ slot[2] + 1 = FUNCTIONS
    BY <1>1, <2>1, <2>3, <2>5
  <2>6. CASE to[1] = slot[1] + 1 /\ to[2] = 0 /\ slot[2] = 0 /\ ~(Answers(slot) /\ slot[1] \in machine.multi)
    BY <1>1, <2>1, <2>2, <2>3, <2>6
  <2> QED
    BY <1>4, <2>4, <2>5, <2>6
<1>6. Passed(to) = Passed(slot) \cup ({slot} \cap Reachable)
  BY <1>5 DEF Passed
<1>7. ASSUME to[1] = DEVICES PROVE Passed(to) = Reachable
  BY <1>2, <1>7 DEF Passed
<1>8. ASSUME to[1] # DEVICES PROVE to \in Bus
  BY <1>1, <1>4, <1>8 DEF Bus
<1>9. ASSUME to[2] # 0 PROVE Answers(<<to[1], 0>>) /\ to[1] \in machine.multi
  <2>1. to = <<slot[1], slot[2] + 1>> /\ to[1] = slot[1] /\ to[2] = slot[2] + 1
    BY <1>4, <1>9
  <2>2. slot[2] = 0 => Answers(slot) /\ slot[1] \in machine.multi
    BY <1>1, <1>9, <2>1 DEF NextDevice
  <2>3. slot[2] = 0 => slot = <<slot[1], 0>>
    BY <1>1
  <2>4. Answers(<<slot[1], 0>>) /\ slot[1] \in machine.multi
    BY <1>0, <2>2, <2>3 DEF Answers
  <2> QED
    BY <2>1, <2>4
<1> QED
  BY <1>6, <1>7, <1>8, <1>9

LEMMA ListedNext ==
  ASSUME machine' = machine, NEW P, NEW list, Listed(P, list), pci_devices' = list
  PROVE  /\ Reachable' = Reachable
         /\ P = Reachable => Listed(Reachable, pci_devices)'
         /\ P = Passed(slot') => Listed(Passed(slot), pci_devices)'
<1>1. Reachable' = Reachable
  BY DEF Reachable, Answers
<1>2. \A s : Earlier(s)' = Earlier(s)
  BY DEF Earlier, Reachable, Answers
<1>3. Passed(slot)' = Passed(slot')
  BY DEF Passed, Reachable, Answers
<1>4. Listed(P, pci_devices)'
  BY <1>2 DEF Listed
<1> QED
  BY <1>1, <1>3, <1>4

\* The scan goes to the next slot, or ends.
LEMMA ScanGoesOn ==
  ASSUME Scanning, pc = "pci", machine' = machine, NEW to, ScanGoes(to),
         \/ to = NextFunction /\ (slot[2] = 0 => Answers(slot) /\ slot[1] \in machine.multi)
         \/ to = NextDevice /\ slot[2] = 0 /\ ~(Answers(slot) /\ slot[1] \in machine.multi),
         Listed(Passed(slot) \cup ({slot} \cap Reachable), pci_devices')
  PROVE  PciInv'
<1>1. /\ Passed(to) = Passed(slot) \cup ({slot} \cap Reachable)
      /\ to[1] = DEVICES => Passed(to) = Reachable
      /\ to[1] # DEVICES => to \in Bus
      /\ to[2] # 0 => Answers(<<to[1], 0>>) /\ to[1] \in machine.multi
  BY NothingBetween
<1>2. Listed(Passed(to), pci_devices')
  BY <1>1
<1>3. CASE to[1] = DEVICES
  <2>1. pc' = "ahci"
    BY <1>3 DEF ScanGoes
  <2>2. Listed(Reachable, pci_devices)'
    BY <1>1, <1>2, <1>3, ListedNext
  <2> QED
    BY <2>1, <2>2 DEF PciInv, Loading
<1>4. CASE to[1] # DEVICES
  <2>1. pc' = "pci" /\ slot' = to
    BY <1>4 DEF ScanGoes
  <2>2. Listed(Passed(slot), pci_devices)'
    BY <1>2, <2>1, ListedNext
  <2>3. machine' \in Machines /\ slot' \in Bus
    BY <1>1, <1>4, <2>1 DEF Scanning
  <2>4. slot'[2] # 0 => Answers(<<slot[1], 0>>)' /\ slot'[1] \in machine'.multi
    BY <1>1, <2>1 DEF Answers
  <2>5. Scanning'
    BY <2>2, <2>3, <2>4 DEF Scanning
  <2> QED
    BY <2>1, <2>5 DEF PciInv, Loading
<1> QED
  BY <1>3, <1>4

LEMMA AbsentKeeps == ASSUME PciInv, pci_scan_absent PROVE PciInv'
<1> DEFINE to == IF slot[2] = 0 THEN NextDevice ELSE NextFunction
<1>1. /\ pc = "pci" /\ Scanning /\ ~Answers(slot) /\ machine' = machine /\ pci_devices' = pci_devices
      /\ ScanGoes(to)
  BY DEF PciInv, pci_scan_absent
<1>2. slot \notin Reachable
  BY <1>1 DEF Reachable
<1>3. Listed(Passed(slot) \cup ({slot} \cap Reachable), pci_devices')
  <2>1. Passed(slot) \cup ({slot} \cap Reachable) = Passed(slot)
    BY <1>2
  <2> QED
    BY <1>1, <2>1 DEF Scanning
<1>4. \/ to = NextFunction /\ slot[2] # 0
      \/ to = NextDevice /\ slot[2] = 0
  OBVIOUS
<1> HIDE DEF to
<1> QED
  BY <1>1, <1>3, <1>4, ScanGoesOn

LEMMA PresentKeeps == ASSUME PciInv, pci_scan_present PROVE PciInv'
<1> DEFINE to == IF slot[2] = 0 /\ slot[1] \notin machine.multi THEN NextDevice ELSE NextFunction
<1>1. /\ pc = "pci" /\ Scanning /\ Answers(slot) /\ machine' = machine /\ pci_devices' = pci_read_device_info
      /\ ScanGoes(to)
  BY DEF PciInv, pci_scan_present
<1>2. slot \in Reachable
  BY <1>1, BusSlots DEF Reachable, Scanning
<1>3. Listed(Passed(slot) \cup ({slot} \cap Reachable), pci_devices')
  <2>1. Passed(slot) \cup ({slot} \cap Reachable) = Passed(slot) \cup {slot}
    BY <1>2
  <2> QED
    BY <1>1, <1>2, <2>1, OneMore
<1>4. \/ to = NextFunction /\ (slot[2] = 0 => Answers(slot) /\ slot[1] \in machine.multi)
      \/ to = NextDevice /\ slot[2] = 0 /\ ~(Answers(slot) /\ slot[1] \in machine.multi)
  BY <1>1
<1> HIDE DEF to
<1> QED
  BY <1>1, <1>3, <1>4, ScanGoesOn

\* An empty list has no function, and before the first slot there is none.
LEMMA EmptyList == Listed({}, <<>>)
<1>1. Cardinality({}) = 0
  BY FS_EmptySet
<1>2. MAX_PCI_DEVICES \in Nat
  BY StartAssumption
<1>3. /\ <<>> \in Seq([at : Bus, id : {machine.id[s] : s \in Bus}]) /\ Len(<<>>) = 0
      /\ \A i \in 1 .. Len(<<>>) : FALSE
  OBVIOUS
<1> QED
  BY <1>1, <1>2, <1>3 DEF Listed

LEMMA InitPciKeeps == ASSUME PciInv, init_pci PROVE PciInv'
<1>1. /\ machine = NoBus /\ pci_devices' = <<>> /\ slot' = <<0, 0>>
      /\ \/ pc' = "pci" /\ machine' \in Machines
         \/ pc' = "ahci" /\ machine' = machine
  BY DEF PciInv, init_pci
<1>2. CASE pc' = "pci" /\ machine' \in Machines
  <2>1. /\ DEVICES \in Nat \ {0} /\ FUNCTIONS \in Nat \ {0}
        /\ DOMAIN machine'.id = Bus
    BY <1>2, StartAssumption DEF Bus
  <2>2. slot' \in Bus /\ slot'[1] = 0 /\ slot'[2] = 0
    BY <1>1, <2>1 DEF Bus
  <2>3. \A t \in Reachable' : t[1] \in Nat /\ t[2] \in Nat
    BY <2>1 DEF Reachable, Bus
  <2>4. Passed(slot)' = {}
    BY <2>2, <2>3 DEF Passed
  <2>5. Listed({}, <<>>)'
    BY EmptyList, PTL
  <2>6. Listed(Passed(slot), pci_devices)'
    BY <1>1, <2>4, <2>5
  <2> QED
    BY <1>2, <2>2, <2>6 DEF PciInv, Scanning, Loading
<1>3. CASE pc' = "ahci" /\ machine' = machine
  <2>1. Reachable' = {}
    BY <1>1, <1>3 DEF Reachable, NoBus
  <2>2. Listed({}, <<>>)'
    BY EmptyList, PTL
  <2>3. Listed(Reachable, pci_devices)'
    BY <1>1, <2>1, <2>2
  <2> QED
    BY <1>3, <2>3 DEF PciInv, Loading
<1> QED
  BY <1>1, <1>2, <1>3

\* The loader leaves the bus alone.
LEMMA LoaderStep ==
  ASSUME LoaderInv, PciInv,
         load_first \/ load_table \/ load_rest \/ check_elf \/ load_elf_kernel \/ loader_main
  PROVE  LoaderInv' /\ PciInv'
<1>1. pc \in Loading /\ pc' \in Loading \cup {"kmain"} /\ UNCHANGED pciVars
  <2>1. ASSUME NEW err, LoaderFails(err) PROVE pc' \in Loading /\ UNCHANGED pciVars
    BY <2>1 DEF LoaderFails, Loading
  <2>2. ASSUME ata_read_sector PROVE pc' = pc /\ UNCHANGED pciVars
    BY <2>2 DEF ata_read_sector
  <2>3. ASSUME ReadMore, pc \in Loading PROVE pc' \in Loading /\ UNCHANGED pciVars
    BY <2>1, <2>2, <2>3 DEF ReadMore
  <2>4. ASSUME NEW to, Goes(to) PROVE pc' = to /\ UNCHANGED pciVars
    BY <2>4 DEF Goes
  <2>5. CASE load_first
    BY <2>1, <2>2, <2>5 DEF load_first, Loading
  <2>6. CASE load_table
    BY <2>1, <2>3, <2>4, <2>6 DEF load_table, Loading
  <2>7. CASE load_rest
    BY <2>1, <2>3, <2>4, <2>7 DEF load_rest, Loading
  <2>8. CASE check_elf
    BY <2>1, <2>4, <2>8 DEF check_elf, Loading
  <2>9. CASE load_elf_kernel
    BY <2>1, <2>9 DEF load_elf_kernel, Loading
  <2>10. CASE loader_main
    BY <2>4, <2>10 DEF loader_main, Loading
  <2> QED
    BY <2>5, <2>6, <2>7, <2>8, <2>9, <2>10
<1>2. PciInv'
  <2>1. machine = NoBus /\ machine' = machine
    BY <1>1 DEF PciInv, pciVars
  <2> QED
    BY <1>1, <2>1 DEF PciInv, Loading
<1>3. ASSUME loader_main PROVE LoaderInv'
  <2>1. UNCHANGED loaderVars /\ pc' \notin Loading
    BY <1>3 DEF loader_main, Goes, Loading
  <2> QED
    BY <2>1, AfterLoader
<1> QED
  BY <1>2, <1>3, LoadFirstKeeps, LoadTableKeeps, LoadRestKeeps, CheckKeeps, SegmentKeeps

\* A driver that runs does not go back to what came before it.
LEMMA DriverStep == ASSUME Next \/ init_ahci PROVE pc' = pc \/ pc' \in {"port", "poll", "register", "ready"}
<1>1. CASE init_ahci
  BY <1>1 DEF init_ahci
<1>2. CASE Boot
  BY <1>2 DEF Boot, ahci_init_port_skip, ahci_init_port_fail, ahci_init_port, ahci_identify_done,
              ahci_adapter_create_device, init_fs, NextPort
<1>3. CASE Request
  <2>1. ASSUME NEW op, NEW lba, ahci_disk(op, lba) PROVE pc' = "poll"
    BY <2>1 DEF ahci_disk, Call
  <2>2. ASSUME NEW op, NEW id, NEW lba, NEW count, block_device(op, id, lba, count) PROVE pc' = "poll"
    BY <2>2 DEF block_device, Call
  <2>3. ASSUME NEW id, block_device_unregister(id) PROVE pc' = pc
    BY <2>3 DEF block_device_unregister
  <2> QED
    BY <1>3, <2>1, <2>2, <2>3 DEF Request
<1>4. CASE CallReturns
  BY <1>4 DEF CallReturns
<1>5. ASSUME NEW p \in Ports, NEW s \in Slots, Hba(p, s) PROVE pc' = pc
  BY <1>5 DEF Hba, HbaComplete, HbaError
<1> QED
  BY <1>1, <1>2, <1>3, <1>4, <1>5 DEF Next

LEMMA StartStep == ASSUME LoaderInv, PciInv, [StartNext]_startVars PROVE LoaderInv' /\ PciInv'
<1>1. CASE load_first \/ load_table \/ load_rest \/ check_elf \/ load_elf_kernel \/ loader_main
  BY <1>1, LoaderStep
<1>2. CASE init_pci \/ pci_scan_absent \/ pci_scan_present
  <2>1. UNCHANGED loaderVars /\ pc' \notin Loading
    BY <1>2 DEF init_pci, pci_scan_absent, pci_scan_present, ScanGoes, Loading
  <2> QED
    BY <1>2, <2>1, AfterLoader, InitPciKeeps, AbsentKeeps, PresentKeeps
<1>3. ASSUME UNCHANGED <<loaderVars, pciVars>>, pc' = pc \/ pc' \in {"port", "poll", "register", "ready"}
      PROVE  LoaderInv' /\ PciInv'
  <2>1. UNCHANGED loaderVars /\ machine' = machine /\ pci_devices' = pci_devices /\ slot' = slot
    BY <1>3 DEF pciVars
  <2>2. pc' = pc \/ pc' \notin Loading \cup {"kmain", "pci", "ahci"}
    BY <1>3 DEF Loading
  <2>3. LoaderInv'
    BY <2>1, <2>2, AfterLoader
  <2>4. Scanning => Scanning'
    <3> SUFFICES ASSUME Scanning PROVE Scanning'
      OBVIOUS
    <3>1. Listed(Passed(slot), pci_devices)'
      BY <2>1, ListedNext DEF Scanning
    <3> QED
      BY <2>1, <3>1 DEF Scanning, Answers
  <2>5. Listed(Reachable, pci_devices) => Listed(Reachable, pci_devices)'
    BY <2>1, ListedNext
  <2> QED
    BY <2>1, <2>2, <2>3, <2>4, <2>5 DEF PciInv
<1>4. CASE init_ahci
  <2>1. UNCHANGED <<loaderVars, pciVars>>
    BY <1>4 DEF init_ahci
  <2> QED
    BY <1>3, <1>4, <2>1, DriverStep
<1>5. CASE Next /\ UNCHANGED <<loaderVars, pciVars>>
  BY <1>3, <1>5, DriverStep
<1>6. CASE UNCHANGED startVars
  BY <1>3, <1>6 DEF startVars, vars
<1> QED
  BY <1>1, <1>2, <1>4, <1>5, <1>6 DEF StartNext

\* What the scan has listed is what answers, in order.
LEMMA AllListed == ASSUME PciInv PROVE DevicesFound
<1> SUFFICES ASSUME pc = "ahci"
             PROVE  {<<i, pci_devices[i].at>> : i \in DOMAIN pci_devices}
                      = {<<Cardinality(Earlier(s)), s>> : s \in {t \in Reachable : Cardinality(Earlier(t)) <= MAX_PCI_DEVICES}}
  BY DEF DevicesFound
<1> DEFINE P == Reachable
           place(s) == Cardinality(Earlier(s))
<1>1. Listed(P, pci_devices)
  BY DEF PciInv
<1>2. MAX_PCI_DEVICES \in Nat
  BY StartAssumption
<1>3. /\ DOMAIN pci_devices = 1 .. Len(pci_devices) /\ Len(pci_devices) \in Nat
      /\ Len(pci_devices) <= MAX_PCI_DEVICES
      /\ \A i \in 1 .. Len(pci_devices) : pci_devices[i].at \in P /\ place(pci_devices[i].at) = i
      /\ \A s \in P : place(s) <= MAX_PCI_DEVICES =>
           place(s) \in 1 .. Len(pci_devices) /\ pci_devices[place(s)].at = s
  BY <1>1, <1>2 DEF Listed
<1> HIDE DEF P, place
<1>4. \A i \in DOMAIN pci_devices : /\ pci_devices[i].at \in P /\ place(pci_devices[i].at) = i
                                    /\ place(pci_devices[i].at) <= MAX_PCI_DEVICES
  <2> SUFFICES ASSUME NEW i \in 1 .. Len(pci_devices)
               PROVE  pci_devices[i].at \in P /\ place(pci_devices[i].at) = i /\ i <= MAX_PCI_DEVICES
    BY <1>3
  <2>1. i <= MAX_PCI_DEVICES
    BY <1>2, <1>3
  <2> QED
    BY <1>3, <2>1
<1> DEFINE D == DOMAIN pci_devices
           where(i) == pci_devices[i].at
           F == {t \in P : place(t) <= MAX_PCI_DEVICES}
<1>5. /\ \A i \in D : where(i) \in F /\ place(where(i)) = i
      /\ \A s \in F : place(s) \in D /\ where(place(s)) = s
  BY <1>3, <1>4
<1> HIDE DEF D, where, F
<1>6. {<<i, where(i)>> : i \in D} = {<<place(s), s>> : s \in F}
  <2>1. ASSUME NEW i \in D PROVE \E s \in F : <<i, where(i)>> = <<place(s), s>>
    BY <1>5
  <2>2. ASSUME NEW s \in F PROVE \E i \in D : <<place(s), s>> = <<i, where(i)>>
    BY <1>5
  <2> QED
    BY <2>1, <2>2, Zenon
<1> QED
  BY <1>6, Zenon DEF P, place, D, where, F

\* A kernel that is started is in memory as its file says, a file is refused as
\* too large only if it is, and the scan of the bus lists each function that
\* answers once and in order up to the size of the table, for every file, size
\* of sectors and buffer, and machine (load_kernel_image, pci_scan_bus).
THEOREM KernelStarts == StartSpec => []StartSound
<1>1. StartInit => LoaderInv /\ PciInv
  <2>1. StartInit => PciInv
    BY DEF StartInit, PciInv
  <2> QED
    BY <2>1, LoaderInvInit
<1>2. LoaderInv /\ PciInv /\ [StartNext]_startVars => LoaderInv' /\ PciInv'
  BY StartStep
<1>3. LoaderInv /\ PciInv => StartSound
  BY KernelLoaded, AllListed DEF StartSound
<1> QED
  BY <1>1, <1>2, <1>3, PTL DEF StartSpec

=============================================================================

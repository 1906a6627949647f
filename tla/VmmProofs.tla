------------------------------ MODULE VmmProofs ------------------------------
(***************************************************************************)
(* Proofs about Vmm: frames are accounted for, failed calls undone, what a *)
(* program was promised is mapped and programs are isolated, for every     *)
(* number of frames and programs and every layout of the address space     *)
(* that keeps to LayoutAssumption.                                         *)
(*                                                                         *)
(* The parts of the invariant take the memory m and the programs pr as     *)
(* parameters, since an action such as AllocMap makes several moves (a new *)
(* page table, then an entry in it) and each move keeps the invariant.     *)
(***************************************************************************)
EXTENDS Vmm, Numbers

Dents == 0 .. PD_ENTRIES - 1
Slots == 0 .. PT_ENTRIES - 1

DentOf(v) == v \div PT_ENTRIES
SlotOf(v) == v % PT_ENTRIES

IdentTables   == {BootTables[i] : i \in 0 .. IDENT_TABLES - 1}
UserDirsOf(m) == DOMAIN m.pd \ {BootDir}
NewTablesOf(m) == DOMAIN m.pt \ IdentTables

-----------------------------------------------------------------------------
(***************************************************************************)
(* Directories and page tables.                                            *)
(***************************************************************************)
MemType(m) ==
  /\ m = [used |-> m.used, pd |-> m.pd, pt |-> m.pt]
  /\ m.used \subseteq Frames
  /\ m.pd \in [DOMAIN m.pd -> [Dents -> DOMAIN m.pt \cup {NULL}]]
  /\ m.pt \in [DOMAIN m.pt -> [Slots -> Entry \cup {NULL}]]
  /\ BootDir \in DOMAIN m.pd /\ IdentTables \subseteq DOMAIN m.pt

\* A page table hangs in the same entry of all directories that have it, and
\* if there are several, it is a kernel's table that clones share.
TablesShared(m) ==
  \A d, e \in DOMAIN m.pd, i, j \in Dents :
    m.pd[d][i] # NULL /\ m.pd[d][i] = m.pd[e][j] =>
      /\ i = j
      /\ d # e => m.pd[BootDir][i] = m.pd[d][i] /\ i # USER_PD_ENTRY

\* The boot directory maps the identity map, the frame buffer, and the heap in
\* the entry clones do not share.
BootEntries(m) ==
  \A i \in Dents : m.pd[BootDir][i] # NULL =>
    i < IDENT_TABLES \/ i = USER_PD_ENTRY \/ i \in DeviceEntries

\* No page of a shared table is accessible from ring 3.
KernelOnly(m) ==
  \A i \in Dents \ {USER_PD_ENTRY}, j \in Slots :
    LET t == m.pd[BootDir][i] IN
    t # NULL /\ m.pt[t][j] # NULL => ~m.pt[t][j].user

\* The identity map, page 0 apart, is complete in every directory.
IdentComplete(m) ==
  \A i \in 0 .. IDENT_TABLES - 1 :
    /\ \A d \in DOMAIN m.pd : m.pd[d][i] = BootTables[i]
    /\ \A j \in Slots : i + j # 0 => m.pt[BootTables[i]][j] # NULL

MemInv(m) ==
  /\ MemType(m)
  /\ TablesShared(m)
  /\ BootEntries(m)
  /\ KernelOnly(m)
  /\ IdentComplete(m)

-----------------------------------------------------------------------------
(***************************************************************************)
(* The books of the PMM.                                                   *)
(***************************************************************************)
\* The entry of page v; the page that a call is at.
EntryOf(m, d, v) == <<m.pd[d][DentOf(v)], SlotOf(v)>>
PageOf(r)        == r.call.base + r.call.i

\* The entries whose frame a roll-back has freed.
UndoneOf(m, pr) ==
  {EntryOf(m, pr[p].dir, PageOf(pr[p])) : p \in {q \in Programs : pr[q].at = "unmap"}}

\* The entries that hold a frame.
HeldOf(m, pr) ==
  {x \in NewTablesOf(m) \X Slots :
     /\ m.pt[x[1]][x[2]] # NULL
     /\ m.pt[x[1]][x[2]].frame \in Frames
     /\ x \notin UndoneOf(m, pr)}

HandsOf(pr) == {p \in Programs : pr[p].at = "map"}

\* The frames of the kernel, of directories and of page tables.
StructOf(m) == Reserved \cup UserDirsOf(m) \cup NewTablesOf(m)

\* The frame that each of these entries and each call in between holds.
EntryFrames(m, pr) == [x \in HeldOf(m, pr) |-> m.pt[x[1]][x[2]].frame]
HandFrames(pr)     == [p \in HandsOf(pr) |-> pr[p].call.frame]

\* Each frame of F is held once.
HeldOnce(F, g, h) ==
  /\ \A x \in DOMAIN g : g[x] \in F /\ \A y \in DOMAIN g : g[x] = g[y] => x = y
  /\ \A p \in DOMAIN h : h[p] \in F /\ \A q \in DOMAIN h : h[p] = h[q] => p = q
  /\ \A x \in DOMAIN g, p \in DOMAIN h : g[x] # h[p]
  /\ \A f \in F : (\E x \in DOMAIN g : g[x] = f) \/ (\E p \in DOMAIN h : h[p] = f)

\* Every frame in use has one use, and every use has its frame.
Books(m, pr) ==
  /\ Reserved \cap UserDirsOf(m) = {} /\ Reserved \cap NewTablesOf(m) = {}
  /\ UserDirsOf(m) \cap NewTablesOf(m) = {}
  /\ StructOf(m) \subseteq m.used
  /\ HeldOnce(m.used \ StructOf(m), EntryFrames(m, pr), HandFrames(pr))

-----------------------------------------------------------------------------
(***************************************************************************)
(* Programs and their calls of vmm_alloc_virtual_pages.                    *)
(***************************************************************************)
CallRec == [base : Nat, count : Nat, i : Nat, frame : Frames \cup {NULL}, res : Results,
            saved : SUBSET VPages]

ProgramRec == [at : {"none", "frame", "map", "undo", "unmap", "return", "user"},
               dir : Frames \cup {NULL}, brk : Nat, want : Nat,
               for : {"none", "image", "stack", "brk"}, call : CallRec]

Calling(r) == r.at \in {"frame", "map", "undo", "unmap", "return"}

\* The pages that a call has mapped and not unmapped again.
DonePages(r) ==
  CASE r.at \in {"frame", "map"}  -> r.call.base .. r.call.base + r.call.i - 1
    [] r.at \in {"undo", "unmap"} -> r.call.base + r.call.i .. r.call.base + r.call.count - 1
    [] r.at = "return" /\ r.call.res = "SUCCESS"
                                  -> r.call.base .. r.call.base + r.call.count - 1
    [] OTHER                      -> {}

\* The pages that the program has been promised so far.
Promised(r) ==
  CASE r.for = "stack"                 -> ImagePages
    [] r.for = "brk" \/ r.at = "user" ->
         ImagePages \cup StackPages \cup (Image.base + Image.count .. PageUp(r.brk) - 1)
    [] OTHER                           -> {}

\* What the call was asked for.
Asked(r) ==
  CASE r.for = "image" -> r.call.base = Image.base /\ r.call.count = Image.count
    [] r.for = "stack" -> r.call.base = Stack.base /\ r.call.count = Stack.count
    [] r.for = "brk"   -> r.call.base = PageUp(r.brk)
                          /\ r.call.base + r.call.count = PageUp(r.want)

\* How far the call has come.
CallProgress(r) ==
  /\ \A v \in r.call.base .. r.call.base + r.call.count - 1 :
       v \in VPages \ {0} /\ DentOf(v) \notin DeviceEntries
  /\ r.at \in {"frame", "map"} => r.call.i < r.call.count /\ r.call.res = "SUCCESS"
  /\ r.at \in {"undo", "unmap"} => r.call.i <= r.call.count /\ r.call.res # "SUCCESS"
  /\ r.at = "unmap" => r.call.i < r.call.count
  /\ r.call.res = "SUCCESS" => Asked(r)
  /\ r.for = "image" => r.call.saved \cap ImagePages = {} /\ r.call.res # "ALREADY_MAPPED"

\* What is mapped: what was mapped before and what the call has done.
CallPages(m, r) ==
  /\ MappedIn(m, r.dir) = r.call.saved \cup DonePages(r)
  /\ r.call.saved \cap DonePages(r) = {}
  /\ \A v \in DonePages(r) : Pte(m, r.dir, v).user /\ Pte(m, r.dir, v).frame \in Frames

ProgramInv(m, r) ==
  /\ r \in ProgramRec
  /\ r.at = "none" => r = NoProgram
  /\ r.at # "none" => r.dir \in UserDirsOf(m)
  /\ Calling(r) <=> r.for # "none"
  /\ r.at = "map" => r.call.frame # NULL
  /\ r.for = "brk" \/ r.at = "user" => r.brk > 0
  /\ r.for = "stack" => r.brk = (Image.base + Image.count) * PAGE_SIZE
  /\ r.for = "brk" => r.want \in Breaks \ {0}
  /\ Calling(r) => CallProgress(r) /\ CallPages(m, r) /\ Promised(r) \subseteq r.call.saved
  /\ \A v \in Promised(r) :
       v \in VPages \ IdentPages /\ Pte(m, r.dir, v) # NULL /\ Pte(m, r.dir, v).user

\* Each program has a directory of its own.
DirsDistinct(pr) ==
  \A p, q \in Programs : pr[p].at # "none" /\ pr[q].at # "none" /\ pr[p].dir = pr[q].dir => p = q

World(m, pr) ==
  /\ MemInv(m)
  /\ Books(m, pr)
  /\ pr \in [Programs -> ProgramRec]
  /\ \A p \in Programs : ProgramInv(m, pr[p])
  /\ DirsDistinct(pr)

\* The inductive invariant of the virtual memory.
VmmIInv ==
  /\ World(mem, prog)
  /\ heap_top \in Nat /\ heap_top >= HeapTop /\ heap \subseteq VPages
  /\ panicked \in BOOLEAN

-----------------------------------------------------------------------------
(***************************************************************************)
(* Page arithmetic.                                                        *)
(***************************************************************************)

\* The assumptions on the constants in the form the proofs cite.
LEMMA Constants ==
  /\ NFRAMES \in Nat /\ PAGE_SIZE \in Nat /\ PAGE_SIZE > 0
  /\ PT_ENTRIES \in Nat /\ PT_ENTRIES > 0 /\ PD_ENTRIES \in Nat
  /\ IDENT_TABLES \in Nat /\ IDENT_TABLES > 0 /\ IDENT_TABLES <= PD_ENTRIES
  /\ USER_PD_ENTRY \in Dents /\ USER_PD_ENTRY >= IDENT_TABLES
  /\ BootTables \in [0 .. IDENT_TABLES - 1 -> Reserved] /\ BootDir \in Reserved
  /\ Reserved \subseteq Frames /\ Frames \subseteq Nat /\ Dents \subseteq Nat /\ Slots \subseteq Nat
  /\ NULL \notin Nat /\ NULL \notin Entry
  /\ \A i \in 0 .. IDENT_TABLES - 1 : i \in Dents
<1>1. NULL \notin Entry
  BY LayoutAssumption
<1> QED
  BY <1>1, VmmAssumption DEF Dents, Slots, Frames

\* A page is given by its entries in the directory and in the table.
LEMMA PageParts ==
  ASSUME NEW v \in VPages
  PROVE  /\ v \in Nat /\ DentOf(v) \in Dents /\ SlotOf(v) \in Slots
         /\ v = PT_ENTRIES * DentOf(v) + SlotOf(v)
         /\ v \in IdentPages <=> DentOf(v) < IDENT_TABLES
         /\ DentOf(v) + SlotOf(v) = 0 => v = 0
         /\ \A w \in VPages : DentOf(w) = DentOf(v) /\ SlotOf(w) = SlotOf(v) => w = v
<1>1. /\ PT_ENTRIES \in Int /\ PT_ENTRIES > 0 /\ PD_ENTRIES \in Int /\ IDENT_TABLES \in Int
  BY Constants
<1>2. ASSUME NEW w \in VPages
      PROVE  /\ w \in Int /\ w >= 0 /\ w < PT_ENTRIES * PD_ENTRIES
             /\ DentOf(w) \in Int /\ SlotOf(w) \in 0 .. PT_ENTRIES - 1
             /\ w = PT_ENTRIES * DentOf(w) + SlotOf(w)
  <2>1. w \in Int /\ w >= 0 /\ w < PT_ENTRIES * PD_ENTRIES
    BY <1>1 DEF VPages
  <2>2. /\ w \div PT_ENTRIES \in Int /\ w % PT_ENTRIES \in 0 .. PT_ENTRIES - 1
        /\ w = PT_ENTRIES * (w \div PT_ENTRIES) + (w % PT_ENTRIES)
    BY <1>1, <2>1
  <2> QED
    BY <2>1, <2>2 DEF DentOf, SlotOf
<1>3. DentOf(v) >= 0
  <2>1. SUFFICES ASSUME DentOf(v) <= -1 PROVE FALSE
    BY <1>2
  <2>2. PT_ENTRIES * DentOf(v) <= PT_ENTRIES * (-1)
    BY <1>1, <1>2, <2>1
  <2> QED
    BY <1>1, <1>2, <2>2
<1>4. ASSUME NEW n \in Int
      PROVE  v < PT_ENTRIES * n <=> DentOf(v) < n
  <2> DEFINE d == DentOf(v)
             k == SlotOf(v)
  <2>1. d \in Int /\ k \in Int /\ k >= 0 /\ k < PT_ENTRIES /\ v = PT_ENTRIES * d + k
    BY <1>1, <1>2
  <2> HIDE DEF d, k
  <2>2. CASE d < n
    <3>1. PT_ENTRIES * (d + 1) <= PT_ENTRIES * n
      BY <1>1, <1>4, <2>1, <2>2
    <3>2. PT_ENTRIES * (d + 1) = PT_ENTRIES * d + PT_ENTRIES
      BY <1>1, <2>1
    <3>3. PT_ENTRIES * d \in Int /\ PT_ENTRIES * n \in Int
      BY <1>1, <1>4, <2>1
    <3>4. v < PT_ENTRIES * n
      BY <1>1, <2>1, <3>1, <3>2, <3>3
    <3> QED
      BY <2>2, <3>4 DEF d
  <2>3. CASE ~(d < n)
    <3>1. PT_ENTRIES * d >= PT_ENTRIES * n
      BY <1>1, <1>4, <2>1, <2>3
    <3>2. PT_ENTRIES * d \in Int /\ PT_ENTRIES * n \in Int
      BY <1>1, <1>4, <2>1
    <3>3. ~(v < PT_ENTRIES * n)
      BY <1>1, <2>1, <3>1, <3>2
    <3> QED
      BY <2>3, <3>3 DEF d
  <2> QED
    BY <2>2, <2>3
<1>5. DentOf(v) < PD_ENTRIES
  BY <1>1, <1>2, <1>4
<1>6. v \in IdentPages <=> DentOf(v) < IDENT_TABLES
  <2>1. v \in IdentPages <=> v < PT_ENTRIES * IDENT_TABLES
    BY <1>1, <1>2 DEF IdentPages
  <2> QED
    BY <1>1, <1>4, <2>1
<1>7. DentOf(v) + SlotOf(v) = 0 => v = 0
  <2>1. SUFFICES ASSUME DentOf(v) = 0, SlotOf(v) = 0 PROVE v = 0
    BY <1>2, <1>3
  <2> QED
    BY <1>1, <1>2, <2>1
<1>8. DentOf(v) \in Dents /\ SlotOf(v) \in Slots
  BY <1>1, <1>2, <1>3, <1>5 DEF Dents, Slots
<1> QED
  BY <1>2, <1>6, <1>7, <1>8

-----------------------------------------------------------------------------
(***************************************************************************)
(* Moves of the memory.                                                    *)
(***************************************************************************)
EmptyTable == [j \in Slots |-> NULL]

\* Entry j of table t becomes e, and the PMM's bits U.
Filled(m, U, t, j, e) ==
  [used |-> U, pd |-> m.pd, pt |-> [m.pt EXCEPT ![t] = [m.pt[t] EXCEPT ![j] = e]]]

\* An empty table in frame f hangs in entry i of directory d.
Tabled(m, d, i, f) ==
  [used |-> m.used \cup {f},
   pd |-> [m.pd EXCEPT ![d] = [m.pd[d] EXCEPT ![i] = f]],
   pt |-> [x \in DOMAIN m.pt \cup {f} |-> IF x = f THEN EmptyTable ELSE m.pt[x]]]

\* What an entry written to a table leaves.
Wrote(m, m2, U, t, j, e) ==
  /\ MemType(m2)
  /\ m2.used = U /\ m2.pd = m.pd /\ DOMAIN m2.pt = DOMAIN m.pt
  /\ \A x \in DOMAIN m.pt, k \in Slots : m2.pt[x][k] = IF x = t /\ k = j THEN e ELSE m.pt[x][k]

LEMMA FilledMem ==
  ASSUME NEW m, MemType(m), NEW U \in SUBSET Frames,
         NEW t \in DOMAIN m.pt, NEW j \in Slots, NEW e, e \in Entry \cup {NULL},
         NEW m2, m2 = Filled(m, U, t, j, e)
  PROVE  Wrote(m, m2, U, t, j, e)
<1>1. m2.used = U /\ m2.pd = m.pd /\ m2 = [used |-> m2.used, pd |-> m2.pd, pt |-> m2.pt]
  BY DEF Filled
<1>2. m2.pt = [m.pt EXCEPT ![t] = [m.pt[t] EXCEPT ![j] = e]]
  BY DEF Filled
<1>3. m.pt[t] \in [Slots -> Entry \cup {NULL}] /\ m.pt \in [DOMAIN m.pt -> [Slots -> Entry \cup {NULL}]]
  BY DEF MemType
<1>4. [m.pt[t] EXCEPT ![j] = e] \in [Slots -> Entry \cup {NULL}]
  BY <1>3
<1>5. m2.pt \in [DOMAIN m.pt -> [Slots -> Entry \cup {NULL}]] /\ DOMAIN m2.pt = DOMAIN m.pt
  BY <1>2, <1>3, <1>4
<1>6. \A x \in DOMAIN m.pt, k \in Slots : m2.pt[x][k] = IF x = t /\ k = j THEN e ELSE m.pt[x][k]
  BY <1>2, <1>3
<1>7. MemType(m2)
  BY <1>1, <1>5 DEF MemType
<1> QED
  BY <1>1, <1>5, <1>6, <1>7 DEF Wrote

\* What a new page table leaves.
TableAdded(m, m2, d, i, f) ==
  /\ MemType(m2)
  /\ m2.used = m.used \cup {f} /\ DOMAIN m2.pd = DOMAIN m.pd /\ DOMAIN m2.pt = DOMAIN m.pt \cup {f}
  /\ \A e \in DOMAIN m.pd, k \in Dents : m2.pd[e][k] = IF e = d /\ k = i THEN f ELSE m.pd[e][k]
  /\ m2.pt[f] = EmptyTable
  /\ \A x \in DOMAIN m.pt \ {f} : m2.pt[x] = m.pt[x]

LEMMA TabledMem ==
  ASSUME NEW m, MemType(m), NEW d \in DOMAIN m.pd, NEW i \in Dents, NEW f \in Frames,
         NEW m2, m2 = Tabled(m, d, i, f)
  PROVE  TableAdded(m, m2, d, i, f)
<1>1. /\ m2.used = m.used \cup {f}
      /\ m2 = [used |-> m2.used, pd |-> m2.pd, pt |-> m2.pt]
      /\ m2.pd = [m.pd EXCEPT ![d] = [m.pd[d] EXCEPT ![i] = f]]
      /\ m2.pt = [x \in DOMAIN m.pt \cup {f} |-> IF x = f THEN EmptyTable ELSE m.pt[x]]
  BY DEF Tabled
<1>2. /\ m.pd \in [DOMAIN m.pd -> [Dents -> DOMAIN m.pt \cup {NULL}]]
      /\ m.pt \in [DOMAIN m.pt -> [Slots -> Entry \cup {NULL}]]
  BY DEF MemType
<1>3. EmptyTable \in [Slots -> Entry \cup {NULL}]
  BY DEF EmptyTable
<1>4. /\ DOMAIN m2.pt = DOMAIN m.pt \cup {f}
      /\ m2.pt \in [DOMAIN m2.pt -> [Slots -> Entry \cup {NULL}]]
  BY <1>1, <1>2, <1>3
<1>5. [m.pd[d] EXCEPT ![i] = f] \in [Dents -> DOMAIN m2.pt \cup {NULL}]
  BY <1>2, <1>4
<1>6. m2.pd \in [DOMAIN m.pd -> [Dents -> DOMAIN m2.pt \cup {NULL}]] /\ DOMAIN m2.pd = DOMAIN m.pd
  BY <1>1, <1>2, <1>4, <1>5
<1>7. \A e \in DOMAIN m.pd, k \in Dents : m2.pd[e][k] = IF e = d /\ k = i THEN f ELSE m.pd[e][k]
  BY <1>1, <1>2
<1>8. MemType(m2)
  BY <1>1, <1>4, <1>6 DEF MemType
<1> QED
  BY <1>1, <1>4, <1>6, <1>7, <1>8 DEF TableAdded

\* pmm_alloc_frame gives a frame that is free as long as there is one.
LEMMA AllocFrameFree ==
  ASSUME NEW m
  PROVE  /\ pmm_alloc_frame(m) \in Frames \cup {NULL}
         /\ pmm_alloc_frame(m) # NULL => pmm_alloc_frame(m) \in Frames \ m.used
         /\ FreeFrames(m) = {} => pmm_alloc_frame(m) = NULL
<1>1. CASE FreeFrames(m) = {}
  BY <1>1 DEF pmm_alloc_frame
<1>2. CASE FreeFrames(m) # {}
  <2>1. FreeFrames(m) \in SUBSET Nat
    BY Constants DEF FreeFrames
  <2>2. \E f \in FreeFrames(m) : \A g \in FreeFrames(m) : f <= g
    BY <1>2, <2>1, LeastElement
  <2>3. pmm_alloc_frame(m) \in FreeFrames(m)
    BY <1>2, <2>2 DEF pmm_alloc_frame
  <2> QED
    BY <1>2, <2>3 DEF FreeFrames
<1> QED
  BY <1>1, <1>2

\* The entry of a page in the words of the moves.
LEMMA PteIs ==
  ASSUME NEW m, NEW d, NEW v
  PROVE  Pte(m, d, v) = IF m.pd[d][DentOf(v)] = NULL THEN NULL
                        ELSE m.pt[m.pd[d][DentOf(v)]][SlotOf(v)]
  BY DEF Pte, DentOf, SlotOf

\* The page table in which a page outside the identity map is or may be mapped
\* is no other's: it hangs in one entry of one directory.
LEMMA PrivateTable ==
  ASSUME NEW m, MemInv(m), NEW d \in DOMAIN m.pd,
         NEW v \in VPages, DentOf(v) \notin DeviceEntries,
         m.pd[d][DentOf(v)] # NULL, v \notin IdentPages \/ (v # 0 /\ Pte(m, d, v) = NULL)
  PROVE  /\ v \notin IdentPages
         /\ m.pd[d][DentOf(v)] \in NewTablesOf(m)
         /\ \A e \in DOMAIN m.pd, k \in Dents :
              m.pd[e][k] = m.pd[d][DentOf(v)] => e = d /\ k = DentOf(v)
<1> DEFINE i == DentOf(v)
           t == m.pd[d][i]
<1>1. MemType(m) /\ TablesShared(m) /\ BootEntries(m) /\ IdentComplete(m)
  BY DEF MemInv
<1>2. /\ i \in Dents /\ SlotOf(v) \in Slots /\ (i + SlotOf(v) = 0 => v = 0)
      /\ v \in IdentPages <=> i < IDENT_TABLES
  BY PageParts
<1>3. t \in DOMAIN m.pt
  BY <1>1, <1>2 DEF MemType
<1>4. v \notin IdentPages
  <2>1. SUFFICES ASSUME v \in IdentPages PROVE FALSE
    OBVIOUS
  <2>2. i \in 0 .. IDENT_TABLES - 1
    BY <1>2, <2>1, Constants DEF Dents
  <2>3. t = BootTables[i]
    BY <1>1, <2>2 DEF IdentComplete
  <2>4. m.pt[t][SlotOf(v)] # NULL
    BY <1>1, <1>2, <2>1, <2>2, <2>3 DEF IdentComplete
  <2> QED
    BY <2>1, <2>4, PteIs
<1>5. ASSUME NEW k \in 0 .. IDENT_TABLES - 1 PROVE t # BootTables[k]
  <2>1. k \in Dents /\ m.pd[d][k] = BootTables[k] /\ BootTables[k] # NULL
    BY <1>1, Constants DEF IdentComplete
  <2>2. i # k
    BY <1>2, <1>4, Constants DEF Dents
  <2>3. \A a, b \in Dents : m.pd[d][a] # NULL /\ m.pd[d][a] = m.pd[d][b] => a = b
    BY <1>1 DEF TablesShared
  <2> QED
    BY <1>2, <2>1, <2>2, <2>3
<1>6. t \in NewTablesOf(m)
  BY <1>3, <1>5 DEF NewTablesOf, IdentTables
<1>7. ASSUME NEW e \in DOMAIN m.pd, NEW k \in Dents, m.pd[e][k] = t
      PROVE  e = d /\ k = i
  <2>1. i = k /\ (d # e => m.pd[BootDir][i] = t /\ i # USER_PD_ENTRY)
    BY <1>1, <1>2, <1>7 DEF TablesShared
  <2>2. m.pd[BootDir][i] # NULL => i < IDENT_TABLES \/ i = USER_PD_ENTRY
    BY <1>1, <1>2 DEF BootEntries
  <2> QED
    BY <1>2, <1>4, <2>1, <2>2
<1> QED
  BY <1>4, <1>6, <1>7

\* An entry written to such a table changes what is mapped at that page of that
\* directory, and nothing else.
LEMMA FilledPte ==
  ASSUME NEW m, MemType(m), NEW U \in SUBSET Frames, NEW d \in DOMAIN m.pd, NEW v \in VPages,
         NEW t \in DOMAIN m.pt, t = m.pd[d][DentOf(v)], t # NULL, NEW x, x \in Entry \cup {NULL},
         \A e \in DOMAIN m.pd, k \in Dents : m.pd[e][k] = t => e = d /\ k = DentOf(v),
         NEW c \in DOMAIN m.pd, NEW w \in VPages,
         NEW m2, m2 = Filled(m, U, t, SlotOf(v), x)
  PROVE  Pte(m2, c, w) = IF c = d /\ w = v THEN x ELSE Pte(m, c, w)
<1>1. /\ DentOf(v) \in Dents /\ SlotOf(v) \in Slots /\ DentOf(w) \in Dents /\ SlotOf(w) \in Slots
      /\ DentOf(w) = DentOf(v) /\ SlotOf(w) = SlotOf(v) => w = v
  BY PageParts
<1>2. /\ m2.pd = m.pd
      /\ \A y \in DOMAIN m.pt, k \in Slots : m2.pt[y][k] = IF y = t /\ k = SlotOf(v) THEN x ELSE m.pt[y][k]
  <2>1. Wrote(m, m2, U, t, SlotOf(v), x)
    BY <1>1, FilledMem
  <2> QED
    BY <2>1 DEF Wrote
<1>3. m.pd[c][DentOf(w)] \in DOMAIN m.pt \cup {NULL}
  BY <1>1 DEF MemType
<1>4. CASE c = d /\ w = v
  BY <1>1, <1>2, <1>4, PteIs
<1>5. CASE ~(c = d /\ w = v)
  <2>1. m.pd[c][DentOf(w)] = t => SlotOf(w) # SlotOf(v)
    BY <1>1, <1>5
  <2>2. Pte(m2, c, w) = IF m.pd[c][DentOf(w)] = NULL THEN NULL ELSE m2.pt[m.pd[c][DentOf(w)]][SlotOf(w)]
    BY <1>2, PteIs
  <2>3. Pte(m, c, w) = IF m.pd[c][DentOf(w)] = NULL THEN NULL ELSE m.pt[m.pd[c][DentOf(w)]][SlotOf(w)]
    BY PteIs
  <2>4. Pte(m2, c, w) = Pte(m, c, w)
    BY <1>1, <1>2, <1>3, <2>1, <2>2, <2>3
  <2> QED
    BY <1>5, <2>4
<1> QED
  BY <1>4, <1>5

\* The page tables of m are those of m0, and page v of d has one.
Reach(m0, m, d, v) ==
  \/ m = m0 /\ m0.pd[d][DentOf(v)] # NULL
  \/ /\ m0.pd[d][DentOf(v)] = NULL
     /\ \E f \in Frames \ m0.used : m = Tabled(m0, d, DentOf(v), f)

\* vmm_map_page fails and leaves everything as it was, or writes an entry where
\* there was none.
MapResult(m, d, v, e, r) ==
  \/ r.res = "NO_MEMORY" /\ r.mem = m
  \/ r.res = "ALREADY_MAPPED" /\ r.mem = m /\ Pte(m, d, v) # NULL
  \/ /\ r.res = "SUCCESS" /\ Pte(m, d, v) = NULL
     /\ \E m1 : /\ Reach(m, m1, d, v)
                /\ r.mem = Filled(m1, m1.used, m1.pd[d][DentOf(v)], SlotOf(v), e)

LEMMA MapOutcome ==
  ASSUME NEW m, MemType(m), IdentComplete(m), NEW d \in DOMAIN m.pd, NEW v \in VPages, NEW e
  PROVE  MapResult(m, d, v, e, vmm_map_page(m, d, v, e))
<1> DEFINE r   == vmm_map_page(m, d, v, e)
           new == m.pd[d][DentOf(v)] = NULL
           f   == pmm_alloc_frame(m)
           m1  == IF new THEN NewTable(m, d, v, f) ELSE m
<1>1. r = IF new /\ (f = NULL \/ ~Accessible(m, d, f)) THEN [res |-> "NO_MEMORY", mem |-> m]
          ELSE IF ~Accessible(m1, d, m1.pd[d][DentOf(v)]) THEN [res |-> "NO_MEMORY", mem |-> m1]
          ELSE IF Pte(m1, d, v) # NULL THEN [res |-> "ALREADY_MAPPED", mem |-> m1]
          ELSE [res |-> "SUCCESS", mem |-> SetPte(m1, d, v, e)]
  BY DEF vmm_map_page, DentOf
<1>2. DentOf(v) \in Dents /\ SlotOf(v) \in Slots
  BY PageParts
<1>3. Pte(m, d, TempPage) # NULL
  <2>1. TempPage \in IdentPages /\ TempPage # 0
    BY VmmAssumption
  <2>2. TempPage \in VPages
    <3>1. TempPage \in Nat /\ TempPage < PT_ENTRIES * IDENT_TABLES
      BY <2>1, Constants DEF IdentPages
    <3>2. PT_ENTRIES * IDENT_TABLES <= PT_ENTRIES * PD_ENTRIES
      BY Constants
    <3>3. PT_ENTRIES * IDENT_TABLES \in Int /\ PT_ENTRIES * PD_ENTRIES \in Int
      BY Constants
    <3> QED
      BY <3>1, <3>2, <3>3 DEF VPages
  <2>3. /\ DentOf(TempPage) \in 0 .. IDENT_TABLES - 1 /\ SlotOf(TempPage) \in Slots
        /\ DentOf(TempPage) + SlotOf(TempPage) # 0
    BY <2>1, <2>2, PageParts, Constants DEF Dents
  <2>4. m.pd[d][DentOf(TempPage)] = BootTables[DentOf(TempPage)] /\ BootTables[DentOf(TempPage)] # NULL
    BY <2>3, Constants DEF IdentComplete
  <2>5. m.pt[BootTables[DentOf(TempPage)]][SlotOf(TempPage)] # NULL
    BY <2>3 DEF IdentComplete
  <2> QED
    BY <2>4, <2>5, PteIs
<1>4. ASSUME m.pd[d][DentOf(v)] # NULL, Pte(m, d, v) = NULL
      PROVE  /\ Reach(m, m, d, v)
             /\ SetPte(m, d, v, e) = Filled(m, m.used, m.pd[d][DentOf(v)], SlotOf(v), e)
  <2>1. m = [used |-> m.used, pd |-> m.pd, pt |-> m.pt]
    BY DEF MemType
  <2>2. SetPte(m, d, v, e) = [used |-> m.used, pd |-> m.pd,
                              pt |-> [m.pt EXCEPT ![m.pd[d][DentOf(v)]][SlotOf(v)] = e]]
    BY <2>1 DEF SetPte, DentOf, SlotOf
  <2> QED
    BY <1>4, <2>2 DEF Filled, Reach
<1>5. ASSUME new, f # NULL
      PROVE  /\ f \in Frames \ m.used /\ m1 = Tabled(m, d, DentOf(v), f)
  <2>1. f \in Frames \ m.used
    BY <1>5, AllocFrameFree
  <2>2. NewTable(m, d, v, f) = Tabled(m, d, DentOf(v), f)
    BY DEF NewTable, Tabled, DentOf, EmptyTable, Slots
  <2> QED
    BY <1>5, <2>1, <2>2
<1>6. CASE ~new
  <2>1. m1 = m
    BY <1>6
  <2> HIDE DEF m1
  <2>2. r = IF ~Accessible(m, d, m.pd[d][DentOf(v)]) THEN [res |-> "NO_MEMORY", mem |-> m]
          ELSE IF Pte(m, d, v) # NULL THEN [res |-> "ALREADY_MAPPED", mem |-> m]
          ELSE [res |-> "SUCCESS", mem |-> SetPte(m, d, v, e)]
    BY <1>1, <1>6, <2>1
  <2> QED
    BY <1>4, <1>6, <2>2 DEF MapResult
<1>7. CASE new /\ (f = NULL \/ ~Accessible(m, d, f))
  BY <1>1, <1>7 DEF MapResult
<1>8. CASE new /\ f # NULL /\ Accessible(m, d, f)
  <2>1. f \in Frames \ m.used /\ m1 = Tabled(m, d, DentOf(v), f) /\ f # NULL
    BY <1>5, <1>8
  <2> HIDE DEF m1, f
  <2>2. /\ MemType(m1) /\ m1.pd[d][DentOf(v)] = f /\ m1.pt[f] = EmptyTable
    <3>1. TableAdded(m, m1, d, DentOf(v), f)
      BY <1>2, <2>1, TabledMem
    <3> QED
      BY <1>2, <3>1 DEF TableAdded
  <2>3. Accessible(m1, d, f)
    BY <1>3, <1>8 DEF Accessible
  <2>4. Pte(m1, d, v) = NULL /\ Pte(m, d, v) = NULL
    BY <1>2, <1>8, <2>1, <2>2, PteIs DEF EmptyTable
  <2>5. r = [res |-> "SUCCESS", mem |-> SetPte(m1, d, v, e)]
    BY <1>1, <1>8, <2>2, <2>3, <2>4
  <2>6. m1 = [used |-> m1.used, pd |-> m1.pd, pt |-> m1.pt]
    BY <2>2 DEF MemType
  <2>7. SetPte(m1, d, v, e) = Filled(m1, m1.used, m1.pd[d][DentOf(v)], SlotOf(v), e)
    BY <2>6 DEF SetPte, DentOf, SlotOf, Filled
  <2>8. Reach(m, m1, d, v)
    BY <1>8, <2>1 DEF Reach
  <2> QED
    BY <2>4, <2>5, <2>7, <2>8 DEF MapResult
<1> QED
  BY <1>6, <1>7, <1>8

-----------------------------------------------------------------------------
(***************************************************************************)
(* What a move leaves as it was.                                           *)
(***************************************************************************)

\* The pages that two directories map are the same.
SameMap(m, d, m2, d2) == \A v \in VPages : Pte(m2, d2, v) = Pte(m, d, v)

\* The pages of a call and the promised pages by the state of the program.
LEMMA CallPagesOf ==
  ASSUME NEW r \in ProgramRec
  PROVE  /\ Calling(r) <=> r.at \notin {"none", "user"}
         /\ r.at \in {"frame", "map"} => DonePages(r) = r.call.base .. r.call.base + r.call.i - 1
         /\ r.at \in {"undo", "unmap"} =>
              DonePages(r) = r.call.base + r.call.i .. r.call.base + r.call.count - 1
         /\ r.at = "return" /\ r.call.res = "SUCCESS" =>
              DonePages(r) = r.call.base .. r.call.base + r.call.count - 1
         /\ r.at = "return" /\ r.call.res # "SUCCESS" => DonePages(r) = {}
         /\ r.at \in {"none", "user"} => DonePages(r) = {}
<1>1. r.at \in {"none", "frame", "map", "undo", "unmap", "return", "user"}
  BY DEF ProgramRec
<1> QED
  BY <1>1 DEF Calling, DonePages

LEMMA PromisedOf ==
  ASSUME NEW r \in ProgramRec
  PROVE  /\ r.for = "stack" /\ r.at # "user" => Promised(r) = ImagePages
         /\ r.for = "brk" \/ (r.for = "none" /\ r.at = "user") =>
              Promised(r) = ImagePages \cup StackPages
                            \cup (Image.base + Image.count .. PageUp(r.brk) - 1)
         /\ r.for = "image" /\ r.at # "user" => Promised(r) = {}
         /\ r.for = "none" /\ r.at # "user" => Promised(r) = {}
<1>1. r.for \in {"none", "image", "stack", "brk"}
  BY DEF ProgramRec
<1> QED
  BY <1>1 DEF Promised

\* NoProgram is a program.
LEMMA NoProgramOK ==
  /\ NoProgram \in ProgramRec /\ NoProgram.at = "none" /\ NoProgram.for = "none"
  /\ ~Calling(NoProgram) /\ Promised(NoProgram) = {}
<1>1. NoCall \in CallRec /\ NoProgram.at = "none" /\ NoProgram.for = "none"
  BY DEF NoCall, CallRec, Results, NoProgram
<1>2. NoProgram \in ProgramRec
  BY <1>1 DEF NoProgram, ProgramRec
<1> QED
  BY <1>1, <1>2, CallPagesOf, PromisedOf

\* The invariant of a program depends on the memory only through the pages that
\* its directory maps.
LEMMA ProgramKept ==
  ASSUME NEW m, NEW m2, NEW r, ProgramInv(m, r),
         r.at # "none" => r.dir \in UserDirsOf(m2) /\ SameMap(m, r.dir, m2, r.dir)
  PROVE  ProgramInv(m2, r)
<1>1. r \in ProgramRec
  BY DEF ProgramInv
<1>2. CASE r.at = "none"
  <2>1. r = NoProgram
    BY <1>2 DEF ProgramInv
  <2> QED
    BY <1>2, <2>1, NoProgramOK DEF ProgramInv
<1>3. CASE r.at # "none"
  <2>1. r.dir \in UserDirsOf(m2) /\ \A v \in VPages : Pte(m2, r.dir, v) = Pte(m, r.dir, v)
    BY <1>3 DEF SameMap
  <2>2. MappedIn(m2, r.dir) = MappedIn(m, r.dir)
    BY <2>1 DEF MappedIn
  <2>3. ASSUME CallPages(m, r) PROVE CallPages(m2, r)
    <3>1. \A v \in DonePages(r) : v \in VPages
      BY <2>3 DEF CallPages, MappedIn
    <3> QED
      BY <2>1, <2>2, <2>3, <3>1 DEF CallPages
  <2>4. \A v \in Promised(r) : v \in VPages \ IdentPages /\ Pte(m2, r.dir, v) # NULL /\ Pte(m2, r.dir, v).user
    BY <2>1 DEF ProgramInv
  <2> QED
    BY <1>3, <2>1, <2>3, <2>4 DEF ProgramInv
<1> QED
  BY <1>2, <1>3

\* A free frame is neither a directory nor a page table.
LEMMA FreshFrame ==
  ASSUME NEW m, NEW pr, MemType(m), Books(m, pr), NEW f \in Frames \ m.used
  PROVE  f \notin DOMAIN m.pd /\ f \notin DOMAIN m.pt /\ f \notin Reserved /\ f # NULL /\ f \in Nat
<1>1. f \notin StructOf(m)
  BY DEF Books
<1>2. BootDir \in Reserved /\ IdentTables \subseteq Reserved
  BY Constants DEF IdentTables
<1>3. f \in Nat /\ f # NULL
  BY Constants
<1> QED
  BY <1>1, <1>2, <1>3 DEF StructOf, UserDirsOf, NewTablesOf

-----------------------------------------------------------------------------
(***************************************************************************)
(* A new page table.                                                       *)
(***************************************************************************)
LEMMA TableMemInv ==
  ASSUME NEW m, MemInv(m), NEW d \in DOMAIN m.pd, NEW i \in Dents, m.pd[d][i] = NULL,
         d = BootDir => i = USER_PD_ENTRY \/ i \in DeviceEntries,
         NEW f \in Frames, f \notin DOMAIN m.pt, f \notin Reserved, f # NULL,
         NEW m2, TableAdded(m, m2, d, i, f)
  PROVE  MemInv(m2)
<1>1. MemType(m) /\ TablesShared(m) /\ BootEntries(m) /\ KernelOnly(m) /\ IdentComplete(m)
  BY DEF MemInv
<1>2. /\ DOMAIN m2.pd = DOMAIN m.pd /\ MemType(m2)
      /\ \A e \in DOMAIN m.pd, k \in Dents : m2.pd[e][k] = IF e = d /\ k = i THEN f ELSE m.pd[e][k]
      /\ m2.pt[f] = EmptyTable
      /\ \A x \in DOMAIN m.pt \ {f} : m2.pt[x] = m.pt[x]
  BY DEF TableAdded
<1>3. \A e \in DOMAIN m.pd, k \in Dents : m.pd[e][k] # f
  BY <1>1 DEF MemType
<1>4. BootDir \in DOMAIN m.pd
  BY <1>1 DEF MemType
<1>5. TablesShared(m2)
  <2>1. SUFFICES ASSUME NEW a \in DOMAIN m.pd, NEW b \in DOMAIN m.pd, NEW x \in Dents, NEW y \in Dents,
                        m2.pd[a][x] # NULL, m2.pd[a][x] = m2.pd[b][y]
                 PROVE  /\ x = y
                        /\ a # b => m2.pd[BootDir][x] = m2.pd[a][x] /\ x # USER_PD_ENTRY
    BY <1>2 DEF TablesShared
  <2>2. CASE m2.pd[a][x] = f
    <3>1. a = d /\ x = i /\ b = d /\ y = i
      BY <1>2, <1>3, <2>1, <2>2, ZenonT(60)
    <3> QED
      BY <3>1
  <2>3. CASE m2.pd[a][x] # f
    <3>1. m2.pd[a][x] = m.pd[a][x] /\ m2.pd[b][y] = m.pd[b][y]
      BY <1>2, <2>1, <2>3
    <3>2. x = y /\ (a # b => m.pd[BootDir][x] = m.pd[a][x] /\ x # USER_PD_ENTRY)
      <4>1. m.pd[a][x] # NULL /\ m.pd[a][x] = m.pd[b][y]
        BY <2>1, <3>1
      <4> QED
        BY <1>1, <4>1 DEF TablesShared
    <3>3. m2.pd[BootDir][x] = IF BootDir = d /\ x = i THEN f ELSE m.pd[BootDir][x]
      BY <1>2, <1>4
    <3>4. BootDir = d /\ x = i => m.pd[BootDir][x] = NULL
      OBVIOUS
    <3> QED
      BY <2>1, <3>1, <3>2, <3>3, <3>4
  <2> QED
    BY <2>2, <2>3
<1>6. BootEntries(m2)
  <2>1. \A k \in Dents : m2.pd[BootDir][k] = IF BootDir = d /\ k = i THEN f ELSE m.pd[BootDir][k]
    BY <1>2, <1>4
  <2>2. \A k \in Dents : m.pd[BootDir][k] # NULL => k < IDENT_TABLES \/ k = USER_PD_ENTRY \/ k \in DeviceEntries
    BY <1>1 DEF BootEntries
  <2> QED
    BY <2>1, <2>2 DEF BootEntries
<1>7. KernelOnly(m2)
  <2>1. SUFFICES ASSUME NEW k \in Dents \ {USER_PD_ENTRY}, NEW j \in Slots,
                        m2.pd[BootDir][k] # NULL, m2.pt[m2.pd[BootDir][k]][j] # NULL
                 PROVE  ~m2.pt[m2.pd[BootDir][k]][j].user
    BY DEF KernelOnly
  <2>2. m2.pd[BootDir][k] # f
    BY <1>2, <2>1 DEF EmptyTable
  <2>3. m2.pd[BootDir][k] = m.pd[BootDir][k]
    BY <1>2, <1>4, <2>2
  <2>4. m.pd[BootDir][k] \in DOMAIN m.pt
    BY <1>1, <1>4, <2>1, <2>3 DEF MemType
  <2>5. m2.pt[m2.pd[BootDir][k]] = m.pt[m.pd[BootDir][k]]
    BY <1>2, <2>2, <2>3, <2>4
  <2> QED
    BY <1>1, <2>1, <2>3, <2>5 DEF KernelOnly
<1>8. IdentComplete(m2)
  <2>1. SUFFICES ASSUME NEW k \in 0 .. IDENT_TABLES - 1
                 PROVE  /\ \A e \in DOMAIN m.pd : m2.pd[e][k] = BootTables[k]
                        /\ \A j \in Slots : k + j # 0 => m2.pt[BootTables[k]][j] # NULL
    BY <1>2 DEF IdentComplete
  <2>2. /\ k \in Dents /\ BootTables[k] \in Reserved /\ BootTables[k] # f /\ BootTables[k] # NULL
    BY Constants
  <2>3. BootTables[k] \in DOMAIN m.pt
    BY <1>1 DEF MemType, IdentTables
  <2>4. \A e \in DOMAIN m.pd : m.pd[e][k] = BootTables[k]
    BY <1>1 DEF IdentComplete
  <2>5. i # k
    BY <2>2, <2>4
  <2>6. m2.pt[BootTables[k]] = m.pt[BootTables[k]]
    BY <1>2, <2>2, <2>3
  <2> QED
    BY <1>1, <1>2, <2>2, <2>4, <2>5, <2>6 DEF IdentComplete
<1> QED
  BY <1>2, <1>5, <1>6, <1>7, <1>8 DEF MemInv

\* It is empty, so that no page is mapped or unmapped by it.
LEMMA TablePte ==
  ASSUME NEW m, MemType(m), NEW d \in DOMAIN m.pd, NEW i \in Dents, m.pd[d][i] = NULL,
         NEW f \in Frames, f \notin DOMAIN m.pt, f # NULL,
         NEW m2, TableAdded(m, m2, d, i, f), NEW c \in DOMAIN m.pd
  PROVE  SameMap(m, c, m2, c)
<1>1. SUFFICES ASSUME NEW v \in VPages PROVE Pte(m2, c, v) = Pte(m, c, v)
  BY DEF SameMap
<1>2. DentOf(v) \in Dents /\ SlotOf(v) \in Slots
  BY PageParts
<1>3. /\ \A e \in DOMAIN m.pd, k \in Dents : m2.pd[e][k] = IF e = d /\ k = i THEN f ELSE m.pd[e][k]
      /\ m2.pt[f] = EmptyTable
      /\ \A x \in DOMAIN m.pt \ {f} : m2.pt[x] = m.pt[x]
  BY DEF TableAdded
<1>4. CASE c = d /\ DentOf(v) = i
  <2>1. m2.pd[c][DentOf(v)] = f /\ m2.pt[f][SlotOf(v)] = NULL
    BY <1>2, <1>3, <1>4 DEF EmptyTable
  <2> QED
    BY <1>4, <2>1, PteIs
<1>5. CASE ~(c = d /\ DentOf(v) = i)
  <2>1. m2.pd[c][DentOf(v)] = m.pd[c][DentOf(v)]
    BY <1>2, <1>3, <1>5
  <2>2. m.pd[c][DentOf(v)] \in DOMAIN m.pt \cup {NULL}
    BY <1>2 DEF MemType
  <2>3. m.pd[c][DentOf(v)] # NULL => m2.pt[m.pd[c][DentOf(v)]] = m.pt[m.pd[c][DentOf(v)]]
    BY <1>3, <2>2
  <2> QED
    BY <2>1, <2>3, PteIs
<1> QED
  BY <1>4, <1>5

\* The books of a new table: the entries that hold frames are the same.
LEMMA TableBooks ==
  ASSUME NEW m, NEW pr, MemType(m), Books(m, pr),
         NEW d \in DOMAIN m.pd, NEW i \in Dents, m.pd[d][i] = NULL, NEW f \in Frames \ m.used,
         NEW m2, TableAdded(m, m2, d, i, f),
         \A p \in Programs : pr[p].at = "unmap" =>
           /\ pr[p].dir \in DOMAIN m.pd
           /\ DentOf(PageOf(pr[p])) \in Dents
  PROVE  Books(m2, pr)
<1>1. f \notin DOMAIN m.pd /\ f \notin DOMAIN m.pt /\ f \notin Reserved /\ f # NULL
  BY FreshFrame
<1>2. /\ DOMAIN m2.pd = DOMAIN m.pd /\ DOMAIN m2.pt = DOMAIN m.pt \cup {f} /\ m2.used = m.used \cup {f}
      /\ \A e \in DOMAIN m.pd, k \in Dents : m2.pd[e][k] = IF e = d /\ k = i THEN f ELSE m.pd[e][k]
      /\ m2.pt[f] = EmptyTable
      /\ \A x \in DOMAIN m.pt \ {f} : m2.pt[x] = m.pt[x]
  BY DEF TableAdded
<1>3. f \notin IdentTables
  BY <1>1, Constants DEF IdentTables
<1>4. UserDirsOf(m2) = UserDirsOf(m) /\ NewTablesOf(m2) = NewTablesOf(m) \cup {f}
  BY <1>2, <1>3 DEF UserDirsOf, NewTablesOf
<1>5. m2.used \ StructOf(m2) = m.used \ StructOf(m) /\ StructOf(m2) = StructOf(m) \cup {f}
  BY <1>2, <1>4 DEF StructOf
<1>6. NewTablesOf(m) \subseteq DOMAIN m.pt /\ NULL \notin DOMAIN m.pt
  <2>1. DOMAIN m.pt \subseteq Frames
    <3>1. NewTablesOf(m) \subseteq Frames
      BY DEF Books, StructOf, MemType
    <3> QED
      BY <3>1, Constants DEF NewTablesOf, IdentTables
  <2> QED
    BY <2>1, Constants DEF NewTablesOf
<1>7. HeldOf(m2, pr) = HeldOf(m, pr)
  <2>1. ASSUME NEW x \in NewTablesOf(m) \X Slots
        PROVE  /\ m2.pt[x[1]] = m.pt[x[1]]
               /\ x \in UndoneOf(m2, pr) <=> x \in UndoneOf(m, pr)
    <3>1. x[1] \in DOMAIN m.pt /\ x[1] # f /\ x[1] # NULL
      BY <1>1, <1>6
    <3>2. ASSUME NEW p \in Programs, pr[p].at = "unmap"
          PROVE  x = EntryOf(m2, pr[p].dir, PageOf(pr[p])) <=> x = EntryOf(m, pr[p].dir, PageOf(pr[p]))
      BY <1>2, <3>1, <3>2 DEF EntryOf
    <3> QED
      BY <1>2, <3>1, <3>2 DEF UndoneOf
  <2>2. ASSUME NEW x \in NewTablesOf(m2) \X Slots, m2.pt[x[1]][x[2]] # NULL
        PROVE  x \in NewTablesOf(m) \X Slots
    BY <1>2, <1>4, <2>2 DEF EmptyTable
  <2>3. ASSUME NEW x PROVE x \in HeldOf(m2, pr) <=> x \in HeldOf(m, pr)
    <3>1. CASE x \in NewTablesOf(m) \X Slots
      <4>1. x \in NewTablesOf(m2) \X Slots
        BY <1>4, <3>1
      <4> QED
        BY <2>1, <3>1, <4>1 DEF HeldOf
    <3>2. CASE x \notin NewTablesOf(m) \X Slots
      BY <2>2, <3>2 DEF HeldOf
    <3> QED
      BY <3>1, <3>2
  <2> QED
    BY <2>3
<1>8. \A x \in HeldOf(m, pr) : m2.pt[x[1]] = m.pt[x[1]]
  BY <1>1, <1>2, <1>6 DEF HeldOf
<1>9. Reserved \cap NewTablesOf(m2) = {} /\ UserDirsOf(m2) \cap NewTablesOf(m2) = {}
      /\ Reserved \cap UserDirsOf(m2) = {} /\ StructOf(m2) \subseteq m2.used
  <2>1. /\ Reserved \cap NewTablesOf(m) = {} /\ UserDirsOf(m) \cap NewTablesOf(m) = {}
        /\ Reserved \cap UserDirsOf(m) = {} /\ StructOf(m) \subseteq m.used
    BY DEF Books
  <2>2. f \notin UserDirsOf(m)
    BY <1>1 DEF UserDirsOf
  <2> QED
    BY <1>1, <1>2, <1>4, <1>5, <2>1, <2>2
<1>10. EntryFrames(m2, pr) = EntryFrames(m, pr)
  BY <1>7, <1>8 DEF EntryFrames
<1> QED
  BY <1>5, <1>9, <1>10 DEF Books

-----------------------------------------------------------------------------
(***************************************************************************)
(* Frames held once.                                                       *)
(***************************************************************************)
LEMMA HeldSwap ==
  ASSUME NEW F, NEW g, NEW h, HeldOnce(F, g, h)
  PROVE  HeldOnce(F, h, g)
  BY DEF HeldOnce

\* A frame more, and one that holds it.
LEMMA HeldGrow ==
  ASSUME NEW F, NEW g, NEW h, HeldOnce(F, g, h), NEW f, f \notin F, NEW y, y \notin DOMAIN g,
         NEW g2, DOMAIN g2 = DOMAIN g \cup {y}, g2[y] = f, \A x \in DOMAIN g : g2[x] = g[x]
  PROVE  HeldOnce(F \cup {f}, g2, h)
<1>1. \A x \in DOMAIN g : g[x] \in F
  BY DEF HeldOnce
<1>2. \A p \in DOMAIN h : h[p] \in F
  BY DEF HeldOnce
<1>3. \A x \in DOMAIN g2 : g2[x] \in F \cup {f} /\ \A z \in DOMAIN g2 : g2[x] = g2[z] => x = z
  BY <1>1 DEF HeldOnce
<1>4. \A p \in DOMAIN h : h[p] \in F \cup {f} /\ \A q \in DOMAIN h : h[p] = h[q] => p = q
  BY <1>2 DEF HeldOnce
<1>5. \A x \in DOMAIN g2, p \in DOMAIN h : g2[x] # h[p]
  BY <1>2 DEF HeldOnce
<1>6. \A k \in F \cup {f} : (\E x \in DOMAIN g2 : g2[x] = k) \/ (\E p \in DOMAIN h : h[p] = k)
  BY DEF HeldOnce
<1> QED
  BY <1>3, <1>4, <1>5, <1>6 DEF HeldOnce

\* One that holds a frame gives it up.
LEMMA HeldShrink ==
  ASSUME NEW F, NEW g, NEW h, HeldOnce(F, g, h), NEW y \in DOMAIN g,
         NEW g2, DOMAIN g2 = DOMAIN g \ {y}, \A x \in DOMAIN g2 : g2[x] = g[x]
  PROVE  HeldOnce(F \ {g[y]}, g2, h)
<1>1. \A x \in DOMAIN g2 : g2[x] \in F \ {g[y]} /\ \A z \in DOMAIN g2 : g2[x] = g2[z] => x = z
  BY DEF HeldOnce
<1>2. \A p \in DOMAIN h : h[p] \in F \ {g[y]} /\ \A q \in DOMAIN h : h[p] = h[q] => p = q
  BY DEF HeldOnce
<1>3. \A x \in DOMAIN g2, p \in DOMAIN h : g2[x] # h[p]
  BY DEF HeldOnce
<1>4. ASSUME NEW k \in F \ {g[y]}
      PROVE  (\E x \in DOMAIN g2 : g2[x] = k) \/ (\E p \in DOMAIN h : h[p] = k)
  <2>1. (\E x \in DOMAIN g : g[x] = k) \/ (\E p \in DOMAIN h : h[p] = k)
    BY DEF HeldOnce
  <2> QED
    BY <2>1
<1> QED
  BY <1>1, <1>2, <1>3, <1>4 DEF HeldOnce

-----------------------------------------------------------------------------
(***************************************************************************)
(* The world of all programs: what each move has to show.                  *)
(***************************************************************************)

\* A program that runs has a directory of its own; the page at which a call
\* maps or unmaps is outside the identity map's and the frame buffer's tables.
LEMMA WorldFacts ==
  ASSUME NEW m, NEW pr, World(m, pr), NEW p \in Programs
  PROVE  /\ pr[p] \in ProgramRec /\ ProgramInv(m, pr[p])
         /\ pr[p].at # "none" => pr[p].dir \in DOMAIN m.pd /\ pr[p].dir \in UserDirsOf(m)
                                 /\ pr[p].dir # BootDir
         /\ \A q \in Programs :
              pr[p].at # "none" /\ pr[q].at # "none" /\ pr[p].dir = pr[q].dir => p = q
         /\ pr[p].at \in {"map", "unmap"} \/ (pr[p].at = "undo" /\ pr[p].call.i # pr[p].call.count) =>
              LET v == PageOf(pr[p]) IN
              /\ v \in pr[p].call.base .. pr[p].call.base + pr[p].call.count - 1
              /\ v \in VPages \ {0} /\ DentOf(v) \notin DeviceEntries /\ DentOf(v) \in Dents
<1>1. pr[p] \in ProgramRec /\ ProgramInv(m, pr[p])
  BY DEF World
<1>2. pr[p].at # "none" => pr[p].dir \in UserDirsOf(m)
  BY <1>1 DEF ProgramInv
<1>3. \A q \in Programs : pr[p].at # "none" /\ pr[q].at # "none" /\ pr[p].dir = pr[q].dir => p = q
  BY DEF World, DirsDistinct
<1>4. ASSUME pr[p].at \in {"map", "unmap"} \/ (pr[p].at = "undo" /\ pr[p].call.i # pr[p].call.count)
      PROVE  LET v == PageOf(pr[p]) IN
             /\ v \in pr[p].call.base .. pr[p].call.base + pr[p].call.count - 1
             /\ v \in VPages \ {0} /\ DentOf(v) \notin DeviceEntries /\ DentOf(v) \in Dents
  <2>1. CallProgress(pr[p])
    BY <1>1, <1>4 DEF ProgramInv, Calling
  <2>2. pr[p].call.base \in Nat /\ pr[p].call.count \in Nat /\ pr[p].call.i \in Nat
    BY <1>1 DEF ProgramRec, CallRec
  <2>3. pr[p].call.i < pr[p].call.count
    BY <1>4, <2>1, <2>2 DEF CallProgress
  <2>4. PageOf(pr[p]) \in pr[p].call.base .. pr[p].call.base + pr[p].call.count - 1
    BY <2>2, <2>3 DEF PageOf
  <2>5. PageOf(pr[p]) \in VPages \ {0} /\ DentOf(PageOf(pr[p])) \notin DeviceEntries
    BY <2>1, <2>4 DEF CallProgress
  <2> QED
    BY <2>4, <2>5, PageParts
<1> QED
  BY <1>1, <1>2, <1>3, <1>4 DEF UserDirsOf

\* After a move of one program the others need to find their pages as before.
LEMMA OneProgram ==
  ASSUME NEW m, NEW pr, World(m, pr), NEW p \in Programs, NEW r \in ProgramRec,
         NEW m2, MemInv(m2), Books(m2, [pr EXCEPT ![p] = r]), ProgramInv(m2, r),
         \A q \in Programs \ {p} : pr[q].at # "none" =>
           /\ pr[q].dir \in UserDirsOf(m2) /\ SameMap(m, pr[q].dir, m2, pr[q].dir)
           /\ r.at # "none" => r.dir # pr[q].dir
  PROVE  World(m2, [pr EXCEPT ![p] = r])
<1> DEFINE pr2 == [pr EXCEPT ![p] = r]
<1>1. pr \in [Programs -> ProgramRec] /\ DirsDistinct(pr) /\ \A q \in Programs : ProgramInv(m, pr[q])
  BY DEF World
<1>2. pr2 \in [Programs -> ProgramRec] /\ pr2[p] = r /\ \A q \in Programs \ {p} : pr2[q] = pr[q]
  BY <1>1
<1> HIDE DEF pr2
<1>3. ASSUME NEW q \in Programs PROVE ProgramInv(m2, pr2[q])
  <2>1. CASE q = p
    BY <1>2, <2>1
  <2>2. CASE q # p
    <3>1. ProgramInv(m, pr[q]) /\ pr2[q] = pr[q]
      BY <1>1, <1>2, <2>2
    <3> QED
      BY <2>2, <3>1, ProgramKept
  <2> QED
    BY <2>1, <2>2
<1>4. DirsDistinct(pr2)
  BY <1>1, <1>2 DEF DirsDistinct
<1> QED
  BY <1>2, <1>3, <1>4 DEF World, pr2

\* The entries that hold frames, when entry y alone changes.
HeldButOne(m, pr, m2, pr2, y) ==
  /\ \A x : x # y => (x \in HeldOf(m2, pr2) <=> x \in HeldOf(m, pr))
  /\ \A x \in HeldOf(m, pr) : x # y => EntryFrames(m2, pr2)[x] = EntryFrames(m, pr)[x]
  /\ y \notin HeldOf(m, pr) /\ y \notin HeldOf(m2, pr2) => EntryFrames(m2, pr2) = EntryFrames(m, pr)

LEMMA HeldExcept ==
  ASSUME NEW m, NEW pr, NEW m2, NEW pr2, NewTablesOf(m2) = NewTablesOf(m), NEW y,
         \A x \in NewTablesOf(m) \X Slots : x # y =>
           /\ m2.pt[x[1]][x[2]] = m.pt[x[1]][x[2]]
           /\ x \in UndoneOf(m2, pr2) <=> x \in UndoneOf(m, pr)
  PROVE  HeldButOne(m, pr, m2, pr2, y)
<1>1. ASSUME NEW x, x # y PROVE x \in HeldOf(m2, pr2) <=> x \in HeldOf(m, pr)
  BY <1>1 DEF HeldOf
<1>2. \A x \in HeldOf(m, pr) : x # y => m2.pt[x[1]][x[2]] = m.pt[x[1]][x[2]]
  BY DEF HeldOf
<1>3. \A x \in HeldOf(m, pr) : x # y => EntryFrames(m2, pr2)[x] = EntryFrames(m, pr)[x]
  BY <1>1, <1>2 DEF EntryFrames
<1>4. ASSUME y \notin HeldOf(m, pr), y \notin HeldOf(m2, pr2)
      PROVE  EntryFrames(m2, pr2) = EntryFrames(m, pr)
  <2>1. HeldOf(m2, pr2) = HeldOf(m, pr)
    BY <1>1, <1>4
  <2> QED
    BY <1>2, <1>4, <2>1 DEF EntryFrames
<1> QED
  BY <1>1, <1>3, <1>4 DEF HeldButOne

\* The entries that a roll-back is at, when one program moves and others are
\* not at entry y.
UndoneButOne(m, pr, m2, pr2, p, y) ==
  /\ \A x : x # y => (x \in UndoneOf(m2, pr2) <=> x \in UndoneOf(m, pr))
  /\ y \in UndoneOf(m2, pr2) <=> pr2[p].at = "unmap"
  /\ y \in UndoneOf(m, pr) <=> pr[p].at = "unmap"

LEMMA UndoneExcept ==
  ASSUME NEW m, NEW pr, pr \in [Programs -> ProgramRec], NEW p \in Programs, NEW r,
         NEW m2, m2.pd = m.pd, NEW y,
         pr[p].at = "unmap" => EntryOf(m, pr[p].dir, PageOf(pr[p])) = y,
         r.at = "unmap" => EntryOf(m, r.dir, PageOf(r)) = y,
         \A q \in Programs \ {p} : pr[q].at = "unmap" => EntryOf(m, pr[q].dir, PageOf(pr[q])) # y
  PROVE  UndoneButOne(m, pr, m2, [pr EXCEPT ![p] = r], p, y)
<1> DEFINE pr2 == [pr EXCEPT ![p] = r]
<1>1. pr2[p] = r /\ \A q \in Programs \ {p} : pr2[q] = pr[q]
  OBVIOUS
<1>2. \A d, v : EntryOf(m2, d, v) = EntryOf(m, d, v)
  BY DEF EntryOf
<1> HIDE DEF pr2
<1>3. \A x : x \in UndoneOf(m2, pr2) <=>
        \E q \in Programs : pr2[q].at = "unmap" /\ x = EntryOf(m, pr2[q].dir, PageOf(pr2[q]))
  BY <1>2 DEF UndoneOf
<1>4. \A x : x \in UndoneOf(m, pr) <=>
        \E q \in Programs : pr[q].at = "unmap" /\ x = EntryOf(m, pr[q].dir, PageOf(pr[q]))
  BY DEF UndoneOf
<1>5. ASSUME NEW x, x # y PROVE x \in UndoneOf(m2, pr2) <=> x \in UndoneOf(m, pr)
  <2>1. ASSUME NEW q \in Programs
        PROVE  pr2[q].at = "unmap" /\ x = EntryOf(m, pr2[q].dir, PageOf(pr2[q]))
               <=> pr[q].at = "unmap" /\ x = EntryOf(m, pr[q].dir, PageOf(pr[q]))
    BY <1>1, <1>5
  <2> QED
    BY <1>3, <1>4, <2>1
<1>6. y \in UndoneOf(m2, pr2) <=> pr2[p].at = "unmap"
  BY <1>1, <1>3
<1>7. y \in UndoneOf(m, pr) <=> pr[p].at = "unmap"
  BY <1>4
<1>8. UndoneButOne(m, pr, m2, pr2, p, y)
  BY <1>5, <1>6, <1>7 DEF UndoneButOne
<1> QED
  BY <1>8 DEF pr2

\* The calls that hold a frame, when one program moves.
HandsButOne(pr, pr2, p) ==
  /\ DOMAIN HandFrames(pr) = HandsOf(pr) /\ DOMAIN HandFrames(pr2) = HandsOf(pr2)
  /\ p \in HandsOf(pr) <=> pr[p].at = "map"
  /\ p \in HandsOf(pr2) <=> pr2[p].at = "map"
  /\ pr2[p].at = "map" => HandFrames(pr2)[p] = pr2[p].call.frame
  /\ pr[p].at = "map" => HandFrames(pr)[p] = pr[p].call.frame
  /\ \A q : q # p => (q \in HandsOf(pr2) <=> q \in HandsOf(pr))
  /\ \A q \in HandsOf(pr) : q # p => HandFrames(pr2)[q] = HandFrames(pr)[q]
  /\ pr[p].at # "map" /\ pr2[p].at # "map" => HandFrames(pr2) = HandFrames(pr)

LEMMA HandsExcept ==
  ASSUME NEW pr, pr \in [Programs -> ProgramRec], NEW p \in Programs, NEW r
  PROVE  HandsButOne(pr, [pr EXCEPT ![p] = r], p)
<1> DEFINE pr2 == [pr EXCEPT ![p] = r]
<1>1. pr2[p] = r /\ \A q \in Programs \ {p} : pr2[q] = pr[q]
  OBVIOUS
<1> HIDE DEF pr2
<1>2. \A q : q # p => (q \in HandsOf(pr2) <=> q \in HandsOf(pr))
  BY <1>1 DEF HandsOf
<1>3. (p \in HandsOf(pr) <=> pr[p].at = "map") /\ (p \in HandsOf(pr2) <=> pr2[p].at = "map")
  BY DEF HandsOf
<1>4. \A q \in HandsOf(pr) : q # p => HandFrames(pr2)[q] = HandFrames(pr)[q]
  BY <1>1, <1>2 DEF HandFrames, HandsOf
<1>5. /\ pr2[p].at = "map" => HandFrames(pr2)[p] = pr2[p].call.frame
      /\ pr[p].at = "map" => HandFrames(pr)[p] = pr[p].call.frame
  BY <1>3 DEF HandFrames
<1>6. DOMAIN HandFrames(pr) = HandsOf(pr) /\ DOMAIN HandFrames(pr2) = HandsOf(pr2)
  BY DEF HandFrames
<1>7. ASSUME pr[p].at # "map", pr2[p].at # "map" PROVE HandFrames(pr2) = HandFrames(pr)
  <2>1. HandsOf(pr2) = HandsOf(pr) /\ \A q \in HandsOf(pr) : pr2[q] = pr[q]
    BY <1>1, <1>2, <1>3, <1>7 DEF HandsOf
  <2> QED
    BY <2>1 DEF HandFrames
<1>8. HandsButOne(pr, pr2, p)
  BY <1>2, <1>3, <1>4, <1>5, <1>6, <1>7 DEF HandsButOne
<1> QED
  BY <1>8 DEF pr2

\* A new page table keeps the world as it is.
LEMMA ReachWorld ==
  ASSUME NEW m0, NEW pr, World(m0, pr), NEW d \in DOMAIN m0.pd, NEW v \in VPages,
         m0.pd[d][DentOf(v)] = NULL /\ d = BootDir =>
           DentOf(v) = USER_PD_ENTRY \/ DentOf(v) \in DeviceEntries,
         NEW m, Reach(m0, m, d, v)
  PROVE  /\ World(m, pr)
         /\ DOMAIN m.pd = DOMAIN m0.pd /\ m.pd[d][DentOf(v)] # NULL
         /\ m0.used \subseteq m.used
         /\ \A c \in DOMAIN m0.pd : SameMap(m0, c, m, c)
<1>1. CASE m = m0 /\ m0.pd[d][DentOf(v)] # NULL
  BY <1>1 DEF SameMap
<1>2. CASE m0.pd[d][DentOf(v)] = NULL /\ \E f \in Frames \ m0.used : m = Tabled(m0, d, DentOf(v), f)
  <2>1. PICK f \in Frames \ m0.used : m = Tabled(m0, d, DentOf(v), f)
    BY <1>2
  <2>2. MemInv(m0) /\ Books(m0, pr) /\ MemType(m0)
    BY DEF World, MemInv
  <2>3. DentOf(v) \in Dents
    BY PageParts
  <2>4. TableAdded(m0, m, d, DentOf(v), f)
    BY <2>1, <2>2, <2>3, TabledMem
  <2>5. f \notin DOMAIN m0.pd /\ f \notin DOMAIN m0.pt /\ f \notin Reserved /\ f # NULL
    BY <2>2, FreshFrame
  <2>6. MemInv(m)
    BY <1>2, <2>2, <2>3, <2>4, <2>5, TableMemInv
  <2>7. ASSUME NEW c \in DOMAIN m0.pd PROVE SameMap(m0, c, m, c)
    BY <1>2, <2>2, <2>3, <2>4, <2>5, TablePte
  <2>8. Books(m, pr)
    <3>1. ASSUME NEW p \in Programs, pr[p].at = "unmap"
          PROVE  pr[p].dir \in DOMAIN m0.pd /\ DentOf(PageOf(pr[p])) \in Dents
      BY <3>1, WorldFacts
    <3> QED
      BY <1>2, <2>2, <2>3, <2>4, <3>1, TableBooks
  <2>9. DOMAIN m.pd = DOMAIN m0.pd /\ m.pd[d][DentOf(v)] = f /\ m.used = m0.used \cup {f}
    BY <2>3, <2>4 DEF TableAdded
  <2>10. ASSUME NEW p \in Programs PROVE ProgramInv(m, pr[p])
    <3>1. ProgramInv(m0, pr[p]) /\ (pr[p].at # "none" => pr[p].dir \in DOMAIN m0.pd /\ pr[p].dir \in UserDirsOf(m0))
      BY WorldFacts
    <3>2. UserDirsOf(m) = UserDirsOf(m0)
      BY <2>9 DEF UserDirsOf
    <3> QED
      BY <2>7, <3>1, <3>2, ProgramKept
  <2>11. World(m, pr)
    BY <2>6, <2>8, <2>10 DEF World
  <2> QED
    BY <2>5, <2>7, <2>9, <2>11
<1> QED
  BY <1>1, <1>2 DEF Reach

-----------------------------------------------------------------------------
(***************************************************************************)
(* An entry written to a page table that hangs in one directory only.      *)
(***************************************************************************)

\* Page v of directory d has a table that is no other's.
Own(m, d, v) ==
  /\ d \in DOMAIN m.pd /\ v \in VPages \ IdentPages /\ DentOf(v) \notin DeviceEntries
  /\ m.pd[d][DentOf(v)] \in NewTablesOf(m) /\ m.pd[d][DentOf(v)] # NULL
  /\ \A e \in DOMAIN m.pd, k \in Dents :
       m.pd[e][k] = m.pd[d][DentOf(v)] => e = d /\ k = DentOf(v)

PageWritten(m, m2, U, d, v, x) ==
  /\ MemInv(m2) /\ m2.used = U /\ m2.pd = m.pd /\ DOMAIN m2.pt = DOMAIN m.pt
  /\ \A c \in DOMAIN m.pd \ {d} : SameMap(m, c, m2, c)
  /\ \A w \in VPages : Pte(m2, d, w) = IF w = v THEN x ELSE Pte(m, d, w)
  /\ \A y \in NewTablesOf(m) \X Slots :
       m2.pt[y[1]][y[2]] = IF y = EntryOf(m, d, v) THEN x ELSE m.pt[y[1]][y[2]]

\* m2 is m with x in the entry of page v, and the frames U in use.
FillOf(m, m2, U, d, v, x) == m2 = Filled(m, U, m.pd[d][DentOf(v)], SlotOf(v), x)

LEMMA FillMemInv ==
  ASSUME NEW m, MemInv(m), NEW d, NEW v, Own(m, d, v), NEW U \in SUBSET Frames,
         NEW x, x \in Entry \cup {NULL}, NEW m2, FillOf(m, m2, U, d, v, x)
  PROVE  PageWritten(m, m2, U, d, v, x)
<1> DEFINE t == m.pd[d][DentOf(v)]
<1>1. MemType(m) /\ TablesShared(m) /\ BootEntries(m) /\ KernelOnly(m) /\ IdentComplete(m)
  BY DEF MemInv
<1>2. /\ d \in DOMAIN m.pd /\ v \in VPages /\ v \notin IdentPages /\ DentOf(v) \notin DeviceEntries
      /\ t \in NewTablesOf(m) /\ t \in DOMAIN m.pt /\ t # NULL
      /\ \A e \in DOMAIN m.pd, k \in Dents : m.pd[e][k] = t => e = d /\ k = DentOf(v)
  BY DEF Own, NewTablesOf
<1>3. DentOf(v) \in Dents /\ SlotOf(v) \in Slots /\ ~(DentOf(v) < IDENT_TABLES)
  BY <1>2, PageParts
<1> HIDE DEF t
<1>4. Wrote(m, m2, U, t, SlotOf(v), x)
  <2>1. m2 = Filled(m, U, t, SlotOf(v), x)
    BY DEF FillOf, t
  <2> QED
    BY <1>1, <1>2, <1>3, <2>1, FilledMem
<1>5. /\ MemType(m2) /\ m2.used = U /\ m2.pd = m.pd /\ DOMAIN m2.pt = DOMAIN m.pt
      /\ \A y \in DOMAIN m.pt, k \in Slots : m2.pt[y][k] = IF y = t /\ k = SlotOf(v) THEN x ELSE m.pt[y][k]
  BY <1>4 DEF Wrote
<1>6. TablesShared(m2) /\ BootEntries(m2)
  BY <1>1, <1>5 DEF TablesShared, BootEntries
<1>7. BootDir \in DOMAIN m.pd
  BY <1>1 DEF MemType
<1>8. KernelOnly(m2)
  <2>1. SUFFICES ASSUME NEW k \in Dents \ {USER_PD_ENTRY}, NEW j \in Slots,
                        m.pd[BootDir][k] # NULL, m2.pt[m.pd[BootDir][k]][j] # NULL
                 PROVE  ~m2.pt[m.pd[BootDir][k]][j].user
    <3>1. m2.pd = m.pd
      BY <1>5
    <3> QED
      BY <3>1 DEF KernelOnly
  <2>2. m.pd[BootDir][k] # t
    <3>1. SUFFICES ASSUME m.pd[BootDir][k] = t PROVE FALSE
      OBVIOUS
    <3>2. k = DentOf(v)
      BY <1>2, <1>7, <3>1
    <3>3. k < IDENT_TABLES \/ k = USER_PD_ENTRY \/ k \in DeviceEntries
      BY <1>1, <2>1 DEF BootEntries
    <3> QED
      BY <1>2, <1>3, <3>2, <3>3
  <2>3. m.pd[BootDir][k] \in DOMAIN m.pt
    BY <1>1, <1>7, <2>1 DEF MemType
  <2>4. m2.pt[m.pd[BootDir][k]][j] = m.pt[m.pd[BootDir][k]][j]
    BY <1>5, <2>2, <2>3
  <2> QED
    BY <1>1, <2>1, <2>4, SMTT(40) DEF KernelOnly
<1>9. IdentComplete(m2)
  <2>1. SUFFICES ASSUME NEW k \in 0 .. IDENT_TABLES - 1, NEW j \in Slots, k + j # 0
                 PROVE  m2.pt[BootTables[k]][j] # NULL
    BY <1>1, <1>5 DEF IdentComplete
  <2>2. BootTables[k] \in IdentTables /\ BootTables[k] \in DOMAIN m.pt
    BY <1>1 DEF MemType, IdentTables
  <2>3. BootTables[k] # t
    BY <1>2, <2>2 DEF NewTablesOf
  <2>4. m.pt[BootTables[k]][j] # NULL
    BY <1>1, <2>1 DEF IdentComplete
  <2> QED
    BY <1>5, <2>2, <2>3, <2>4
<1>10. ASSUME NEW c \in DOMAIN m.pd, NEW w \in VPages
       PROVE  Pte(m2, c, w) = IF c = d /\ w = v THEN x ELSE Pte(m, c, w)
  <2>1. m2 = Filled(m, U, m.pd[d][DentOf(v)], SlotOf(v), x)
    BY DEF FillOf
  <2> QED
    BY <1>1, <1>2, <2>1, FilledPte DEF t
<1>11. ASSUME NEW y \in NewTablesOf(m) \X Slots
       PROVE  m2.pt[y[1]][y[2]] = IF y = EntryOf(m, d, v) THEN x ELSE m.pt[y[1]][y[2]]
  <2>1. y[1] \in DOMAIN m.pt /\ y[2] \in Slots
    BY DEF NewTablesOf
  <2>2. y = EntryOf(m, d, v) <=> y[1] = t /\ y[2] = SlotOf(v)
    <3>1. PICK a \in NewTablesOf(m), b \in Slots : y = <<a, b>>
      OBVIOUS
    <3> QED
      BY <3>1 DEF EntryOf, t
  <2> QED
    BY <1>5, <2>1, <2>2
<1> QED
  BY <1>2, <1>5, <1>6, <1>8, <1>9, <1>10, <1>11 DEF MemInv, SameMap, PageWritten

\* A page outside the identity map, or one that is not mapped, has its table for
\* itself once it has one.
LEMMA OwnTable ==
  ASSUME NEW m, MemInv(m), NEW d \in DOMAIN m.pd,
         NEW v \in VPages, DentOf(v) \notin DeviceEntries,
         m.pd[d][DentOf(v)] # NULL, v \notin IdentPages \/ (v # 0 /\ Pte(m, d, v) = NULL)
  PROVE  Own(m, d, v)
  BY PrivateTable DEF Own

\* The entry of such a page is its alone.
LEMMA OwnEntry ==
  ASSUME NEW m, NEW d, NEW v, Own(m, d, v)
  PROVE  LET y == EntryOf(m, d, v) IN
         /\ y \in NewTablesOf(m) \X Slots
         /\ m.pt[y[1]][y[2]] = Pte(m, d, v)
         /\ \A c \in DOMAIN m.pd, w \in VPages : EntryOf(m, c, w) = y => c = d /\ w = v
<1>1. /\ d \in DOMAIN m.pd /\ v \in VPages /\ m.pd[d][DentOf(v)] \in NewTablesOf(m)
      /\ m.pd[d][DentOf(v)] # NULL
      /\ \A e \in DOMAIN m.pd, k \in Dents :
           m.pd[e][k] = m.pd[d][DentOf(v)] => e = d /\ k = DentOf(v)
  BY DEF Own
<1>2. SlotOf(v) \in Slots
  BY <1>1, PageParts
<1>3. ASSUME NEW c \in DOMAIN m.pd, NEW w \in VPages, EntryOf(m, c, w) = EntryOf(m, d, v)
      PROVE  c = d /\ w = v
  <2>1. m.pd[c][DentOf(w)] = m.pd[d][DentOf(v)] /\ SlotOf(w) = SlotOf(v)
    BY <1>3 DEF EntryOf
  <2>2. DentOf(w) \in Dents
    BY PageParts
  <2>3. c = d /\ DentOf(w) = DentOf(v)
    BY <1>1, <2>1, <2>2
  <2> QED
    BY <1>1, <2>1, <2>3, PageParts
<1> QED
  BY <1>1, <1>2, <1>3, PteIs DEF EntryOf

\* No other program's call is at that entry.
LEMMA OthersElsewhere ==
  ASSUME NEW m, NEW pr, World(m, pr), NEW d, NEW v, Own(m, d, v), NEW q \in Programs,
         pr[q].at = "unmap", EntryOf(m, pr[q].dir, PageOf(pr[q])) = EntryOf(m, d, v)
  PROVE  pr[q].dir = d /\ PageOf(pr[q]) = v
<1>1. pr[q].dir \in DOMAIN m.pd /\ PageOf(pr[q]) \in VPages
  BY WorldFacts
<1> QED
  BY <1>1, OwnEntry

\* The kernel maps a fresh frame, for the heap or after a fault, in a directory
\* whose program makes no call meanwhile.
LEMMA KernelFill ==
  ASSUME NEW m, NEW pr, World(m, pr), NEW d, NEW v, Own(m, d, v), Pte(m, d, v) = NULL,
         \A p \in Programs : pr[p].at # "none" /\ pr[p].dir = d => pr[p].at = "user",
         NEW f \in Frames \ m.used,
         NEW m2, FillOf(m, m2, m.used \cup {f}, d, v, [frame |-> f, user |-> FALSE])
  PROVE  World(m2, pr)
<1> DEFINE e == [frame |-> f, user |-> FALSE]
           y == EntryOf(m, d, v)
<1>1. MemInv(m) /\ MemType(m) /\ Books(m, pr) /\ pr \in [Programs -> ProgramRec] /\ DirsDistinct(pr)
  BY DEF World, MemInv
<1>2. e \in Entry /\ m.used \cup {f} \in SUBSET Frames /\ f \in Frames /\ f \notin m.used
  BY <1>1, Constants DEF Entry, MemType
<1>3. /\ MemInv(m2) /\ m2.used = m.used \cup {f} /\ m2.pd = m.pd /\ DOMAIN m2.pt = DOMAIN m.pt
      /\ \A c \in DOMAIN m.pd \ {d} : SameMap(m, c, m2, c)
      /\ \A w \in VPages : Pte(m2, d, w) = IF w = v THEN e ELSE Pte(m, d, w)
      /\ \A x \in NewTablesOf(m) \X Slots :
           m2.pt[x[1]][x[2]] = IF x = y THEN e ELSE m.pt[x[1]][x[2]]
  <2>1. PageWritten(m, m2, m.used \cup {f}, d, v, e)
    BY <1>1, <1>2, FillMemInv
  <2> QED
    BY <2>1 DEF PageWritten
<1>4. y \in NewTablesOf(m) \X Slots /\ m.pt[y[1]][y[2]] = NULL
  BY OwnEntry
<1>5. y \notin UndoneOf(m, pr)
  BY OthersElsewhere DEF UndoneOf
<1>6. UserDirsOf(m2) = UserDirsOf(m) /\ NewTablesOf(m2) = NewTablesOf(m) /\ UndoneOf(m2, pr) = UndoneOf(m, pr)
  BY <1>3 DEF UserDirsOf, NewTablesOf, UndoneOf, EntryOf
<1> HIDE DEF e, y
<1>7. Books(m2, pr)
  <2>1. /\ \A x : x # y => (x \in HeldOf(m2, pr) <=> x \in HeldOf(m, pr))
        /\ \A x \in HeldOf(m, pr) : x # y => EntryFrames(m2, pr)[x] = EntryFrames(m, pr)[x]
    <3>1. \A x \in NewTablesOf(m) \X Slots : x # y =>
            m2.pt[x[1]][x[2]] = m.pt[x[1]][x[2]] /\ (x \in UndoneOf(m2, pr) <=> x \in UndoneOf(m, pr))
      BY <1>3, <1>6
    <3>2. HeldButOne(m, pr, m2, pr, y)
      BY <1>6, <3>1, HeldExcept
    <3> QED
      BY <3>2 DEF HeldButOne
  <2>2. m2.pt[y[1]][y[2]] = e /\ e # NULL /\ e.frame = f
    BY <1>2, <1>3, <1>4, Constants DEF e
  <2>3. y \notin HeldOf(m, pr) /\ y \in HeldOf(m2, pr)
    BY <1>2, <1>4, <1>5, <1>6, <2>2 DEF HeldOf
  <2>4. /\ DOMAIN EntryFrames(m2, pr) = DOMAIN EntryFrames(m, pr) \cup {y}
        /\ EntryFrames(m2, pr)[y] = f /\ y \notin DOMAIN EntryFrames(m, pr)
    BY <2>1, <2>2, <2>3 DEF EntryFrames
  <2>5. \A x \in DOMAIN EntryFrames(m, pr) : EntryFrames(m2, pr)[x] = EntryFrames(m, pr)[x]
    BY <2>1, <2>3 DEF EntryFrames
  <2>6. StructOf(m2) = StructOf(m)
    BY <1>6 DEF StructOf
  <2>7. HeldOnce(m.used \ StructOf(m), EntryFrames(m, pr), HandFrames(pr)) /\ StructOf(m) \subseteq m.used
    BY <1>1 DEF Books
  <2>8. HeldOnce((m.used \ StructOf(m)) \cup {f}, EntryFrames(m2, pr), HandFrames(pr))
    BY <1>2, <2>4, <2>5, <2>7, HeldGrow
  <2>9. m2.used \ StructOf(m2) = (m.used \ StructOf(m)) \cup {f} /\ StructOf(m2) \subseteq m2.used
    BY <1>2, <1>3, <2>6, <2>7
  <2> QED
    BY <1>1, <1>6, <2>8, <2>9 DEF Books
<1>8. ASSUME NEW p \in Programs PROVE ProgramInv(m2, pr[p])
  <2>1. ProgramInv(m, pr[p])
    BY DEF World
  <2>2. CASE pr[p].at = "none" \/ pr[p].dir # d
    <3>1. pr[p].at # "none" => pr[p].dir \in UserDirsOf(m2) /\ SameMap(m, pr[p].dir, m2, pr[p].dir)
      BY <1>3, <1>6, <2>2, WorldFacts
    <3> QED
      BY <2>1, <3>1, ProgramKept
  <2>3. CASE pr[p].at # "none" /\ pr[p].dir = d
    <3>1. pr[p].at = "user" /\ ~Calling(pr[p])
      BY <2>3 DEF Calling
    <3>2. \A w \in Promised(pr[p]) :
            w \in VPages \ IdentPages /\ Pte(m, d, w) # NULL /\ Pte(m, d, w).user
      BY <2>1, <2>3 DEF ProgramInv
    <3>3. \A w \in Promised(pr[p]) :
            w \in VPages \ IdentPages /\ Pte(m2, d, w) # NULL /\ Pte(m2, d, w).user
      BY <1>3, <3>2
    <3> QED
      BY <1>6, <2>1, <2>3, <3>1, <3>3 DEF ProgramInv
  <2> QED
    BY <2>2, <2>3
<1> QED
  BY <1>1, <1>3, <1>7, <1>8 DEF World

-----------------------------------------------------------------------------
(***************************************************************************)
(* The books when a program moves.                                         *)
(***************************************************************************)

\* A move that changes no page table and is not at a roll-back's entry.
Quiet(m, pr, m2, pr2) ==
  /\ StructOf(m2) = StructOf(m)
  /\ UserDirsOf(m2) = UserDirsOf(m) /\ NewTablesOf(m2) = NewTablesOf(m)
  /\ EntryFrames(m2, pr2) = EntryFrames(m, pr)

LEMMA QuietBooks ==
  ASSUME NEW m, NEW pr, pr \in [Programs -> ProgramRec], NEW p \in Programs, NEW r,
         pr[p].at # "unmap", r.at # "unmap",
         NEW m2, m2.pd = m.pd, m2.pt = m.pt
  PROVE  Quiet(m, pr, m2, [pr EXCEPT ![p] = r])
<1> DEFINE pr2 == [pr EXCEPT ![p] = r]
<1>1. UserDirsOf(m2) = UserDirsOf(m) /\ NewTablesOf(m2) = NewTablesOf(m) /\ StructOf(m2) = StructOf(m)
  BY DEF UserDirsOf, NewTablesOf, StructOf
<1>2. \A q \in Programs : pr2[q].at = "unmap" <=> pr[q].at = "unmap" /\ q # p
  OBVIOUS
<1>3. \A q \in Programs : pr[q].at = "unmap" => pr2[q] = pr[q]
  OBVIOUS
<1>4. {q \in Programs : pr2[q].at = "unmap"} = {q \in Programs : pr[q].at = "unmap"}
  BY <1>2
<1> HIDE DEF pr2
<1>5. UndoneOf(m2, pr2) = UndoneOf(m, pr)
  BY <1>3, <1>4 DEF UndoneOf, EntryOf
<1>6. HeldOf(m2, pr2) = HeldOf(m, pr)
  BY <1>1, <1>5 DEF HeldOf
<1>7. Quiet(m, pr, m2, pr2)
  BY <1>1, <1>6 DEF EntryFrames, Quiet
<1> QED
  BY <1>7 DEF pr2

\* A program takes a frame in hand, ...
LEMMA TakeBooks ==
  ASSUME NEW m, NEW pr, Books(m, pr), pr \in [Programs -> ProgramRec], NEW p \in Programs, NEW r,
         pr[p].at \notin {"map", "unmap"}, r.at = "map", NEW f, f \notin m.used, r.call.frame = f,
         NEW m2, m2.pd = m.pd, m2.pt = m.pt, m2.used = m.used \cup {f}
  PROVE  Books(m2, [pr EXCEPT ![p] = r])
<1> DEFINE pr2 == [pr EXCEPT ![p] = r]
<1>1. /\ StructOf(m2) = StructOf(m) /\ EntryFrames(m2, pr2) = EntryFrames(m, pr)
      /\ UserDirsOf(m2) = UserDirsOf(m) /\ NewTablesOf(m2) = NewTablesOf(m)
  <2>1. Quiet(m, pr, m2, pr2)
    BY QuietBooks
  <2> QED
    BY <2>1 DEF Quiet
<1>2. /\ DOMAIN HandFrames(pr2) = DOMAIN HandFrames(pr) \cup {p} /\ p \notin DOMAIN HandFrames(pr)
      /\ HandFrames(pr2)[p] = f /\ \A q \in DOMAIN HandFrames(pr) : HandFrames(pr2)[q] = HandFrames(pr)[q]
  <2>1. HandsButOne(pr, pr2, p) /\ pr2[p] = r
    BY HandsExcept
  <2> QED
    BY <2>1 DEF HandsButOne
<1>3. HeldOnce(m.used \ StructOf(m), HandFrames(pr), EntryFrames(m, pr)) /\ StructOf(m) \subseteq m.used
  BY HeldSwap DEF Books
<1> HIDE DEF pr2
<1>4. HeldOnce((m.used \ StructOf(m)) \cup {f}, HandFrames(pr2), EntryFrames(m, pr))
  BY <1>2, <1>3, HeldGrow
<1>5. m2.used \ StructOf(m2) = (m.used \ StructOf(m)) \cup {f} /\ StructOf(m2) \subseteq m2.used
  BY <1>1, <1>3
<1>6. HeldOnce(m2.used \ StructOf(m2), EntryFrames(m2, pr2), HandFrames(pr2))
  BY <1>1, <1>4, <1>5, HeldSwap
<1> QED
  BY <1>1, <1>5, <1>6 DEF Books, pr2

\* ... gives it back, ...
LEMMA GiveBooks ==
  ASSUME NEW m, NEW pr, Books(m, pr), pr \in [Programs -> ProgramRec], NEW p \in Programs, NEW r,
         pr[p].at = "map", r.at \notin {"map", "unmap"},
         NEW m2, m2.pd = m.pd, m2.pt = m.pt, m2.used = m.used \ {pr[p].call.frame}
  PROVE  Books(m2, [pr EXCEPT ![p] = r])
<1> DEFINE pr2 == [pr EXCEPT ![p] = r]
           f == pr[p].call.frame
<1>1. /\ StructOf(m2) = StructOf(m) /\ EntryFrames(m2, pr2) = EntryFrames(m, pr)
      /\ UserDirsOf(m2) = UserDirsOf(m) /\ NewTablesOf(m2) = NewTablesOf(m)
  <2>1. Quiet(m, pr, m2, pr2)
    BY QuietBooks
  <2> QED
    BY <2>1 DEF Quiet
<1>2. /\ DOMAIN HandFrames(pr2) = DOMAIN HandFrames(pr) \ {p} /\ p \in DOMAIN HandFrames(pr)
      /\ HandFrames(pr)[p] = f /\ \A q \in DOMAIN HandFrames(pr2) : HandFrames(pr2)[q] = HandFrames(pr)[q]
  <2>1. HandsButOne(pr, pr2, p) /\ pr2[p] = r
    BY HandsExcept
  <2> QED
    BY <2>1 DEF HandsButOne
<1>3. HeldOnce(m.used \ StructOf(m), HandFrames(pr), EntryFrames(m, pr)) /\ StructOf(m) \subseteq m.used
  BY HeldSwap DEF Books
<1> HIDE DEF pr2, f
<1>4. HeldOnce((m.used \ StructOf(m)) \ {f}, HandFrames(pr2), EntryFrames(m, pr))
  BY <1>2, <1>3, HeldShrink
<1>5. f \in m.used \ StructOf(m)
  BY <1>2, <1>3 DEF HeldOnce
<1>6. m2.used \ StructOf(m2) = (m.used \ StructOf(m)) \ {f} /\ StructOf(m2) \subseteq m2.used
  BY <1>1, <1>3, <1>5 DEF f
<1>7. HeldOnce(m2.used \ StructOf(m2), EntryFrames(m2, pr2), HandFrames(pr2))
  BY <1>1, <1>4, <1>6, HeldSwap
<1> QED
  BY <1>1, <1>6, <1>7 DEF Books, pr2

\* ... or does neither.
LEMMA SameBooks ==
  ASSUME NEW m, NEW pr, Books(m, pr), pr \in [Programs -> ProgramRec], NEW p \in Programs, NEW r,
         pr[p].at \notin {"map", "unmap"}, r.at \notin {"map", "unmap"}
  PROVE  Books(m, [pr EXCEPT ![p] = r])
<1> DEFINE pr2 == [pr EXCEPT ![p] = r]
<1>1. EntryFrames(m, pr2) = EntryFrames(m, pr)
  <2>1. Quiet(m, pr, m, pr2)
    BY QuietBooks
  <2> QED
    BY <2>1 DEF Quiet
<1>2. HandFrames(pr2) = HandFrames(pr)
  <2>1. HandsButOne(pr, pr2, p) /\ pr2[p] = r
    BY HandsExcept
  <2> QED
    BY <2>1 DEF HandsButOne
<1> QED
  BY <1>1, <1>2 DEF Books

\* The frame in hand goes into an entry.
LEMMA FillBooks ==
  ASSUME NEW m, NEW pr, World(m, pr), NEW p \in Programs, NEW r, NEW v, Own(m, pr[p].dir, v),
         Pte(m, pr[p].dir, v) = NULL, pr[p].at = "map", r.at \notin {"map", "unmap"},
         NEW e, e \in Entry, e.frame = pr[p].call.frame,
         NEW m2, PageWritten(m, m2, m.used, pr[p].dir, v, e)
  PROVE  Books(m2, [pr EXCEPT ![p] = r])
<1> DEFINE pr2 == [pr EXCEPT ![p] = r]
           f == pr[p].call.frame
           y == EntryOf(m, pr[p].dir, v)
<1>1. Books(m, pr) /\ pr \in [Programs -> ProgramRec] /\ m.used \subseteq Frames
  BY DEF World, MemInv, MemType
<1>2. /\ m2.used = m.used /\ m2.pd = m.pd /\ DOMAIN m2.pt = DOMAIN m.pt
      /\ \A x \in NewTablesOf(m) \X Slots :
           m2.pt[x[1]][x[2]] = IF x = y THEN e ELSE m.pt[x[1]][x[2]]
  BY DEF PageWritten
<1>3. y \in NewTablesOf(m) \X Slots /\ m.pt[y[1]][y[2]] = NULL
  BY OwnEntry
<1>4. \A q \in Programs \ {p} : pr[q].at = "unmap" => EntryOf(m, pr[q].dir, PageOf(pr[q])) # y
  BY OthersElsewhere, WorldFacts
<1>5. UserDirsOf(m2) = UserDirsOf(m) /\ NewTablesOf(m2) = NewTablesOf(m) /\ StructOf(m2) = StructOf(m)
  BY <1>2 DEF UserDirsOf, NewTablesOf, StructOf
<1> HIDE DEF y
<1>6. /\ \A x : x # y => (x \in UndoneOf(m2, pr2) <=> x \in UndoneOf(m, pr))
      /\ y \notin UndoneOf(m2, pr2) /\ y \notin UndoneOf(m, pr)
  <2>1. UndoneButOne(m, pr, m2, pr2, p, y) /\ pr2[p] = r
    BY <1>1, <1>2, <1>4, UndoneExcept
  <2> QED
    BY <2>1 DEF UndoneButOne
<1>7. /\ DOMAIN HandFrames(pr2) = DOMAIN HandFrames(pr) \ {p} /\ p \in DOMAIN HandFrames(pr)
      /\ HandFrames(pr)[p] = f /\ \A q \in DOMAIN HandFrames(pr2) : HandFrames(pr2)[q] = HandFrames(pr)[q]
  <2>1. HandsButOne(pr, pr2, p) /\ pr2[p] = r
    BY <1>1, HandsExcept
  <2> QED
    BY <2>1 DEF HandsButOne
<1> HIDE DEF pr2, f
<1>8. HeldButOne(m, pr, m2, pr2, y)
  <2>1. \A x \in NewTablesOf(m) \X Slots : x # y =>
          m2.pt[x[1]][x[2]] = m.pt[x[1]][x[2]] /\ (x \in UndoneOf(m2, pr2) <=> x \in UndoneOf(m, pr))
    BY <1>2, <1>6
  <2> QED
    BY <1>5, <2>1, HeldExcept
<1>9. HeldOnce(m.used \ StructOf(m), EntryFrames(m, pr), HandFrames(pr)) /\ StructOf(m) \subseteq m.used
  BY <1>1 DEF Books
<1>10. f \in m.used \ StructOf(m) /\ f \in Frames
  BY <1>1, <1>7, <1>9 DEF HeldOnce
<1>11. m2.pt[y[1]][y[2]] = e /\ e # NULL /\ e.frame = f
  BY <1>2, <1>3, Constants DEF f
<1>12. y \notin HeldOf(m, pr) /\ y \in HeldOf(m2, pr2)
  BY <1>3, <1>5, <1>6, <1>10, <1>11 DEF HeldOf
<1>13. /\ DOMAIN EntryFrames(m2, pr2) = DOMAIN EntryFrames(m, pr) \cup {y}
       /\ EntryFrames(m2, pr2)[y] = f /\ y \notin DOMAIN EntryFrames(m, pr)
       /\ \A x \in DOMAIN EntryFrames(m, pr) : EntryFrames(m2, pr2)[x] = EntryFrames(m, pr)[x]
  BY <1>8, <1>11, <1>12 DEF EntryFrames, HeldButOne
<1>14. HeldOnce((m.used \ StructOf(m)) \ {f}, EntryFrames(m, pr), HandFrames(pr2))
  <2>1. HeldOnce((m.used \ StructOf(m)) \ {f}, HandFrames(pr2), EntryFrames(m, pr))
    BY <1>7, <1>9, HeldShrink, HeldSwap
  <2> QED
    BY <2>1, HeldSwap
<1>15. HeldOnce(((m.used \ StructOf(m)) \ {f}) \cup {f}, EntryFrames(m2, pr2), HandFrames(pr2))
  BY <1>13, <1>14, HeldGrow
<1>16. ((m.used \ StructOf(m)) \ {f}) \cup {f} = m2.used \ StructOf(m2)
  BY <1>2, <1>5, <1>10
<1> QED
  BY <1>1, <1>2, <1>5, <1>15, <1>16 DEF Books, pr2

\* The frame of an entry goes back to the PMM; the roll-back is at that entry.
LEMMA FreeBooks ==
  ASSUME NEW m, NEW pr, World(m, pr), NEW p \in Programs, NEW r, NEW v, Own(m, pr[p].dir, v),
         Pte(m, pr[p].dir, v) # NULL, Pte(m, pr[p].dir, v).frame \in Frames,
         pr[p].at = "undo", r.at = "unmap", r.dir = pr[p].dir, PageOf(r) = v,
         NEW m2, m2.pd = m.pd, m2.pt = m.pt, m2.used = m.used \ {Pte(m, pr[p].dir, v).frame}
  PROVE  Books(m2, [pr EXCEPT ![p] = r])
<1> DEFINE pr2 == [pr EXCEPT ![p] = r]
           y == EntryOf(m, pr[p].dir, v)
           f == Pte(m, pr[p].dir, v).frame
<1>1. Books(m, pr) /\ pr \in [Programs -> ProgramRec] /\ m.used \subseteq Frames
  BY DEF World, MemInv, MemType
<1>2. y \in NewTablesOf(m) \X Slots /\ m.pt[y[1]][y[2]] = Pte(m, pr[p].dir, v)
  BY OwnEntry
<1>3. \A q \in Programs \ {p} : pr[q].at = "unmap" => EntryOf(m, pr[q].dir, PageOf(pr[q])) # y
  BY OthersElsewhere, WorldFacts
<1>4. UserDirsOf(m2) = UserDirsOf(m) /\ NewTablesOf(m2) = NewTablesOf(m) /\ StructOf(m2) = StructOf(m)
  BY DEF UserDirsOf, NewTablesOf, StructOf
<1>5. EntryOf(m, r.dir, PageOf(r)) = y
  OBVIOUS
<1> HIDE DEF y
<1>6. /\ \A x : x # y => (x \in UndoneOf(m2, pr2) <=> x \in UndoneOf(m, pr))
      /\ y \in UndoneOf(m2, pr2) /\ y \notin UndoneOf(m, pr)
  <2>1. UndoneButOne(m, pr, m2, pr2, p, y) /\ pr2[p] = r
    BY <1>1, <1>3, <1>5, UndoneExcept
  <2> QED
    BY <2>1 DEF UndoneButOne
<1>7. HandFrames(pr2) = HandFrames(pr)
  <2>1. HandsButOne(pr, pr2, p) /\ pr2[p] = r
    BY <1>1, HandsExcept
  <2> QED
    BY <2>1 DEF HandsButOne
<1> HIDE DEF pr2, f
<1>8. HeldButOne(m, pr, m2, pr2, y)
  BY <1>4, <1>6, HeldExcept
<1>9. HeldOnce(m.used \ StructOf(m), EntryFrames(m, pr), HandFrames(pr)) /\ StructOf(m) \subseteq m.used
  BY <1>1 DEF Books
<1>10. y \in HeldOf(m, pr) /\ y \notin HeldOf(m2, pr2)
  BY <1>2, <1>6 DEF HeldOf
<1>11. /\ DOMAIN EntryFrames(m2, pr2) = DOMAIN EntryFrames(m, pr) \ {y}
       /\ y \in DOMAIN EntryFrames(m, pr) /\ EntryFrames(m, pr)[y] = f
       /\ \A x \in DOMAIN EntryFrames(m2, pr2) : EntryFrames(m2, pr2)[x] = EntryFrames(m, pr)[x]
  BY <1>2, <1>8, <1>10 DEF EntryFrames, HeldButOne, f
<1>12. HeldOnce((m.used \ StructOf(m)) \ {f}, EntryFrames(m2, pr2), HandFrames(pr))
  BY <1>9, <1>11, HeldShrink
<1>13. f \in m.used \ StructOf(m)
  BY <1>9, <1>11 DEF HeldOnce
<1>14. m2.used \ StructOf(m2) = (m.used \ StructOf(m)) \ {f} /\ StructOf(m2) \subseteq m2.used
  BY <1>4, <1>9, <1>13 DEF f
<1> QED
  BY <1>1, <1>4, <1>7, <1>12, <1>14 DEF Books, pr2

\* The entry is cleared and the roll-back moves on.
LEMMA ClearBooks ==
  ASSUME NEW m, NEW pr, World(m, pr), NEW p \in Programs, NEW r, Own(m, pr[p].dir, PageOf(pr[p])),
         pr[p].at = "unmap", r.at \notin {"map", "unmap"},
         NEW m2, PageWritten(m, m2, m.used, pr[p].dir, PageOf(pr[p]), NULL)
  PROVE  Books(m2, [pr EXCEPT ![p] = r])
<1> DEFINE pr2 == [pr EXCEPT ![p] = r]
           y == EntryOf(m, pr[p].dir, PageOf(pr[p]))
<1>1. Books(m, pr) /\ pr \in [Programs -> ProgramRec] /\ m.used \subseteq Frames
  BY DEF World, MemInv, MemType
<1>2. /\ m2.used = m.used /\ m2.pd = m.pd /\ DOMAIN m2.pt = DOMAIN m.pt
      /\ \A x \in NewTablesOf(m) \X Slots :
           m2.pt[x[1]][x[2]] = IF x = y THEN NULL ELSE m.pt[x[1]][x[2]]
  BY DEF PageWritten
<1>3. y \in NewTablesOf(m) \X Slots
  BY OwnEntry
<1>4. \A q \in Programs \ {p} : pr[q].at = "unmap" => EntryOf(m, pr[q].dir, PageOf(pr[q])) # y
  BY OthersElsewhere, WorldFacts
<1>5. UserDirsOf(m2) = UserDirsOf(m) /\ NewTablesOf(m2) = NewTablesOf(m) /\ StructOf(m2) = StructOf(m)
  BY <1>2 DEF UserDirsOf, NewTablesOf, StructOf
<1>6. EntryOf(m, pr[p].dir, PageOf(pr[p])) = y
  OBVIOUS
<1> HIDE DEF y
<1>7. /\ \A x : x # y => (x \in UndoneOf(m2, pr2) <=> x \in UndoneOf(m, pr))
      /\ y \notin UndoneOf(m2, pr2) /\ y \in UndoneOf(m, pr)
  <2>1. UndoneButOne(m, pr, m2, pr2, p, y) /\ pr2[p] = r
    BY <1>1, <1>2, <1>4, <1>6, UndoneExcept
  <2> QED
    BY <2>1 DEF UndoneButOne
<1>8. HandFrames(pr2) = HandFrames(pr)
  <2>1. HandsButOne(pr, pr2, p) /\ pr2[p] = r
    BY <1>1, HandsExcept
  <2> QED
    BY <2>1 DEF HandsButOne
<1> HIDE DEF pr2
<1>9. HeldButOne(m, pr, m2, pr2, y)
  <2>1. \A x \in NewTablesOf(m) \X Slots : x # y =>
          m2.pt[x[1]][x[2]] = m.pt[x[1]][x[2]] /\ (x \in UndoneOf(m2, pr2) <=> x \in UndoneOf(m, pr))
    BY <1>2, <1>7
  <2> QED
    BY <1>5, <2>1, HeldExcept
<1>10. y \notin HeldOf(m, pr) /\ y \notin HeldOf(m2, pr2)
  BY <1>2, <1>3, <1>7 DEF HeldOf
<1>11. EntryFrames(m2, pr2) = EntryFrames(m, pr)
  BY <1>9, <1>10 DEF HeldButOne
<1> QED
  BY <1>1, <1>2, <1>5, <1>8, <1>11 DEF Books, pr2

-----------------------------------------------------------------------------
(***************************************************************************)
(* The steps of vmm_alloc_virtual_pages.                                   *)
(***************************************************************************)

\* PageUp rounds a number of bytes up to pages.
LEMMA PageUpIs ==
  ASSUME NEW a \in Nat
  PROVE  PageUp(a) \in Nat /\ \A n \in Nat : PageUp(a) <= n <=> a <= n * PAGE_SIZE
<1> DEFINE q == PageUp(a)
           k == (a + PAGE_SIZE - 1) % PAGE_SIZE
<1>1. PAGE_SIZE \in Nat /\ PAGE_SIZE > 0
  BY Constants
<1>2. a + PAGE_SIZE - 1 \in Nat
  BY <1>1
<1>3. q \in Int /\ k \in 0 .. PAGE_SIZE - 1 /\ a + PAGE_SIZE - 1 = PAGE_SIZE * q + k
  BY <1>1, <1>2 DEF PageUp
<1> HIDE DEF q, k
<1>4. q >= 0
  <2>1. SUFFICES ASSUME q <= -1 PROVE FALSE
    BY <1>3
  <2>2. PAGE_SIZE * q <= PAGE_SIZE * (-1)
    BY <1>1, <1>3, <2>1
  <2>3. PAGE_SIZE * (-1) = -PAGE_SIZE /\ PAGE_SIZE * q \in Int
    BY <1>1, <1>3
  <2> QED
    BY <1>1, <1>3, <2>2, <2>3
<1>5. ASSUME NEW n \in Nat PROVE q <= n <=> a <= n * PAGE_SIZE
  <2>1. PAGE_SIZE * q \in Int /\ PAGE_SIZE * n \in Int /\ n * PAGE_SIZE = PAGE_SIZE * n
    BY <1>1, <1>3
  <2>2. CASE q <= n
    <3>1. PAGE_SIZE * q <= PAGE_SIZE * n
      BY <1>1, <1>3, <2>2
    <3> QED
      BY <1>1, <1>3, <2>1, <2>2, <3>1
  <2>3. CASE ~(q <= n)
    <3>1. PAGE_SIZE * (n + 1) <= PAGE_SIZE * q
      BY <1>1, <1>3, <2>3
    <3>2. PAGE_SIZE * (n + 1) = PAGE_SIZE * n + PAGE_SIZE
      BY <1>1
    <3> QED
      BY <1>1, <1>3, <2>1, <2>3, <3>1, <3>2
  <2> QED
    BY <2>2, <2>3
<1> QED
  BY <1>3, <1>4, <1>5 DEF q

\* More bytes, more pages.
LEMMA PageUpMonotone ==
  ASSUME NEW a \in Nat, NEW b \in Nat, a <= b
  PROVE  PageUp(a) <= PageUp(b)
<1>1. PageUp(b) \in Nat /\ (PageUp(b) <= PageUp(b) <=> b <= PageUp(b) * PAGE_SIZE)
  BY PageUpIs
<1>2. b <= PageUp(b) * PAGE_SIZE /\ PageUp(b) * PAGE_SIZE \in Nat
  BY <1>1, Constants
<1>3. a <= PageUp(b) * PAGE_SIZE
  BY <1>2
<1>4. PageUp(a) <= PageUp(b) <=> a <= PageUp(b) * PAGE_SIZE
  BY <1>1, PageUpIs
<1> QED
  BY <1>3, <1>4

\* A program and its call by their fields.
LEMMA ProgramFields ==
  ASSUME NEW r \in ProgramRec
  PROVE  /\ r = [at |-> r.at, dir |-> r.dir, brk |-> r.brk, want |-> r.want, for |-> r.for, call |-> r.call]
         /\ r.at \in {"none", "frame", "map", "undo", "unmap", "return", "user"}
         /\ r.dir \in Frames \cup {NULL} /\ r.brk \in Nat /\ r.want \in Nat
         /\ r.for \in {"none", "image", "stack", "brk"}
         /\ r.call = [base |-> r.call.base, count |-> r.call.count, i |-> r.call.i,
                      frame |-> r.call.frame, res |-> r.call.res, saved |-> r.call.saved]
         /\ r.call.base \in Nat /\ r.call.count \in Nat /\ r.call.i \in Nat
         /\ r.call.frame \in Frames \cup {NULL} /\ r.call.res \in Results /\ r.call.saved \in SUBSET VPages
  BY DEF ProgramRec, CallRec

\* The promised pages are where they were.
KeepsPromise(m, m2, r) == \A v \in Promised(r) : Pte(m2, r.dir, v) = Pte(m, r.dir, v)

\* A program that goes on with its call: what is left to show.
LEMMA GoesOn ==
  ASSUME NEW m, NEW r, ProgramInv(m, r), Calling(r),
         NEW at \in {"frame", "map", "undo", "unmap", "return"}, NEW c, c \in CallRec,
         c.saved = r.call.saved, at = "map" => c.frame # NULL,
         NEW r2, r2 = Goes(r, at, c), CallProgress(r2),
         NEW m2, r.dir \in UserDirsOf(m2), CallPages(m2, r2), KeepsPromise(m, m2, r)
  PROVE  r2 \in ProgramRec /\ ProgramInv(m2, r2)
<1>1. /\ r \in ProgramRec /\ r.for # "none" /\ r.at # "user" /\ Promised(r) \subseteq r.call.saved
      /\ \A v \in Promised(r) : v \in VPages \ IdentPages /\ Pte(m, r.dir, v) # NULL /\ Pte(m, r.dir, v).user
      /\ r.for = "brk" => r.brk > 0 /\ r.want \in Breaks \ {0}
      /\ r.for = "stack" => r.brk = (Image.base + Image.count) * PAGE_SIZE
  BY DEF ProgramInv, Calling
<1>2. /\ r2.at = at /\ r2.dir = r.dir /\ r2.brk = r.brk /\ r2.want = r.want /\ r2.for = r.for /\ r2.call = c
  BY DEF Goes
<1>3. r2 \in ProgramRec
  BY <1>1, ProgramFields DEF Goes, ProgramRec
<1>4. Calling(r2) /\ r2.at \notin {"none", "user"}
  BY <1>2 DEF Calling
<1>5. Promised(r2) = Promised(r)
  <2>1. r.for \in {"image", "stack", "brk"}
    BY <1>1, ProgramFields
  <2> QED
    BY <1>1, <1>2, <1>3, <1>4, <2>1, PromisedOf DEF Calling
<1>6. /\ r2.at # "none" /\ r2.dir \in UserDirsOf(m2)
      /\ (r2.at = "map" => r2.call.frame # NULL)
      /\ Promised(r2) \subseteq r2.call.saved
      /\ \A v \in Promised(r2) : v \in VPages \ IdentPages /\ Pte(m2, r2.dir, v) # NULL /\ Pte(m2, r2.dir, v).user
  BY <1>1, <1>2, <1>4, <1>5 DEF KeepsPromise
<1>7. r2.for # "none" /\ (r2.for = "brk" \/ r2.at = "user" => r2.brk > 0) /\ (r2.for = "brk" => r2.want \in Breaks \ {0})
      /\ (r2.for = "stack" => r2.brk = (Image.base + Image.count) * PAGE_SIZE)
  BY <1>1, <1>2, <1>4
<1> QED
  BY <1>3, <1>4, <1>6, <1>7 DEF ProgramInv

\* What the call of a program says about the program.
LEMMA CallFacts ==
  ASSUME NEW m, NEW pr, World(m, pr), NEW p \in Programs, Calling(pr[p])
  PROVE  /\ pr \in [Programs -> ProgramRec] /\ pr[p] \in ProgramRec /\ ProgramInv(m, pr[p])
         /\ CallProgress(pr[p]) /\ CallPages(m, pr[p]) /\ Promised(pr[p]) \subseteq pr[p].call.saved
         /\ pr[p].at # "none" /\ pr[p].dir \in UserDirsOf(m) /\ pr[p].dir \in DOMAIN m.pd /\ pr[p].dir # BootDir
         /\ MemInv(m) /\ Books(m, pr)
<1>1. pr \in [Programs -> ProgramRec] /\ pr[p] \in ProgramRec /\ ProgramInv(m, pr[p]) /\ MemInv(m) /\ Books(m, pr)
  BY DEF World
<1>2. pr[p].at # "none"
  BY DEF Calling
<1> QED
  BY <1>1, <1>2, WorldFacts DEF ProgramInv

\* The others are not affected by a move of p that leaves other directories alone.
LEMMA MoveOfOne ==
  ASSUME NEW m, NEW pr, World(m, pr), NEW p \in Programs, Calling(pr[p]),
         NEW r2 \in ProgramRec, r2.dir = pr[p].dir,
         NEW m2, MemInv(m2), m2.pd = m.pd, Books(m2, [pr EXCEPT ![p] = r2]), ProgramInv(m2, r2),
         \A c \in DOMAIN m.pd \ {pr[p].dir} : SameMap(m, c, m2, c)
  PROVE  World(m2, [pr EXCEPT ![p] = r2])
<1>1. ASSUME NEW q \in Programs \ {p}, pr[q].at # "none"
      PROVE  /\ pr[q].dir \in UserDirsOf(m2) /\ SameMap(m, pr[q].dir, m2, pr[q].dir)
             /\ r2.at # "none" => r2.dir # pr[q].dir
  <2>1. pr[q].dir \in UserDirsOf(m) /\ pr[q].dir \in DOMAIN m.pd
    BY <1>1, WorldFacts
  <2>2. pr[p].at # "none"
    BY DEF Calling
  <2>3. pr[q].dir # pr[p].dir
    BY <1>1, <2>2, WorldFacts
  <2> QED
    BY <2>1, <2>3 DEF UserDirsOf
<1> QED
  BY <1>1, OneProgram

\* Only the bits of the PMM change.
LEMMA SameTables ==
  ASSUME NEW m, MemInv(m), NEW U \in SUBSET Frames, NEW m2, m2 = [m EXCEPT !.used = U]
  PROVE  /\ MemInv(m2) /\ m2.used = U /\ m2.pd = m.pd /\ m2.pt = m.pt
         /\ \A d, v : Pte(m2, d, v) = Pte(m, d, v)
         /\ \A d : MappedIn(m2, d) = MappedIn(m, d)
<1>1. m = [used |-> m.used, pd |-> m.pd, pt |-> m.pt]
  BY DEF MemInv, MemType
<1>2. m2.used = U /\ m2.pd = m.pd /\ m2.pt = m.pt /\ m2 = [used |-> U, pd |-> m.pd, pt |-> m.pt]
  BY <1>1
<1>3. MemInv(m2)
  BY <1>2 DEF MemInv, MemType, TablesShared, BootEntries, KernelOnly, IdentComplete
<1>4. \A d, v : Pte(m2, d, v) = Pte(m, d, v)
  BY <1>2 DEF Pte
<1>5. \A d : MappedIn(m2, d) = MappedIn(m, d)
  BY <1>4 DEF MappedIn
<1> QED
  BY <1>2, <1>3, <1>4, <1>5

\* The frame for the next page; there may be none.
LEMMA AllocFrameStep ==
  ASSUME World(mem, prog), NEW p \in Programs, AllocFrame(p)
  PROVE  World(mem', prog')
<1> DEFINE r == prog[p]
           c == r.call
           f == pmm_alloc_frame(mem)
<1>1. r.at = "frame"
  BY DEF AllocFrame, At
<1>2. /\ prog \in [Programs -> ProgramRec] /\ r \in ProgramRec /\ ProgramInv(mem, r)
      /\ CallProgress(r) /\ CallPages(mem, r) /\ r.dir \in UserDirsOf(mem)
      /\ MemInv(mem) /\ Books(mem, prog) /\ Calling(r)
  BY <1>1, CallFacts DEF Calling
<1>3. /\ c.base \in Nat /\ c.count \in Nat /\ c.i \in Nat /\ c.res = "SUCCESS" /\ c.i < c.count
      /\ c.saved \in SUBSET VPages /\ c \in CallRec
  BY <1>1, <1>2, ProgramFields DEF CallProgress, ProgramRec
<1>4. DonePages(r) = c.base .. c.base + c.i - 1
  BY <1>1, <1>2, CallPagesOf
<1> HIDE DEF r
<1>5. CASE f = NULL
  <2> DEFINE c2 == Failed(c, "NO_MEMORY")
             r2 == Goes(r, "undo", c2)
  <2>1. prog' = [prog EXCEPT ![p] = r2] /\ mem' = mem
    BY <1>5 DEF AllocFrame, r
  <2>2. c2 \in CallRec /\ c2.saved = c.saved
    BY <1>3 DEF Failed, CallRec, Results
  <2>3. /\ r2.at = "undo" /\ r2.dir = r.dir /\ r2.for = r.for /\ r2.call.base = c.base /\ r2.call.count = c.i
        /\ r2.call.i = 0 /\ r2.call.res = "NO_MEMORY" /\ r2.call.saved = c.saved
    BY DEF Goes, Failed
  <2>4. CallProgress(r2)
    BY <1>2, <1>3, <2>3 DEF CallProgress
  <2>5. DonePages(r2) = DonePages(r)
    <3>1. DonePages(r2) = c.base + 0 .. c.base + c.i - 1
      BY <2>3 DEF DonePages
    <3> QED
      BY <1>3, <1>4, <3>1
  <2>6. CallPages(mem, r2)
    BY <1>2, <2>3, <2>5 DEF CallPages
  <2> HIDE DEF c2
  <2>7. r2 \in ProgramRec /\ ProgramInv(mem, r2)
    BY <1>2, <2>2, <2>4, <2>6, GoesOn DEF KeepsPromise
  <2>8. Books(mem, [prog EXCEPT ![p] = r2])
    <3>1. prog[p].at \notin {"map", "unmap"} /\ r2.at \notin {"map", "unmap"}
      BY <1>1, <2>3 DEF r
    <3> QED
      BY <1>2, <3>1, SameBooks
  <2>9. World(mem, [prog EXCEPT ![p] = r2])
    <3>1. \A d \in DOMAIN mem.pd \ {prog[p].dir} : SameMap(mem, d, mem, d)
      BY DEF SameMap
    <3> QED
      BY <1>2, <2>3, <2>7, <2>8, <3>1, MoveOfOne DEF r
  <2> QED
    BY <2>1, <2>9
<1>6. CASE f # NULL
  <2> DEFINE c2 == CallAt(c, c.i, f)
             r2 == Goes(r, "map", c2)
             m2 == Take(mem, f)
  <2>1. prog' = [prog EXCEPT ![p] = r2] /\ mem' = m2
    BY <1>6 DEF AllocFrame, r
  <2>2. f \in Frames \ mem.used
    BY <1>6, AllocFrameFree
  <2> HIDE DEF f
  <2>3. /\ MemInv(m2) /\ m2.used = mem.used \cup {f} /\ m2.pd = mem.pd /\ m2.pt = mem.pt
        /\ \A d, v : Pte(m2, d, v) = Pte(mem, d, v)
        /\ \A d : MappedIn(m2, d) = MappedIn(mem, d)
    <3>1. m2 = [mem EXCEPT !.used = mem.used \cup {f}] /\ mem.used \cup {f} \in SUBSET Frames
      BY <1>2, <2>2 DEF Take, MemInv, MemType
    <3> QED
      BY <1>2, <3>1, SameTables
  <2>4. c2 \in CallRec /\ c2.saved = c.saved /\ c2.frame # NULL
    BY <1>3, <1>6, <2>2, ProgramFields DEF CallAt, CallRec, Results, f
  <2>5. /\ r2.at = "map" /\ r2.dir = r.dir /\ r2.for = r.for /\ r2.brk = r.brk /\ r2.want = r.want
        /\ r2.call.base = c.base /\ r2.call.count = c.count /\ r2.call.i = c.i
        /\ r2.call.res = c.res /\ r2.call.saved = c.saved /\ r2.call.frame = f
    BY DEF Goes, CallAt
  <2>6. CallProgress(r2)
    <3>1. Asked(r2)
      BY <1>2, <1>3, <2>5 DEF CallProgress, Asked
    <3> QED
      BY <1>1, <1>2, <1>3, <2>5, <3>1 DEF CallProgress
  <2>7. DonePages(r2) = DonePages(r)
    BY <1>4, <2>5 DEF DonePages
  <2>8. CallPages(m2, r2)
    BY <1>2, <2>3, <2>5, <2>7 DEF CallPages
  <2> HIDE DEF c2, m2
  <2>9. r2 \in ProgramRec /\ ProgramInv(m2, r2)
    <3>1. r.dir \in UserDirsOf(m2) /\ KeepsPromise(mem, m2, r)
      BY <1>2, <2>3 DEF UserDirsOf, KeepsPromise
    <3> QED
      BY <1>2, <2>4, <2>6, <2>8, <3>1, GoesOn
  <2>10. Books(m2, [prog EXCEPT ![p] = r2])
    <3>1. prog[p].at \notin {"map", "unmap"} /\ r2.at = "map" /\ r2.call.frame = f /\ f \notin mem.used
      BY <1>1, <2>2, <2>5 DEF r
    <3> HIDE DEF r2
    <3> QED
      BY <1>2, <2>3, <3>1, TakeBooks
  <2>11. World(m2, [prog EXCEPT ![p] = r2])
    <3>1. \A d \in DOMAIN mem.pd \ {prog[p].dir} : SameMap(mem, d, m2, d)
      BY <2>3 DEF SameMap
    <3> HIDE DEF r2
    <3> QED
      BY <1>2, <2>3, <2>5, <2>9, <2>10, <3>1, MoveOfOne DEF r
  <2> QED
    BY <2>1, <2>11
<1> QED
  BY <1>5, <1>6

\* An entry for a frame.
LEMMA EntryIs ==
  ASSUME NEW f \in Frames, NEW u \in BOOLEAN, NEW e, e = [frame |-> f, user |-> u]
  PROVE  e \in Entry /\ e.frame = f /\ e.user = u /\ e # NULL
<1>1. f \in Nat /\ NULL \notin Entry
  BY Constants
<1>2. e \in Entry
  BY <1>1 DEF Entry
<1> QED
  BY <1>1, <1>2

\* A range of pages grows at its end or shrinks at its beginning.
LEMMA Ranges ==
  ASSUME NEW a \in Nat, NEW i \in Nat, NEW n \in Nat
  PROVE  /\ a .. a + (i + 1) - 1 = (a .. a + i - 1) \cup {a + i}
         /\ i < n => a + i .. a + n - 1 = (a + (i + 1) .. a + n - 1) \cup {a + i}
         /\ a + i \notin a + (i + 1) .. a + n - 1
  OBVIOUS

\* The page is mapped.
LEMMA MappedStep ==
  ASSUME NEW m, NEW pr, World(m, pr), NEW p \in Programs, pr[p].at = "map",
         Own(m, pr[p].dir, PageOf(pr[p])), Pte(m, pr[p].dir, PageOf(pr[p])) = NULL,
         NEW m2, FillOf(m, m2, m.used, pr[p].dir, PageOf(pr[p]), [frame |-> pr[p].call.frame, user |-> TRUE]),
         NEW at \in {"frame", "return"}, at = "frame" <=> pr[p].call.i + 1 < pr[p].call.count
  PROVE  World(m2, [pr EXCEPT ![p] = Goes(pr[p], at, CallAt(pr[p].call, pr[p].call.i + 1, NULL))])
<1> DEFINE r  == pr[p]
           v  == PageOf(r)
           e  == [frame |-> r.call.frame, user |-> TRUE]
           c  == r.call
           c2 == CallAt(c, c.i + 1, NULL)
           r2 == Goes(r, at, c2)
<1>1. /\ pr \in [Programs -> ProgramRec] /\ r \in ProgramRec /\ ProgramInv(m, r)
      /\ CallProgress(r) /\ CallPages(m, r) /\ Promised(r) \subseteq c.saved
      /\ r.dir \in UserDirsOf(m) /\ MemInv(m) /\ Calling(r)
  BY CallFacts DEF Calling
<1>2. /\ c.base \in Nat /\ c.count \in Nat /\ c.i \in Nat /\ c.res = "SUCCESS" /\ c.i < c.count
      /\ c.saved \in SUBSET VPages /\ c \in CallRec /\ c.frame \in Frames
  BY <1>1, ProgramFields DEF CallProgress, ProgramRec, ProgramInv
<1>3. /\ v = c.base + c.i /\ v \in VPages \ IdentPages
      /\ Own(m, r.dir, v) /\ Pte(m, r.dir, v) = NULL /\ FillOf(m, m2, m.used, r.dir, v, e)
  BY DEF PageOf, Own
<1>4. DonePages(r) = c.base .. c.base + c.i - 1
  BY <1>1, CallPagesOf
<1> HIDE DEF r, v
<1>5. e \in Entry /\ e.frame = c.frame /\ e.user = TRUE /\ e # NULL
  BY <1>2, EntryIs
<1> HIDE DEF e
<1>6. PageWritten(m, m2, m.used, r.dir, v, e)
  <2>1. m.used \in SUBSET Frames
    BY <1>1, SMTT(40) DEF MemInv, MemType
  <2> QED
    BY <1>1, <1>3, <1>5, <2>1, FillMemInv
<1>7. /\ MemInv(m2) /\ m2.used = m.used /\ m2.pd = m.pd
      /\ \A d \in DOMAIN m.pd \ {r.dir} : SameMap(m, d, m2, d)
      /\ \A w \in VPages : Pte(m2, r.dir, w) = IF w = v THEN e ELSE Pte(m, r.dir, w)
  BY <1>6 DEF PageWritten
<1>8. c2 \in CallRec /\ c2.saved = c.saved
  BY <1>2 DEF CallAt, CallRec
<1>9. /\ r2.at = at /\ r2.dir = r.dir /\ r2.for = r.for /\ r2.brk = r.brk /\ r2.want = r.want
      /\ r2.call.base = c.base /\ r2.call.count = c.count /\ r2.call.i = c.i + 1
      /\ r2.call.res = "SUCCESS" /\ r2.call.saved = c.saved
  BY <1>2 DEF Goes, CallAt
<1>10. /\ at \in {"frame", "return"} /\ (at = "frame" => c.i + 1 < c.count)
       /\ (at = "return" => c.i + 1 = c.count)
  BY <1>2 DEF r
<1>11. CallProgress(r2)
  <2>1. Asked(r2)
    BY <1>1, <1>2, <1>9 DEF CallProgress, Asked
  <2> QED
    BY <1>1, <1>2, <1>9, <1>10, <2>1 DEF CallProgress
<1>12. DonePages(r2) = DonePages(r) \cup {v}
  <2>1. DonePages(r2) = c.base .. c.base + (c.i + 1) - 1
    <3>1. CASE at = "frame"
      BY <1>9, <3>1 DEF DonePages
    <3>2. CASE at = "return"
      BY <1>9, <1>10, <3>2 DEF DonePages
    <3> QED
      BY <1>10, <3>1, <3>2
  <2> QED
    BY <1>2, <1>3, <1>4, <2>1, Ranges, SMTT(40)
<1>13. Pte(m, r.dir, v) = NULL
  BY <1>3
<1>14. CallPages(m2, r2)
  <2>1. MappedIn(m2, r.dir) = MappedIn(m, r.dir) \cup {v}
    BY <1>3, <1>5, <1>7, ZenonT(60) DEF MappedIn
  <2>2. v \notin MappedIn(m, r.dir)
    BY <1>13 DEF MappedIn
  <2>3. MappedIn(m, r.dir) = c.saved \cup DonePages(r) /\ c.saved \cap DonePages(r) = {}
    BY <1>1 DEF CallPages
  <2>4. \A w \in DonePages(r) : w \in VPages /\ w # v
    BY <2>2, <2>3 DEF MappedIn
  <2>5. \A w \in DonePages(r2) : Pte(m2, r.dir, w).user /\ Pte(m2, r.dir, w).frame \in Frames
    BY <1>1, <1>2, <1>3, <1>5, <1>7, <1>12, <2>4, ZenonT(60) DEF CallPages
  <2> QED
    BY <1>9, <1>12, <2>1, <2>2, <2>3, <2>5, ZenonT(60) DEF CallPages
<1>15. r2 \in ProgramRec /\ ProgramInv(m2, r2)
  <2>1. r.dir \in UserDirsOf(m2)
    BY <1>1, <1>7 DEF UserDirsOf
  <2>2. KeepsPromise(m, m2, r)
    <3>1. \A w \in Promised(r) : w \in VPages /\ Pte(m, r.dir, w) # NULL
      BY <1>1 DEF ProgramInv
    <3> QED
      BY <1>7, <1>13, <3>1 DEF KeepsPromise
  <2> HIDE DEF c2
  <2> HIDE DEF r2
  <2>3. CASE at = "frame"
    <3>1. r2 = Goes(r, "frame", c2)
      BY <2>3 DEF r2
    <3> QED
      BY <1>1, <1>8, <1>11, <1>14, <2>1, <2>2, <3>1, GoesOn
  <2>4. CASE at = "return"
    <3>1. r2 = Goes(r, "return", c2)
      BY <2>4 DEF r2
    <3> QED
      BY <1>1, <1>8, <1>11, <1>14, <2>1, <2>2, <3>1, GoesOn
  <2> QED
    BY <2>3, <2>4
<1> HIDE DEF r2
<1>16. Books(m2, [pr EXCEPT ![p] = r2])
  <2>1. r2.at \notin {"map", "unmap"} /\ e \in Entry /\ e.frame = pr[p].call.frame
        /\ PageWritten(m, m2, m.used, pr[p].dir, v, e)
    BY <1>5, <1>6, <1>9, <1>10 DEF r, e
  <2> QED
    BY <2>1, FillBooks DEF v, r
<1>17. World(m2, [pr EXCEPT ![p] = r2])
  BY <1>1, <1>7, <1>9, <1>15, <1>16, MoveOfOne DEF r
<1> QED
  BY <1>17 DEF r2, r

\* It could not be mapped: its frame goes back, and the call goes back over the
\* pages before it.
LEMMA MapFailedStep ==
  ASSUME NEW m, NEW pr, World(m, pr), NEW p \in Programs, pr[p].at = "map",
         NEW res \in {"NO_MEMORY", "ALREADY_MAPPED"},
         res = "ALREADY_MAPPED" => Pte(m, pr[p].dir, PageOf(pr[p])) # NULL
  PROVE  World(Give(m, pr[p].call.frame), [pr EXCEPT ![p] = Goes(pr[p], "undo", Failed(pr[p].call, res))])
<1> DEFINE r  == pr[p]
           c  == r.call
           c2 == Failed(c, res)
           r2 == Goes(r, "undo", c2)
           m2 == Give(m, c.frame)
<1>1. /\ pr \in [Programs -> ProgramRec] /\ r \in ProgramRec /\ ProgramInv(m, r)
      /\ CallProgress(r) /\ CallPages(m, r) /\ Promised(r) \subseteq c.saved
      /\ r.dir \in UserDirsOf(m) /\ MemInv(m) /\ Books(m, pr) /\ Calling(r)
  BY CallFacts DEF Calling
<1>2. /\ c.base \in Nat /\ c.count \in Nat /\ c.i \in Nat /\ c.res = "SUCCESS" /\ c.i < c.count
      /\ c.saved \in SUBSET VPages /\ c \in CallRec /\ c.frame \in Frames
  BY <1>1, ProgramFields DEF CallProgress, ProgramRec, ProgramInv
<1>3. DonePages(r) = c.base .. c.base + c.i - 1
  BY <1>1, CallPagesOf
<1>4. PageOf(r) = c.base + c.i /\ PageOf(r) \in VPages /\ PageOf(r) \in c.base .. c.base + c.count - 1
      /\ DentOf(PageOf(r)) \notin DeviceEntries
  BY WorldFacts DEF PageOf
<1> HIDE DEF r
\* No page of the image was mapped before, and the call is not at one it mapped.
<1>5. r.for = "image" => res # "ALREADY_MAPPED"
  <2>1. SUFFICES ASSUME r.for = "image", res = "ALREADY_MAPPED" PROVE FALSE
    OBVIOUS
  <2>2. c.base = Image.base /\ c.count = Image.count /\ c.saved \cap ImagePages = {}
    BY <1>1, <1>2, <2>1 DEF CallProgress, Asked
  <2>3. PageOf(r) \in ImagePages /\ PageOf(r) \notin DonePages(r)
    BY <1>2, <1>3, <1>4, <2>2 DEF ImagePages
  <2>4. PageOf(r) \notin IdentPages
    <3>1. Image.base \in VPages \ IdentPages /\ PageOf(r) >= Image.base
      BY <1>2, <1>4, <2>2, VmmAssumption
    <3> QED
      BY <1>2, <1>4, <3>1, Constants DEF VPages, IdentPages
  <2>5. PageOf(r) \in MappedIn(m, r.dir)
    BY <1>4, <2>1, <2>4 DEF MappedIn, r
  <2> QED
    BY <1>1, <2>2, <2>3, <2>5 DEF CallPages
<1>6. /\ MemInv(m2) /\ m2.used = m.used \ {c.frame} /\ m2.pd = m.pd /\ m2.pt = m.pt
      /\ \A d, v : Pte(m2, d, v) = Pte(m, d, v)
      /\ \A d : MappedIn(m2, d) = MappedIn(m, d)
  <2>1. m2 = [m EXCEPT !.used = m.used \ {c.frame}] /\ m.used \ {c.frame} \in SUBSET Frames
    BY <1>1 DEF Give, MemInv, MemType, r
  <2> QED
    BY <1>1, <2>1, SameTables
<1> HIDE DEF m2
<1>7. c2 \in CallRec /\ c2.saved = c.saved
  BY <1>2 DEF Failed, CallRec, Results
<1>8. /\ r2.at = "undo" /\ r2.dir = r.dir /\ r2.for = r.for /\ r2.call.base = c.base /\ r2.call.count = c.i
      /\ r2.call.i = 0 /\ r2.call.res = res /\ r2.call.saved = c.saved
  BY DEF Goes, Failed
<1>9. CallProgress(r2)
  BY <1>1, <1>2, <1>5, <1>8 DEF CallProgress
<1>10. DonePages(r2) = DonePages(r)
  <2>1. DonePages(r2) = c.base + 0 .. c.base + c.i - 1
    BY <1>8 DEF DonePages
  <2> QED
    BY <1>2, <1>3, <2>1
<1>11. CallPages(m2, r2)
  BY <1>1, <1>6, <1>8, <1>10 DEF CallPages
<1> HIDE DEF c2
<1>12. r2 \in ProgramRec /\ ProgramInv(m2, r2)
  <2>1. r.dir \in UserDirsOf(m2)
    BY <1>1, <1>6 DEF UserDirsOf
  <2> QED
    BY <1>1, <1>6, <1>7, <1>9, <1>11, <2>1, GoesOn DEF KeepsPromise
<1> HIDE DEF r2
<1>13. Books(m2, [pr EXCEPT ![p] = r2])
  <2>1. r2.at \notin {"map", "unmap"} /\ m2.used = m.used \ {pr[p].call.frame}
    BY <1>6, <1>8 DEF r
  <2> QED
    BY <1>1, <1>6, <2>1, GiveBooks
<1>14. World(m2, [pr EXCEPT ![p] = r2])
  <2>1. \A d \in DOMAIN m.pd \ {pr[p].dir} : SameMap(m, d, m2, d)
    BY <1>6 DEF SameMap
  <2> QED
    BY <1>1, <1>6, <1>8, <1>12, <1>13, <2>1, MoveOfOne DEF r
<1> QED
  BY <1>14 DEF r2, c2, m2, r

LEMMA AllocMapStep ==
  ASSUME World(mem, prog), NEW p \in Programs, AllocMap(p)
  PROVE  World(mem', prog')
<1> DEFINE d == prog[p].dir
           v == PageOf(prog[p])
           e == [frame |-> prog[p].call.frame, user |-> TRUE]
           r == vmm_map_page(mem, d, v, e)
<1>1. prog[p].at = "map" /\ v = prog[p].call.base + prog[p].call.i
  BY DEF AllocMap, At, PageOf
<1>2. /\ MemInv(mem) /\ d \in DOMAIN mem.pd /\ d # BootDir
      /\ v \in VPages /\ v # 0 /\ DentOf(v) \notin DeviceEntries
  BY <1>1, CallFacts, WorldFacts DEF Calling
<1>3. /\ mem' = IF r.res = "SUCCESS" THEN r.mem ELSE Give(r.mem, prog[p].call.frame)
      /\ prog' = [prog EXCEPT ![p] =
           IF r.res # "SUCCESS" THEN Goes(prog[p], "undo", Failed(prog[p].call, r.res))
           ELSE Goes(prog[p], IF prog[p].call.i + 1 < prog[p].call.count THEN "frame" ELSE "return",
                     CallAt(prog[p].call, prog[p].call.i + 1, NULL))]
  BY <1>1 DEF AllocMap, AfterMap
<1>4. \/ r.res = "NO_MEMORY" /\ r.mem = mem
      \/ r.res = "ALREADY_MAPPED" /\ r.mem = mem /\ Pte(mem, d, v) # NULL
      \/ /\ r.res = "SUCCESS" /\ Pte(mem, d, v) = NULL
         /\ \E m1 : Reach(mem, m1, d, v) /\ r.mem = Filled(m1, m1.used, m1.pd[d][DentOf(v)], SlotOf(v), e)
  <2>1. MapResult(mem, d, v, e, r)
    BY <1>2, MapOutcome DEF MemInv
  <2> QED
    BY <2>1 DEF MapResult
<1> HIDE DEF r
<1>5. CASE r.res \in {"NO_MEMORY", "ALREADY_MAPPED"}
  <2>1. /\ r.mem = mem /\ (r.res = "ALREADY_MAPPED" => Pte(mem, d, v) # NULL)
        /\ mem' = Give(mem, prog[p].call.frame)
        /\ prog' = [prog EXCEPT ![p] = Goes(prog[p], "undo", Failed(prog[p].call, r.res))]
    BY <1>3, <1>4, <1>5
  <2> QED
    BY <1>1, <1>5, <2>1, MapFailedStep
<1>6. CASE r.res = "SUCCESS"
  <2>1. PICK m1 : Reach(mem, m1, d, v) /\ r.mem = Filled(m1, m1.used, m1.pd[d][DentOf(v)], SlotOf(v), e)
    BY <1>4, <1>6
  <2>2. /\ World(m1, prog) /\ DOMAIN m1.pd = DOMAIN mem.pd /\ m1.pd[d][DentOf(v)] # NULL
        /\ SameMap(mem, d, m1, d)
    BY <1>2, <2>1, ReachWorld
  <2>3. Pte(m1, d, v) = NULL
    BY <1>2, <1>4, <1>6, <2>2 DEF SameMap
  <2>4. Own(m1, d, v)
    BY <1>2, <2>2, <2>3, OwnTable DEF World
  <2> DEFINE at == IF prog[p].call.i + 1 < prog[p].call.count THEN "frame" ELSE "return"
  <2>5. /\ FillOf(m1, mem', m1.used, d, v, e)
        /\ prog' = [prog EXCEPT ![p] = Goes(prog[p], at, CallAt(prog[p].call, prog[p].call.i + 1, NULL))]
    BY <1>3, <1>6, <2>1 DEF FillOf
  <2> QED
    BY <1>1, <2>2, <2>3, <2>4, <2>5, MappedStep
<1> QED
  BY <1>4, <1>5, <1>6

\* The roll-back is at the next page or is done.
LEMMA RollbackFreeStep ==
  ASSUME World(mem, prog), NEW p \in Programs, RollbackFree(p)
  PROVE  World(mem', prog')
<1> DEFINE r == prog[p]
           c == r.call
<1>1. r.at = "undo"
  BY DEF RollbackFree, At
<1>2. /\ prog \in [Programs -> ProgramRec] /\ r \in ProgramRec /\ ProgramInv(mem, r)
      /\ CallProgress(r) /\ CallPages(mem, r) /\ r.dir \in UserDirsOf(mem) /\ r.dir \in DOMAIN mem.pd
      /\ MemInv(mem) /\ Books(mem, prog) /\ Calling(r)
  BY <1>1, CallFacts DEF Calling
<1>3. /\ c.base \in Nat /\ c.count \in Nat /\ c.i \in Nat /\ c.res # "SUCCESS" /\ c.i <= c.count
      /\ c.saved \in SUBSET VPages /\ c \in CallRec
  BY <1>1, <1>2, ProgramFields DEF CallProgress, ProgramRec
<1>4. DonePages(r) = c.base + c.i .. c.base + c.count - 1
  BY <1>1, <1>2, CallPagesOf
<1>5. prog[p] = r
  OBVIOUS
<1> HIDE DEF r
<1>6. CASE c.i = c.count
  <2> DEFINE r2 == Goes(r, "return", c)
  <2>1. prog' = [prog EXCEPT ![p] = r2] /\ mem' = mem
    BY <1>6 DEF RollbackFree, r
  <2>2. r2.at = "return" /\ r2.dir = r.dir /\ r2.for = r.for /\ r2.call = c
    BY DEF Goes
  <2>3. CallProgress(r2)
    BY <1>1, <1>2, <1>3, <2>2 DEF CallProgress
  <2>4. DonePages(r2) = DonePages(r)
    <3>1. DonePages(r2) = {}
      BY <1>3, <2>2 DEF DonePages
    <3>2. c.base + c.i .. c.base + c.count - 1 = {}
      BY <1>3, <1>6
    <3> QED
      BY <1>4, <3>1, <3>2
  <2>5. CallPages(mem, r2) /\ KeepsPromise(mem, mem, r)
    BY <1>2, <2>2, <2>4 DEF CallPages, KeepsPromise
  <2>6. r2 \in ProgramRec /\ ProgramInv(mem, r2)
    BY <1>2, <1>3, <2>3, <2>5, GoesOn
  <2> HIDE DEF r2
  <2>7. Books(mem, [prog EXCEPT ![p] = r2])
    <3>1. prog[p].at \notin {"map", "unmap"} /\ r2.at \notin {"map", "unmap"}
      BY <1>1, <1>5, <2>2
    <3> QED
      BY <1>2, <3>1, SameBooks
  <2>8. World(mem, [prog EXCEPT ![p] = r2])
    <3>1. \A d \in DOMAIN mem.pd \ {prog[p].dir} : SameMap(mem, d, mem, d)
      BY DEF SameMap
    <3> QED
      BY <1>2, <1>5, <2>2, <2>6, <2>7, <3>1, MoveOfOne
  <2> QED
    BY <2>1, <2>8
<1>7. CASE c.i # c.count
  <2> DEFINE v  == PageOf(r)
             m2 == Give(mem, Pte(mem, r.dir, v).frame)
             r2 == Goes(r, "unmap", c)
  <2>1. prog' = [prog EXCEPT ![p] = r2] /\ mem' = m2
    BY <1>7 DEF RollbackFree, r, PageOf
  <2>2. r2.at = "unmap" /\ r2.dir = r.dir /\ r2.for = r.for /\ r2.call = c /\ PageOf(r2) = v
    BY DEF Goes, PageOf
  <2>3. v \in DonePages(r) /\ v \in MappedIn(mem, r.dir) /\ Pte(mem, r.dir, v).frame \in Frames
    <3>1. v \in DonePages(r)
      BY <1>3, <1>4, <1>7 DEF PageOf
    <3> QED
      BY <1>2, <3>1 DEF CallPages
  <2>4. v \in VPages \ IdentPages /\ Pte(mem, r.dir, v) # NULL
    BY <2>3 DEF MappedIn
  <2>5. Own(mem, r.dir, v)
    <3>1. DentOf(v) \notin DeviceEntries
      BY <1>1, <1>5, <1>7, WorldFacts
    <3>2. mem.pd[r.dir][DentOf(v)] # NULL
      BY <2>4, PteIs
    <3> QED
      BY <1>2, <2>4, <3>1, <3>2, OwnTable
  <2>6. /\ MemInv(m2) /\ m2.used = mem.used \ {Pte(mem, r.dir, v).frame} /\ m2.pd = mem.pd /\ m2.pt = mem.pt
        /\ \A d, w : Pte(m2, d, w) = Pte(mem, d, w)
        /\ \A d : MappedIn(m2, d) = MappedIn(mem, d)
    <3>1. mem.used \ {Pte(mem, r.dir, v).frame} \in SUBSET Frames
      BY <1>2 DEF MemInv, MemType
    <3>2. m2 = [mem EXCEPT !.used = mem.used \ {Pte(mem, r.dir, v).frame}]
      BY DEF Give
    <3> QED
      BY <1>2, <3>1, <3>2, SameTables
  <2>7. CallProgress(r2)
    BY <1>1, <1>2, <1>3, <1>7, <2>2 DEF CallProgress
  <2>8. DonePages(r2) = DonePages(r)
    BY <1>4, <2>2 DEF DonePages
  <2> HIDE DEF m2, v
  <2>9. CallPages(m2, r2) /\ KeepsPromise(mem, m2, r) /\ r.dir \in UserDirsOf(m2)
    BY <1>2, <2>2, <2>6, <2>8 DEF CallPages, KeepsPromise, UserDirsOf
  <2>10. r2 \in ProgramRec /\ ProgramInv(m2, r2)
    BY <1>2, <1>3, <2>7, <2>9, GoesOn
  <2> HIDE DEF r2
  <2>11. Books(m2, [prog EXCEPT ![p] = r2])
    <3>1. Own(mem, prog[p].dir, v) /\ Pte(mem, prog[p].dir, v) # NULL /\ Pte(mem, prog[p].dir, v).frame \in Frames
          /\ prog[p].at = "undo" /\ r2.dir = prog[p].dir /\ m2.used = mem.used \ {Pte(mem, prog[p].dir, v).frame}
      BY <1>1, <1>5, <2>2, <2>3, <2>4, <2>5, <2>6
    <3> QED
      BY <2>2, <2>6, <3>1, FreeBooks
  <2>12. World(m2, [prog EXCEPT ![p] = r2])
    <3>1. \A d \in DOMAIN mem.pd \ {prog[p].dir} : SameMap(mem, d, m2, d)
      BY <2>6 DEF SameMap
    <3> QED
      BY <1>2, <1>5, <2>2, <2>6, <2>10, <2>11, <3>1, MoveOfOne
  <2> QED
    BY <2>1, <2>12
<1> QED
  BY <1>6, <1>7

\* The page is unmapped.
LEMMA RollbackUnmapStep ==
  ASSUME World(mem, prog), NEW p \in Programs, RollbackUnmap(p)
  PROVE  World(mem', prog')
<1> DEFINE r  == prog[p]
           c  == r.call
           v  == PageOf(r)
           c2 == CallAt(c, c.i + 1, NULL)
           r2 == Goes(r, "undo", c2)
           m2 == mem'
<1>1. /\ r.at = "unmap" /\ prog' = [prog EXCEPT ![p] = r2]
      /\ mem' = vmm_unmap_page(mem, r.dir, v)
  BY DEF RollbackUnmap, At, PageOf
<1>2. /\ prog \in [Programs -> ProgramRec] /\ r \in ProgramRec /\ ProgramInv(mem, r)
      /\ CallProgress(r) /\ CallPages(mem, r) /\ r.dir \in UserDirsOf(mem) /\ r.dir \in DOMAIN mem.pd
      /\ MemInv(mem) /\ Books(mem, prog) /\ Calling(r) /\ Promised(r) \subseteq c.saved
  BY <1>1, CallFacts DEF Calling
<1>3. /\ c.base \in Nat /\ c.count \in Nat /\ c.i \in Nat /\ c.res # "SUCCESS" /\ c.i < c.count
      /\ c.saved \in SUBSET VPages /\ c \in CallRec
  BY <1>1, <1>2, ProgramFields DEF CallProgress, ProgramRec
<1>4. DonePages(r) = c.base + c.i .. c.base + c.count - 1
  BY <1>1, <1>2, CallPagesOf
<1>5. prog[p] = r /\ v = c.base + c.i
  BY DEF PageOf
<1>6. DentOf(v) \notin DeviceEntries
  BY <1>1, WorldFacts
<1> HIDE DEF r, v
<1>7. v \in DonePages(r) /\ v \in VPages \ IdentPages /\ Pte(mem, r.dir, v) # NULL
  <2>1. v \in DonePages(r)
    BY <1>3, <1>4, <1>5
  <2> QED
    BY <1>2, <2>1 DEF CallPages, MappedIn
<1>8. Own(mem, r.dir, v)
  <2>1. mem.pd[r.dir][DentOf(v)] # NULL
    BY <1>7, PteIs
  <2> QED
    BY <1>2, <1>6, <1>7, <2>1, OwnTable
<1>9. PageWritten(mem, m2, mem.used, r.dir, v, NULL)
  <2>1. mem = [used |-> mem.used, pd |-> mem.pd, pt |-> mem.pt] /\ mem.used \in SUBSET Frames
    BY <1>2 DEF MemInv, MemType
  <2>2. m2 = SetPte(mem, r.dir, v, NULL)
    BY <1>1, <1>7 DEF vmm_unmap_page
  <2>3. SetPte(mem, r.dir, v, NULL) = Filled(mem, mem.used, mem.pd[r.dir][DentOf(v)], SlotOf(v), NULL)
    BY <2>1 DEF SetPte, DentOf, SlotOf, Filled
  <2> QED
    BY <1>2, <1>8, <2>1, <2>2, <2>3, FillMemInv DEF FillOf
<1>10. /\ MemInv(m2) /\ m2.used = mem.used /\ m2.pd = mem.pd
       /\ \A d \in DOMAIN mem.pd \ {r.dir} : SameMap(mem, d, m2, d)
       /\ \A w \in VPages : Pte(m2, r.dir, w) = IF w = v THEN NULL ELSE Pte(mem, r.dir, w)
  BY <1>9 DEF PageWritten
<1> HIDE DEF m2
<1>11. c2 \in CallRec /\ c2.saved = c.saved
  BY <1>3 DEF CallAt, CallRec
<1>12. /\ r2.at = "undo" /\ r2.dir = r.dir /\ r2.for = r.for
       /\ r2.call.base = c.base /\ r2.call.count = c.count /\ r2.call.i = c.i + 1
       /\ r2.call.res = c.res /\ r2.call.saved = c.saved
  BY DEF Goes, CallAt
<1>13. CallProgress(r2)
  BY <1>1, <1>2, <1>3, <1>12 DEF CallProgress
<1>14. DonePages(r) = DonePages(r2) \cup {v} /\ v \notin DonePages(r2)
  <2>1. DonePages(r2) = c.base + (c.i + 1) .. c.base + c.count - 1
    BY <1>12 DEF DonePages
  <2>2. /\ c.base + c.i .. c.base + c.count - 1 = (c.base + (c.i + 1) .. c.base + c.count - 1) \cup {c.base + c.i}
        /\ c.base + c.i \notin c.base + (c.i + 1) .. c.base + c.count - 1
    BY <1>3, Ranges
  <2> QED
    BY <1>4, <1>5, <2>1, <2>2
<1>15. v \notin c.saved
  BY <1>2, <1>7 DEF CallPages
<1>16. CallPages(m2, r2)
  <2>1. MappedIn(m2, r.dir) = MappedIn(mem, r.dir) \ {v}
    BY <1>10 DEF MappedIn
  <2>2. MappedIn(mem, r.dir) = c.saved \cup DonePages(r) /\ c.saved \cap DonePages(r) = {}
    BY <1>2 DEF CallPages
  <2>3. \A w \in DonePages(r2) : w \in VPages /\ w # v /\ w \in DonePages(r)
    BY <1>14, <2>2 DEF MappedIn
  <2>4. \A w \in DonePages(r2) : Pte(m2, r.dir, w).user /\ Pte(m2, r.dir, w).frame \in Frames
    BY <1>2, <1>10, <2>3 DEF CallPages
  <2> QED
    BY <1>12, <1>14, <1>15, <2>1, <2>2, <2>4 DEF CallPages
<1>17. KeepsPromise(mem, m2, r) /\ r.dir \in UserDirsOf(m2)
  BY <1>2, <1>3, <1>10, <1>15 DEF KeepsPromise, UserDirsOf
<1> HIDE DEF c2
<1>18. r2 \in ProgramRec /\ ProgramInv(m2, r2)
  BY <1>2, <1>11, <1>13, <1>16, <1>17, GoesOn
<1> HIDE DEF r2
<1>19. Books(m2, [prog EXCEPT ![p] = r2])
  <2>1. Own(mem, prog[p].dir, PageOf(prog[p])) /\ PageWritten(mem, m2, mem.used, prog[p].dir, PageOf(prog[p]), NULL)
        /\ prog[p].at = "unmap" /\ r2.at \notin {"map", "unmap"}
    BY <1>1, <1>5, <1>8, <1>9, <1>12 DEF v
  <2> QED
    BY <2>1, ClearBooks
<1>20. World(m2, [prog EXCEPT ![p] = r2])
  BY <1>2, <1>5, <1>10, <1>12, <1>18, <1>19, MoveOfOne
<1> QED
  BY <1>1, <1>20 DEF m2

-----------------------------------------------------------------------------
(***************************************************************************)
(* The steps of a program between its calls.                               *)
(***************************************************************************)

\* A step that changes the program alone.
LEMMA ProgramMoves ==
  ASSUME NEW m, NEW pr, World(m, pr), NEW p \in Programs, pr[p].at \notin {"map", "unmap"},
         NEW r, r.at \notin {"map", "unmap"}, ProgramInv(m, r),
         r.at # "none" => pr[p].at # "none" /\ r.dir = pr[p].dir
  PROVE  World(m, [pr EXCEPT ![p] = r])
<1>1. /\ MemInv(m) /\ Books(m, pr) /\ pr \in [Programs -> ProgramRec] /\ r \in ProgramRec
  BY DEF World, ProgramInv
<1>2. Books(m, [pr EXCEPT ![p] = r])
  BY <1>1, SameBooks
<1>3. ASSUME NEW q \in Programs \ {p}, pr[q].at # "none"
      PROVE  /\ pr[q].dir \in UserDirsOf(m) /\ SameMap(m, pr[q].dir, m, pr[q].dir)
             /\ r.at # "none" => r.dir # pr[q].dir
  BY <1>3, WorldFacts DEF SameMap
<1> QED
  BY <1>1, <1>2, <1>3, OneProgram

LEMMA EndedStep ==
  ASSUME NEW m, NEW pr, World(m, pr), NEW p \in Programs, pr[p].at \notin {"map", "unmap"}
  PROVE  World(m, [pr EXCEPT ![p] = NoProgram])
<1>1. ProgramInv(m, NoProgram)
  BY NoProgramOK DEF ProgramInv
<1> QED
  BY <1>1, NoProgramOK, ProgramMoves

\* Pages that a call may map; and the promised pages, if they are there.
CallRange(b, n) == \A v \in b .. b + n - 1 : v \in VPages \ {0} /\ DentOf(v) \notin DeviceEntries
HasPromised(m, dir, r) == \A v \in Promised(r) : v \in MappedIn(m, dir) /\ Pte(m, dir, v).user

\* A program enters a call: what it knows of the pages of the call.
LEMMA Enters ==
  ASSUME NEW m, NEW dir, dir \in UserDirsOf(m), dir \in Frames \cup {NULL},
         NEW brk \in Nat, NEW want \in Nat, NEW for, for \in {"image", "stack", "brk"},
         NEW b \in Nat, NEW n \in Nat \ {0},
         NEW r, r = [at |-> "frame", dir |-> dir, brk |-> brk, want |-> want, for |-> for,
                     call |-> Call(b, n, MappedIn(m, dir))],
         CallRange(b, n), Asked(r), for = "stack" => brk = (Image.base + Image.count) * PAGE_SIZE,
         for = "brk" => brk > 0 /\ want \in Breaks \ {0},
         for = "image" => MappedIn(m, dir) \cap ImagePages = {},
         HasPromised(m, dir, r)
  PROVE  ProgramInv(m, r)
<1>1. /\ r.at = "frame" /\ r.dir = dir /\ r.brk = brk /\ r.want = want /\ r.for = for
      /\ r.call = [base |-> b, count |-> n, i |-> 0, frame |-> NULL, res |-> "SUCCESS",
                   saved |-> MappedIn(m, dir)]
  BY DEF Call
<1>2. r.call \in CallRec
  <2>1. MappedIn(m, dir) \in SUBSET VPages
    BY DEF MappedIn
  <2> QED
    BY <1>1, <2>1 DEF CallRec, Results
<1>3. r \in ProgramRec
  BY <1>2 DEF ProgramRec
<1>4. r.call.base = b /\ r.call.count = n /\ r.call.i = 0 /\ r.call.res = "SUCCESS"
      /\ r.call.saved = MappedIn(m, dir)
  BY <1>1
<1>5. Calling(r) /\ CallProgress(r)
  BY <1>1, <1>4 DEF CallProgress, Calling, CallRange
<1>6. DonePages(r) = {}
  <2>1. DonePages(r) = b .. b + 0 - 1
    BY <1>1, <1>4 DEF DonePages
  <2> QED
    BY <2>1
<1>7. CallPages(m, r)
  BY <1>1, <1>4, <1>6 DEF CallPages
<1>8. \A v \in Promised(r) : v \in VPages \ IdentPages /\ Pte(m, r.dir, v) # NULL /\ Pte(m, r.dir, v).user
  BY <1>1 DEF MappedIn, HasPromised
<1>9. Promised(r) \subseteq r.call.saved
  BY <1>4 DEF HasPromised
<1> QED
  BY <1>1, <1>3, <1>4, <1>5, <1>7, <1>8, <1>9 DEF ProgramInv

\* A program is in ring 3 again.
LEMMA BackInRing3 ==
  ASSUME NEW m, NEW r, ProgramInv(m, r), r.at # "none", NEW brk \in Nat \ {0},
         NEW r2, r2 = InRing3(r, brk),
         \A v \in ImagePages \cup StackPages \cup (Image.base + Image.count .. PageUp(brk) - 1) :
           v \in MappedIn(m, r.dir) /\ Pte(m, r.dir, v).user
  PROVE  ProgramInv(m, r2)
<1>1. /\ r2.at = "user" /\ r2.dir = r.dir /\ r2.brk = brk /\ r2.want = 0 /\ r2.for = "none"
      /\ r2.call = NoCall /\ ~Calling(r2)
  BY DEF InRing3, Calling
<1>2. r \in ProgramRec /\ r.dir \in UserDirsOf(m) /\ r.dir \in Frames \cup {NULL}
  BY ProgramFields DEF ProgramInv
<1>3. NoCall \in CallRec
  BY DEF NoCall, CallRec, Results
<1>4. r2 \in ProgramRec
  BY <1>2, <1>3 DEF ProgramRec, InRing3
<1>5. Promised(r2) = ImagePages \cup StackPages \cup (Image.base + Image.count .. PageUp(brk) - 1)
  BY <1>1, <1>4, PromisedOf
<1>6. \A v \in Promised(r2) : v \in VPages \ IdentPages /\ Pte(m, r2.dir, v) # NULL /\ Pte(m, r2.dir, v).user
  BY <1>1, <1>5 DEF MappedIn
<1> QED
  BY <1>1, <1>2, <1>4, <1>6 DEF ProgramInv

\* What a call that succeeded has mapped.
LEMMA Returned ==
  ASSUME NEW m, NEW r, ProgramInv(m, r), r.at = "return"
  PROVE  /\ r \in ProgramRec /\ r.dir \in UserDirsOf(m) /\ CallProgress(r)
         /\ \A v \in Promised(r) : v \in MappedIn(m, r.dir) /\ Pte(m, r.dir, v).user
         /\ r.call.res = "SUCCESS" =>
              /\ Asked(r)
              /\ \A v \in r.call.base .. r.call.base + r.call.count - 1 :
                   v \in MappedIn(m, r.dir) /\ Pte(m, r.dir, v).user
<1>1. /\ r \in ProgramRec /\ r.dir \in UserDirsOf(m) /\ CallProgress(r) /\ CallPages(m, r)
      /\ \A v \in Promised(r) : v \in VPages \ IdentPages /\ Pte(m, r.dir, v) # NULL /\ Pte(m, r.dir, v).user
  BY DEF ProgramInv, Calling
<1>2. r.call.res = "SUCCESS" => DonePages(r) = r.call.base .. r.call.base + r.call.count - 1
  BY <1>1, CallPagesOf
<1>3. r.call.res = "SUCCESS" => Asked(r)
  BY <1>1 DEF CallProgress
<1>4. ASSUME r.call.res = "SUCCESS", NEW v \in r.call.base .. r.call.base + r.call.count - 1
      PROVE  v \in MappedIn(m, r.dir) /\ Pte(m, r.dir, v).user
  <2>1. v \in DonePages(r)
    BY <1>2, <1>4
  <2> QED
    BY <1>1, <2>1 DEF CallPages
<1>5. \A v \in Promised(r) : v \in MappedIn(m, r.dir) /\ Pte(m, r.dir, v).user
  BY <1>1 DEF MappedIn
<1> QED
  BY <1>1, <1>3, <1>4, <1>5

\* The layout in the words of the proofs.
LEMMA Layout ==
  /\ Image.base \in Nat /\ Image.count \in Nat \ {0} /\ Stack.base \in Nat /\ Stack.count \in Nat \ {0}
  /\ \A v \in ImagePages \cup StackPages : v \in VPages \ {0} /\ DentOf(v) \notin DeviceEntries
  /\ \A b \in Breaks : b \in Nat /\ \A v \in 1 .. PageUp(b) - 1 : v \in VPages \ {0} /\ DentOf(v) \notin DeviceEntries
  /\ \A v \in FaultPages : v \in KernelHeapBase .. KernelVirtualBase - 1 =>
       v \in VPages \ {0} /\ DentOf(v) \notin DeviceEntries
  /\ HeapTop \in Nat /\ HeapLimit \in Nat
  /\ \A v \in HeapTop .. HeapLimit - 1 :
       /\ v \in VPages \ {0} /\ DentOf(v) \notin DeviceEntries
       /\ v \in IdentPages \/ DentOf(v) = USER_PD_ENTRY
<1>1. /\ Image.base \in Nat /\ Stack.base \in Nat
  BY VmmAssumption DEF VPages
<1>2. /\ Image.count \in Nat \ {0} /\ Stack.count \in Nat \ {0} /\ Breaks \subseteq Nat
      /\ HeapTop \in Nat /\ HeapLimit \in Nat
  BY LayoutAssumption
<1>3. ASSUME NEW v, v \in ImagePages \cup StackPages \cup (UNION {1 .. PageUp(b) - 1 : b \in Breaks})
             \cup (FaultPages \cap KernelHeapBase .. KernelVirtualBase - 1)
             \cup (HeapTop .. HeapLimit - 1)
      PROVE  v \in VPages \ {0} /\ DentOf(v) \notin DeviceEntries
  BY <1>3, LayoutAssumption DEF DentOf
<1>4. ASSUME NEW v \in HeapTop .. HeapLimit - 1 PROVE v \in IdentPages \/ DentOf(v) = USER_PD_ENTRY
  BY LayoutAssumption DEF DentOf
<1>5. ASSUME NEW b \in Breaks, NEW v \in 1 .. PageUp(b) - 1
      PROVE  v \in UNION {1 .. PageUp(c) - 1 : c \in Breaks}
  OBVIOUS
<1> QED
  BY <1>1, <1>2, <1>3, <1>4, <1>5

LEMMA LoadReturnStep ==
  ASSUME World(mem, prog), NEW p \in Programs, LoadReturn(p)
  PROVE  World(mem', prog')
<1> DEFINE r == prog[p]
<1>1. mem' = mem /\ r.at = "return" /\ r.for = "image"
  BY DEF LoadReturn, At
<1>2. ProgramInv(mem, r) /\ r \in ProgramRec
  BY DEF World
<1>3. CASE r.call.res = "NO_MEMORY"
  <2>1. prog' = [prog EXCEPT ![p] = NoProgram]
    BY <1>3 DEF LoadReturn, Ended
  <2> QED
    BY <1>1, <2>1, EndedStep
<1>4. CASE r.call.res # "NO_MEMORY"
  <2> DEFINE brk == (Image.base + Image.count) * PAGE_SIZE
             r2 == [at |-> "frame", dir |-> r.dir, brk |-> brk, want |-> 0, for |-> "stack",
                    call |-> Call(Stack.base, Stack.count, MappedIn(mem, r.dir))]
  <2>1. prog' = [prog EXCEPT ![p] = r2]
    BY <1>4 DEF LoadReturn, Mapped
  <2>2. r.dir \in UserDirsOf(mem) /\ CallProgress(r) /\ r.dir \in Frames \cup {NULL}
    BY <1>1, <1>2, Returned, ProgramFields
  <2>3. r.call.res = "SUCCESS"
    <3>1. r.call.res \in Results
      BY <1>2, ProgramFields
    <3>2. r.call.res # "ALREADY_MAPPED"
      BY <1>1, <2>2 DEF CallProgress
    <3> QED
      BY <1>4, <3>1, <3>2 DEF Results
  <2>4. \A v \in ImagePages : v \in MappedIn(mem, r.dir) /\ Pte(mem, r.dir, v).user
    <3>1. Asked(r) /\ \A v \in r.call.base .. r.call.base + r.call.count - 1 :
            v \in MappedIn(mem, r.dir) /\ Pte(mem, r.dir, v).user
      BY <1>1, <1>2, <2>3, Returned
    <3> QED
      BY <1>1, <3>1 DEF Asked, ImagePages
  <2>5. brk \in Nat
    BY Layout, Constants
  <2> HIDE DEF r, brk
  <2>6. r2.at = "frame" /\ r2.for = "stack" /\ r2.dir = r.dir /\ r2.call.base = Stack.base /\ r2.call.count = Stack.count
    BY DEF Call
  <2>7. Asked(r2) /\ Promised(r2) = ImagePages
    BY <2>6 DEF Asked, Promised
  <2>8. ProgramInv(mem, r2)
    <3>1. CallRange(Stack.base, Stack.count)
      BY Layout DEF StackPages, CallRange
    <3>2. Stack.base \in Nat /\ Stack.count \in Nat \ {0} /\ brk = (Image.base + Image.count) * PAGE_SIZE
      BY Layout DEF brk
    <3>3. HasPromised(mem, r.dir, r2)
      BY <2>4, <2>7 DEF HasPromised
    <3> HIDE DEF r2
    <3>4. r2 = [at |-> "frame", dir |-> r.dir, brk |-> brk, want |-> 0, for |-> "stack",
                call |-> Call(Stack.base, Stack.count, MappedIn(mem, r.dir))]
      BY DEF r2
    <3> QED
      BY <2>2, <2>5, <2>7, <3>1, <3>2, <3>3, <3>4, Enters
  <2> HIDE DEF r2
  <2>9. World(mem, [prog EXCEPT ![p] = r2])
    <3>1. prog[p].at = "return" /\ r2.dir = prog[p].dir
      BY <1>1, <2>6 DEF r
    <3> QED
      BY <2>6, <2>8, <3>1, ProgramMoves
  <2> QED
    BY <1>1, <2>1, <2>9
<1> QED
  BY <1>3, <1>4

LEMMA StackReturnStep ==
  ASSUME World(mem, prog), NEW p \in Programs, StackReturn(p)
  PROVE  World(mem', prog')
<1> DEFINE r == prog[p]
<1>1. mem' = mem /\ r.at = "return" /\ r.for = "stack"
  BY DEF StackReturn, At
<1>2. ProgramInv(mem, r) /\ r \in ProgramRec
  BY DEF World
<1>3. CASE r.call.res # "SUCCESS"
  <2>1. prog' = [prog EXCEPT ![p] = NoProgram]
    BY <1>3 DEF StackReturn, Ended
  <2> QED
    BY <1>1, <2>1, EndedStep
<1>4. CASE r.call.res = "SUCCESS"
  <2> DEFINE r2 == InRing3(r, r.brk)
  <2>1. prog' = [prog EXCEPT ![p] = r2]
    BY <1>4 DEF StackReturn
  <2>2. r.brk = (Image.base + Image.count) * PAGE_SIZE
    BY <1>1, <1>2 DEF ProgramInv
  <2>3. r.brk \in Nat \ {0}
    <3>1. Image.base + Image.count \in Nat /\ Image.base + Image.count > 0
      BY Layout
    <3> QED
      BY <2>2, <3>1, Constants
  <2>4. \A v \in StackPages : v \in MappedIn(mem, r.dir) /\ Pte(mem, r.dir, v).user
    <3>1. Asked(r) /\ \A v \in r.call.base .. r.call.base + r.call.count - 1 :
            v \in MappedIn(mem, r.dir) /\ Pte(mem, r.dir, v).user
      BY <1>1, <1>2, <1>4, Returned
    <3> QED
      BY <1>1, <3>1 DEF Asked, StackPages
  <2>5. \A v \in ImagePages : v \in MappedIn(mem, r.dir) /\ Pte(mem, r.dir, v).user
    <3>1. Promised(r) = ImagePages
      BY <1>1, <1>2, PromisedOf
    <3> QED
      BY <1>1, <1>2, <3>1, Returned
  <2>6. Image.base + Image.count .. PageUp(r.brk) - 1 = {}
    <3>1. Image.base + Image.count \in Nat
      BY Layout
    <3>2. PageUp(r.brk) \in Nat /\ PageUp(r.brk) <= Image.base + Image.count
      BY <2>2, <2>3, <3>1, PageUpIs
    <3> QED
      BY <3>1, <3>2
  <2> HIDE DEF r
  <2>7. ProgramInv(mem, r2)
    BY <1>1, <1>2, <2>3, <2>4, <2>5, <2>6, BackInRing3
  <2>8. r2.at = "user" /\ r2.dir = r.dir
    BY DEF InRing3
  <2> HIDE DEF r2
  <2>9. World(mem, [prog EXCEPT ![p] = r2])
    <3>1. prog[p].at = "return" /\ r2.dir = prog[p].dir
      BY <1>1, <2>8 DEF r
    <3> QED
      BY <2>7, <2>8, <3>1, ProgramMoves
  <2> QED
    BY <1>1, <2>1, <2>9
<1> QED
  BY <1>3, <1>4

\* In ring 3 a program has what it was promised.
LEMMA InRing3Facts ==
  ASSUME NEW m, NEW r, ProgramInv(m, r), r.at = "user"
  PROVE  /\ r \in ProgramRec /\ r.dir \in UserDirsOf(m) /\ r.dir \in Frames \cup {NULL}
         /\ r.brk \in Nat \ {0}
         /\ Promised(r) = ImagePages \cup StackPages \cup (Image.base + Image.count .. PageUp(r.brk) - 1)
         /\ \A v \in Promised(r) : v \in MappedIn(m, r.dir) /\ Pte(m, r.dir, v).user
<1>1. /\ r \in ProgramRec /\ r.dir \in UserDirsOf(m) /\ r.brk > 0
      /\ \A v \in Promised(r) : v \in VPages \ IdentPages /\ Pte(m, r.dir, v) # NULL /\ Pte(m, r.dir, v).user
      /\ Calling(r) <=> r.for # "none"
  BY DEF ProgramInv
<1>2. r.for = "none"
  BY <1>1 DEF Calling
<1>3. r.dir \in Frames \cup {NULL} /\ r.brk \in Nat \ {0}
  <2>1. r.dir \in Frames \cup {NULL} /\ r.brk \in Nat
    BY <1>1, ProgramFields
  <2> QED
    BY <1>1, <2>1
<1>4. \A v \in Promised(r) : v \in MappedIn(m, r.dir) /\ Pte(m, r.dir, v).user
  BY <1>1 DEF MappedIn
<1> QED
  BY <1>1, <1>2, <1>3, <1>4, PromisedOf

LEMMA BrkStep ==
  ASSUME World(mem, prog), NEW p \in Programs, NEW addr \in Breaks, sys_brk(p, addr)
  PROVE  World(mem', prog')
<1> DEFINE r == prog[p]
           cur_top == PageUp(r.brk)
           new_top == PageUp(addr)
<1>1. mem' = mem /\ r.at = "user" /\ addr # 0
  BY DEF sys_brk, At
<1>2. ProgramInv(mem, r) /\ prog[p] = r
  BY DEF World
<1>3. addr \in Nat \ {0}
  BY <1>1, Layout
<1>4. /\ r \in ProgramRec /\ r.dir \in UserDirsOf(mem) /\ r.dir \in Frames \cup {NULL} /\ r.brk \in Nat \ {0}
      /\ Promised(r) = ImagePages \cup StackPages \cup (Image.base + Image.count .. PageUp(r.brk) - 1)
      /\ \A v \in Promised(r) : v \in MappedIn(mem, r.dir) /\ Pte(mem, r.dir, v).user
  BY <1>1, <1>2, InRing3Facts
<1>5. cur_top \in Nat /\ new_top \in Nat /\ cur_top >= 1
  <2>1. cur_top \in Nat /\ (cur_top <= 0 <=> r.brk <= 0 * PAGE_SIZE)
    BY <1>4, PageUpIs
  <2>2. 0 * PAGE_SIZE = 0
    BY Constants
  <2> QED
    BY <1>3, <1>4, <2>1, <2>2, PageUpIs
<1>6. Image.base + Image.count \in Nat
  BY Layout
<1>7. CASE addr > r.brk /\ new_top > cur_top
  <2> DEFINE r2 == [at |-> "frame", dir |-> r.dir, brk |-> r.brk, want |-> addr, for |-> "brk",
                    call |-> Call(cur_top, new_top - cur_top, MappedIn(mem, r.dir))]
  <2>1. prog' = [prog EXCEPT ![p] = r2]
    BY <1>7 DEF sys_brk, Mapped
  <2> HIDE DEF r
  <2>2. r2.at = "frame" /\ r2.for = "brk" /\ r2.dir = r.dir /\ r2.brk = r.brk /\ r2.want = addr
        /\ r2.call.base = cur_top /\ r2.call.count = new_top - cur_top
    BY DEF Call
  <2>3. Asked(r2)
    BY <1>5, <2>2 DEF Asked
  <2>4. Promised(r2) = Promised(r)
    BY <1>4, <2>2 DEF Promised
  <2> DEFINE n == new_top - cur_top
  <2> HIDE DEF cur_top, new_top
  <2>5. CallRange(cur_top, n)
    <3>1. \A v \in cur_top .. cur_top + n - 1 : v \in 1 .. PageUp(addr) - 1
      BY <1>5 DEF new_top
    <3> QED
      BY <3>1, Layout DEF CallRange
  <2>6. n \in Nat \ {0}
    BY <1>5, <1>7
  <2>7. HasPromised(mem, r.dir, r2)
    BY <1>4, <2>4 DEF HasPromised
  <2> HIDE DEF r2
  <2>8. r2 = [at |-> "frame", dir |-> r.dir, brk |-> r.brk, want |-> addr, for |-> "brk",
              call |-> Call(cur_top, n, MappedIn(mem, r.dir))]
    BY DEF r2
  <2> HIDE DEF n
  <2>9. r.brk \in Nat /\ addr \in Nat /\ r.brk > 0 /\ addr \in Breaks \ {0}
    BY <1>3, <1>4
  <2>10. ProgramInv(mem, r2)
    BY <1>4, <1>5, <2>3, <2>5, <2>6, <2>7, <2>8, <2>9, Enters
  <2>11. World(mem, [prog EXCEPT ![p] = r2])
    <3>1. prog[p].at = "user" /\ r2.dir = prog[p].dir
      BY <1>1, <1>2, <2>2
    <3> QED
      BY <2>2, <2>10, <3>1, ProgramMoves
  <2> QED
    BY <1>1, <2>1, <2>11
<1>8. CASE ~(addr > r.brk /\ new_top > cur_top)
  <2> DEFINE r2 == InRing3(r, addr)
  <2>1. prog' = [prog EXCEPT ![p] = r2]
    BY <1>8 DEF sys_brk
  <2>2. new_top <= cur_top
    <3>1. CASE addr <= r.brk
      BY <1>3, <1>4, <3>1, PageUpMonotone
    <3> QED
      BY <1>3, <1>4, <1>5, <1>8, <3>1
  <2> HIDE DEF r, cur_top, new_top
  <2>3. \A v \in ImagePages \cup StackPages \cup (Image.base + Image.count .. PageUp(addr) - 1) :
          v \in MappedIn(mem, r.dir) /\ Pte(mem, r.dir, v).user
    <3>1. \A v \in Image.base + Image.count .. new_top - 1 : v \in Image.base + Image.count .. cur_top - 1
      BY <1>5, <1>6, <2>2
    <3> QED
      BY <1>4, <3>1 DEF cur_top, new_top
  <2>4. ProgramInv(mem, r2)
    BY <1>1, <1>2, <1>3, <2>3, BackInRing3
  <2>5. r2.at = "user" /\ r2.dir = r.dir
    BY DEF InRing3
  <2> HIDE DEF r2
  <2>6. World(mem, [prog EXCEPT ![p] = r2])
    <3>1. prog[p].at = "user" /\ r2.dir = prog[p].dir
      BY <1>1, <1>2, <2>5
    <3> QED
      BY <2>4, <2>5, <3>1, ProgramMoves
  <2> QED
    BY <1>1, <2>1, <2>6
<1> QED
  BY <1>7, <1>8

LEMMA BrkReturnStep ==
  ASSUME World(mem, prog), NEW p \in Programs, BrkReturn(p)
  PROVE  World(mem', prog')
<1> DEFINE r   == prog[p]
           brk == NewBreak(p)
           r2  == InRing3(r, brk)
           base == Image.base + Image.count
<1>1. mem' = mem /\ r.at = "return" /\ r.for = "brk" /\ prog' = [prog EXCEPT ![p] = r2]
  BY DEF BrkReturn, At
<1>2. ProgramInv(mem, r) /\ prog[p] = r /\ brk = IF r.call.res = "SUCCESS" THEN r.want ELSE r.brk
  BY DEF World, NewBreak
<1> HIDE DEF brk, r
<1>3. /\ r \in ProgramRec /\ r.brk \in Nat \ {0} /\ r.want \in Nat \ {0}
  <2>1. r \in ProgramRec /\ r.brk > 0 /\ r.want # 0
    BY <1>1, <1>2 DEF ProgramInv
  <2>2. r.brk \in Nat /\ r.want \in Nat
    BY <2>1, ProgramFields
  <2> QED
    BY <2>1, <2>2
<1>4. /\ \A v \in Promised(r) : v \in MappedIn(mem, r.dir) /\ Pte(mem, r.dir, v).user
      /\ r.call.res = "SUCCESS" =>
           /\ Asked(r)
           /\ \A v \in r.call.base .. r.call.base + r.call.count - 1 :
                v \in MappedIn(mem, r.dir) /\ Pte(mem, r.dir, v).user
  BY <1>1, <1>2, Returned
<1>5. Promised(r) = ImagePages \cup StackPages \cup (base .. PageUp(r.brk) - 1)
  BY <1>1, <1>3, PromisedOf
<1>6. base \in Nat /\ PageUp(r.brk) \in Nat /\ PageUp(r.want) \in Nat
  BY <1>3, Layout, PageUpIs
<1> HIDE DEF base
<1>7. \A v \in ImagePages \cup StackPages \cup (base .. PageUp(brk) - 1) :
        v \in MappedIn(mem, r.dir) /\ Pte(mem, r.dir, v).user
  <2>1. CASE r.call.res # "SUCCESS"
    BY <1>2, <1>4, <1>5, <2>1
  <2>2. CASE r.call.res = "SUCCESS"
    <3>1. r.call.base = PageUp(r.brk) /\ r.call.base + r.call.count = PageUp(r.want) /\ brk = r.want
      BY <1>1, <1>2, <1>4, <2>2 DEF Asked
    <3>2. \A v \in base .. PageUp(r.want) - 1 :
            v \in base .. PageUp(r.brk) - 1 \/ v \in PageUp(r.brk) .. PageUp(r.want) - 1
      BY <1>6
    <3>3. \A v \in PageUp(r.brk) .. PageUp(r.want) - 1 : v \in MappedIn(mem, r.dir) /\ Pte(mem, r.dir, v).user
      <4>1. r.call.base \in Nat /\ r.call.count \in Nat
        BY <1>3, ProgramFields
      <4>2. PageUp(r.brk) .. PageUp(r.want) - 1 = r.call.base .. r.call.base + r.call.count - 1
        BY <1>6, <3>1, <4>1
      <4> QED
        BY <1>4, <2>2, <4>2
    <3> QED
      BY <1>4, <1>5, <3>1, <3>2, <3>3
  <2> QED
    BY <2>1, <2>2
<1>8. brk \in Nat \ {0}
  BY <1>2, <1>3
<1>9. ProgramInv(mem, r2)
  BY <1>1, <1>2, <1>7, <1>8, BackInRing3 DEF base
<1>10. r2.at = "user" /\ r2.dir = r.dir
  BY DEF InRing3
<1> HIDE DEF r2
<1>11. World(mem, [prog EXCEPT ![p] = r2])
  <2>1. prog[p].at = "return" /\ r2.dir = prog[p].dir
    BY <1>1, <1>2, <1>10
  <2> QED
    BY <1>9, <1>10, <2>1, ProgramMoves
<1> QED
  BY <1>1, <1>11

LEMMA ExitStep ==
  ASSUME World(mem, prog), NEW p \in Programs, Exit(p)
  PROVE  World(mem', prog')
<1>1. prog' = [prog EXCEPT ![p] = NoProgram] /\ mem' = mem /\ prog[p].at = "user"
  BY DEF Exit, Ended, At
<1> QED
  BY <1>1, EndedStep

-----------------------------------------------------------------------------
(***************************************************************************)
(* The kernel maps pages for itself.                                       *)
(***************************************************************************)

\* MapFrame fails and leaves everything as it was, or puts a fresh frame where
\* nothing was mapped.
KernelMapped(m, d, v, r) ==
  \/ r.res # "SUCCESS" /\ r.mem = m
  \/ /\ r.res = "SUCCESS" /\ Pte(m, d, v) = NULL
     /\ \E m1 : /\ Reach(m, m1, d, v)
                /\ \E f \in Frames \ m1.used :
                     r.mem = Filled(m1, m1.used \cup {f}, m1.pd[d][DentOf(v)], SlotOf(v),
                                    [frame |-> f, user |-> FALSE])

LEMMA MapFrameOutcome ==
  ASSUME NEW m, MemInv(m), NEW d \in DOMAIN m.pd, NEW v \in VPages
  PROVE  KernelMapped(m, d, v, MapFrame(m, d, v, FALSE))
<1> DEFINE f  == pmm_alloc_frame(m)
           e  == [frame |-> f, user |-> FALSE]
           m0 == Take(m, f)
           r  == vmm_map_page(m0, d, v, e)
           R  == MapFrame(m, d, v, FALSE)
           i  == DentOf(v)
<1>1. R = IF f = NULL THEN [res |-> "NO_MEMORY", mem |-> m]
          ELSE IF r.res = "SUCCESS" THEN r ELSE [res |-> r.res, mem |-> Give(r.mem, f)]
  BY DEF MapFrame
<1>2. f # NULL => f \in Frames \ m.used
  BY AllocFrameFree
<1> HIDE DEF f, r, R, i
<1>3. CASE f = NULL
  <2>1. R = [res |-> "NO_MEMORY", mem |-> m]
    BY <1>1, <1>3
  <2>2. R.res # "SUCCESS" /\ R.mem = m
    BY <2>1
  <2> QED
    BY <2>2 DEF KernelMapped, R
<1>4. CASE f # NULL
  <2>1. f \in Frames /\ f \notin m.used
    BY <1>2, <1>4
  <2>2. m = [used |-> m.used, pd |-> m.pd, pt |-> m.pt] /\ m.used \subseteq Frames /\ MemType(m)
    BY DEF MemInv, MemType
  <2>3. m0 = [used |-> m.used \cup {f}, pd |-> m.pd, pt |-> m.pt]
    BY <2>2 DEF Take
  <2>4. MemInv(m0) /\ m0.used = m.used \cup {f} /\ m0.pd = m.pd /\ m0.pt = m.pt /\ Pte(m0, d, v) = Pte(m, d, v)
    <3>1. m.used \cup {f} \in SUBSET Frames
      BY <2>1, <2>2
    <3>2. m0 = [m EXCEPT !.used = m.used \cup {f}]
      BY DEF Take
    <3> QED
      BY <3>1, <3>2, SameTables
  <2> HIDE DEF m0
  <2>5. MapResult(m0, d, v, e, r)
    BY <2>4, MapOutcome DEF MemInv, r
  <2> HIDE DEF e
  <2>6. CASE r.res # "SUCCESS"
    <3>1. r.mem = m0
      BY <2>5, <2>6 DEF MapResult
    <3>2. Give(m0, f) = [used |-> (m.used \cup {f}) \ {f}, pd |-> m.pd, pt |-> m.pt]
      BY <2>3 DEF Give
    <3>3. (m.used \cup {f}) \ {f} = m.used
      BY <2>1
    <3>4. R.res = r.res /\ R.mem = m
      BY <1>1, <1>4, <2>2, <2>6, <3>1, <3>2, <3>3
    <3> QED
      BY <2>6, <3>4 DEF KernelMapped, R
  <2>7. CASE r.res = "SUCCESS"
    <3>1. PICK n1 : Reach(m0, n1, d, v) /\ r.mem = Filled(n1, n1.used, n1.pd[d][i], SlotOf(v), e)
      BY <2>5, <2>7 DEF MapResult, i
    <3>2. Pte(m, d, v) = NULL /\ R = r
      BY <1>1, <1>4, <2>4, <2>5, <2>7 DEF MapResult
    <3>3. CASE n1 = m0 /\ m0.pd[d][i] # NULL
      <4>1. Reach(m, m, d, v)
        BY <2>4, <3>3 DEF Reach, i
      <4>2. r.mem = Filled(m, m.used \cup {f}, m.pd[d][i], SlotOf(v), e)
        BY <2>4, <3>1, <3>3 DEF Filled
      <4> QED
        BY <2>1, <2>7, <3>2, <4>1, <4>2 DEF KernelMapped, R, e, i
    <3>4. CASE m0.pd[d][i] = NULL /\ \E g \in Frames \ m0.used : n1 = Tabled(m0, d, i, g)
      <4>1. PICK g \in Frames \ m0.used : n1 = Tabled(m0, d, i, g)
        BY <3>4
      <4> DEFINE m1 == Tabled(m, d, i, g)
      <4>2. Reach(m, m1, d, v)
        BY <2>4, <3>4, <4>1 DEF Reach, i
      <4>3. m1.used = m.used \cup {g} /\ n1.used = m1.used \cup {f} /\ n1.pd = m1.pd /\ n1.pt = m1.pt
        BY <2>4, <4>1 DEF Tabled
      <4>4. f \in Frames \ m1.used
        BY <2>1, <2>4, <4>1, <4>3
      <4> HIDE DEF m1
      <4>5. r.mem = Filled(m1, m1.used \cup {f}, m1.pd[d][i], SlotOf(v), e)
        BY <3>1, <4>3 DEF Filled
      <4> QED
        BY <2>7, <3>2, <4>2, <4>4, <4>5 DEF KernelMapped, R, e, i
    <3> QED
      BY <3>1, <3>3, <3>4 DEF Reach, i
  <2> QED
    BY <2>6, <2>7
<1> QED
  BY <1>3, <1>4

\* No call is working in directory d.
NoCallIn(pr, d) ==
  \A p \in Programs : pr[p].at # "none" /\ pr[p].dir = d => pr[p].at = "user"

\* The kernel gets a page in a directory that no call is working in.
LEMMA KernelMapStep ==
  ASSUME NEW m, NEW pr, World(m, pr), NEW d \in DOMAIN m.pd,
         NEW v \in VPages \ {0}, DentOf(v) \notin DeviceEntries,
         d = BootDir => v \in IdentPages \/ DentOf(v) = USER_PD_ENTRY,
         NoCallIn(pr, d)
  PROVE  World(MapFrame(m, d, v, FALSE).mem, pr)
<1> DEFINE r == MapFrame(m, d, v, FALSE)
<1>1. MemInv(m) /\ IdentComplete(m)
  BY DEF World, MemInv
<1>2. KernelMapped(m, d, v, r)
  BY <1>1, MapFrameOutcome
<1> HIDE DEF r
<1>3. CASE r.res # "SUCCESS"
  BY <1>2, <1>3 DEF KernelMapped, r
<1>4. CASE r.res = "SUCCESS"
  <2>1. PICK m1 : /\ Reach(m, m1, d, v)
                  /\ \E f \in Frames \ m1.used :
                       r.mem = Filled(m1, m1.used \cup {f}, m1.pd[d][DentOf(v)], SlotOf(v),
                                      [frame |-> f, user |-> FALSE])
    BY <1>2, <1>4 DEF KernelMapped
  <2>2. PICK f \in Frames \ m1.used :
          r.mem = Filled(m1, m1.used \cup {f}, m1.pd[d][DentOf(v)], SlotOf(v), [frame |-> f, user |-> FALSE])
    BY <2>1
  <2>3. Pte(m, d, v) = NULL
    BY <1>2, <1>4 DEF KernelMapped
  <2>4. m.pd[d][DentOf(v)] = NULL /\ d = BootDir => DentOf(v) = USER_PD_ENTRY
    <3>1. SUFFICES ASSUME m.pd[d][DentOf(v)] = NULL, v \in IdentPages PROVE FALSE
      OBVIOUS
    <3>2. DentOf(v) \in 0 .. IDENT_TABLES - 1
      BY <3>1, PageParts, Constants DEF Dents
    <3> QED
      BY <1>1, <3>1, <3>2, Constants DEF IdentComplete
  <2>5. /\ World(m1, pr) /\ DOMAIN m1.pd = DOMAIN m.pd /\ m1.pd[d][DentOf(v)] # NULL
        /\ SameMap(m, d, m1, d)
    BY <2>1, <2>4, ReachWorld
  <2>6. Pte(m1, d, v) = NULL
    BY <2>3, <2>5 DEF SameMap
  <2>7. Own(m1, d, v)
    BY <2>5, <2>6, OwnTable DEF World
  <2>8. World(r.mem, pr)
    BY <2>2, <2>5, <2>6, <2>7, KernelFill DEF NoCallIn, FillOf
  <2> QED
    BY <2>8 DEF r
<1> QED
  BY <1>3, <1>4

\* The directories in use.
LEMMA InUseFacts ==
  ASSUME World(mem, prog), NEW d \in InUse
  PROVE  d \in DOMAIN mem.pd /\ NoCallIn(prog, d)
<1>1. BootDir \in DOMAIN mem.pd
  BY DEF World, MemInv, MemType
<1>2. CASE d = BootDir
  BY <1>1, <1>2, WorldFacts DEF NoCallIn
<1>3. CASE d # BootDir
  <2>1. PICK q \in Programs : prog[q].at = "user" /\ d = prog[q].dir
    BY <1>3 DEF InUse
  <2> QED
    BY <2>1, WorldFacts DEF NoCallIn
<1> QED
  BY <1>2, <1>3

LEMMA HeapGrowStep ==
  ASSUME VmmIInv, NEW d \in InUse, heap_grow(d)
  PROVE  VmmIInv'
<1>1. World(mem, prog) /\ heap_top \in Nat /\ heap_top >= HeapTop /\ heap \subseteq VPages /\ panicked \in BOOLEAN
  BY DEF VmmIInv
<1>2. /\ heap_top < HeapLimit /\ mem' = MapFrame(mem, d, heap_top, FALSE).mem
      /\ heap' = heap \cup {heap_top} /\ heap_top' = heap_top + 1 /\ prog' = prog /\ panicked' = panicked
  BY DEF heap_grow
<1>3. heap_top \in HeapTop .. HeapLimit - 1
  BY <1>1, <1>2, Layout
<1>4. /\ heap_top \in VPages \ {0} /\ DentOf(heap_top) \notin DeviceEntries
      /\ heap_top \in IdentPages \/ DentOf(heap_top) = USER_PD_ENTRY
  BY <1>3, Layout
<1>5. d \in DOMAIN mem.pd /\ NoCallIn(prog, d)
  BY <1>1, InUseFacts
<1>6. World(MapFrame(mem, d, heap_top, FALSE).mem, prog)
  BY <1>1, <1>4, <1>5, KernelMapStep
<1>7. heap_top' \in Nat /\ heap_top' >= HeapTop /\ heap' \subseteq VPages
  BY <1>1, <1>2, <1>4, Layout
<1> QED
  BY <1>1, <1>2, <1>6, <1>7 DEF VmmIInv

LEMMA KernelFaultStep ==
  ASSUME World(mem, prog), NEW p \in Programs, NEW v \in FaultPages, KernelFault(p, v)
  PROVE  World(mem', prog')
<1> DEFINE d == prog[p].dir
           r == MapFrame(mem, d, v, FALSE)
<1>1. prog' = prog /\ prog[p].at = "user"
  BY DEF KernelFault, At
<1>2. \/ mem' = mem
      \/ v \in KernelHeapBase .. KernelVirtualBase - 1 /\ mem' = r.mem
  BY DEF KernelFault
<1>3. d \in InUse /\ d # BootDir
  BY <1>1, WorldFacts DEF InUse
<1>4. d \in DOMAIN mem.pd /\ NoCallIn(prog, d)
  BY <1>3, InUseFacts
<1>5. CASE mem' = mem
  BY <1>1, <1>5
<1>6. CASE v \in KernelHeapBase .. KernelVirtualBase - 1 /\ mem' = r.mem
  <2>1. v \in VPages \ {0} /\ DentOf(v) \notin DeviceEntries
    BY <1>6, Layout
  <2>2. World(r.mem, prog)
    BY <1>3, <1>4, <2>1, KernelMapStep
  <2> QED
    BY <1>1, <1>6, <2>2
<1> QED
  BY <1>2, <1>5, <1>6

-----------------------------------------------------------------------------
(***************************************************************************)
(* The frame buffer is mapped before the first program starts.             *)
(***************************************************************************)

\* Entries of table t come to map pages of the frame buffer.
DeviceFilled(m, m2) ==
  /\ m2.used = m.used /\ m2.pd = m.pd /\ MemType(m2) /\ DOMAIN m2.pt = DOMAIN m.pt
  /\ \A x \in DOMAIN m.pt, j \in Slots :
       \/ m2.pt[x][j] = m.pt[x][j]
       \/ m.pt[x][j] = NULL /\ m2.pt[x][j] # NULL /\ ~m2.pt[x][j].user /\ m2.pt[x][j].frame \notin Frames

LEMMA DeviceMemInv ==
  ASSUME NEW m, MemInv(m), NEW m2, DeviceFilled(m, m2)
  PROVE  MemInv(m2)
<1>1. MemType(m) /\ TablesShared(m) /\ BootEntries(m) /\ KernelOnly(m) /\ IdentComplete(m)
  BY DEF MemInv
<1>2. m2.pd = m.pd /\ MemType(m2)
  BY DEF DeviceFilled
<1>3. ASSUME NEW x \in DOMAIN m.pt, NEW j \in Slots
      PROVE  \/ m2.pt[x][j] = m.pt[x][j]
             \/ m.pt[x][j] = NULL /\ m2.pt[x][j] # NULL /\ ~m2.pt[x][j].user
  BY DEF DeviceFilled
<1>4. TablesShared(m2) /\ BootEntries(m2)
  BY <1>1, <1>2 DEF TablesShared, BootEntries
<1>5. KernelOnly(m2)
  <2>1. SUFFICES ASSUME NEW i \in Dents \ {USER_PD_ENTRY}, NEW j \in Slots,
                        m.pd[BootDir][i] # NULL, m2.pt[m.pd[BootDir][i]][j] # NULL
                 PROVE  ~m2.pt[m.pd[BootDir][i]][j].user
    BY <1>2 DEF KernelOnly
  <2>2. m.pd[BootDir][i] \in DOMAIN m.pt
    BY <1>1, <2>1 DEF MemType
  <2>3. m.pt[m.pd[BootDir][i]][j] # NULL => ~m.pt[m.pd[BootDir][i]][j].user
    BY <1>1, <2>1 DEF KernelOnly
  <2> QED
    BY <1>3, <2>1, <2>2, <2>3
<1>6. IdentComplete(m2)
  <2>1. SUFFICES ASSUME NEW i \in 0 .. IDENT_TABLES - 1, NEW j \in Slots, i + j # 0
                 PROVE  m2.pt[BootTables[i]][j] # NULL
    BY <1>1, <1>2 DEF IdentComplete
  <2>2. BootTables[i] \in DOMAIN m.pt
    BY <1>1 DEF MemType, IdentTables
  <2>3. m.pt[BootTables[i]][j] # NULL
    BY <1>1, <2>1 DEF IdentComplete
  <2> QED
    BY <1>3, <2>2, <2>3
<1> QED
  BY <1>2, <1>4, <1>5, <1>6 DEF MemInv

\* The books count frames of the machine only.
LEMMA DeviceBooks ==
  ASSUME NEW m, NEW pr, MemType(m), Books(m, pr), NEW m2, DeviceFilled(m, m2)
  PROVE  Books(m2, pr)
<1>1. m2.used = m.used /\ m2.pd = m.pd /\ DOMAIN m2.pt = DOMAIN m.pt
  BY DEF DeviceFilled
<1>2. ASSUME NEW x \in DOMAIN m.pt, NEW j \in Slots
      PROVE  \/ m2.pt[x][j] = m.pt[x][j]
             \/ m.pt[x][j] = NULL /\ m2.pt[x][j].frame \notin Frames
  BY DEF DeviceFilled
<1>3. UserDirsOf(m2) = UserDirsOf(m) /\ NewTablesOf(m2) = NewTablesOf(m) /\ StructOf(m2) = StructOf(m)
  BY <1>1 DEF UserDirsOf, NewTablesOf, StructOf
<1>4. UndoneOf(m2, pr) = UndoneOf(m, pr)
  BY <1>1 DEF UndoneOf, EntryOf
<1>5. ASSUME NEW x \in NewTablesOf(m) \X Slots
      PROVE  /\ x \in HeldOf(m2, pr) <=> x \in HeldOf(m, pr)
             /\ x \in HeldOf(m, pr) => m2.pt[x[1]][x[2]] = m.pt[x[1]][x[2]]
  <2>1. x[1] \in DOMAIN m.pt /\ x[2] \in Slots
    BY DEF NewTablesOf
  <2> QED
    BY <1>2, <1>3, <1>4, <2>1 DEF HeldOf
<1>6. HeldOf(m2, pr) = HeldOf(m, pr)
  BY <1>3, <1>5 DEF HeldOf
<1>7. EntryFrames(m2, pr) = EntryFrames(m, pr)
  <2>1. \A x \in HeldOf(m, pr) : m2.pt[x[1]][x[2]] = m.pt[x[1]][x[2]]
    BY <1>5, SMTT(40) DEF HeldOf
  <2> QED
    BY <1>6, <2>1 DEF EntryFrames
<1> QED
  BY <1>1, <1>3, <1>7 DEF Books

\* A table gets a row of such entries.
LEMMA RowStored ==
  ASSUME NEW n, MemType(n), NEW t \in DOMAIN n.pt, NEW row \in [Slots -> Entry \cup {NULL}],
         \A j \in Slots : row[j] # n.pt[t][j] =>
           n.pt[t][j] = NULL /\ row[j] # NULL /\ ~row[j].user /\ row[j].frame \notin Frames,
         NEW m2, m2 = [used |-> n.used, pd |-> n.pd, pt |-> [n.pt EXCEPT ![t] = row]]
  PROVE  DeviceFilled(n, m2)
<1>1. n.pt \in [DOMAIN n.pt -> [Slots -> Entry \cup {NULL}]]
  BY DEF MemType
<1>2. m2.used = n.used /\ m2.pd = n.pd /\ m2.pt = [n.pt EXCEPT ![t] = row]
      /\ m2 = [used |-> m2.used, pd |-> m2.pd, pt |-> m2.pt]
  OBVIOUS
<1>3. m2.pt \in [DOMAIN n.pt -> [Slots -> Entry \cup {NULL}]] /\ DOMAIN m2.pt = DOMAIN n.pt
  BY <1>1, <1>2
<1>4. MemType(m2)
  BY <1>2, <1>3 DEF MemType
<1>5. \A x \in DOMAIN n.pt, j \in Slots : m2.pt[x][j] = IF x = t THEN row[j] ELSE n.pt[x][j]
  BY <1>1, <1>2
<1> QED
  BY <1>2, <1>3, <1>4, <1>5 DEF DeviceFilled

\* The programs stay where they are.
LEMMA WorldMoves ==
  ASSUME NEW m, NEW pr, World(m, pr), NEW m2, MemInv(m2), Books(m2, pr), \A p \in Programs : ProgramInv(m2, pr[p])
  PROVE  World(m2, pr)
  BY DEF World

LEMMA MapDeviceStep ==
  ASSUME World(mem, prog), MapDevice
  PROVE  World(mem', prog')
<1> DEFINE first == CHOOSE v \in Device : \A w \in Device : v <= w
           i == DentOf(first)
           e == [frame |-> first, user |-> FALSE]
           r == vmm_map_page(mem, BootDir, first, e)
<1>1. /\ DOMAIN mem.pd = {BootDir} /\ \A v \in Device : Pte(mem, BootDir, v) = NULL
      /\ r.res = "SUCCESS" /\ prog' = prog
      /\ mem' = [r.mem EXCEPT !.pt[r.mem.pd[BootDir][i]] = WithDevice(@, i)]
  BY DEF MapDevice, DentOf
<1>2. MemInv(mem) /\ MemType(mem) /\ IdentComplete(mem) /\ Books(mem, prog)
  BY DEF World, MemInv
<1>3. ASSUME NEW v \in Device
      PROVE  v \in VPages /\ v \in Nat /\ v \notin Frames /\ DentOf(v) \in DeviceEntries /\ DentOf(v) \in Dents
  <2>1. v \in VPages /\ v \notin Frames
    BY VmmAssumption
  <2> QED
    BY <2>1, PageParts DEF DeviceEntries, DentOf
<1>4. first \in Device
  <2>1. Device \in SUBSET Nat /\ Device # {}
    BY <1>3, LayoutAssumption
  <2>2. \E v \in Device : \A w \in Device : v <= w
    BY <2>1, LeastElement
  <2> QED
    BY <2>2
<1> HIDE DEF first
<1>5. first \in VPages /\ first \notin Frames /\ i \in DeviceEntries /\ i \in Dents
  BY <1>3, <1>4
<1>6. MapResult(mem, BootDir, first, e, r)
  BY <1>1, <1>2, <1>5, MapOutcome
<1> HIDE DEF r, e, i
<1>7. PICK n : Reach(mem, n, BootDir, first) /\ r.mem = Filled(n, n.used, n.pd[BootDir][i], SlotOf(first), e)
  BY <1>1, <1>6 DEF MapResult, i
<1>8. /\ World(n, prog) /\ DOMAIN n.pd = {BootDir} /\ n.pd[BootDir][i] # NULL
      /\ SameMap(mem, BootDir, n, BootDir)
  <2>1. BootDir \in DOMAIN mem.pd /\ DentOf(first) \in DeviceEntries /\ Reach(mem, n, BootDir, first)
    BY <1>1, <1>5, <1>7 DEF i
  <2>2. /\ World(n, prog) /\ DOMAIN n.pd = DOMAIN mem.pd /\ n.pd[BootDir][DentOf(first)] # NULL
        /\ \A c \in DOMAIN mem.pd : SameMap(mem, c, n, c)
    BY <1>5, <2>1, ReachWorld
  <2> QED
    BY <1>1, <2>1, <2>2 DEF i
<1> DEFINE t == n.pd[BootDir][i]
<1>9. MemInv(n) /\ MemType(n) /\ Books(n, prog) /\ t \in DOMAIN n.pt
  BY <1>5, <1>8 DEF World, MemInv, MemType
<1>10. n.pt \in [DOMAIN n.pt -> [Slots -> Entry \cup {NULL}]]
  BY <1>9 DEF MemType
<1> DEFINE row == [j \in Slots |-> IF PT_ENTRIES * i + j \in Device
                                   THEN [frame |-> PT_ENTRIES * i + j, user |-> FALSE] ELSE n.pt[t][j]]
<1>11. SlotOf(first) \in Slots /\ PT_ENTRIES * i + SlotOf(first) = first
  BY <1>5, PageParts DEF i
<1>12. ASSUME NEW j \in Slots, PT_ENTRIES * i + j \in Device
       PROVE  n.pt[t][j] = NULL
  <2> DEFINE v == PT_ENTRIES * i + j
  <2>1. v \in VPages /\ Pte(mem, BootDir, v) = NULL
    BY <1>1, <1>3, <1>12
  <2>2. DentOf(v) = i
    BY <1>4, <1>12, LayoutAssumption DEF DentOf, i
  <2>3. SlotOf(v) = j
    <3>1. PT_ENTRIES * i + j = PT_ENTRIES * i + SlotOf(v) /\ SlotOf(v) \in Slots
      BY <2>1, <2>2, PageParts
    <3>2. PT_ENTRIES * i \in Int /\ SlotOf(v) \in Int /\ j \in Int
      <4>1. PT_ENTRIES \in Int /\ i \in Int
        BY <1>5, Constants
      <4>2. PT_ENTRIES * i \in Int
        BY <4>1
      <4>3. Slots \subseteq Int
        BY Constants DEF Slots
      <4> HIDE DEF v
      <4> QED
        BY <3>1, <4>2, <4>3
    <3>3. SlotOf(v) = v - PT_ENTRIES * i
      BY <3>1, <3>2
    <3> QED
      BY <3>2, <3>3
  <2>4. Pte(n, BootDir, v) = NULL
    BY <1>8, <2>1 DEF SameMap
  <2> HIDE DEF v
  <2> QED
    BY <1>8, <2>2, <2>3, <2>4, PteIs
<1>13. mem' = [used |-> n.used, pd |-> n.pd, pt |-> [n.pt EXCEPT ![t] = row]]
  <2>1. r.mem = [used |-> n.used, pd |-> n.pd, pt |-> [n.pt EXCEPT ![t] = [n.pt[t] EXCEPT ![SlotOf(first)] = e]]]
    BY <1>7 DEF Filled
  <2> DEFINE o == [n.pt EXCEPT ![t] = [n.pt[t] EXCEPT ![SlotOf(first)] = e]]
  <2>2. o[t] = [n.pt[t] EXCEPT ![SlotOf(first)] = e] /\ DOMAIN o[t] = Slots
    BY <1>9, <1>10
  <2>3. WithDevice(o[t], i) = row
    BY <1>4, <1>10, <1>11, <2>2 DEF WithDevice
  <2>4. [o EXCEPT ![t] = row] = [n.pt EXCEPT ![t] = row]
    BY <1>10
  <2> HIDE DEF row
  <2>5. r.mem = [used |-> n.used, pd |-> n.pd, pt |-> o]
    BY <2>1
  <2> HIDE DEF o, t
  <2>6. r.mem.pd[BootDir][i] = t /\ r.mem.pt = o
    BY <2>5 DEF t
  <2>7. mem' = [r.mem EXCEPT !.pt = [o EXCEPT ![t] = row]]
    BY <1>1, <2>3, <2>6
  <2> QED
    BY <2>4, <2>5, <2>7
<1>14. DeviceFilled(n, mem')
  <2>1. row \in [Slots -> Entry \cup {NULL}]
    <3>1. ASSUME NEW j \in Slots PROVE row[j] \in Entry \cup {NULL}
      BY <1>3, <1>9, <1>10 DEF Entry
    <3> QED
      BY <3>1
  <2>2. ASSUME NEW j \in Slots, row[j] # n.pt[t][j]
        PROVE  n.pt[t][j] = NULL /\ row[j] # NULL /\ ~row[j].user /\ row[j].frame \notin Frames
    <3>1. PT_ENTRIES * i + j \in Device
      BY <2>2
    <3>2. row[j] = [frame |-> PT_ENTRIES * i + j, user |-> FALSE] /\ PT_ENTRIES * i + j \in Nat
          /\ PT_ENTRIES * i + j \notin Frames
      BY <1>3, <3>1
    <3>3. row[j] \in Entry
      <4> HIDE DEF row
      <4> QED
        BY <3>2 DEF Entry
    <3> QED
      BY <1>12, <3>1, <3>2, <3>3, Constants
  <2> HIDE DEF row, t
  <2> QED
    BY <1>9, <1>13, <2>1, <2>2, RowStored
<1> HIDE DEF row, t
<1>15. MemInv(mem') /\ Books(mem', prog)
  BY <1>9, <1>14, DeviceMemInv, DeviceBooks
<1>16. ASSUME NEW p \in Programs PROVE ProgramInv(mem', prog[p])
  <2>1. ProgramInv(mem, prog[p]) /\ (prog[p].at # "none" => prog[p].dir \in DOMAIN mem.pd /\ prog[p].dir # BootDir)
    BY WorldFacts
  <2>2. prog[p].at = "none"
    BY <1>1, <2>1
  <2> QED
    BY <2>1, <2>2, ProgramKept
<1>17. World(mem', prog)
  BY <1>2, <1>15, <1>16, WorldMoves
<1> QED
  BY <1>1, <1>17

-----------------------------------------------------------------------------
(***************************************************************************)
(* A program gets a directory.                                             *)
(***************************************************************************)

\* Frame f becomes a directory: a clone of the kernel's without the heap.
DirAdded(m, m2, f) ==
  /\ MemType(m2)
  /\ m2.used = m.used \cup {f} /\ m2.pt = m.pt /\ DOMAIN m2.pd = DOMAIN m.pd \cup {f}
  /\ \A e \in DOMAIN m.pd : m2.pd[e] = m.pd[e]
  /\ \A i \in Dents : m2.pd[f][i] = IF i = USER_PD_ENTRY THEN NULL ELSE m.pd[BootDir][i]

LEMMA NewDirectoryMem ==
  ASSUME MemType(mem), NEW f \in Frames, f \notin DOMAIN mem.pd
  PROVE  DirAdded(mem, NewDirectory(mem, f, vmm_clone_kernel_dir(f)), f)
<1> DEFINE m2 == NewDirectory(mem, f, vmm_clone_kernel_dir(f))
           c == vmm_clone_kernel_dir(f)
<1>1. /\ mem.pd \in [DOMAIN mem.pd -> [Dents -> DOMAIN mem.pt \cup {NULL}]]
      /\ mem.pt \in [DOMAIN mem.pt -> [Slots -> Entry \cup {NULL}]]
      /\ BootDir \in DOMAIN mem.pd /\ IdentTables \subseteq DOMAIN mem.pt
  BY DEF MemType
<1>2. /\ c = [i \in Dents |-> IF i = USER_PD_ENTRY THEN NULL ELSE mem.pd[BootDir][i]]
  BY DEF vmm_clone_kernel_dir, Dents
<1>3. c \in [Dents -> DOMAIN mem.pt \cup {NULL}]
  BY <1>1, <1>2
<1>4. /\ m2 = [used |-> m2.used, pd |-> m2.pd, pt |-> m2.pt]
      /\ m2.used = mem.used \cup {f} /\ m2.pt = mem.pt
      /\ m2.pd = [x \in DOMAIN mem.pd \cup {f} |-> IF x = f THEN c ELSE mem.pd[x]]
  BY DEF NewDirectory
<1> HIDE DEF m2, c
<1>5. /\ DOMAIN m2.pd = DOMAIN mem.pd \cup {f} /\ m2.pd[f] = c
      /\ \A e \in DOMAIN mem.pd : m2.pd[e] = mem.pd[e]
      /\ m2.pd \in [DOMAIN m2.pd -> [Dents -> DOMAIN m2.pt \cup {NULL}]]
  BY <1>1, <1>3, <1>4
<1>6. MemType(m2)
  <2>1. m2.used \subseteq Frames
    BY <1>4 DEF MemType
  <2> QED
    BY <1>1, <1>4, <1>5, <2>1 DEF MemType
<1>7. DirAdded(mem, m2, f)
  BY <1>2, <1>4, <1>5, <1>6 DEF DirAdded
<1> QED
  BY <1>7 DEF m2

LEMMA DirMemInv ==
  ASSUME NEW m, MemInv(m), NEW f, f \notin DOMAIN m.pd, NEW m2, DirAdded(m, m2, f)
  PROVE  MemInv(m2)
<1>1. MemType(m) /\ TablesShared(m) /\ BootEntries(m) /\ KernelOnly(m) /\ IdentComplete(m)
  BY DEF MemInv
<1>2. /\ MemType(m2) /\ m2.pt = m.pt /\ DOMAIN m2.pd = DOMAIN m.pd \cup {f}
      /\ \A e \in DOMAIN m.pd : m2.pd[e] = m.pd[e]
      /\ \A i \in Dents : m2.pd[f][i] = IF i = USER_PD_ENTRY THEN NULL ELSE m.pd[BootDir][i]
  BY DEF DirAdded
<1>3. BootDir \in DOMAIN m.pd /\ m2.pd[BootDir] = m.pd[BootDir]
  BY <1>1, <1>2 DEF MemType
<1> DEFINE orig(x) == IF x = f THEN BootDir ELSE x
<1>4. TablesShared(m2)
  <2>1. SUFFICES ASSUME NEW a \in DOMAIN m2.pd, NEW b \in DOMAIN m2.pd, NEW i \in Dents, NEW j \in Dents,
                        m2.pd[a][i] # NULL, m2.pd[a][i] = m2.pd[b][j]
                 PROVE  /\ i = j
                        /\ a # b => m2.pd[BootDir][i] = m2.pd[a][i] /\ i # USER_PD_ENTRY
    BY DEF TablesShared
  <2>2. /\ orig(a) \in DOMAIN m.pd /\ orig(b) \in DOMAIN m.pd
        /\ m2.pd[a][i] = m.pd[orig(a)][i] /\ m2.pd[b][j] = m.pd[orig(b)][j]
    BY <1>2, <1>3, <2>1
  <2>3. i = j /\ (orig(a) # orig(b) => m.pd[BootDir][i] = m.pd[orig(a)][i] /\ i # USER_PD_ENTRY)
    <3> DEFINE A == orig(a)
               B == orig(b)
    <3>1. A \in DOMAIN m.pd /\ B \in DOMAIN m.pd /\ m.pd[A][i] # NULL /\ m.pd[A][i] = m.pd[B][j]
      BY <2>1, <2>2
    <3> HIDE DEF A, B
    <3>2. i = j /\ (A # B => m.pd[BootDir][i] = m.pd[A][i] /\ i # USER_PD_ENTRY)
      BY <1>1, <3>1 DEF TablesShared
    <3> QED
      BY <3>2 DEF A, B
  <2>4. CASE orig(a) # orig(b)
    BY <1>3, <2>2, <2>3, <2>4
  <2>5. CASE orig(a) = orig(b) /\ a # b
    <3>1. (a = f \/ b = f) /\ orig(a) = BootDir
      BY <2>5
    <3>2. i # USER_PD_ENTRY
      BY <1>2, <2>1, <2>3, <3>1
    <3> QED
      BY <1>3, <2>2, <2>3, <3>1, <3>2
  <2>6. CASE a = b
    BY <2>3, <2>6
  <2> QED
    BY <2>4, <2>5, <2>6
<1>5. BootEntries(m2) /\ KernelOnly(m2)
  BY <1>1, <1>2, <1>3 DEF BootEntries, KernelOnly
<1>6. IdentComplete(m2)
  <2>1. SUFFICES ASSUME NEW i \in 0 .. IDENT_TABLES - 1, NEW d \in DOMAIN m2.pd
                 PROVE  m2.pd[d][i] = BootTables[i]
    BY <1>1, <1>2 DEF IdentComplete
  <2>2. i \in Dents /\ i # USER_PD_ENTRY
    BY Constants
  <2>3. \A e \in DOMAIN m.pd : m.pd[e][i] = BootTables[i]
    BY <1>1 DEF IdentComplete
  <2> QED
    BY <1>2, <1>3, <2>2, <2>3
<1> QED
  BY <1>2, <1>4, <1>5, <1>6 DEF MemInv

\* The new directory is accounted for.
LEMMA DirBooks ==
  ASSUME NEW m, NEW pr, World(m, pr), NEW f \in Frames \ m.used, NEW m2, DirAdded(m, m2, f),
         NEW p \in Programs, NEW r, pr[p].at = "none", r.at = "frame"
  PROVE  Books(m2, [pr EXCEPT ![p] = r])
<1> DEFINE pr2 == [pr EXCEPT ![p] = r]
<1>1. /\ pr \in [Programs -> ProgramRec] /\ Books(m, pr) /\ MemType(m)
  BY DEF World, MemInv
<1>2. pr2[p] = r /\ \A q \in Programs \ {p} : pr2[q] = pr[q]
  BY <1>1
<1>3. f \notin DOMAIN m.pd /\ f \notin DOMAIN m.pt /\ f \notin Reserved
  BY <1>1, FreshFrame
<1>4. /\ m2.used = m.used \cup {f} /\ m2.pt = m.pt /\ DOMAIN m2.pd = DOMAIN m.pd \cup {f}
      /\ \A e \in DOMAIN m.pd : m2.pd[e] = m.pd[e]
  BY DEF DirAdded
<1>5. BootDir # f
  BY <1>3, Constants
<1>6. /\ UserDirsOf(m2) = UserDirsOf(m) \cup {f} /\ NewTablesOf(m2) = NewTablesOf(m)
      /\ StructOf(m2) = StructOf(m) \cup {f}
  BY <1>3, <1>4, <1>5 DEF UserDirsOf, NewTablesOf, StructOf
<1>7. \A q \in Programs : pr2[q].at = "unmap" <=> pr[q].at = "unmap"
  BY <1>2
<1>8. ASSUME NEW q \in Programs, pr[q].at = "unmap"
      PROVE  EntryOf(m2, pr2[q].dir, PageOf(pr2[q])) = EntryOf(m, pr[q].dir, PageOf(pr[q]))
  <2>1. pr2[q] = pr[q]
    BY <1>2, <1>8
  <2>2. pr[q].dir \in DOMAIN m.pd
    BY <1>8, WorldFacts
  <2> QED
    BY <1>4, <2>1, <2>2 DEF EntryOf
<1> HIDE DEF pr2
<1>9. UndoneOf(m2, pr2) = UndoneOf(m, pr)
  BY <1>7, <1>8 DEF UndoneOf
<1>10. HeldOf(m2, pr2) = HeldOf(m, pr)
  BY <1>4, <1>6, <1>9 DEF HeldOf
<1>11. EntryFrames(m2, pr2) = EntryFrames(m, pr)
  BY <1>4, <1>10 DEF EntryFrames
<1>12. HandsOf(pr2) = HandsOf(pr) /\ \A q \in HandsOf(pr) : pr2[q] = pr[q]
  <2>1. \A q \in Programs : pr2[q].at = "map" <=> pr[q].at = "map"
    BY <1>2
  <2> QED
    BY <1>2, <2>1 DEF HandsOf
<1>13. HandFrames(pr2) = HandFrames(pr)
  BY <1>12 DEF HandFrames
<1>14. m2.used \ StructOf(m2) = m.used \ StructOf(m)
  BY <1>4, <1>6
<1>15. Books(m2, pr2)
  <2>1. Reserved \cap UserDirsOf(m2) = {} /\ Reserved \cap NewTablesOf(m2) = {}
        /\ UserDirsOf(m2) \cap NewTablesOf(m2) = {} /\ StructOf(m2) \subseteq m2.used
    <3>1. f \notin NewTablesOf(m)
      BY <1>3 DEF NewTablesOf
    <3> QED
      BY <1>1, <1>3, <1>4, <1>6, <3>1 DEF Books
  <2>2. HeldOnce(m2.used \ StructOf(m2), EntryFrames(m2, pr2), HandFrames(pr2))
    BY <1>1, <1>11, <1>13, <1>14 DEF Books
  <2> QED
    BY <2>1, <2>2 DEF Books
<1> QED
  BY <1>15 DEF pr2

\* No page of an image is mapped in a new directory.
LEMMA ImageFree ==
  ASSUME NEW m, MemInv(m), NEW f, NEW m2, DirAdded(m, m2, f)
  PROVE  MappedIn(m2, f) \cap ImagePages = {}
<1>1. SUFFICES ASSUME NEW v \in ImagePages, v \in MappedIn(m2, f) PROVE FALSE
  OBVIOUS
<1>2. v \in VPages \ IdentPages /\ Pte(m2, f, v) # NULL /\ DentOf(v) \notin DeviceEntries
  BY <1>1, Layout DEF MappedIn
<1>3. DentOf(v) \in Dents /\ ~(DentOf(v) < IDENT_TABLES)
  BY <1>2, PageParts
<1>4. m2.pd[f][DentOf(v)] # NULL
  BY <1>2, PteIs
<1>5. m.pd[BootDir][DentOf(v)] # NULL /\ DentOf(v) # USER_PD_ENTRY
  BY <1>3, <1>4 DEF DirAdded
<1> QED
  BY <1>2, <1>3, <1>5 DEF MemInv, BootEntries

LEMMA StartStep ==
  ASSUME World(mem, prog), NEW p \in Programs, Start(p)
  PROVE  World(mem', prog')
<1> DEFINE f == pmm_alloc_frame(mem)
           m == NewDirectory(mem, f, vmm_clone_kernel_dir(f))
           r == [at |-> "frame", dir |-> f, brk |-> 0, want |-> 0, for |-> "image",
                 call |-> Call(Image.base, Image.count, MappedIn(m, f))]
<1>1. prog[p].at = "none"
  BY DEF Start, At
<1>2. \/ mem' = mem /\ prog' = prog
      \/ f # NULL /\ f \in IdentPages /\ mem' = m /\ prog' = [prog EXCEPT ![p] = r]
  <2>1. f \in IdentPages => f # NULL
    BY VmmAssumption DEF IdentPages
  <2> QED
    BY <2>1 DEF Start
<1>3. f # NULL => f \in Frames \ mem.used
  BY AllocFrameFree
<1> HIDE DEF f, r
<1>4. CASE mem' = mem /\ prog' = prog
  BY <1>4
<1>5. CASE f # NULL /\ mem' = m /\ prog' = [prog EXCEPT ![p] = r]
  <2>1. f \in Frames \ mem.used /\ f \in Frames
    BY <1>3, <1>5
  <2>2. MemInv(mem) /\ MemType(mem) /\ Books(mem, prog)
    BY DEF World, MemInv
  <2>3. f \notin DOMAIN mem.pd /\ f \notin Reserved
    BY <2>1, <2>2, FreshFrame
  <2>4. DirAdded(mem, m, f)
    BY <2>1, <2>2, <2>3, NewDirectoryMem
  <2> HIDE DEF m
  <2>5. MemInv(m)
    BY <2>2, <2>3, <2>4, DirMemInv
  <2>6. f \in UserDirsOf(m) /\ f \in Frames \cup {NULL}
    BY <2>1, <2>3, <2>4, Constants DEF DirAdded, UserDirsOf
  <2>7. ProgramInv(m, r)
    <3>1. r.for = "image" /\ r.at = "frame" /\ r.call.base = Image.base /\ r.call.count = Image.count
      BY DEF r, Call
    <3>2. CallRange(Image.base, Image.count)
      BY Layout DEF ImagePages, CallRange
    <3>3. Asked(r) /\ Promised(r) = {}
      BY <3>1 DEF Asked, Promised
    <3>4. HasPromised(m, f, r)
      BY <3>3 DEF HasPromised
    <3>5. MappedIn(m, f) \cap ImagePages = {}
      BY <2>2, <2>4, ImageFree
    <3>6. Image.base \in Nat /\ Image.count \in Nat \ {0} /\ 0 \in Nat
      BY Layout
    <3>7. r = [at |-> "frame", dir |-> f, brk |-> 0, want |-> 0, for |-> "image",
               call |-> Call(Image.base, Image.count, MappedIn(m, f))]
      BY DEF r
    <3> QED
      BY <2>6, <3>2, <3>3, <3>4, <3>5, <3>6, <3>7, Enters
  <2>8. r.at = "frame" /\ r.dir = f /\ r \in ProgramRec
    BY <2>7 DEF r, ProgramInv
  <2>9. Books(m, [prog EXCEPT ![p] = r])
    BY <1>1, <2>1, <2>4, <2>8, DirBooks
  <2>10. ASSUME NEW q \in Programs \ {p}, prog[q].at # "none"
         PROVE  /\ prog[q].dir \in UserDirsOf(m) /\ SameMap(mem, prog[q].dir, m, prog[q].dir)
                /\ r.at # "none" => r.dir # prog[q].dir
    <3>1. prog[q].dir \in DOMAIN mem.pd /\ prog[q].dir # BootDir
      BY <2>10, WorldFacts
    <3>2. m.pd[prog[q].dir] = mem.pd[prog[q].dir] /\ m.pt = mem.pt /\ prog[q].dir \in DOMAIN m.pd
      BY <2>4, <3>1 DEF DirAdded
    <3> QED
      BY <2>3, <2>8, <3>1, <3>2 DEF SameMap, Pte, UserDirsOf
  <2>11. World(m, [prog EXCEPT ![p] = r])
    BY <2>5, <2>7, <2>8, <2>9, <2>10, OneProgram
  <2> QED
    BY <1>5, <2>11
<1> QED
  BY <1>2, <1>4, <1>5

-----------------------------------------------------------------------------
(***************************************************************************)
(* The invariant.                                                          *)
(***************************************************************************)
LEMMA InitMem ==
  ASSUME VmmInit
  PROVE  /\ MemInv(mem) /\ mem.used = Reserved
         /\ DOMAIN mem.pd = {BootDir} /\ DOMAIN mem.pt = IdentTables
<1> DEFINE K == 0 .. IDENT_TABLES - 1
           idx(t) == CHOOSE i \in K : BootTables[i] = t
           row(i) == [j \in Slots |-> IF i + j = 0 THEN NULL
                                      ELSE [frame |-> i * PT_ENTRIES + j, user |-> FALSE]]
           pd == [d \in {BootDir} |-> [i \in Dents |-> IF i < IDENT_TABLES THEN BootTables[i] ELSE NULL]]
           pt == [t \in IdentTables |-> row(idx(t))]
<1>1. mem = [used |-> Reserved, pd |-> pd, pt |-> pt]
  BY DEF VmmInit, Dents, Slots, IdentTables
<1>2. ASSUME NEW k \in K
      PROVE  /\ k \in Dents /\ k \in Nat /\ k < IDENT_TABLES
             /\ BootTables[k] \in IdentTables /\ BootTables[k] \in Nat /\ idx(BootTables[k]) = k
  <2>1. k \in Dents /\ k \in Nat /\ k < IDENT_TABLES /\ BootTables[k] \in IdentTables /\ BootTables[k] \in Reserved
    BY Constants DEF IdentTables
  <2>2. DOMAIN BootTables = K
    BY Constants
  <2>3. \A i \in K : BootTables[i] = BootTables[k] => i = k
    BY <2>2, LayoutAssumption
  <2>4. idx(BootTables[k]) = k
    BY <2>3
  <2> QED
    BY <2>1, <2>4, Constants
<1>3. ASSUME NEW k \in K
      PROVE  row(k) \in [Slots -> Entry \cup {NULL}]
  <2>1. ASSUME NEW j \in Slots, k + j # 0 PROVE [frame |-> k * PT_ENTRIES + j, user |-> FALSE] \in Entry
    <3>1. k \in Nat /\ j \in Nat /\ PT_ENTRIES \in Nat
      BY Constants
    <3>2. k * PT_ENTRIES + j \in Nat
      BY <3>1
    <3> QED
      BY <3>2 DEF Entry
  <2> QED
    BY <2>1
<1>4. ASSUME NEW k \in K, NEW j \in Slots
      PROVE  row(k)[j] = IF k + j = 0 THEN NULL ELSE [frame |-> k * PT_ENTRIES + j, user |-> FALSE]
  OBVIOUS
<1>5. ASSUME NEW k \in K PROVE pt[BootTables[k]] = row(k)
  BY <1>2
<1>6. ASSUME NEW t \in IdentTables PROVE \E k \in K : t = BootTables[k]
  BY DEF IdentTables
<1>7. /\ pd[BootDir] = [i \in Dents |-> IF i < IDENT_TABLES THEN BootTables[i] ELSE NULL]
      /\ DOMAIN pd = {BootDir} /\ DOMAIN pt = IdentTables
  OBVIOUS
<1> HIDE DEF row, idx, pt, pd
<1>8. ASSUME NEW k \in K, NEW j \in Slots, k + j # 0
      PROVE  row(k)[j] # NULL /\ ~row(k)[j].user
  <2> DEFINE e == row(k)[j]
  <2>1. e = [frame |-> k * PT_ENTRIES + j, user |-> FALSE]
    BY <1>4, <1>8
  <2>2. k * PT_ENTRIES + j \in Nat
    <3>1. k \in Nat /\ j \in Nat /\ PT_ENTRIES \in Nat
      BY Constants
    <3> QED
      BY <3>1
  <2> HIDE DEF e
  <2>3. e \in Entry
    BY <2>1, <2>2 DEF Entry
  <2>4. e # NULL /\ ~e.user
    BY <2>1, <2>3, Constants
  <2> QED
    BY <2>4 DEF e
<1>9. pt \in [IdentTables -> [Slots -> Entry \cup {NULL}]]
  <2>1. \A t \in IdentTables : pt[t] \in [Slots -> Entry \cup {NULL}]
    BY <1>3, <1>5, <1>6
  <2>2. pt = [t \in IdentTables |-> pt[t]]
    BY DEF pt
  <2> QED
    BY <2>1, <2>2
<1>10. ASSUME NEW i \in Dents
       PROVE  pd[BootDir][i] = IF i \in K THEN BootTables[i] ELSE NULL
  <2>1. i \in K <=> i < IDENT_TABLES
    BY Constants DEF Dents
  <2> QED
    BY <1>7, <2>1
<1>11. pd \in [{BootDir} -> [Dents -> IdentTables \cup {NULL}]]
  <2>1. pd[BootDir] \in [Dents -> IdentTables \cup {NULL}]
    BY <1>2, <1>7, <1>10
  <2>2. pd = [d \in {BootDir} |-> pd[d]]
    BY DEF pd
  <2> QED
    BY <2>1, <2>2
<1>12. mem.used = Reserved /\ mem.pd = pd /\ mem.pt = pt /\ mem = [used |-> mem.used, pd |-> mem.pd, pt |-> mem.pt]
  BY <1>1
<1>13. DOMAIN mem.pd = {BootDir} /\ DOMAIN mem.pt = IdentTables
  BY <1>7, <1>12
<1>14. MemType(mem)
  <2>1. mem.pd \in [DOMAIN mem.pd -> [Dents -> DOMAIN mem.pt \cup {NULL}]]
    BY <1>11, <1>12, <1>13
  <2>2. mem.pt \in [DOMAIN mem.pt -> [Slots -> Entry \cup {NULL}]]
    BY <1>9, <1>12, <1>13
  <2>3. mem.used \subseteq Frames /\ BootDir \in DOMAIN mem.pd /\ IdentTables \subseteq DOMAIN mem.pt
    BY <1>12, <1>13, Constants
  <2> QED
    BY <1>12, <2>1, <2>2, <2>3 DEF MemType
<1>15. TablesShared(mem)
  <2>1. SUFFICES ASSUME NEW i \in Dents, NEW j \in Dents, pd[BootDir][i] # NULL, pd[BootDir][i] = pd[BootDir][j]
                 PROVE  i = j
    BY <1>12, <1>13 DEF TablesShared
  <2>2. i \in K /\ j \in K /\ BootTables[i] = BootTables[j]
    BY <1>10, <2>1
  <2> QED
    BY <1>2, <2>2
<1>16. BootEntries(mem)
  BY <1>2, <1>10, <1>12 DEF BootEntries
<1>17. KernelOnly(mem)
  <2>1. SUFFICES ASSUME NEW i \in Dents, NEW j \in Slots, pd[BootDir][i] # NULL,
                        pt[pd[BootDir][i]][j] # NULL
                 PROVE  ~pt[pd[BootDir][i]][j].user
    BY <1>12 DEF KernelOnly
  <2>2. i \in K /\ pt[pd[BootDir][i]] = row(i)
    BY <1>5, <1>10, <2>1
  <2> QED
    BY <1>4, <1>8, <2>1, <2>2
<1>18. IdentComplete(mem)
  <2>1. SUFFICES ASSUME NEW i \in K
                 PROVE  /\ pd[BootDir][i] = BootTables[i]
                        /\ \A j \in Slots : i + j # 0 => pt[BootTables[i]][j] # NULL
    BY <1>12, <1>13 DEF IdentComplete
  <2> QED
    BY <1>2, <1>5, <1>8, <1>10
<1> QED
  BY <1>12, <1>13, <1>14, <1>15, <1>16, <1>17, <1>18 DEF MemInv

LEMMA VmmInitOK ==
  ASSUME VmmInit
  PROVE  VmmIInv
<1>1. /\ MemInv(mem) /\ mem.used = Reserved
      /\ DOMAIN mem.pd = {BootDir} /\ DOMAIN mem.pt = IdentTables
  BY InitMem
<1>2. prog = [p \in Programs |-> NoProgram] /\ heap_top = HeapTop /\ heap = {} /\ panicked = FALSE
  BY DEF VmmInit
<1>3. \A p \in Programs : prog[p] = NoProgram
  BY <1>2
<1>4. prog \in [Programs -> ProgramRec]
  BY <1>2, NoProgramOK
<1>5. \A p \in Programs : ProgramInv(mem, prog[p])
  BY <1>3, NoProgramOK DEF ProgramInv
<1>6. DirsDistinct(prog)
  BY <1>3, NoProgramOK DEF DirsDistinct
<1>7. UserDirsOf(mem) = {} /\ NewTablesOf(mem) = {} /\ StructOf(mem) = Reserved
  BY <1>1 DEF UserDirsOf, NewTablesOf, StructOf
<1>8. HeldOf(mem, prog) = {} /\ HandsOf(prog) = {}
  BY <1>3, <1>7, NoProgramOK DEF HeldOf, HandsOf
<1>9. Books(mem, prog)
  BY <1>1, <1>7, <1>8 DEF Books, HeldOnce, EntryFrames, HandFrames
<1>10. World(mem, prog)
  BY <1>1, <1>4, <1>5, <1>6, <1>9 DEF World
<1>11. heap_top \in Nat /\ heap_top >= HeapTop
  <2>1. HeapTop \in Nat /\ HeapTop >= HeapTop
    BY Layout
  <2> QED
    BY <1>2, <2>1
<1>12. heap \subseteq VPages /\ panicked \in BOOLEAN
  BY <1>2
<1> QED
  BY <1>10, <1>11, <1>12 DEF VmmIInv

\* What the steps of programs leave alone.
LEMMA VmmNextOK ==
  ASSUME VmmIInv, VmmNext
  PROVE  VmmIInv'
<1>1. /\ World(mem, prog) /\ heap_top \in Nat /\ heap_top >= HeapTop /\ heap \subseteq VPages
      /\ panicked \in BOOLEAN
  BY DEF VmmIInv
<1> DEFINE Kept == heap_top' = heap_top /\ heap' = heap /\ panicked' \in BOOLEAN
<1>2. ASSUME World(mem', prog'), Kept PROVE VmmIInv'
  BY <1>1, <1>2 DEF VmmIInv
<1>3. CASE MapDevice
  <2>1. Kept
    BY <1>1, <1>3 DEF MapDevice
  <2> QED
    BY <1>1, <1>2, <1>3, <2>1, MapDeviceStep
<1>4. CASE \E d \in InUse : heap_grow(d)
  BY <1>4, HeapGrowStep
<1>5. ASSUME NEW p \in Programs, Start(p) PROVE VmmIInv'
  <2>1. Kept
    BY <1>1, <1>5 DEF Start
  <2> QED
    BY <1>1, <1>2, <1>5, <2>1, StartStep
<1>6. ASSUME NEW p \in Programs, AllocFrame(p) PROVE VmmIInv'
  <2>1. Kept
    BY <1>1, <1>6 DEF AllocFrame
  <2> QED
    BY <1>1, <1>2, <1>6, <2>1, AllocFrameStep
<1>7. ASSUME NEW p \in Programs, AllocMap(p) PROVE VmmIInv'
  <2>1. Kept
    BY <1>1, <1>7 DEF AllocMap
  <2> QED
    BY <1>1, <1>2, <1>7, <2>1, AllocMapStep
<1>8. ASSUME NEW p \in Programs, RollbackFree(p) PROVE VmmIInv'
  <2>1. Kept
    BY <1>1, <1>8 DEF RollbackFree
  <2> QED
    BY <1>1, <1>2, <1>8, <2>1, RollbackFreeStep
<1>9. ASSUME NEW p \in Programs, RollbackUnmap(p) PROVE VmmIInv'
  <2>1. Kept
    BY <1>1, <1>9 DEF RollbackUnmap
  <2> QED
    BY <1>1, <1>2, <1>9, <2>1, RollbackUnmapStep
<1>10. ASSUME NEW p \in Programs, LoadReturn(p) PROVE VmmIInv'
  <2>1. Kept
    BY <1>1, <1>10 DEF LoadReturn
  <2> QED
    BY <1>1, <1>2, <1>10, <2>1, LoadReturnStep
<1>11. ASSUME NEW p \in Programs, StackReturn(p) PROVE VmmIInv'
  <2>1. Kept
    BY <1>1, <1>11 DEF StackReturn
  <2> QED
    BY <1>1, <1>2, <1>11, <2>1, StackReturnStep
<1>12. ASSUME NEW p \in Programs, BrkReturn(p) PROVE VmmIInv'
  <2>1. Kept
    BY <1>1, <1>12 DEF BrkReturn
  <2> QED
    BY <1>1, <1>2, <1>12, <2>1, BrkReturnStep
<1>13. ASSUME NEW p \in Programs, NEW addr \in Breaks, sys_brk(p, addr) PROVE VmmIInv'
  <2>1. Kept
    BY <1>1, <1>13 DEF sys_brk
  <2> QED
    BY <1>1, <1>2, <1>13, <2>1, BrkStep
<1>14. ASSUME NEW p \in Programs, NEW v \in FaultPages, KernelFault(p, v) PROVE VmmIInv'
  <2>1. Kept
    BY <1>1, <1>14 DEF KernelFault
  <2> QED
    BY <1>1, <1>2, <1>14, <2>1, KernelFaultStep
<1>15. ASSUME NEW p \in Programs, Exit(p) PROVE VmmIInv'
  <2>1. Kept
    BY <1>1, <1>15 DEF Exit
  <2> QED
    BY <1>1, <1>2, <1>15, <2>1, ExitStep
<1>16. CASE Stopped
  BY <1>1, <1>16 DEF Stopped, vmmVars, VmmIInv
<1> QED
  BY <1>3, <1>4, <1>5, <1>6, <1>7, <1>8, <1>9, <1>10, <1>11, <1>12, <1>13, <1>14, <1>15, <1>16 DEF VmmNext

\* Of vmm.c, elf.c, sys_brk, the page fault handler and heap_grow together: the
\* bits of the PMM, directories, page tables, calls in progress and breaks agree
\* at every step, whoever runs in between.
THEOREM VmmInvariant == VmmSpec => []VmmIInv
<1>1. VmmInit => VmmIInv
  BY VmmInitOK
<1>2. VmmIInv /\ [VmmNext]_vmmVars => VmmIInv'
  <2>1. VmmIInv /\ UNCHANGED vmmVars => VmmIInv'
    BY DEF vmmVars, VmmIInv
  <2> QED
    BY <2>1, VmmNextOK
<1> QED
  BY <1>1, <1>2, PTL DEF VmmSpec

-----------------------------------------------------------------------------
(***************************************************************************)
(* What the invariant says of programs.                                    *)
(***************************************************************************)

\* What elf.c and sys_brk promised a program is mapped for it in ring 3.
THEOREM ProgramsAreBacked == VmmSpec => []ProgramBacked
<1>1. VmmIInv => ProgramBacked
  <2>1. SUFFICES ASSUME VmmIInv, NEW p \in Programs, prog[p].at = "user",
                        NEW v, v \in ImagePages \cup StackPages
                                     \cup (Image.base + Image.count .. PageUp(prog[p].brk) - 1)
                 PROVE  Pte(mem, prog[p].dir, v) # NULL /\ Pte(mem, prog[p].dir, v).user
    BY DEF ProgramBacked
  <2>2. World(mem, prog)
    BY <2>1 DEF VmmIInv
  <2>3. ProgramInv(mem, prog[p])
    BY <2>2, WorldFacts
  <2>4. v \in Promised(prog[p])
    <3>1. prog[p].for = "none" /\ prog[p] \in ProgramRec
      BY <2>1, <2>3, CallPagesOf DEF ProgramInv
    <3> QED
      BY <2>1, <3>1, PromisedOf
  <2> QED
    BY <2>3, <2>4 DEF ProgramInv
<1> QED
  BY <1>1, VmmInvariant, PTL

\* What vmm_clone_kernel_dir shares between directories gives no program access
\* to a page of another.
THEOREM ProgramsAreIsolated == VmmSpec => []Isolated
<1>1. VmmIInv => Isolated
  <2>1. SUFFICES ASSUME VmmIInv, NEW d \in DOMAIN mem.pd, NEW e \in DOMAIN mem.pd,
                        NEW i \in Dents, d # e, mem.pd[d][i] # NULL, mem.pd[d][i] = mem.pd[e][i],
                        NEW j \in Slots, mem.pt[mem.pd[d][i]][j] # NULL
                 PROVE  ~mem.pt[mem.pd[d][i]][j].user
    BY DEF Isolated, Dents, Slots
  <2>2. TablesShared(mem) /\ KernelOnly(mem)
    BY <2>1 DEF VmmIInv, World, MemInv
  <2>3. mem.pd[BootDir][i] = mem.pd[d][i] /\ i # USER_PD_ENTRY
    BY <2>1, <2>2 DEF TablesShared
  <2> QED
    BY <2>1, <2>2, <2>3 DEF KernelOnly
<1> QED
  BY <1>1, VmmInvariant, PTL

-----------------------------------------------------------------------------
(***************************************************************************)
(* What the invariant says of frames.                                      *)
(***************************************************************************)

\* The sets of Vmm in the words of the books.
LEMMA BooksOf ==
  /\ UserDirs = UserDirsOf(mem) /\ NewTables = NewTablesOf(mem)
  /\ InHand = HandsOf(prog) /\ MappedAt = HeldOf(mem, prog)
<1>1. UserDirs = UserDirsOf(mem) /\ NewTables = NewTablesOf(mem) /\ InHand = HandsOf(prog)
  BY DEF UserDirs, UserDirsOf, NewTables, NewTablesOf, IdentTables, InHand, HandsOf
<1>2. ASSUME NEW t, NEW j
      PROVE  BeingUndone(t, j) <=> <<t, j>> \in UndoneOf(mem, prog)
  BY DEF BeingUndone, UndoneOf, EntryOf, PageOf, DentOf, SlotOf
<1>3. ASSUME NEW x \in NewTablesOf(mem) \X Slots
      PROVE  ~BeingUndone(x[1], x[2]) <=> x \notin UndoneOf(mem, prog)
  <2>1. x = <<x[1], x[2]>>
    OBVIOUS
  <2> QED
    BY <1>2, <2>1
<1>4. MappedAt = HeldOf(mem, prog)
  BY <1>1, <1>3 DEF MappedAt, HeldOf, Slots
<1> QED
  BY <1>1, <1>4

LEMMA BooksBalance ==
  ASSUME MemType(mem), Books(mem, prog)
  PROVE  FramesBalance
<1> DEFINE g == EntryFrames(mem, prog)
           h == HandFrames(prog)
           G == {mem.pt[x[1]][x[2]].frame : x \in MappedAt}
           H == {prog[p].call.frame : p \in InHand}
           F == mem.used \ StructOf(mem)
<1>1. /\ DOMAIN g = MappedAt /\ \A x \in MappedAt : g[x] = mem.pt[x[1]][x[2]].frame
      /\ DOMAIN h = InHand /\ \A p \in InHand : h[p] = prog[p].call.frame
  BY BooksOf DEF EntryFrames, HandFrames
<1>2. HeldOnce(F, g, h)
  BY DEF Books
<1>3. /\ StructOf(mem) = Reserved \cup UserDirs \cup NewTables /\ StructOf(mem) \subseteq mem.used
      /\ Reserved \cap UserDirs = {} /\ (Reserved \cup UserDirs) \cap NewTables = {}
  BY BooksOf DEF Books, StructOf
<1>4. /\ \A f : f \in G <=> \E x \in MappedAt : g[x] = f
      /\ \A f : f \in H <=> \E p \in InHand : h[p] = f
  BY <1>1
<1> HIDE DEF g, h, G, H
<1>5. G \cup H = F /\ G \cap H = {}
  BY <1>1, <1>2, <1>4 DEF HeldOnce
<1>6. OneToOne(g, G) /\ OneToOne(h, H)
  BY <1>1, <1>2, <1>4 DEF HeldOnce, OneToOne
<1>7. IsFiniteSet(mem.used)
  <2>1. IsFiniteSet(Frames)
    BY Constants, FS_Interval DEF Frames
  <2> QED
    BY <2>1, FS_Subset DEF MemType
<1>8. /\ IsFiniteSet(Reserved) /\ IsFiniteSet(UserDirs) /\ IsFiniteSet(NewTables)
      /\ IsFiniteSet(G) /\ IsFiniteSet(H)
  <2>1. {Reserved, UserDirs, NewTables, G, H} \subseteq SUBSET mem.used
    BY <1>3, <1>5
  <2> QED
    BY <1>7, <2>1, FS_Subset
<1>9. Cardinality(MappedAt) = Cardinality(G) /\ Cardinality(InHand) = Cardinality(H)
  BY <1>1, <1>6, <1>8, Counted
<1> DEFINE S1 == Reserved \cup UserDirs
           S2 == S1 \cup NewTables
<1>10. /\ IsFiniteSet(S1) /\ Cardinality(S1) = Cardinality(Reserved) + Cardinality(UserDirs)
       /\ Cardinality(Reserved) \in Nat /\ Cardinality(UserDirs) \in Nat
  BY <1>3, <1>8, Disjoint
<1>11. /\ IsFiniteSet(S2) /\ Cardinality(S2) = Cardinality(S1) + Cardinality(NewTables)
       /\ Cardinality(NewTables) \in Nat
  BY <1>3, <1>8, <1>10, Disjoint
<1>12. /\ IsFiniteSet(G \cup H) /\ Cardinality(G \cup H) = Cardinality(G) + Cardinality(H)
       /\ Cardinality(G) \in Nat /\ Cardinality(H) \in Nat
  BY <1>5, <1>8, Disjoint
<1>13. mem.used = S2 \cup (G \cup H) /\ S2 \cap (G \cup H) = {}
  BY <1>3, <1>5
<1>14. Cardinality(mem.used) = Cardinality(S2) + Cardinality(G \cup H)
  BY <1>11, <1>12, <1>13, Disjoint
<1>15. Cardinality(mem.used) = Cardinality(Reserved) + Cardinality(UserDirs)
         + Cardinality(NewTables) + Cardinality(MappedAt) + Cardinality(InHand)
  BY <1>9, <1>10, <1>11, <1>12, <1>14
<1>16. mem.used = Reserved \cup UserDirs \cup NewTables \cup G \cup H
  BY <1>13
<1> QED
  BY <1>15, <1>16 DEF FramesBalance, G, H

LEMMA TypeAndUndone ==
  ASSUME VmmIInv
  PROVE  VmmTypeOK /\ FailureUndone
<1>1. /\ World(mem, prog) /\ heap_top \in Nat /\ heap \subseteq VPages /\ panicked \in BOOLEAN
      /\ MemType(mem) /\ Books(mem, prog)
  BY DEF VmmIInv, World, MemInv
<1>2. /\ mem.used \subseteq Frames
      /\ mem.pd \in [DOMAIN mem.pd -> [Dents -> DOMAIN mem.pt \cup {NULL}]]
      /\ mem.pt \in [DOMAIN mem.pt -> [Slots -> Entry \cup {NULL}]]
  BY <1>1 DEF MemType
<1>3. DOMAIN mem.pd \subseteq Frames /\ DOMAIN mem.pt \subseteq Frames
  <2>1. UserDirsOf(mem) \subseteq Frames /\ NewTablesOf(mem) \subseteq Frames
    BY <1>1, <1>2 DEF Books, StructOf
  <2>2. BootDir \in Frames /\ IdentTables \subseteq Frames
    BY Constants DEF IdentTables
  <2> QED
    BY <2>1, <2>2 DEF UserDirsOf, NewTablesOf
<1>4. /\ \A d \in DOMAIN mem.pd : mem.pd[d] \in [0 .. PD_ENTRIES - 1 -> DOMAIN mem.pt \cup {NULL}]
      /\ \A t \in DOMAIN mem.pt : mem.pt[t] \in [0 .. PT_ENTRIES - 1 -> Entry \cup {NULL}]
  BY <1>2 DEF Dents, Slots
<1>5. ASSUME NEW p \in Programs
      PROVE  /\ prog[p].at \in {"none", "frame", "map", "undo", "unmap", "return", "user"}
             /\ prog[p].for \in {"none", "image", "stack", "brk"}
             /\ prog[p].dir \in DOMAIN mem.pd \cup {NULL}
             /\ prog[p].brk \in Nat /\ prog[p].want \in Nat
             /\ prog[p].call.frame \in Frames \cup {NULL} /\ prog[p].call.res \in Results
             /\ prog[p].at = "return" /\ prog[p].call.res # "SUCCESS" => Mapped(p) = prog[p].call.saved
  <2>1. ProgramInv(mem, prog[p]) /\ prog[p] \in ProgramRec
    BY <1>1, WorldFacts
  <2>2. prog[p].at # "none" => prog[p].dir \in DOMAIN mem.pd
    BY <1>1, WorldFacts
  <2>3. prog[p].at = "none" => prog[p].dir = NULL
    BY <2>1 DEF ProgramInv, NoProgram
  <2>4. prog[p].call \in CallRec
    BY <2>1 DEF ProgramRec
  <2>5. ASSUME prog[p].at = "return", prog[p].call.res # "SUCCESS"
        PROVE  Mapped(p) = prog[p].call.saved
    <3>1. CallPages(mem, prog[p])
      BY <2>1, <2>5 DEF ProgramInv, Calling
    <3>2. DonePages(prog[p]) = {}
      BY <2>1, <2>5, CallPagesOf
    <3> QED
      BY <3>1, <3>2 DEF CallPages, Mapped
  <2> QED
    BY <2>1, <2>2, <2>3, <2>4, <2>5 DEF ProgramRec, CallRec
<1>6. VmmTypeOK
  BY <1>1, <1>2, <1>3, <1>4, <1>5 DEF VmmTypeOK
<1>7. FailureUndone
  BY <1>5 DEF FailureUndone
<1> QED
  BY <1>6, <1>7

\* The books of the PMM balance, and a vmm_alloc_virtual_pages that failed has
\* undone what it did, whoever took or mapped frames in between.
THEOREM FramesAreSound == VmmSpec => []FramesSound
<1>1. VmmIInv => FramesSound
  <2>1. SUFFICES ASSUME VmmIInv PROVE FramesSound
    OBVIOUS
  <2>2. MemType(mem) /\ Books(mem, prog)
    BY <2>1 DEF VmmIInv, World, MemInv
  <2> QED
    BY <2>1, <2>2, TypeAndUndone, BooksBalance DEF FramesSound
<1> QED
  BY <1>1, VmmInvariant, PTL

=============================================================================

--------------------------------- MODULE Vmm ---------------------------------
(***************************************************************************)
(* The virtual memory of ParinOS (src/mem/vmm.c) and those who use it: the *)
(* growth of the kernel heap (src/std/heap.cpp), the ELF loader            *)
(* (src/elf/elf.c), sys_brk (src/user/user.c) and the page fault handler.  *)
(* Frames come from the page allocator, lowest first (module Pmm).         *)
(*                                                                         *)
(* Addresses are page numbers, except the break, which is in bytes.  mem   *)
(* holds the bits of the PMM and the contents of directories and page      *)
(* tables, each named by the frame it lies in.  A program works in its own *)
(* directory; between two of its calls of the PMM any other may run.       *)
(* X_Y before X is a faulty variant of X.                                  *)
(***************************************************************************)
EXTENDS Integers, FiniteSets

CONSTANTS
  NFRAMES,          \* frames of the machine
  PAGE_SIZE,        \* bytes of a page, for the break only
  PT_ENTRIES,       \* pages a page table maps
  PD_ENTRIES,
  IDENT_TABLES,     \* page tables of the identity map
  USER_PD_ENTRY,    \* the directory entry clones leave empty
  TempPage,         \* TEMP_MAP_BASE
  BootDir,          \* frames of boot_page_directory and boot_page_tables
  BootTables,
  Reserved,         \* frames never free: low memory, kernel, initial heap
  HeapTop,          \* g_heap_top after init_heap
  HeapLimit,        \* bound: where the heap stops growing
  KernelHeapBase,   \* KERNEL_HEAP_BASE and KERNEL_VIRTUAL_BASE
  KernelVirtualBase,
  Device,           \* pages of the frame buffer, beyond the frames
  Image,            \* [base, count] of the program's segment
  Stack,            \* [base, count] of its stack
  Breaks,           \* bound: arguments of sys_brk
  FaultPages,       \* bound: pages at which system calls fault
  Programs,
  NULL

VPages     == 0 .. PT_ENTRIES * PD_ENTRIES - 1
IdentPages == 0 .. PT_ENTRIES * IDENT_TABLES - 1
Frames     == 0 .. NFRAMES - 1

ASSUME VmmAssumption ==
  /\ NFRAMES \in Nat /\ PAGE_SIZE \in Nat \ {0}
  /\ PT_ENTRIES \in Nat \ {0} /\ PD_ENTRIES \in Nat /\ IDENT_TABLES \in 1 .. PD_ENTRIES
  /\ USER_PD_ENTRY \in IDENT_TABLES .. PD_ENTRIES - 1
  /\ TempPage \in IdentPages \ {0}
  /\ BootTables \in [0 .. IDENT_TABLES - 1 -> Reserved]
  /\ BootDir \in Reserved /\ Reserved \subseteq Frames
  /\ Device \subseteq VPages \ (Frames \cup IdentPages)
  /\ Image.base \in VPages \ IdentPages /\ Stack.base \in VPages \ IdentPages
  /\ NULL \notin Nat

Entry == [frame : Nat, user : BOOLEAN]

PageUp(addr) == (addr + PAGE_SIZE - 1) \div PAGE_SIZE

ImagePages    == Image.base .. Image.base + Image.count - 1
StackPages    == Stack.base .. Stack.base + Stack.count - 1
DeviceEntries == {v \div PT_ENTRIES : v \in Device}

\* The layout of the address space.  The frame buffer has one page table, which
\* no other page shares; the heap stays in the identity map and the entry
\* behind it.  The constants of the code place them so, but neither sys_brk nor
\* heap_grow checks that it stays there.
ASSUME LayoutAssumption ==
  /\ NULL \notin Entry /\ IsFiniteSet(Programs)
  /\ Device # {} /\ \A v, w \in Device : v \div PT_ENTRIES = w \div PT_ENTRIES
  /\ \A i, j \in DOMAIN BootTables : BootTables[i] = BootTables[j] => i = j
  /\ Image.count \in Nat \ {0} /\ Stack.count \in Nat \ {0}
  /\ Breaks \subseteq Nat /\ FaultPages \subseteq VPages
  /\ {KernelHeapBase, KernelVirtualBase, HeapTop, HeapLimit} \subseteq Nat /\ KernelHeapBase > 0
  /\ \A v \in ImagePages \cup StackPages \cup (UNION {1 .. PageUp(b) - 1 : b \in Breaks})
             \cup (FaultPages \cap KernelHeapBase .. KernelVirtualBase - 1)
             \cup (HeapTop .. HeapLimit - 1) :
       v \in VPages \ {0} /\ v \div PT_ENTRIES \notin DeviceEntries
  /\ \A v \in HeapTop .. HeapLimit - 1 : v \in IdentPages \/ v \div PT_ENTRIES = USER_PD_ENTRY

VARIABLES
  mem,          \* [used: bits of the PMM, pd: directories, pt: page tables]
  heap_top,
  heap,         \* pages of the heap added by heap_grow
  prog,         \* what each program does
  panicked      \* kernel_panic, or a directory the CPU cannot use

vmmVars == <<mem, heap_top, heap, prog, panicked>>

Results == {"SUCCESS", "NO_MEMORY", "ALREADY_MAPPED"}

\* A call of vmm_alloc_virtual_pages: which pages, which one is next, the frame
\* in hand, the result; saved is the history of what was mapped before.
NoCall == [base |-> 0, count |-> 0, i |-> 0, frame |-> NULL, res |-> "SUCCESS", saved |-> {}]
NoProgram == [at |-> "none", dir |-> NULL, brk |-> 0, want |-> 0, for |-> "none", call |-> NoCall]

\* Every variable stays within its range.
VmmTypeOK ==
  /\ mem.used \subseteq Frames
  /\ DOMAIN mem.pd \subseteq Frames /\ DOMAIN mem.pt \subseteq Frames
  /\ \A d \in DOMAIN mem.pd : mem.pd[d] \in [0 .. PD_ENTRIES - 1 -> DOMAIN mem.pt \cup {NULL}]
  /\ \A t \in DOMAIN mem.pt : mem.pt[t] \in [0 .. PT_ENTRIES - 1 -> Entry \cup {NULL}]
  /\ heap_top \in Nat /\ heap \subseteq VPages
  /\ \A p \in Programs :
       /\ prog[p].at \in {"none", "frame", "map", "undo", "unmap", "return", "user"}
       /\ prog[p].for \in {"none", "image", "stack", "brk"}
       /\ prog[p].dir \in DOMAIN mem.pd \cup {NULL}
       /\ prog[p].brk \in Nat /\ prog[p].want \in Nat
       /\ prog[p].call.frame \in Frames \cup {NULL} /\ prog[p].call.res \in Results
  /\ panicked \in BOOLEAN

-----------------------------------------------------------------------------
\* pmm_alloc_frame gives the lowest frame whose bit is clear.
FreeFrames(m) == Frames \ m.used

pmm_alloc_frame(m) ==
  IF FreeFrames(m) = {} THEN NULL
  ELSE CHOOSE f \in FreeFrames(m) : \A g \in FreeFrames(m) : f <= g

Take(m, f)  == [m EXCEPT !.used = @ \cup {f}]
Give(m, f)  == [m EXCEPT !.used = @ \ {f}]

\* The page table entry of page v in directory d.
Pte(m, d, v) ==
  LET t == m.pd[d][v \div PT_ENTRIES] IN IF t = NULL THEN NULL ELSE m.pt[t][v % PT_ENTRIES]

SetPte(m, d, v, e) ==
  [m EXCEPT !.pt[m.pd[d][v \div PT_ENTRIES]][v % PT_ENTRIES] = e]

\* vmm_access_physical: frames of the identity map are reached directly, others
\* through a temporary slot, which must not be mapped already.
Accessible(m, d, f) == f \in IdentPages \/ Pte(m, d, TempPage) = NULL

\* vmm_alloc_page_table for the directory entry of v, in the frame f.
NewTable(m, d, v, f) ==
  [used |-> m.used \cup {f},
   pd   |-> [m.pd EXCEPT ![d][v \div PT_ENTRIES] = f],
   pt   |-> [x \in DOMAIN m.pt \cup {f} |->
               IF x = f THEN [j \in 0 .. PT_ENTRIES - 1 |-> NULL] ELSE m.pt[x]]]

\* The result of vmm_map_page and the memory it leaves; a frame for a page
\* table goes back to the PMM when it cannot be reached.
vmm_map_page(m, d, v, e) ==
  LET new == m.pd[d][v \div PT_ENTRIES] = NULL
      f   == pmm_alloc_frame(m)
      m1  == IF new THEN NewTable(m, d, v, f) ELSE m
  IN  IF new /\ (f = NULL \/ ~Accessible(m, d, f)) THEN [res |-> "NO_MEMORY", mem |-> m]
      ELSE IF ~Accessible(m1, d, m1.pd[d][v \div PT_ENTRIES])
           THEN [res |-> "NO_MEMORY", mem |-> m1]
      ELSE IF Pte(m1, d, v) # NULL THEN [res |-> "ALREADY_MAPPED", mem |-> m1]
      ELSE [res |-> "SUCCESS", mem |-> SetPte(m1, d, v, e)]

vmm_unmap_page(m, d, v) == IF Pte(m, d, v) = NULL THEN m ELSE SetPte(m, d, v, NULL)

\* A frame is taken, mapped at v, and given back if that fails.
MapFrame(m, d, v, user) ==
  LET f == pmm_alloc_frame(m)
      r == vmm_map_page(Take(m, f), d, v, [frame |-> f, user |-> user])
  IN  IF f = NULL THEN [res |-> "NO_MEMORY", mem |-> m]
      ELSE IF r.res = "SUCCESS" THEN r
      ELSE [res |-> r.res, mem |-> Give(r.mem, f)]

-----------------------------------------------------------------------------
\* init_vmm, with page 0 left out of the identity map, and init_heap.
VmmInit ==
  /\ mem = [used |-> Reserved,
            pd |-> [d \in {BootDir} |-> [i \in 0 .. PD_ENTRIES - 1 |->
                      IF i < IDENT_TABLES THEN BootTables[i] ELSE NULL]],
            pt |-> [t \in {BootTables[i] : i \in 0 .. IDENT_TABLES - 1} |->
                      LET i == CHOOSE i \in 0 .. IDENT_TABLES - 1 : BootTables[i] = t IN
                      [j \in 0 .. PT_ENTRIES - 1 |->
                        IF i + j = 0 THEN NULL
                        ELSE [frame |-> i * PT_ENTRIES + j, user |-> FALSE]]]]
  /\ heap_top = HeapTop
  /\ heap = {}
  /\ prog = [p \in Programs |-> NoProgram]
  /\ panicked = FALSE

\* vesa_map_fb, at boot: vmm_map_pages maps all or, after a failure, none.  All
\* pages of the frame buffer are in table t, of directory entry i.
WithDevice(t, i) ==
  [j \in DOMAIN t |-> LET v == PT_ENTRIES * i + j IN
                      IF v \in Device THEN [frame |-> v, user |-> FALSE] ELSE t[j]]

MapDevice ==
  /\ ~panicked
  /\ DOMAIN mem.pd = {BootDir}
  /\ \A v \in Device : Pte(mem, BootDir, v) = NULL
  /\ LET first == CHOOSE v \in Device : \A w \in Device : v <= w
         r == vmm_map_page(mem, BootDir, first, [frame |-> first, user |-> FALSE])
     IN  /\ r.res = "SUCCESS"
         /\ mem' = [r.mem EXCEPT !.pt[r.mem.pd[BootDir][first \div PT_ENTRIES]] =
                      WithDevice(@, first \div PT_ENTRIES)]
  /\ UNCHANGED <<heap_top, heap, prog, panicked>>

\* One round of the loop of heap_grow, in the directory of whoever called
\* kmalloc.  A page that is mapped already is taken to be identity-mapped.
heap_grow(d) ==
  /\ ~panicked /\ heap_top < HeapLimit
  /\ LET r == MapFrame(mem, d, heap_top, FALSE) IN
     /\ pmm_alloc_frame(mem) # NULL /\ r.res \in {"SUCCESS", "ALREADY_MAPPED"}
     /\ mem' = r.mem
  /\ heap' = heap \cup {heap_top}
  /\ heap_top' = heap_top + 1
  /\ UNCHANGED <<prog, panicked>>

-----------------------------------------------------------------------------
At(p, l) == ~panicked /\ prog[p].at = l

MappedIn(m, d) == {v \in VPages \ IdentPages : Pte(m, d, v) # NULL}
Mapped(p) == MappedIn(mem, prog[p].dir)

\* The program enters vmm_alloc_virtual_pages(base, count, VMM_ALLOC_USER).
Call(base, count, saved) ==
  [base |-> base, count |-> count, i |-> 0, frame |-> NULL, res |-> "SUCCESS", saved |-> saved]

\* Program r goes on at another point of its call c.
Goes(r, at, c) ==
  [at |-> at, dir |-> r.dir, brk |-> r.brk, want |-> r.want, for |-> r.for, call |-> c]

\* A call at its page i, with a frame in hand; and one that failed at that page
\* and goes back over those before it.
CallAt(c, i, f) ==
  [base |-> c.base, count |-> c.count, i |-> i, frame |-> f, res |-> c.res, saved |-> c.saved]
Failed(c, res) ==
  [base |-> c.base, count |-> c.i, i |-> 0, frame |-> NULL, res |-> res, saved |-> c.saved]

\* vmm_clone_kernel_dir and the start of the loader.  The new directory is
\* cleared through its physical address; beyond the identity map that is a
\* kernel page fault, which ends in a panic or puts another frame there.
vmm_clone_kernel_dir_OfProgram(d) ==
  LET others == {e \in DOMAIN mem.pd : e # BootDir}
  IN  mem.pd[IF others = {} THEN BootDir ELSE CHOOSE e \in others : TRUE]

vmm_clone_kernel_dir(d) ==
  [i \in 0 .. PD_ENTRIES - 1 |-> IF i = USER_PD_ENTRY THEN NULL ELSE mem.pd[BootDir][i]]

NewDirectory(m, f, entries) ==
  [used |-> m.used \cup {f},
   pd   |-> [x \in DOMAIN m.pd \cup {f} |-> IF x = f THEN entries ELSE m.pd[x]],
   pt   |-> m.pt]

Start(p) ==
  /\ At(p, "none")
  /\ LET f == pmm_alloc_frame(mem)
         m == NewDirectory(mem, f, vmm_clone_kernel_dir(f))
     IN
     /\ \/ f = NULL /\ UNCHANGED <<mem, prog, panicked>>
        \/ /\ f \in IdentPages
           /\ mem' = m
           /\ prog' = [prog EXCEPT ![p] =
                [at |-> "frame", dir |-> f, brk |-> 0, want |-> 0, for |-> "image",
                 call |-> Call(Image.base, Image.count, MappedIn(m, f))]]
           /\ UNCHANGED panicked
        \/ /\ f \in Frames \ IdentPages
           /\ panicked' = TRUE
           /\ UNCHANGED <<mem, prog>>
  /\ UNCHANGED <<heap_top, heap>>

\* vmm_alloc_virtual_pages, page by page: pmm_alloc_frame ...
AllocFrame(p) ==
  /\ At(p, "frame")
  /\ LET f == pmm_alloc_frame(mem) IN
     IF f = NULL
     THEN /\ prog' = [prog EXCEPT ![p] = Goes(@, "undo", Failed(@.call, "NO_MEMORY"))]
          /\ UNCHANGED mem
     ELSE /\ mem' = Take(mem, f)
          /\ prog' = [prog EXCEPT ![p] = Goes(@, "map", CallAt(@.call, @.call.i, f))]
  /\ UNCHANGED <<heap_top, heap, panicked>>

\* ... then vmm_map_page; if that fails the frame goes back and the pages
\* mapped so far are next.
AfterMap_KeepFrame(m, c, res) == m

AfterMap(m, c, res) == IF res = "SUCCESS" THEN m ELSE Give(m, c.frame)

AllocMap(p) ==
  /\ At(p, "map")
  /\ LET c == prog[p].call
         r == vmm_map_page(mem, prog[p].dir, c.base + c.i, [frame |-> c.frame, user |-> TRUE])
     IN  /\ mem' = AfterMap(r.mem, c, r.res)
         /\ prog' = [prog EXCEPT ![p] =
              IF r.res # "SUCCESS" THEN Goes(@, "undo", Failed(c, r.res))
              ELSE Goes(@, IF c.i + 1 < c.count THEN "frame" ELSE "return",
                        CallAt(c, c.i + 1, NULL))]
  /\ UNCHANGED <<heap_top, heap, panicked>>

\* The roll-back of page j: its frame is freed first, then it is unmapped.
RollbackFree(p) ==
  /\ At(p, "undo")
  /\ LET c == prog[p].call IN
     IF c.i = c.count
     THEN /\ prog' = [prog EXCEPT ![p] = Goes(@, "return", c)]
          /\ UNCHANGED mem
     ELSE /\ mem' = Give(mem, Pte(mem, prog[p].dir, c.base + c.i).frame)
          /\ prog' = [prog EXCEPT ![p] = Goes(@, "unmap", c)]
  /\ UNCHANGED <<heap_top, heap, panicked>>

RollbackUnmap(p) ==
  /\ At(p, "unmap")
  /\ mem' = vmm_unmap_page(mem, prog[p].dir, prog[p].call.base + prog[p].call.i)
  /\ prog' = [prog EXCEPT ![p] = Goes(@, "undo", CallAt(@.call, @.call.i + 1, NULL))]
  /\ UNCHANGED <<heap_top, heap, panicked>>

-----------------------------------------------------------------------------
\* The ends of programs free nothing: neither pages nor tables nor directory.
Ended(p) == [prog EXCEPT ![p] = NoProgram]

\* elf_load_file goes on when pages were mapped already, and sets the break.
LoadReturn(p) ==
  /\ At(p, "return") /\ prog[p].for = "image"
  /\ IF prog[p].call.res = "NO_MEMORY" THEN prog' = Ended(p)
     ELSE prog' = [prog EXCEPT ![p] =
            [at |-> "frame", dir |-> @.dir, want |-> 0, for |-> "stack",
             brk |-> (Image.base + Image.count) * PAGE_SIZE,
             call |-> Call(Stack.base, Stack.count, Mapped(p))]]
  /\ UNCHANGED <<mem, heap_top, heap, panicked>>

InRing3(r, brk) ==
  [at |-> "user", dir |-> r.dir, brk |-> brk, want |-> 0, for |-> "none", call |-> NoCall]

StackReturn(p) ==
  /\ At(p, "return") /\ prog[p].for = "stack"
  /\ prog' = IF prog[p].call.res # "SUCCESS" THEN Ended(p)
             ELSE [prog EXCEPT ![p] = InRing3(@, @.brk)]
  /\ UNCHANGED <<mem, heap_top, heap, panicked>>

\* sys_brk: a larger break is allocated for first, a smaller one only noted.
sys_brk(p, addr) ==
  /\ At(p, "user")
  /\ addr # 0 /\ addr # prog[p].brk
  /\ LET cur_top == PageUp(prog[p].brk)
         new_top == PageUp(addr)
     IN  prog' = IF addr > prog[p].brk /\ new_top > cur_top
                 THEN [prog EXCEPT ![p] =
                        [at |-> "frame", dir |-> @.dir, brk |-> @.brk, want |-> addr, for |-> "brk",
                         call |-> Call(cur_top, new_top - cur_top, Mapped(p))]]
                 ELSE [prog EXCEPT ![p] = InRing3(@, addr)]
  /\ UNCHANGED <<mem, heap_top, heap, panicked>>

NewBreak_Always(p) == prog[p].want

NewBreak(p) == IF prog[p].call.res = "SUCCESS" THEN prog[p].want ELSE prog[p].brk

BrkReturn(p) ==
  /\ At(p, "return") /\ prog[p].for = "brk"
  /\ prog' = [prog EXCEPT ![p] = InRing3(@, NewBreak(p))]
  /\ UNCHANGED <<mem, heap_top, heap, panicked>>

\* page_fault_handler: the kernel touches a page of the program that is not
\* there (a bad pointer in a system call); it gets one, or the kernel panics.
KernelFault(p, v) ==
  /\ At(p, "user")
  /\ Pte(mem, prog[p].dir, v) = NULL
  /\ LET r == MapFrame(mem, prog[p].dir, v, FALSE) IN
     IF v \in KernelHeapBase .. KernelVirtualBase - 1 /\ r.res = "SUCCESS"
     THEN mem' = r.mem /\ UNCHANGED panicked
     ELSE panicked' = TRUE /\ UNCHANGED mem
  /\ UNCHANGED <<heap_top, heap, prog>>

\* sys_exit, or a fault in ring 3.
Exit(p) ==
  /\ At(p, "user")
  /\ prog' = Ended(p)
  /\ UNCHANGED <<mem, heap_top, heap, panicked>>

Stopped == panicked /\ UNCHANGED vmmVars

\* The directories in which kernel code may be running.
InUse == {BootDir} \cup {prog[p].dir : p \in {q \in Programs : prog[q].at = "user"}}

VmmNext ==
  \/ MapDevice
  \/ \E d \in InUse : heap_grow(d)
  \/ \E p \in Programs :
       \/ Start(p)
       \/ AllocFrame(p) \/ AllocMap(p) \/ RollbackFree(p) \/ RollbackUnmap(p)
       \/ LoadReturn(p) \/ StackReturn(p) \/ BrkReturn(p)
       \/ \E addr \in Breaks : sys_brk(p, addr)
       \/ \E v \in FaultPages : KernelFault(p, v)
       \/ Exit(p)
  \/ Stopped

VmmSpec == VmmInit /\ [][VmmNext]_vmmVars

-----------------------------------------------------------------------------
UserDirs   == DOMAIN mem.pd \ {BootDir}
NewTables  == DOMAIN mem.pt \ {BootTables[i] : i \in 0 .. IDENT_TABLES - 1}
InHand     == {p \in Programs : prog[p].at = "map"}

\* A page whose frame was just freed by a roll-back, about to be unmapped.
BeingUndone(t, j) ==
  \E p \in Programs : /\ prog[p].at = "unmap"
                      /\ LET v == prog[p].call.base + prog[p].call.i IN
                         /\ mem.pd[prog[p].dir][v \div PT_ENTRIES] = t
                         /\ v % PT_ENTRIES = j

MappedAt ==
  {x \in NewTables \X (0 .. PT_ENTRIES - 1) :
     /\ mem.pt[x[1]][x[2]] # NULL
     /\ mem.pt[x[1]][x[2]].frame \in Frames
     /\ ~BeingUndone(x[1], x[2])}

\* The books of the PMM balance across all roll-backs, failures and races for
\* the last frames: a frame in use is a directory, a page table, mapped at
\* exactly one place outside the identity map, or in the hands of one call.
FramesBalance ==
  /\ mem.used = Reserved \cup UserDirs \cup NewTables
                  \cup {mem.pt[x[1]][x[2]].frame : x \in MappedAt}
                  \cup {prog[p].call.frame : p \in InHand}
  /\ Cardinality(mem.used) = Cardinality(Reserved) + Cardinality(UserDirs)
       + Cardinality(NewTables) + Cardinality(MappedAt) + Cardinality(InHand)

\* A vmm_alloc_virtual_pages that fails leaves exactly the pages mapped that
\* were mapped before it was called.
FailureUndone ==
  \A p \in Programs :
    prog[p].at = "return" /\ prog[p].call.res # "SUCCESS" => Mapped(p) = prog[p].call.saved

\* Between any two steps of mapping, roll-back and page faults every frame has
\* one user, and a call that failed half way has left nothing behind.
FramesSound == VmmTypeOK /\ FramesBalance /\ FailureUndone

\* What a program was told it has is there, and it may use it: its image, its
\* stack and every page below its break.
ProgramBacked ==
  \A p \in Programs : prog[p].at = "user" =>
    \A v \in ImagePages \cup StackPages
             \cup (Image.base + Image.count .. PageUp(prog[p].brk) - 1) :
      LET e == Pte(mem, prog[p].dir, v) IN e # NULL /\ e.user

\* Programs are isolated: directories share only page tables of the kernel,
\* in which no page is accessible from ring 3.
Isolated ==
  \A d, e \in DOMAIN mem.pd : \A i \in 0 .. PD_ENTRIES - 1 :
    d # e /\ mem.pd[d][i] # NULL /\ mem.pd[d][i] = mem.pd[e][i] =>
      \A j \in 0 .. PT_ENTRIES - 1 :
        mem.pt[mem.pd[d][i]][j] # NULL => ~mem.pt[mem.pd[d][i]][j].user

\* "Tell PMM that these physical frames are in use so it won't hand them out"
\* (init_heap): no frame under a page of the heap is a directory, a page table
\* or a page of a program.
HeapFramesTaken ==
  \A v \in heap \cap IdentPages :
    v \notin UserDirs \cup NewTables \cup {mem.pt[x[1]][x[2]].frame : x \in MappedAt}

=============================================================================

--------------------------------- MODULE Pmm ---------------------------------
(***************************************************************************)
(* The physical memory manager of ParinOS (src/mem/pmm.c): a bitmap with   *)
(* one bit per page frame, built from the memory map the boot loader left, *)
(* and first-fit allocation from it.  Every call masks interrupts with     *)
(* hal_irq_save around its access to the bitmap, so it is one step.        *)
(*                                                                         *)
(* The bitmap is the set of the pages whose bit is 1.  held, reserved and  *)
(* ram are history variables: who owns what is known only to the callers.  *)
(* X_Y before X is a faulty variant of X.                                  *)
(***************************************************************************)
EXTENDS Integers, FiniteSets

CONSTANTS
  PAGE_SIZE,
  BITMAP_BITS,     \* BITMAP_SIZE * 8: pages the bitmap has a bit for
  LowPages,        \* pages below 1 MB, which are never made available
  KernelStart,     \* _kernel_start and _kernel_end, as addresses
  KernelEnd,
  MemoryMaps,      \* the memory maps the BIOS may report
  HeapRegions,     \* the regions [paddr, size] init_heap may reserve
  MaxCount         \* bound: largest count passed to pmm_alloc_pages

\* A memory map is a set of entries; addresses and lengths are in bytes.
MapEntry == [base : Nat, length : Nat, usable : BOOLEAN]

ASSUME PmmAssumption ==
  /\ PAGE_SIZE \in Nat \ {0}
  /\ BITMAP_BITS \in Nat /\ LowPages \in Nat
  /\ KernelStart \in Nat /\ KernelEnd \in Nat
  /\ MaxCount \in Nat
  /\ \A m \in MemoryMaps : m \subseteq MapEntry /\ IsFiniteSet(m)
  /\ HeapRegions \subseteq [paddr : Nat, size : Nat]

\* Usable entries start at page boundaries (above 1 MB all BIOSes in use report
\* them so); their lengths need not be whole pages.
ASSUME MapAssumption ==
  \A m \in MemoryMaps : \A e \in m : e.usable => e.base % PAGE_SIZE = 0

VARIABLES
  bitmap,       \* pages whose bit is 1, the memory behind the bitmap included
  total_pages,
  used_pages,
  held,         \* blocks handed out and not given back
  reserved,     \* pages passed to pmm_reserve_region
  ram           \* pages that lie in usable memory altogether

pmmVars == <<bitmap, total_pages, used_pages, held, reserved, ram>>

\* Addresses become page numbers by rounding down, ends of regions up.
PageOf(addr)    == addr \div PAGE_SIZE
PageUpOf(addr)  == (addr + PAGE_SIZE - 1) \div PAGE_SIZE

InRange(p) == p < total_pages

Block == [start : Nat, count : Nat]
PagesOf(b) == b.start .. b.start + b.count - 1

\* Every variable stays within its range.
PmmTypeOK ==
  /\ total_pages \in Nat
  /\ used_pages \in 0 .. total_pages
  /\ bitmap \subseteq Nat
  /\ held \subseteq Block
  /\ reserved \subseteq Nat
  /\ ram \subseteq Nat

-----------------------------------------------------------------------------
\* start_page to end_page of the usable entries of a memory map.
UsablePages(map) ==
  UNION {PageOf(e.base) .. PageOf(e.base + e.length) - 1 : e \in {e \in map : e.usable}}

\* The pages all of whose bytes are usable, which is what the code is after.
RamPages(map) ==
  {p \in UNION {PageOf(e.base) .. PageOf(e.base + e.length) : e \in map} :
     \E e \in map : /\ e.usable
                    /\ e.base <= p * PAGE_SIZE
                    /\ (p + 1) * PAGE_SIZE <= e.base + e.length}

\* Ends of the usable entries; the greatest is max_addr / PAGE_SIZE.
Ends(map) == {PageOf(e.base + e.length) : e \in {e \in map : e.usable}} \cup {0}

KernelPages == PageOf(KernelStart) .. PageUpOf(KernelEnd) - 1

\* init_pmm.  The bits of pages beyond BITMAP_BITS are memory of other
\* variables: those of usable pages are cleared there too, the others (junk)
\* are whatever that memory holds.
InitBits(map, junk) ==
  (0 .. BITMAP_BITS - 1 \cup junk) \ {p \in UsablePages(map) : p >= LowPages}

init_pmm ==
  \E map \in MemoryMaps : \E total \in Ends(map) :
    \E junk \in SUBSET (BITMAP_BITS .. total - 1) :
      LET bits   == InitBits(map, junk)
          kernel == {p \in KernelPages : p < total}
      IN  /\ \A n \in Ends(map) : n <= total
          /\ total_pages = total
          /\ bitmap = bits \cup kernel
          /\ used_pages = Cardinality({p \in 0 .. total - 1 : p \in bits})
                            + Cardinality(kernel \ bits)
          /\ ram = RamPages(map)

PmmInit == init_pmm /\ held = {} /\ reserved = {}

-----------------------------------------------------------------------------
\* bitmap_set and bitmap_unset over a set of pages: only bits in range, and
\* the count follows the bits that really change.
bitmap_set(S) ==
  /\ bitmap' = bitmap \cup {p \in S : InRange(p)}
  /\ used_pages' = used_pages + Cardinality({p \in S : InRange(p) /\ p \notin bitmap})

bitmap_unset(S) ==
  /\ bitmap' = bitmap \ {p \in S : InRange(p)}
  /\ used_pages' = used_pages - Cardinality({p \in S : InRange(p) /\ p \in bitmap})

\* Called by init_heap, at boot, before anything has been allocated.
pmm_reserve_region(r) ==
  /\ held = {}
  /\ LET S == PageOf(r.paddr) .. PageUpOf(r.paddr + r.size) - 1 IN
     /\ bitmap_set(S)
     /\ reserved' = reserved \cup S
  /\ UNCHANGED <<total_pages, held, ram>>

\* A run of count clear bits in range, the first one the scan meets.
Fits_NoEnd(start, count) ==
  \A p \in start .. start + count - 1 : InRange(p) => p \notin bitmap

Fits(start, count) ==
  start + count <= total_pages /\ (start .. start + count - 1) \cap bitmap = {}

FirstFit(start, count) ==
  Fits(start, count) /\ \A s \in 0 .. start - 1 : ~Fits(s, count)

HandOut(b) ==
  /\ bitmap_set(PagesOf(b))
  /\ held' = held \cup {b}
  /\ UNCHANGED <<total_pages, reserved, ram>>

\* Both return NULL, with nothing changed, when no run fits.
pmm_alloc_page(start) == FirstFit(start, 1) /\ HandOut([start |-> start, count |-> 1])

pmm_alloc_pages(start, count) ==
  FirstFit(start, count) /\ HandOut([start |-> start, count |-> count])

\* Callers give back what they were given; freeing NULL does nothing.
TakeBack(b) ==
  /\ b.start # 0
  /\ bitmap_unset(PagesOf(b))
  /\ held' = held \ {b}
  /\ UNCHANGED <<total_pages, reserved, ram>>

pmm_free_page(b) == b \in held /\ b.count = 1 /\ TakeBack(b)

pmm_free_pages(b) == b \in held /\ TakeBack(b)

PmmNext ==
  \/ \E r \in HeapRegions : pmm_reserve_region(r)
  \/ \E p \in 0 .. total_pages - 1 : pmm_alloc_page(p)
  \/ \E p \in 0 .. total_pages - 1, n \in 1 .. MaxCount : pmm_alloc_pages(p, n)
  \/ \E b \in held : pmm_free_page(b) \/ pmm_free_pages(b)

PmmSpec == PmmInit /\ [][PmmNext]_pmmVars

-----------------------------------------------------------------------------
\* used_pages, from which pmm_get_free_memory and the statistics are computed,
\* is exactly the number of pages in range whose bit is set.
UsedCount ==
  used_pages = Cardinality({p \in 0 .. total_pages - 1 : p \in bitmap})

\* No page is handed out twice: two blocks in the hands of callers have no
\* page in common.
BlocksDisjoint ==
  \A b, c \in held : b # c => PagesOf(b) \cap PagesOf(c) = {}

\* What a page allocator may give away, when the bitmap covers the memory.
Allocatable == {p \in ram : p >= LowPages /\ p \notin KernelPages /\ p \notin reserved}

\* Only usable memory is handed out, never the first megabyte, the kernel
\* image or the initial heap.
HandsOutRamOnly ==
  total_pages <= BITMAP_BITS => \A b \in held : PagesOf(b) \subseteq Allocatable

\* Nothing is lost: an allocatable page is held by a caller or free.
NothingLost ==
  \A p \in Allocatable : p \in bitmap => \E b \in held : p \in PagesOf(b)

\* "Out of range counts as in use" (bitmap_test): a page the bitmap has no
\* bit for is never handed out.
OutOfRangeIsUsed ==
  \A b \in held : PagesOf(b) \subseteq 0 .. BITMAP_BITS - 1

\* What makes these inductive: which pages are clear, and that pages of held
\* blocks are set.
ClearPages ==
  total_pages <= BITMAP_BITS =>
    \A p \in 0 .. total_pages - 1 : p \notin bitmap => p \in Allocatable

HeldPages ==
  \A b \in held : /\ b.count # 0
                  /\ PagesOf(b) \subseteq bitmap \cap 0 .. total_pages - 1

\* The inductive invariant of the page allocator.
PmmIInv ==
  /\ PmmTypeOK
  /\ UsedCount
  /\ BlocksDisjoint
  /\ HandsOutRamOnly
  /\ NothingLost
  /\ ClearPages
  /\ HeldPages

=============================================================================

------------------------------ MODULE PmmProofs ------------------------------
(***************************************************************************)
(* The page allocator, proved for every memory map, page size and bitmap:  *)
(* the count is exact, no page is handed out twice, none is lost, and only *)
(* usable memory is handed out.                                            *)
(***************************************************************************)
EXTENDS Pmm, FiniteSetTheorems, TLAPS

-----------------------------------------------------------------------------
(***************************************************************************)
(* Page arithmetic.                                                        *)
(***************************************************************************)

\* Page numbers are natural numbers, and a page number is bounded by an
\* address exactly when its first byte is.
LEMMA PageNat ==
  ASSUME NEW a \in Nat
  PROVE  /\ PageOf(a) \in Nat /\ PageUpOf(a) \in Nat
         /\ a = PAGE_SIZE * PageOf(a) + (a % PAGE_SIZE)
         /\ a % PAGE_SIZE \in 0 .. PAGE_SIZE - 1
<1>1. PAGE_SIZE \in Nat /\ PAGE_SIZE > 0
  BY PmmAssumption
<1>2. ASSUME NEW x \in Nat
      PROVE  /\ x \div PAGE_SIZE \in Nat
             /\ x = PAGE_SIZE * (x \div PAGE_SIZE) + (x % PAGE_SIZE)
             /\ x % PAGE_SIZE \in 0 .. PAGE_SIZE - 1
  BY <1>1
<1>3. a + PAGE_SIZE - 1 \in Nat
  BY <1>1
<1> QED
  BY <1>2, <1>3 DEF PageOf, PageUpOf

\* Every page that lies in usable memory altogether is in the range init_pmm
\* makes available, and the other way round.
LEMMA RamIsUsable ==
  ASSUME NEW map \in MemoryMaps
  PROVE  RamPages(map) = UsablePages(map)
<1>0. PAGE_SIZE \in Nat /\ PAGE_SIZE > 0
  BY PmmAssumption
<1>1. ASSUME NEW e \in map, e.usable, NEW p \in Int
      PROVE  p \in PageOf(e.base) .. PageOf(e.base + e.length) - 1
               <=> e.base <= p * PAGE_SIZE /\ (p + 1) * PAGE_SIZE <= e.base + e.length
  <2>1. /\ e.base \in Nat /\ e.length \in Nat /\ e.base % PAGE_SIZE = 0
    BY <1>1, PmmAssumption, MapAssumption DEF MapEntry
  <2> DEFINE f == PageOf(e.base)
             l == PageOf(e.base + e.length)
             r == (e.base + e.length) % PAGE_SIZE
  <2>2. f \in Nat /\ e.base = PAGE_SIZE * f
    <3>1. f \in Nat /\ e.base = PAGE_SIZE * f + (e.base % PAGE_SIZE)
      BY <2>1, PageNat
    <3>2. PAGE_SIZE * f \in Nat
      BY <1>0, <3>1
    <3> HIDE DEF f
    <3> QED
      BY <2>1, <3>1, <3>2
  <2>3. l \in Nat /\ r \in 0 .. PAGE_SIZE - 1 /\ e.base + e.length = PAGE_SIZE * l + r
    BY <2>1, PageNat
  <2> HIDE DEF f, l, r
  <2>4. f <= p <=> PAGE_SIZE * f <= p * PAGE_SIZE
    BY <1>0, <2>2
  <2>5. p + 1 <= l <=> (p + 1) * PAGE_SIZE <= PAGE_SIZE * l + r
    <3>1. p + 1 <= l => (p + 1) * PAGE_SIZE <= l * PAGE_SIZE
      BY <1>0, <2>3
    <3>2. p + 1 >= l + 1 => (p + 1) * PAGE_SIZE >= (l + 1) * PAGE_SIZE
      BY <1>0, <2>3
    <3>3. (l + 1) * PAGE_SIZE > PAGE_SIZE * l + r
      BY <1>0, <2>3
    <3> QED
      BY <1>0, <2>3, <3>1, <3>2, <3>3
  <2> QED
    BY <2>2, <2>3, <2>4, <2>5 DEF f, l
<1>2. ASSUME NEW e \in map PROVE PageOf(e.base) \in Nat /\ PageOf(e.base + e.length) \in Nat
  <2>1. e.base \in Nat /\ e.length \in Nat
    BY PmmAssumption DEF MapEntry
  <2>2. e.base + e.length \in Nat
    BY <2>1
  <2> QED
    BY <2>1, <2>2, PageNat
<1>3. ASSUME NEW p \in RamPages(map) PROVE p \in UsablePages(map)
  <2>1. PICK e \in map : /\ e.usable
                         /\ e.base <= p * PAGE_SIZE
                         /\ (p + 1) * PAGE_SIZE <= e.base + e.length
    BY <1>3 DEF RamPages
  <2>2. p \in Int
    BY <1>3, <1>2 DEF RamPages
  <2> QED
    BY <1>1, <2>1, <2>2 DEF UsablePages
<1>4. ASSUME NEW p \in UsablePages(map) PROVE p \in RamPages(map)
  <2>1. PICK e \in map : e.usable /\ p \in PageOf(e.base) .. PageOf(e.base + e.length) - 1
    BY <1>4 DEF UsablePages
  <2>2. p \in Int /\ p \in PageOf(e.base) .. PageOf(e.base + e.length)
    BY <1>2, <2>1
  <2> QED
    BY <1>1, <2>1, <2>2 DEF RamPages
<1> QED
  BY <1>3, <1>4

\* The range [_kernel_start, _kernel_end) and the regions reserved at boot
\* are sets of page numbers.
LEMMA RegionNat ==
  ASSUME NEW a \in Nat, NEW b \in Nat
  PROVE  PageOf(a) .. PageUpOf(b) - 1 \subseteq Nat
<1>1. PageOf(a) \in Nat /\ PageUpOf(b) \in Nat
  BY PageNat
<1> QED
  BY <1>1

-----------------------------------------------------------------------------
(***************************************************************************)
(* The count.                                                              *)
(***************************************************************************)
InUse == {p \in 0 .. total_pages - 1 : p \in bitmap}

LEMMA InUseFinite ==
  ASSUME NEW n \in Nat, NEW S \in SUBSET (0 .. n - 1)
  PROVE  IsFiniteSet(S) /\ Cardinality(S) \in 0 .. n
<1>1. IsFiniteSet(0 .. n - 1) /\ Cardinality(0 .. n - 1) = n
  BY FS_Interval
<1>2. IsFiniteSet(S) /\ Cardinality(S) <= n
  BY <1>1, FS_Subset
<1>3. Cardinality(S) \in Nat
  BY <1>2, FS_CardinalityType
<1> QED
  BY <1>2, <1>3

\* Setting bits raises the count by the bits that were clear.
LEMMA SetCounts ==
  ASSUME PmmTypeOK, UsedCount, NEW S \in SUBSET Nat, bitmap_set(S),
         total_pages' = total_pages
  PROVE  UsedCount' /\ used_pages' \in 0 .. total_pages
<1> DEFINE new == {p \in S : InRange(p) /\ p \notin bitmap}
<1>1. total_pages \in Nat
  BY DEF PmmTypeOK
<1>a. \A p : p \in InUse <=> p \in 0 .. total_pages - 1 /\ p \in bitmap
  BY DEF InUse
<1>b. \A p : p \in new <=> p \in S /\ p \in 0 .. total_pages - 1 /\ p \notin bitmap
  <2>1. \A p \in S : InRange(p) <=> p \in 0 .. total_pages - 1
    <3>1. \A p \in S : p \in Nat
      OBVIOUS
    <3> QED
      BY <1>1, <3>1 DEF InRange
  <2> QED
    BY <2>1
<1>c. \A p : p \in InUse' <=> p \in 0 .. total_pages - 1 /\ p \in bitmap'
  BY DEF InUse
<1>d. \A p \in 0 .. total_pages - 1 : p \in bitmap' <=> p \in bitmap \/ p \in S
  BY <1>1 DEF bitmap_set, InRange
<1> HIDE DEF new
<1>2. InUse \in SUBSET (0 .. total_pages - 1) /\ new \in SUBSET (0 .. total_pages - 1)
  BY <1>a, <1>b
<1>3. InUse \cap new = {}
  BY <1>a, <1>b
<1>4. InUse' = InUse \cup new
  BY <1>a, <1>b, <1>c, <1>d
<1>5. /\ IsFiniteSet(InUse) /\ IsFiniteSet(new)
      /\ Cardinality(InUse) \in Nat /\ Cardinality(new) \in Nat
  BY <1>1, <1>2, InUseFinite
<1>6. Cardinality(InUse \cup new) = Cardinality(InUse) + Cardinality(new)
  BY <1>3, <1>5, FS_Union, FS_EmptySet
<1>7. used_pages' = used_pages + Cardinality(new)
  BY DEF bitmap_set, new
<1>8. used_pages = Cardinality(InUse)
  BY DEF UsedCount, InUse
<1>9. used_pages' = Cardinality(InUse')
  BY <1>4, <1>5, <1>6, <1>7, <1>8
<1>10. InUse' \in SUBSET (0 .. total_pages - 1)
  BY <1>c
<1>11. Cardinality(InUse') \in 0 .. total_pages
  BY <1>1, <1>10, InUseFinite
<1> QED
  BY <1>9, <1>11 DEF UsedCount, InUse

\* Clearing bits lowers the count by the bits that were set.
LEMMA UnsetCounts ==
  ASSUME PmmTypeOK, UsedCount, NEW S \in SUBSET Nat, bitmap_unset(S),
         total_pages' = total_pages
  PROVE  UsedCount' /\ used_pages' \in 0 .. total_pages
<1> DEFINE gone == {p \in S : InRange(p) /\ p \in bitmap}
<1>1. total_pages \in Nat
  BY DEF PmmTypeOK
<1>a. \A p : p \in InUse <=> p \in 0 .. total_pages - 1 /\ p \in bitmap
  BY DEF InUse
<1>b. \A p : p \in gone <=> p \in S /\ p \in 0 .. total_pages - 1 /\ p \in bitmap
  <2>1. \A p \in S : InRange(p) <=> p \in 0 .. total_pages - 1
    <3>1. \A p \in S : p \in Nat
      OBVIOUS
    <3> QED
      BY <1>1, <3>1 DEF InRange
  <2> QED
    BY <2>1
<1>c. \A p : p \in InUse' <=> p \in 0 .. total_pages - 1 /\ p \in bitmap'
  BY DEF InUse
<1>d. \A p \in 0 .. total_pages - 1 : p \in bitmap' <=> p \in bitmap /\ p \notin S
  BY <1>1 DEF bitmap_unset, InRange
<1> HIDE DEF gone
<1>2. InUse \in SUBSET (0 .. total_pages - 1) /\ gone \in SUBSET (0 .. total_pages - 1)
  BY <1>a, <1>b
<1>3. InUse \cap gone = gone
  BY <1>a, <1>b
<1>4. InUse' = InUse \ gone
  BY <1>a, <1>b, <1>c, <1>d
<1>5. /\ IsFiniteSet(InUse)
      /\ Cardinality(InUse) \in Nat /\ Cardinality(gone) \in Nat
  BY <1>1, <1>2, InUseFinite
<1>6. Cardinality(InUse \ gone) = Cardinality(InUse) - Cardinality(gone)
  BY <1>3, <1>5, FS_Difference
<1>7. used_pages' = used_pages - Cardinality(gone)
  BY DEF bitmap_unset, gone
<1>8. used_pages = Cardinality(InUse)
  BY DEF UsedCount, InUse
<1>9. used_pages' = Cardinality(InUse')
  BY <1>4, <1>6, <1>7, <1>8
<1>10. InUse' \in SUBSET (0 .. total_pages - 1)
  BY <1>c
<1>11. Cardinality(InUse') \in 0 .. total_pages
  BY <1>1, <1>10, InUseFinite
<1> QED
  BY <1>9, <1>11 DEF UsedCount, InUse

-----------------------------------------------------------------------------
(***************************************************************************)
(* The invariant.                                                          *)
(***************************************************************************)
LEMMA PmmInitInv == PmmInit => PmmIInv
<1> SUFFICES ASSUME PmmInit PROVE PmmIInv
  OBVIOUS
<1>1. PICK map \in MemoryMaps :
        \E total \in Ends(map) : \E junk \in SUBSET (BITMAP_BITS .. total - 1) :
          /\ total_pages = total
          /\ bitmap = InitBits(map, junk) \cup {p \in KernelPages : p < total}
          /\ used_pages = Cardinality({p \in 0 .. total - 1 : p \in InitBits(map, junk)})
                            + Cardinality({p \in KernelPages : p < total} \ InitBits(map, junk))
          /\ ram = RamPages(map)
  BY DEF PmmInit, init_pmm
<1> DEFINE total == total_pages
<1>2. /\ total \in Ends(map)
      /\ \E junk \in SUBSET (BITMAP_BITS .. total - 1) :
          /\ bitmap = InitBits(map, junk) \cup {p \in KernelPages : p < total}
          /\ used_pages = Cardinality({p \in 0 .. total - 1 : p \in InitBits(map, junk)})
                            + Cardinality({p \in KernelPages : p < total} \ InitBits(map, junk))
          /\ ram = RamPages(map)
  BY <1>1
<1>2a. PICK junk \in SUBSET (BITMAP_BITS .. total - 1) :
          /\ bitmap = InitBits(map, junk) \cup {p \in KernelPages : p < total}
          /\ used_pages = Cardinality({p \in 0 .. total - 1 : p \in InitBits(map, junk)})
                            + Cardinality({p \in KernelPages : p < total} \ InitBits(map, junk))
          /\ ram = RamPages(map)
  BY <1>2
<1> DEFINE bits   == InitBits(map, junk)
           kernel == {p \in KernelPages : p < total}
<1>3. held = {} /\ reserved = {}
  BY DEF PmmInit
<1>4. total \in Nat
  <2>1. ASSUME NEW e \in map PROVE PageOf(e.base + e.length) \in Nat
    <3>1. e.base \in Nat /\ e.length \in Nat
      BY PmmAssumption DEF MapEntry
    <3>2. e.base + e.length \in Nat
      BY <3>1
    <3> QED
      BY <3>2, PageNat
  <2> QED
    BY <1>2, <2>1 DEF Ends
<1>5. KernelPages \subseteq Nat
  BY RegionNat, PmmAssumption DEF KernelPages
<1>6. UsablePages(map) \subseteq Nat
  <2>1. ASSUME NEW e \in map PROVE PageOf(e.base) \in Nat /\ PageOf(e.base + e.length) \in Nat
    <3>1. e.base \in Nat /\ e.length \in Nat
      BY PmmAssumption DEF MapEntry
    <3>2. e.base + e.length \in Nat
      BY <3>1
    <3> QED
      BY <3>1, <3>2, PageNat
  <2>2. \A a, b \in Nat : a .. b - 1 \subseteq Nat
    OBVIOUS
  <2> QED
    BY <2>1, <2>2 DEF UsablePages
<1>7. ram = UsablePages(map)
  BY <1>2, <1>2a, RamIsUsable
<1>8. \A p : p \in bits <=> /\ p \in 0 .. BITMAP_BITS - 1 \/ p \in junk
                            /\ ~(p \in ram /\ p >= LowPages)
  BY <1>7 DEF InitBits
<1>9. bits \subseteq Nat
  <2>1. 0 .. BITMAP_BITS - 1 \subseteq Nat /\ BITMAP_BITS .. total - 1 \subseteq Nat
    BY <1>4, PmmAssumption
  <2>2. junk \subseteq Nat
    BY <2>1
  <2> QED
    BY <1>8, <2>1, <2>2
<1>10. \A p : p \in bitmap <=> p \in bits \/ p \in kernel
  BY <1>2, <1>2a
<1>11. \A p : p \in kernel <=> p \in KernelPages /\ p \in 0 .. total - 1
  <2>1. \A p \in KernelPages : p < total <=> p \in 0 .. total - 1
    <3>1. \A p \in Nat : p < total <=> p \in 0 .. total - 1
      BY <1>4
    <3> QED
      BY <1>5, <3>1
  <2> QED
    BY <2>1
<1>12. UsedCount
  <2> DEFINE A == {p \in 0 .. total - 1 : p \in bits}
             B == kernel \ bits
  <2>1. A \in SUBSET (0 .. total - 1) /\ B \in SUBSET (0 .. total - 1)
    BY <1>11
  <2>2. A \cap B = {}
    OBVIOUS
  <2>3. InUse = A \cup B
    BY <1>2, <1>2a, <1>10, <1>11 DEF InUse
  <2>4. used_pages = Cardinality(A) + Cardinality(B)
    BY <1>2, <1>2a
  <2> HIDE DEF A, B
  <2>5. IsFiniteSet(A) /\ IsFiniteSet(B) /\ Cardinality(A) \in Nat /\ Cardinality(B) \in Nat
    BY <1>4, <2>1, InUseFinite
  <2>6. Cardinality(A \cup B) = Cardinality(A) + Cardinality(B)
    BY <2>2, <2>5, FS_Union, FS_EmptySet
  <2> QED
    BY <2>3, <2>4, <2>6 DEF UsedCount, InUse
<1>13. PmmTypeOK
  <2>1. used_pages \in 0 .. total_pages
    <3>1. InUse \in SUBSET (0 .. total_pages - 1)
      BY DEF InUse
    <3>2. Cardinality(InUse) \in 0 .. total_pages
      BY <1>4, <3>1, InUseFinite
    <3> QED
      BY <1>12, <3>2 DEF UsedCount, InUse
  <2>2. bitmap \subseteq Nat
    BY <1>5, <1>9, <1>10, <1>11
  <2> QED
    BY <1>3, <1>4, <1>6, <1>7, <2>1, <2>2 DEF PmmTypeOK
<1>14. NothingLost
  BY <1>8, <1>10, <1>11 DEF NothingLost, Allocatable
<1>15. ClearPages
  <2> SUFFICES ASSUME total_pages <= BITMAP_BITS, NEW p \in 0 .. total_pages - 1, p \notin bitmap
               PROVE  p \in Allocatable
    BY DEF ClearPages
  <2>1. p \in 0 .. BITMAP_BITS - 1
    BY <1>2, <1>2a, <1>4, PmmAssumption
  <2> QED
    BY <1>2, <1>2a, <1>3, <1>8, <1>10, <1>11, <2>1 DEF Allocatable
<1> QED
  BY <1>3, <1>12, <1>13, <1>14, <1>15
  DEF PmmIInv, BlocksDisjoint, HandsOutRamOnly, HeldPages

\* Handing out a run of clear pages.
LEMMA HandOutInv ==
  ASSUME PmmIInv, NEW start \in 0 .. total_pages - 1, NEW count \in Nat \ {0},
         Fits(start, count), HandOut([start |-> start, count |-> count])
  PROVE  PmmIInv'
<1> DEFINE b == [start |-> start, count |-> count]
           S == start .. start + count - 1
<1>1. total_pages \in Nat /\ start \in Nat
  BY DEF PmmIInv, PmmTypeOK
<1>2. PagesOf(b) = S /\ b \in Block /\ b.count # 0
  BY <1>1 DEF PagesOf, Block
<1>3. S \subseteq 0 .. total_pages - 1 /\ S \cap bitmap = {} /\ S \in SUBSET Nat
  BY <1>1 DEF Fits
<1>4. /\ bitmap_set(S) /\ held' = held \cup {b}
      /\ UNCHANGED <<total_pages, reserved, ram>>
  BY <1>2 DEF HandOut
<1>5. UsedCount' /\ used_pages' \in 0 .. total_pages
  BY <1>3, <1>4, SetCounts DEF PmmIInv
<1>6. bitmap' = bitmap \cup S
  <2>1. \A p \in S : InRange(p)
    BY <1>1, <1>3 DEF InRange
  <2> QED
    BY <1>4, <2>1 DEF bitmap_set
<1> HIDE DEF b, S
<1>7. PmmTypeOK'
  BY <1>2, <1>3, <1>4, <1>5, <1>6 DEF PmmIInv, PmmTypeOK
<1>8. BlocksDisjoint'
  <2>1. \A c \in held : PagesOf(c) \cap S = {}
    BY <1>3 DEF PmmIInv, HeldPages
  <2> QED
    BY <1>2, <1>4, <2>1 DEF PmmIInv, BlocksDisjoint
<1>9. Allocatable' = Allocatable
  BY <1>4 DEF Allocatable
<1>10. HandsOutRamOnly'
  <2>1. total_pages <= BITMAP_BITS => S \subseteq Allocatable
    BY <1>3 DEF PmmIInv, ClearPages
  <2> QED
    BY <1>2, <1>4, <1>9, <2>1 DEF PmmIInv, HandsOutRamOnly
<1>11. NothingLost'
  BY <1>2, <1>4, <1>6, <1>9 DEF PmmIInv, NothingLost
<1>12. ClearPages'
  BY <1>4, <1>6, <1>9 DEF PmmIInv, ClearPages
<1>13. HeldPages'
  BY <1>2, <1>3, <1>4, <1>6 DEF PmmIInv, HeldPages
<1> QED
  BY <1>5, <1>7, <1>8, <1>10, <1>11, <1>12, <1>13 DEF PmmIInv

\* Taking a block back.
LEMMA TakeBackInv ==
  ASSUME PmmIInv, NEW b \in held, TakeBack(b)
  PROVE  PmmIInv'
<1> DEFINE S == PagesOf(b)
<1>1. S \subseteq bitmap /\ S \subseteq 0 .. total_pages - 1
  BY DEF PmmIInv, HeldPages
<1>2. total_pages \in Nat /\ S \in SUBSET Nat
  BY <1>1 DEF PmmIInv, PmmTypeOK
<1>3. /\ bitmap_unset(S) /\ held' = held \ {b}
      /\ UNCHANGED <<total_pages, reserved, ram>>
  BY DEF TakeBack
<1>4. UsedCount' /\ used_pages' \in 0 .. total_pages
  BY <1>2, <1>3, UnsetCounts DEF PmmIInv
<1>5. bitmap' = bitmap \ S
  <2>1. \A p \in S : InRange(p)
    BY <1>1, <1>2 DEF InRange
  <2> QED
    BY <1>3, <2>1 DEF bitmap_unset
<1>6. PmmTypeOK'
  BY <1>3, <1>4, <1>5 DEF PmmIInv, PmmTypeOK
<1>7. \A c \in held' : PagesOf(c) \cap S = {}
  BY <1>3 DEF PmmIInv, BlocksDisjoint
<1>8. BlocksDisjoint'
  BY <1>3 DEF PmmIInv, BlocksDisjoint
<1>9. Allocatable' = Allocatable
  BY <1>3 DEF Allocatable
<1>10. HandsOutRamOnly'
  BY <1>3, <1>9 DEF PmmIInv, HandsOutRamOnly
<1> HIDE DEF S
<1>11. NothingLost'
  <2> SUFFICES ASSUME NEW p \in Allocatable, p \in bitmap'
               PROVE  \E c \in held' : p \in PagesOf(c)
    BY <1>9 DEF NothingLost
  <2>1. p \in bitmap /\ p \notin S
    BY <1>5
  <2>2. PICK c \in held : p \in PagesOf(c)
    BY <2>1 DEF PmmIInv, NothingLost
  <2> QED
    BY <1>3, <2>1, <2>2 DEF S
<1>12. ClearPages'
  <2>1. total_pages <= BITMAP_BITS => S \subseteq Allocatable
    BY DEF PmmIInv, HandsOutRamOnly, S
  <2> QED
    BY <1>3, <1>5, <1>9, <2>1 DEF PmmIInv, ClearPages
<1>13. HeldPages'
  BY <1>3, <1>5, <1>7 DEF PmmIInv, HeldPages
<1> QED
  BY <1>4, <1>6, <1>8, <1>10, <1>11, <1>12, <1>13 DEF PmmIInv

\* Reserving a region while nothing is handed out.
LEMMA ReserveInv ==
  ASSUME PmmIInv, NEW r \in HeapRegions, pmm_reserve_region(r)
  PROVE  PmmIInv'
<1> DEFINE S == PageOf(r.paddr) .. PageUpOf(r.paddr + r.size) - 1
<1>1. S \in SUBSET Nat
  <2>1. r.paddr \in Nat /\ r.paddr + r.size \in Nat
    BY PmmAssumption
  <2> QED
    BY <2>1, RegionNat
<1>2. /\ held = {} /\ held' = {}
      /\ bitmap_set(S) /\ reserved' = reserved \cup S
      /\ UNCHANGED <<total_pages, ram>>
  BY DEF pmm_reserve_region
<1> HIDE DEF S
<1>3. UsedCount' /\ used_pages' \in 0 .. total_pages
  BY <1>1, <1>2, SetCounts DEF PmmIInv
<1>4. /\ bitmap \subseteq bitmap' /\ bitmap' \subseteq bitmap \cup S
      /\ \A p \in 0 .. total_pages - 1 : p \in S => p \in bitmap'
  <2>1. \A p \in 0 .. total_pages - 1 : InRange(p)
    BY DEF InRange, PmmIInv, PmmTypeOK
  <2> QED
    BY <1>2, <2>1 DEF bitmap_set
<1>5. PmmTypeOK'
  BY <1>1, <1>2, <1>3, <1>4 DEF PmmIInv, PmmTypeOK
<1>6. Allocatable' = Allocatable \ S
  BY <1>2 DEF Allocatable
<1>7. NothingLost'
  BY <1>2, <1>4, <1>6 DEF PmmIInv, NothingLost
<1>8. ClearPages'
  BY <1>2, <1>4, <1>6 DEF PmmIInv, ClearPages
<1> QED
  BY <1>2, <1>3, <1>5, <1>7, <1>8
  DEF PmmIInv, BlocksDisjoint, HandsOutRamOnly, HeldPages

LEMMA PmmNextInv == PmmIInv /\ [PmmNext]_pmmVars => PmmIInv'
<1> SUFFICES ASSUME PmmIInv, [PmmNext]_pmmVars PROVE PmmIInv'
  OBVIOUS
<1>1. ASSUME NEW p \in 0 .. total_pages - 1, pmm_alloc_page(p) PROVE PmmIInv'
  <2>1. 1 \in Nat \ {0}
    OBVIOUS
  <2> QED
    BY <1>1, <2>1, HandOutInv DEF pmm_alloc_page, FirstFit
<1>2. ASSUME NEW p \in 0 .. total_pages - 1, NEW n \in 1 .. MaxCount, pmm_alloc_pages(p, n)
      PROVE  PmmIInv'
  <2>1. n \in Nat \ {0}
    BY PmmAssumption
  <2> QED
    BY <1>2, <2>1, HandOutInv DEF pmm_alloc_pages, FirstFit
<1>3. ASSUME NEW b \in held, pmm_free_page(b) \/ pmm_free_pages(b) PROVE PmmIInv'
  BY <1>3, TakeBackInv DEF pmm_free_page, pmm_free_pages
<1>4. ASSUME NEW r \in HeapRegions, pmm_reserve_region(r) PROVE PmmIInv'
  BY <1>4, ReserveInv
<1>5. CASE UNCHANGED pmmVars
  BY <1>5 DEF pmmVars, PmmIInv, PmmTypeOK, UsedCount, BlocksDisjoint, HandsOutRamOnly,
     NothingLost, ClearPages, HeldPages, Allocatable
<1> QED
  BY <1>1, <1>2, <1>3, <1>4, <1>5 DEF PmmNext

-----------------------------------------------------------------------------
(***************************************************************************)
(* The theorems.                                                           *)
(***************************************************************************)

\* The inductive invariant holds in every reachable state, for every memory
\* map and every sequence of calls.
THEOREM PmmInvariant == PmmSpec => []PmmIInv
  BY PmmInitInv, PmmNextInv, PTL DEF PmmSpec

\* used_pages counts the set bits: no call counts a page twice or not at all.
THEOREM CountExact == PmmSpec => []UsedCount
<1>1. PmmIInv => UsedCount
  BY DEF PmmIInv
<1> QED
  BY <1>1, PmmInvariant, PTL

\* No page belongs to two callers.
THEOREM NoDoubleHandOut == PmmSpec => []BlocksDisjoint
<1>1. PmmIInv => BlocksDisjoint
  BY DEF PmmIInv
<1> QED
  BY <1>1, PmmInvariant, PTL

\* Callers are given usable memory only, outside the first megabyte, the
\* kernel and the initial heap, provided the bitmap covers the memory.
THEOREM OnlyRam == PmmSpec => []HandsOutRamOnly
<1>1. PmmIInv => HandsOutRamOnly
  BY DEF PmmIInv
<1> QED
  BY <1>1, PmmInvariant, PTL

\* Every allocatable page is free or held: no call loses one.
THEOREM Conservation == PmmSpec => []NothingLost
<1>1. PmmIInv => NothingLost
  BY DEF PmmIInv
<1> QED
  BY <1>1, PmmInvariant, PTL

=============================================================================

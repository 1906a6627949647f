-------------------------------- MODULE Tlsf --------------------------------
(***************************************************************************)
(* The kernel heap of ParinOS: the two-level segregated fit allocator      *)
(* (src/std/tlsf_allocator.cpp) and kmalloc, kfree and krealloc on top of  *)
(* it (src/std/heap.cpp).                                                  *)
(*                                                                         *)
(* heap.hdr maps the address of each block header to what is in it: the    *)
(* physical predecessor, the payload size and the two flag bits.  A free   *)
(* list is the set of its blocks: which of them is the head decides only   *)
(* which block of a class is taken, so any may be.  Calls are atomic       *)
(* here; the code takes no lock.                                           *)
(*                                                                         *)
(* Once a split has wrapped around (see blk_split) the code writes over a  *)
(* header in use and past its tables: nothing can be said from then on and *)
(* the model stops.  X_Y before X is a faulty variant of X.                *)
(***************************************************************************)
EXTENDS Integers, FiniteSets

CONSTANTS
  OVERHEAD,          \* bytes of a header in front of the payload
  TLSF_ALIGN_SIZE,
  SL_INDEX_BITS,     \* also FL_INDEX_SHIFT
  FL_INDEX_MAX,      \* 2^FL_INDEX_MAX is the largest request
  SIZE_MOD,          \* 2^width of size_t
  PAGE_SIZE,
  HEAP_GROW_PAGES,
  GROW_SLACK,        \* what kmalloc adds to a request before it grows the heap
  HeapStart,         \* start_vaddr of init_heap
  InitialPages,
  HeapLimit,         \* bound: end of the memory the heap can grow into
  Sizes,             \* bound: sizes callers ask for
  NULL

\* 1u << n, as a function that can be reasoned about.
Pow2[n \in Nat] == IF n = 0 THEN 1 ELSE 2 * Pow2[n - 1]

FL_INDEX_SHIFT == SL_INDEX_BITS
FL_INDEX_COUNT == FL_INDEX_MAX - FL_INDEX_SHIFT + 1
SL_CLASS_COUNT == Pow2[SL_INDEX_BITS]
TLSF_BLOCK_MIN == Pow2[FL_INDEX_SHIFT]

ASSUME TlsfAssumption ==
  /\ SL_INDEX_BITS \in Nat /\ FL_INDEX_MAX \in Nat /\ FL_INDEX_MAX > SL_INDEX_BITS
  /\ OVERHEAD \in Nat \ {0} /\ TLSF_ALIGN_SIZE \in Nat \ {0}
  /\ HeapStart \in Nat /\ HeapLimit \in Nat /\ SIZE_MOD \in Nat /\ SIZE_MOD > HeapLimit
  /\ HeapLimit - HeapStart <= Pow2[FL_INDEX_MAX + 1]   \* every pool has a class
  /\ PAGE_SIZE \in Nat /\ PAGE_SIZE >= 3 * OVERHEAD + TLSF_BLOCK_MIN   \* a page is a pool
  /\ InitialPages \in Nat \ {0} /\ HEAP_GROW_PAGES \in Nat \ {0} /\ GROW_SLACK \in Nat
  /\ HeapStart + InitialPages * PAGE_SIZE <= HeapLimit
  /\ Sizes \subseteq Nat
  /\ NULL \notin Nat

VARIABLES
  heap,         \* [hdr, free_lists, sl_bitmap, fl_bitmap]
  g_heap_top,
  pools,        \* history: the regions passed to add_pool
  live,         \* history: the blocks callers hold, with the size asked for
  wrapped       \* a split has wrapped around

tlsfVars == <<heap, g_heap_top, pools, live, wrapped>>

FLs     == 0 .. FL_INDEX_COUNT - 1
SLs     == 0 .. SL_CLASS_COUNT - 1
Addrs   == HeapStart .. HeapLimit

\* Every variable stays within its range.
TlsfTypeOK ==
  /\ DOMAIN heap.hdr \subseteq Addrs
  /\ \A b \in DOMAIN heap.hdr :
       heap.hdr[b] \in [prev : Addrs \cup {NULL}, size : 0 .. HeapLimit - HeapStart,
                        free : BOOLEAN, prev_free : BOOLEAN]
  /\ heap.free_lists \in [FLs \X SLs -> SUBSET DOMAIN heap.hdr]
  /\ heap.sl_bitmap \in [FLs -> SUBSET SLs]
  /\ heap.fl_bitmap \subseteq FLs
  /\ g_heap_top \in Addrs
  /\ live \subseteq [blk : DOMAIN heap.hdr, size : Nat]
  /\ wrapped \in BOOLEAN

LeastOf(S) == CHOOSE x \in S : \A y \in S : x <= y

-----------------------------------------------------------------------------
\* Index mapping: the first level is the leading bit of the size, the second
\* the SL_INDEX_BITS bits after it.
bsr32(x) == CHOOSE n \in 0 .. FL_INDEX_MAX + 1 : Pow2[n] <= x /\ x < Pow2[n + 1]

map_insert(sz) ==
  LET msb == bsr32(sz)
  IN  <<msb - FL_INDEX_SHIFT, (sz \div Pow2[msb - SL_INDEX_BITS]) % SL_CLASS_COUNT>>

\* Round up to the next class, so that any block of the class is large enough.
RoundUp(sz) ==
  LET shift == bsr32(sz) - SL_INDEX_BITS
  IN  IF shift > 0 THEN sz + Pow2[shift] - 1 ELSE sz

map_search_NoRound(sz) == map_insert(sz)

map_search(sz) == map_insert(RoundUp(sz))

\* The alignment malloc and realloc apply to a request.
Aligned(size) ==
  LET up == ((size + TLSF_ALIGN_SIZE - 1) \div TLSF_ALIGN_SIZE) * TLSF_ALIGN_SIZE
  IN  IF up < TLSF_BLOCK_MIN THEN TLSF_BLOCK_MIN ELSE up

-----------------------------------------------------------------------------
\* Operations on a heap h = [hdr, free_lists, sl_bitmap, fl_bitmap].
WithSize(r, size)  == [prev |-> r.prev, size |-> size, free |-> r.free, prev_free |-> r.prev_free]
WithPrev(r, prev)  == [prev |-> prev, size |-> r.size, free |-> r.free, prev_free |-> r.prev_free]
WithFree(r, f)     == [prev |-> r.prev, size |-> r.size, free |-> f, prev_free |-> r.prev_free]
WithPrevFree(r, f) == [prev |-> r.prev, size |-> r.size, free |-> r.free, prev_free |-> f]

WithHdr(h, hdr) == [hdr |-> hdr, free_lists |-> h.free_lists,
                    sl_bitmap |-> h.sl_bitmap, fl_bitmap |-> h.fl_bitmap]

next_phys(h, b) == b + OVERHEAD + h.hdr[b].size

fl_insert(h, b) ==
  LET c == map_insert(h.hdr[b].size)
  IN  [hdr        |-> h.hdr,
       free_lists |-> [h.free_lists EXCEPT ![c] = @ \cup {b}],
       sl_bitmap  |-> [h.sl_bitmap EXCEPT ![c[1]] = @ \cup {c[2]}],
       fl_bitmap  |-> h.fl_bitmap \cup {c[1]}]

fl_remove(h, b) ==
  LET c    == map_insert(h.hdr[b].size)
      rest == h.free_lists[c] \ {b}
      sls  == IF rest = {} THEN h.sl_bitmap[c[1]] \ {c[2]} ELSE h.sl_bitmap[c[1]]
  IN  [hdr        |-> h.hdr,
       free_lists |-> [h.free_lists EXCEPT ![c] = rest],
       sl_bitmap  |-> [h.sl_bitmap EXCEPT ![c[1]] = sls],
       fl_bitmap  |-> IF sls = {} THEN h.fl_bitmap \ {c[1]} ELSE h.fl_bitmap]

\* The blocks of the first non-empty list at or above class c.
find_free_block(h, c) ==
  LET sls == {s \in h.sl_bitmap[c[1]] : s >= c[2]}
      fls == {f \in h.fl_bitmap : f > c[1]}
      fl  == LeastOf(fls)
  IN  IF sls # {} THEN h.free_lists[<<c[1], LeastOf(sls)>>]
      ELSE IF fls # {} THEN h.free_lists[<<fl, LeastOf(h.sl_bitmap[fl])>>]
      ELSE {}

set_free(h, b, is_free) == WithHdr(h, [h.hdr EXCEPT ![b] = WithFree(h.hdr[b], is_free)])

set_next_prev_free(h, b, is_free) ==
  LET n == next_phys(h, b)
  IN  WithHdr(h, [h.hdr EXCEPT ![n] = WithPrevFree(h.hdr[n], is_free)])

\* The remainder is computed in size_t: when the block is less than OVERHEAD
\* larger than the request, it wraps around.
rem_sz(h, b, size) == (h.hdr[b].size - size - OVERHEAD) % SIZE_MOD

Wraps(h, b, size) == rem_sz(h, b, size) > h.hdr[b].size

blk_split(h, b, size) ==
  LET tail == b + OVERHEAD + size
      rem  == rem_sz(h, b, size)
      cut  == [x \in DOMAIN h.hdr \cup {tail} |->
                 IF x = tail THEN [prev |-> b, size |-> rem, free |-> TRUE, prev_free |-> FALSE]
                 ELSE IF x = b THEN WithSize(h.hdr[x], size)
                 ELSE IF x = tail + OVERHEAD + rem THEN WithPrev(h.hdr[x], tail)
                 ELSE h.hdr[x]]
  IN  IF rem < TLSF_BLOCK_MIN THEN h ELSE fl_insert(WithHdr(h, cut), tail)

\* Two physical neighbours become one block, the header of the second is gone.
Join(h, b, c) ==
  LET size == h.hdr[b].size + OVERHEAD + h.hdr[c].size
  IN  WithHdr(h, [x \in DOMAIN h.hdr \ {c} |->
        IF x = b THEN WithSize(h.hdr[x], size)
        ELSE IF x = b + OVERHEAD + size THEN WithPrev(h.hdr[x], b)
        ELSE h.hdr[x]])

merge_next(h, b) ==
  LET nxt == next_phys(h, b)
  IN  IF h.hdr[nxt].free /\ h.hdr[nxt].size # 0 THEN Join(fl_remove(h, nxt), b, nxt) ELSE h

\* merge_prev of free, with the fl_insert of the block that comes out.
merge_prev_Skip(h, b) == fl_insert(h, b)

merge_prev(h, b) ==
  LET prv == h.hdr[b].prev
  IN  IF h.hdr[b].prev_free THEN fl_insert(Join(fl_remove(h, prv), prv, b), prv)
      ELSE fl_insert(h, b)

-----------------------------------------------------------------------------
\* TlsfAllocator's interface.
EmptyHeap ==
  [hdr |-> [b \in {} |-> NULL],
   free_lists |-> [c \in FLs \X SLs |-> {}],
   sl_bitmap |-> [f \in FLs |-> {}],
   fl_bitmap |-> {}]

\* A sentinel at each end keeps the block from merging with what lies outside.
add_pool(h, mem, bytes) ==
  LET mb == mem + OVERHEAD
      se == mem + bytes - OVERHEAD
      main == [prev |-> mem, size |-> bytes - 3 * OVERHEAD, free |-> TRUE, prev_free |-> FALSE]
  IN  IF bytes < 3 * OVERHEAD + TLSF_BLOCK_MIN THEN h
      ELSE fl_insert(WithHdr(h, [x \in DOMAIN h.hdr \cup {mem, mb, se} |->
             IF x = mem THEN [prev |-> NULL, size |-> 0, free |-> FALSE, prev_free |-> FALSE]
             ELSE IF x = se THEN [prev |-> mb, size |-> 0, free |-> FALSE, prev_free |-> TRUE]
             ELSE IF x = mb THEN main ELSE h.hdr[x]]), mb)

\* The blocks malloc may take for an aligned size; NULL if there are none.
Candidates(h, size) ==
  LET c == map_search(size)
  IN  IF size > Pow2[FL_INDEX_MAX] \/ c[1] >= FL_INDEX_COUNT THEN {}
      ELSE find_free_block(h, c)

\* Unlink, split, mark as used.
malloc_Take(h, b, size) ==
  set_next_prev_free(set_free(blk_split(fl_remove(h, b), b, size), b, FALSE), b, FALSE)

free(h, b) ==
  merge_prev(merge_next(set_next_prev_free(set_free(h, b, TRUE), b, TRUE), b), b)

-----------------------------------------------------------------------------
TlsfInit ==
  /\ heap = add_pool(EmptyHeap, HeapStart, InitialPages * PAGE_SIZE)
  /\ g_heap_top = HeapStart + InitialPages * PAGE_SIZE
  /\ pools = {[start |-> HeapStart, bytes |-> InitialPages * PAGE_SIZE]}
  /\ live = {}
  /\ wrapped = FALSE

\* heap_grow: some of the pages are mapped, as many as memory allows.
heap_grow(pages, mapped, grown) ==
  /\ mapped \in 1 .. pages
  /\ g_heap_top + mapped * PAGE_SIZE <= HeapLimit
  /\ grown = add_pool(heap, g_heap_top, mapped * PAGE_SIZE)
  /\ g_heap_top' = g_heap_top + mapped * PAGE_SIZE
  /\ pools' = pools \cup {[start |-> g_heap_top, bytes |-> mapped * PAGE_SIZE]}

\* A block is taken from h, then the block in gone given back (realloc); if
\* the split wraps around, that is the end.
Hand(h, size, gone) ==
  \E b \in Candidates(h, size) :
    IF Wraps(h, b, size) THEN wrapped' = TRUE /\ heap' = h /\ UNCHANGED live
    ELSE LET taken == malloc_Take(h, b, size) IN
         /\ heap' = IF gone = {} THEN taken ELSE free(taken, (CHOOSE x \in gone : TRUE).blk)
         /\ live' = (live \ gone) \cup {[blk |-> b, size |-> size]}
         /\ UNCHANGED wrapped

\* The allocator is asked, the heap grown and the allocator asked again.
AllocOrGrow(size, pages, gone) ==
  \/ /\ Hand(heap, size, gone)
     /\ UNCHANGED <<g_heap_top, pools>>
  \/ /\ Candidates(heap, size) = {}
     /\ \E mapped \in 1 .. pages : LET h == add_pool(heap, g_heap_top, mapped * PAGE_SIZE) IN
          /\ heap_grow(pages, mapped, h)
          /\ \/ Hand(h, size, gone)
             \/ /\ Candidates(h, size) = {}
                /\ heap' = h
                /\ UNCHANGED <<live, wrapped>>

GrowPages(size) ==
  LET pages == (size + GROW_SLACK + PAGE_SIZE - 1) \div PAGE_SIZE
  IN  IF pages < HEAP_GROW_PAGES THEN HEAP_GROW_PAGES ELSE pages

\* kcalloc is kmalloc and a memset.
kmalloc(size) ==
  /\ ~wrapped /\ size # 0
  /\ AllocOrGrow(Aligned(size), GrowPages(size), {})

kfree(x) ==
  /\ ~wrapped
  /\ heap' = free(heap, x.blk)
  /\ live' = live \ {x}
  /\ UNCHANGED <<g_heap_top, pools, wrapped>>

\* size 0 is kfree; a block that is large enough stays where it is.
krealloc_Stay_Unchecked(x, size) ==
  /\ ~wrapped /\ size # 0
  /\ live' = (live \ {x}) \cup {[x EXCEPT !.size = Aligned(size)]}
  /\ UNCHANGED <<heap, g_heap_top, pools, wrapped>>

krealloc_Stay(x, size) ==
  /\ ~wrapped /\ size # 0 /\ heap.hdr[x.blk].size >= Aligned(size)
  /\ live' = (live \ {x}) \cup {[x EXCEPT !.size = Aligned(size)]}
  /\ UNCHANGED <<heap, g_heap_top, pools, wrapped>>

krealloc_Move(x, size) ==
  /\ ~wrapped /\ size # 0 /\ heap.hdr[x.blk].size < Aligned(size)
  /\ AllocOrGrow(Aligned(size), HEAP_GROW_PAGES, {x})

\* Nothing is modelled after a wrapped split.
Undefined == wrapped /\ UNCHANGED tlsfVars

TlsfNext ==
  \/ \E size \in Sizes : kmalloc(size)
  \/ \E x \in live : kfree(x)
  \/ \E x \in live, size \in Sizes : krealloc_Stay(x, size)
  \/ \E x \in live, size \in Sizes : krealloc_Move(x, size)
  \/ Undefined

TlsfSpec == TlsfInit /\ [][TlsfNext]_tlsfVars

-----------------------------------------------------------------------------
IsEnd(b) == \E p \in pools : b = p.start + p.bytes - OVERHEAD

FreeBlocks == {b \in DOMAIN heap.hdr : heap.hdr[b].free}

\* Boundary tags: from every header but an end sentinel, next_phys leads to a
\* header with no other in between, whose prev_phys leads back and whose
\* PREV_FREE bit tells whether the block is free.  free() follows these links
\* blindly.
BoundaryTags ==
  \A b \in DOMAIN heap.hdr : ~IsEnd(b) =>
    LET n == next_phys(heap, b) IN
    /\ n \in DOMAIN heap.hdr
    /\ heap.hdr[n].prev = b
    /\ heap.hdr[n].prev_free = heap.hdr[b].free
    /\ (b + 1 .. n - 1) \cap DOMAIN heap.hdr = {}

\* Free blocks are merged at once: no two of them are neighbours.
Coalesced ==
  \A b \in FreeBlocks : ~heap.hdr[next_phys(heap, b)].free /\ ~heap.hdr[b].prev_free

\* A block is in the free list of its class if and only if it is free, and in
\* no other; the bitmaps tell exactly which lists have blocks.
ListsExact ==
  /\ \A c \in FLs \X SLs :
       heap.free_lists[c] = {b \in FreeBlocks : map_insert(heap.hdr[b].size) = c}
  /\ \A f \in FLs : heap.sl_bitmap[f] = {s \in SLs : heap.free_lists[<<f, s>>] # {}}
  /\ heap.fl_bitmap = {f \in FLs : heap.sl_bitmap[f] # {}}

\* What callers hold is what is not free: no block is lost, none is held twice
\* or while free, and each is at least as large as what was asked for.
HeldBlocks ==
  /\ {x.blk : x \in live} =
       {b \in DOMAIN heap.hdr : ~heap.hdr[b].free /\ heap.hdr[b].size # 0}
  /\ Cardinality({x.blk : x \in live}) = Cardinality(live)
  /\ \A x \in live : heap.hdr[x.blk].size >= x.size

\* Headers, free lists, bitmaps and what callers hold describe one and the same
\* division of the heap into blocks after any sequence of calls.
TlsfSound == TlsfTypeOK /\ BoundaryTags /\ Coalesced /\ ListsExact /\ HeldBlocks

\* "Rounds up so the found block is always large enough": every block the
\* search offers fits the request, and it offers one whenever the request is
\* not above the limit and a free block has the rounded-up size.
SearchFits ==
  \A size \in Sizes \ {0} : LET a == Aligned(size) IN
    /\ \A b \in Candidates(heap, a) : heap.hdr[b].size >= a
    /\ a <= Pow2[FL_INDEX_MAX] /\ (\E b \in FreeBlocks : heap.hdr[b].size >= RoundUp(a))
         => Candidates(heap, a) # {}

\* "Returns the remainder block, or nullptr if the remainder would be smaller
\* than TLSF_BLOCK_MIN" (blk_split): no split makes a block out of less.
SplitRefusesSmall == ~wrapped

\* What the heap promises its callers.
Promise == INSTANCE HeapBlocks WITH
  allocated <- {(x.blk + OVERHEAD) .. (x.blk + OVERHEAD + x.size - 1) : x \in live},
  Arena <- Addrs

\* The allocator implements the abstract heap: memory handed out overlaps
\* nothing that is still held, and nothing but a call of its holder ends that.
ImplementsHeap == Promise!HeapSpec

=============================================================================

------------------------------ MODULE TlsfProofs ------------------------------
(***************************************************************************)
(* Proofs about Tlsf: the kernel heap is one chain of blocks that its      *)
(* lists, bitmaps and callers agree about, for every width of the          *)
(* classes, size of header, page and growth, and every sequence of calls.  *)
(*                                                                         *)
(* Blocks are described by the function H of their headers alone (Chain),  *)
(* lists and bitmaps by the set S of the blocks they should hold           *)
(* (ListsHold): between two steps of a method S is FreeIn(H) without the   *)
(* block in hand, and Pairs(H) may have the pair that is about to be       *)
(* merged.  The lemmas on the methods keep these parts; the lemmas on the  *)
(* calls bring S and Pairs(H) back to what TlsfIInv says.  What a class    *)
(* holds, and that a search rounded up finds only blocks that fit,         *)
(* follows from lemmas on powers of two.                                   *)
(***************************************************************************)
EXTENDS Tlsf, Numbers

-----------------------------------------------------------------------------
\* The inductive invariant.  H is the function from addresses to headers, E
\* the set of end sentinels and top the end of the memory of the heap.
Headers == [prev : Addrs \cup {NULL}, size : 0 .. HeapLimit - HeapStart,
            free : BOOLEAN, prev_free : BOOLEAN]

Nxt(H, b) == b + OVERHEAD + H[b].size

\* The block is well linked to its neighbours.
Linked(H, E, top, b) ==
  /\ H[b] \in Headers
  /\ Nxt(H, b) <= top
  /\ b \in E => H[b].size = 0 /\ ~H[b].free
  /\ b \notin E =>
       /\ Nxt(H, b) \in DOMAIN H
       /\ H[Nxt(H, b)].prev = b
       /\ H[Nxt(H, b)].prev_free = H[b].free
       /\ \A x \in DOMAIN H : ~(b < x /\ x < Nxt(H, b))
  /\ H[b].prev = NULL => H[b].size = 0 /\ ~H[b].free /\ ~H[b].prev_free
  /\ H[b].prev # NULL =>
       H[b].prev \in DOMAIN H /\ H[b].prev \notin E /\ Nxt(H, H[b].prev) = b
  /\ H[b].size # 0 => H[b].size >= TLSF_BLOCK_MIN
  /\ H[b].free => H[b].size # 0

Chain(H, E, top) ==
  /\ DOMAIN H \subseteq Addrs
  /\ E \subseteq DOMAIN H
  /\ top \in Addrs
  /\ \A b \in DOMAIN H : Linked(H, E, top, b)

\* Free blocks followed by a free block.
Pairs(H) == {b \in DOMAIN H : H[b].free /\ H[Nxt(H, b)].free}

FreeIn(H) == {b \in DOMAIN H : H[b].free}

\* The lists and bitmaps of h hold the blocks in S and no others.
ListsHold(h, S) ==
  /\ S \subseteq DOMAIN h.hdr
  /\ \A b \in S : map_insert(h.hdr[b].size) \in FLs \X SLs
  /\ h.free_lists \in [FLs \X SLs -> SUBSET DOMAIN h.hdr]
  /\ h.sl_bitmap \in [FLs -> SUBSET SLs]
  /\ \A c \in FLs \X SLs : h.free_lists[c] = {b \in S : map_insert(h.hdr[b].size) = c}
  /\ \A f \in FLs : h.sl_bitmap[f] = {s \in SLs : h.free_lists[<<f, s>>] # {}}
  /\ h.fl_bitmap = {f \in FLs : h.sl_bitmap[f] # {}}

Used(H) == {b \in DOMAIN H : ~H[b].free /\ H[b].size # 0}

\* The blocks in use are those in L, with at least the size asked for.
Holds(H, L) ==
  /\ \A x \in L : x \in [blk : Used(H), size : Nat] /\ x.size > 0 /\ x.size <= H[x.blk].size
  /\ \A x, y \in L : x.blk = y.blk => x = y
  /\ \A b \in Used(H) : \E x \in L : x.blk = b

Ends == {p.start + p.bytes - OVERHEAD : p \in pools}

TlsfIInv ==
  /\ Chain(heap.hdr, Ends, g_heap_top)
  /\ ListsHold(heap, FreeIn(heap.hdr))
  /\ Pairs(heap.hdr) = {}
  /\ Holds(heap.hdr, live)
  /\ wrapped \in BOOLEAN

-----------------------------------------------------------------------------
(***************************************************************************)
(* Powers of two.  That the recursive definition defines a function at all *)
(* is shown from its initial parts, g being the part up to n.              *)
(***************************************************************************)
Part(g, n) == g = [k \in 0 .. n |-> IF k = 0 THEN 1 ELSE 2 * g[k - 1]]

LEMMA PartsAgree ==
  ASSUME NEW m \in Nat, NEW n \in Nat, NEW g, NEW h, Part(g, m), Part(h, n),
         NEW k \in Nat, k <= m, k <= n
  PROVE  g[k] = h[k]
<1> DEFINE S == {i \in Nat : i <= m /\ i <= n => g[i] = h[i]}
<1>1. 0 \in S
  BY DEF Part
<1>2. ASSUME NEW i \in S PROVE i + 1 \in S
  <2> SUFFICES ASSUME i + 1 <= m, i + 1 <= n PROVE g[i + 1] = h[i + 1]
    OBVIOUS
  <2>1. i \in Nat /\ g[i] = h[i]
    OBVIOUS
  <2>2. i + 1 \in 0 .. m /\ i + 1 \in 0 .. n /\ i + 1 # 0 /\ (i + 1) - 1 = i
    BY <2>1
  <2>3. g[i + 1] = 2 * g[i] /\ h[i + 1] = 2 * h[i]
    BY <2>2 DEF Part
  <2> QED
    BY <2>1, <2>3
<1>3. S \subseteq Nat
  OBVIOUS
<1> HIDE DEF S
<1>4. S = Nat
  BY <1>1, <1>2, <1>3, Induct
<1> QED
  BY <1>4 DEF S

LEMMA PartExists == ASSUME NEW n \in Nat PROVE \E g : Part(g, n)
<1> DEFINE S == {i \in Nat : \E g : Part(g, i)}
<1>1. 0 \in S
  <2>1. Part([k \in 0 .. 0 |-> 1], 0)
    BY DEF Part
  <2> QED
    BY <2>1
<1>2. ASSUME NEW i \in S PROVE i + 1 \in S
  <2>1. i \in Nat
    OBVIOUS
  <2>2. PICK g : Part(g, i)
    OBVIOUS
  <2> DEFINE h == [k \in 0 .. i + 1 |-> IF k = i + 1 THEN 2 * g[i] ELSE g[k]]
  <2>3. ASSUME NEW k \in 0 .. i + 1 PROVE h[k] = IF k = 0 THEN 1 ELSE 2 * h[k - 1]
    <3>1. CASE k = i + 1
      <4>1. h[k] = 2 * g[i] /\ k # 0 /\ k - 1 = i /\ i \in 0 .. i + 1 /\ i # i + 1
        BY <2>1, <3>1
      <4>2. h[i] = g[i]
        BY <4>1
      <4> QED
        BY <4>1, <4>2
    <3>2. CASE k = 0
      BY <2>1, <2>2, <3>2 DEF Part
    <3>3. CASE k # 0 /\ k # i + 1
      <4>1. k \in 0 .. i /\ k - 1 \in 0 .. i + 1 /\ k - 1 # i + 1
        BY <2>1, <3>3
      <4>2. h[k] = g[k] /\ h[k - 1] = g[k - 1]
        BY <3>3, <4>1
      <4>3. g[k] = 2 * g[k - 1]
        BY <2>2, <3>3, <4>1 DEF Part
      <4> QED
        BY <3>3, <4>2, <4>3
    <3> QED
      BY <3>1, <3>2, <3>3
  <2>4. Part(h, i + 1)
    BY <2>3 DEF Part
  <2> QED
    BY <2>1, <2>4
<1>3. S \subseteq Nat
  OBVIOUS
<1> HIDE DEF S
<1>4. S = Nat
  BY <1>1, <1>2, <1>3, Induct
<1> QED
  BY <1>4 DEF S

LEMMA Pow2Def == Pow2 = [n \in Nat |-> IF n = 0 THEN 1 ELSE 2 * Pow2[n - 1]]
<1> DEFINE f(n) == CHOOSE g : Part(g, n)
           F == [n \in Nat |-> f(n)[n]]
<1>1. ASSUME NEW n \in Nat PROVE Part(f(n), n)
  BY PartExists
<1> HIDE DEF f
<1>2. \A n \in Nat : F[n] = f(n)[n]
  OBVIOUS
<1>3. F = [n \in Nat |-> F[n]]
  OBVIOUS
<1> HIDE DEF F
<1>4. ASSUME NEW n \in Nat PROVE F[n] = IF n = 0 THEN 1 ELSE 2 * F[n - 1]
  <2>1. CASE n = 0
    <3>1. f(0)[0] = 1
      BY <1>1 DEF Part
    <3> QED
      BY <1>2, <2>1, <3>1
  <2>2. CASE n # 0
    <3>1. n - 1 \in Nat /\ n - 1 <= n /\ n \in 0 .. n
      BY <2>2
    <3>2. F[n] = f(n)[n] /\ F[n - 1] = f(n - 1)[n - 1]
      BY <1>2, <3>1
    <3>3. f(n)[n] = 2 * f(n)[n - 1]
      BY <1>1, <2>2, <3>1 DEF Part
    <3>4. Part(f(n), n) /\ Part(f(n - 1), n - 1)
      BY <1>1, <3>1
    <3>5. f(n)[n - 1] = f(n - 1)[n - 1]
      BY <3>1, <3>4, PartsAgree
    <3> QED
      BY <2>2, <3>2, <3>3, <3>5
  <2> QED
    BY <2>1, <2>2
<1>5. [n \in Nat |-> F[n]] = [n \in Nat |-> IF n = 0 THEN 1 ELSE 2 * F[n - 1]]
  BY <1>4
<1>6. F = [n \in Nat |-> IF n = 0 THEN 1 ELSE 2 * F[n - 1]]
  BY <1>3, <1>5
<1> QED
  BY <1>6 DEF Pow2

LEMMA Pow2Facts ==
  /\ Pow2[0] = 1
  /\ \A n \in Nat : Pow2[n] \in Nat \ {0} /\ Pow2[n + 1] = 2 * Pow2[n]
<1>1. Pow2[0] = 1
  BY Pow2Def
<1>2. ASSUME NEW n \in Nat PROVE Pow2[n + 1] = 2 * Pow2[n]
  <2>1. n + 1 \in Nat /\ n + 1 # 0 /\ (n + 1) - 1 = n
    OBVIOUS
  <2> QED
    BY <2>1, Pow2Def
<1> DEFINE S == {n \in Nat : Pow2[n] \in Nat \ {0}}
<1>3. 0 \in S /\ S \subseteq Nat
  BY <1>1
<1>4. ASSUME NEW n \in S PROVE n + 1 \in S
  BY <1>2
<1> HIDE DEF S
<1>5. S = Nat
  BY <1>3, <1>4, Induct
<1> QED
  BY <1>1, <1>2, <1>5 DEF S

LEMMA Pow2Monotone ==
  ASSUME NEW m \in Nat, NEW n \in Nat, m <= n
  PROVE  Pow2[m] <= Pow2[n]
<1> DEFINE S == {i \in Nat : Pow2[m] <= Pow2[m + i]}
<1>1. 0 \in S /\ S \subseteq Nat
  <2>1. m + 0 = m
    OBVIOUS
  <2> QED
    BY <2>1, Pow2Facts
<1>2. ASSUME NEW i \in S PROVE i + 1 \in S
  <2>1. m + (i + 1) = (m + i) + 1 /\ m + i \in Nat /\ i \in Nat
    OBVIOUS
  <2>2. Pow2[m + (i + 1)] = 2 * Pow2[m + i]
    BY <2>1, Pow2Facts
  <2> QED
    BY <2>1, <2>2, Pow2Facts
<1> HIDE DEF S
<1>3. S = Nat
  BY <1>1, <1>2, Induct
<1>4. n - m \in Nat /\ m + (n - m) = n
  OBVIOUS
<1> QED
  BY <1>3, <1>4 DEF S

LEMMA Pow2Sum ==
  ASSUME NEW m \in Nat, NEW n \in Nat
  PROVE  Pow2[m + n] = Pow2[m] * Pow2[n]
<1> DEFINE S == {i \in Nat : Pow2[m + i] = Pow2[m] * Pow2[i]}
<1>1. 0 \in S /\ S \subseteq Nat
  <2>1. m + 0 = m /\ Pow2[m] \in Nat
    BY Pow2Facts
  <2> QED
    BY <2>1, Pow2Facts
<1>2. ASSUME NEW i \in S PROVE i + 1 \in S
  <2>1. m + (i + 1) = (m + i) + 1 /\ m + i \in Nat /\ i \in Nat
    OBVIOUS
  <2>2. Pow2[m + (i + 1)] = 2 * Pow2[m + i] /\ Pow2[i + 1] = 2 * Pow2[i]
    BY <2>1, Pow2Facts
  <2>3. Pow2[m] \in Nat /\ Pow2[i] \in Nat
    BY <2>1, Pow2Facts
  <2>4. ASSUME NEW a \in Nat, NEW b \in Nat PROVE a * (2 * b) = 2 * (a * b)
    OBVIOUS
  <2>5. Pow2[m] * (2 * Pow2[i]) = 2 * (Pow2[m] * Pow2[i])
    BY <2>3, <2>4
  <2>6. Pow2[m + i] = Pow2[m] * Pow2[i]
    OBVIOUS
  <2> QED
    BY <2>1, <2>2, <2>5, <2>6
<1> HIDE DEF S
<1>3. S = Nat
  BY <1>1, <1>2, Induct
<1> QED
  BY <1>3 DEF S

-----------------------------------------------------------------------------
(***************************************************************************)
(* Classes of sizes.                                                       *)
(***************************************************************************)
\* The sizes that have a class.
Classed == TLSF_BLOCK_MIN .. Pow2[FL_INDEX_MAX + 1] - 1

LEMMA BlockMin == TLSF_BLOCK_MIN = SL_CLASS_COUNT /\ TLSF_BLOCK_MIN \in Nat \ {0}
BY TlsfAssumption, Pow2Facts DEF TLSF_BLOCK_MIN, SL_CLASS_COUNT, FL_INDEX_SHIFT

LEMMA LeadingBit ==
  ASSUME NEW x \in Nat \ {0}, x < Pow2[FL_INDEX_MAX + 2]
  PROVE  /\ bsr32(x) \in 0 .. FL_INDEX_MAX + 1
         /\ Pow2[bsr32(x)] <= x /\ x < Pow2[bsr32(x) + 1]
<1> DEFINE S == {n \in Nat : x < Pow2[n + 1]}
<1>1. FL_INDEX_MAX + 1 \in S
  <2>1. FL_INDEX_MAX + 1 \in Nat /\ (FL_INDEX_MAX + 1) + 1 = FL_INDEX_MAX + 2
    BY TlsfAssumption
  <2> QED
    BY <2>1
<1>2. PICK m \in S : \A n \in S : m <= n
  <2>1. S \in SUBSET Nat
    OBVIOUS
  <2> HIDE DEF S
  <2> QED
    BY <1>1, <2>1, LeastElement
<1>3. m \in Nat /\ m <= FL_INDEX_MAX + 1 /\ x < Pow2[m + 1]
  BY <1>1, <1>2
<1>4. m \in 0 .. FL_INDEX_MAX + 1
  BY <1>3, TlsfAssumption
<1>5. Pow2[m] <= x
  <2>1. CASE m = 0
    BY <2>1, Pow2Facts
  <2>2. CASE m # 0
    <3>1. m - 1 \in Nat /\ (m - 1) + 1 = m /\ ~(m <= m - 1)
      BY <1>3, <2>2
    <3>2. ~(x < Pow2[m])
      BY <1>2, <3>1
    <3> QED
      BY <1>3, <3>2, Pow2Facts
  <2> QED
    BY <2>1, <2>2
<1> HIDE DEF S
<1> QED
  BY <1>3, <1>4, <1>5 DEF bsr32

\* The multiple of k at or below x.
LEMMA Division ==
  ASSUME NEW x \in Int, NEW k \in Nat \ {0}
  PROVE  x \div k \in Int /\ (x \div k) * k <= x /\ x < ((x \div k) + 1) * k
<1>1. k \in Int /\ k > 0
  OBVIOUS
<1>2. x \div k \in Int /\ x % k \in 0 .. k - 1 /\ x = k * (x \div k) + (x % k)
  BY <1>1
<1>3. ASSUME NEW q \in Int PROVE q * k = k * q /\ (q + 1) * k = k * q + k
  BY <1>1
<1>4. k * (x \div k) \in Int
  BY <1>1, <1>2
<1> QED
  BY <1>1, <1>2, <1>3, <1>4

\* The number of class units in a size, and the unit.
Unit(x) == Pow2[bsr32(x) - SL_INDEX_BITS]
Quot(x) == x \div Unit(x)

\* The second-level class is what the leading digits of x exceed 2^SL_INDEX_BITS by.
ClassFacts(x) ==
  /\ bsr32(x) \in SL_INDEX_BITS .. FL_INDEX_MAX
  /\ Pow2[bsr32(x)] <= x /\ x < Pow2[bsr32(x) + 1]
  /\ Unit(x) \in Nat \ {0} /\ Quot(x) \in Nat
  /\ Quot(x) * Unit(x) <= x /\ x < (Quot(x) + 1) * Unit(x)
  /\ SL_CLASS_COUNT <= Quot(x) /\ Quot(x) < 2 * SL_CLASS_COUNT
  /\ map_insert(x) = <<bsr32(x) - SL_INDEX_BITS, Quot(x) - SL_CLASS_COUNT>>
  /\ map_insert(x) \in FLs \X SLs

LEMMA LessProduct ==
  ASSUME NEW a \in Int, NEW b \in Int, NEW k \in Nat \ {0}, a < b
  PROVE  (a + 1) * k <= b * k
<1>1. b - (a + 1) >= 0
  OBVIOUS
<1>2. (b - (a + 1)) * k >= 0
  BY <1>1
<1>3. (b - (a + 1)) * k = b * k - (a + 1) * k
  OBVIOUS
<1> QED
  BY <1>2, <1>3

LEMMA ClassOf == ASSUME NEW x \in Classed PROVE ClassFacts(x)
<1> DEFINE m == bsr32(x)
           k == Unit(x)
           N == SL_CLASS_COUNT
           q == Quot(x)
<1>0. /\ SL_INDEX_BITS \in Nat /\ FL_INDEX_MAX \in Nat /\ SL_INDEX_BITS < FL_INDEX_MAX
      /\ N \in Nat \ {0} /\ N = Pow2[SL_INDEX_BITS]
  BY TlsfAssumption, BlockMin DEF SL_CLASS_COUNT
<1>1. x \in Nat \ {0} /\ N <= x /\ x < Pow2[FL_INDEX_MAX + 1]
  <2>1. FL_INDEX_MAX + 1 \in Nat
    BY <1>0
  <2>2. Pow2[FL_INDEX_MAX + 1] \in Nat
    BY <2>1, Pow2Facts
  <2> QED
    BY <2>2, BlockMin DEF Classed
<1>2. Pow2[FL_INDEX_MAX + 1] <= Pow2[FL_INDEX_MAX + 2]
  <2>1. FL_INDEX_MAX + 1 \in Nat /\ FL_INDEX_MAX + 2 \in Nat /\ FL_INDEX_MAX + 1 <= FL_INDEX_MAX + 2
    BY <1>0
  <2> QED
    BY <2>1, Pow2Monotone
<1>3. m \in 0 .. FL_INDEX_MAX + 1 /\ Pow2[m] <= x /\ x < Pow2[m + 1]
  <2>1. FL_INDEX_MAX + 1 \in Nat /\ FL_INDEX_MAX + 2 \in Nat
    BY <1>0
  <2>2. Pow2[FL_INDEX_MAX + 1] \in Nat /\ Pow2[FL_INDEX_MAX + 2] \in Nat
    BY <2>1, Pow2Facts
  <2>3. x < Pow2[FL_INDEX_MAX + 2]
    BY <1>1, <1>2, <2>2
  <2> QED
    BY <1>1, <2>3, LeadingBit
<1> HIDE DEF m
<1>4. m \in Nat /\ m + 1 \in Nat /\ Pow2[m] \in Nat /\ Pow2[m + 1] = 2 * Pow2[m]
  BY <1>0, <1>3, Pow2Facts
<1>5. SL_INDEX_BITS <= m
  <2> SUFFICES ASSUME m + 1 <= SL_INDEX_BITS PROVE FALSE
    BY <1>0, <1>4
  <2>1. Pow2[m + 1] <= N
    BY <1>0, <1>4, Pow2Monotone
  <2> QED
    BY <1>0, <1>1, <1>3, <1>4, <2>1
<1>6. m <= FL_INDEX_MAX
  <2> SUFFICES ASSUME m = FL_INDEX_MAX + 1 PROVE FALSE
    BY <1>0, <1>3
  <2> QED
    BY <1>1, <1>3, <1>4
<1>7. m \in SL_INDEX_BITS .. FL_INDEX_MAX /\ m - SL_INDEX_BITS \in Nat
  BY <1>0, <1>4, <1>5, <1>6
<1>8. k = Pow2[m - SL_INDEX_BITS] /\ k \in Nat \ {0}
  BY <1>7, Pow2Facts DEF Unit, m
<1>9. Pow2[m] = N * k
  <2>1. SL_INDEX_BITS + (m - SL_INDEX_BITS) = m
    BY <1>0, <1>4
  <2>2. Pow2[SL_INDEX_BITS + (m - SL_INDEX_BITS)]
          = Pow2[SL_INDEX_BITS] * Pow2[m - SL_INDEX_BITS]
    BY <1>0, <1>7, Pow2Sum
  <2> QED
    BY <1>0, <1>8, <2>1, <2>2
<1>10. q = x \div k
  BY DEF Quot
<1> HIDE DEF k, q, N
<1>11. q \in Int /\ q * k <= x /\ x < (q + 1) * k
  <2>1. x \in Int
    BY <1>1
  <2>2. x \div k \in Int /\ (x \div k) * k <= x /\ x < ((x \div k) + 1) * k
    BY <1>8, <2>1, Division
  <2> QED
    BY <1>10, <2>2
<1>12. N <= q
  <2> SUFFICES ASSUME q < N PROVE FALSE
    BY <1>0, <1>11
  <2>1. (q + 1) * k <= N * k
    BY <1>0, <1>8, <1>11, LessProduct
  <2>2. (q + 1) * k \in Int /\ N * k \in Int
    BY <1>0, <1>8, <1>11
  <2> QED
    BY <1>1, <1>3, <1>9, <1>11, <2>1, <2>2
<1>13. q < 2 * N
  <2> SUFFICES ASSUME ~(q < 2 * N) PROVE FALSE
    OBVIOUS
  <2>1. 2 * N - 1 < q /\ 2 * N - 1 \in Int /\ (2 * N - 1) + 1 = 2 * N
    BY <1>0, <1>11
  <2>2. (2 * N) * k <= q * k
    BY <1>8, <1>11, <2>1, LessProduct
  <2>3. (2 * N) * k = 2 * (N * k)
    BY <1>0, <1>8
  <2>4. q * k \in Int /\ N * k \in Int
    BY <1>0, <1>8, <1>11
  <2> QED
    BY <1>1, <1>3, <1>4, <1>9, <1>11, <2>2, <2>3, <2>4
<1>14. q % N = q - N
  BY <1>0, <1>11, <1>12, <1>13, SmallRemainder
<1>15. map_insert(x) = <<m - SL_INDEX_BITS, q - N>>
  <2>1. map_insert(x) = <<m - SL_INDEX_BITS, q % N>>
    BY DEF map_insert, m, q, N, Quot, Unit, FL_INDEX_SHIFT
  <2> QED
    BY <1>14, <2>1
<1>16. m - SL_INDEX_BITS \in FLs /\ q - N \in SLs
  BY <1>0, <1>7, <1>11, <1>12, <1>13 DEF FLs, SLs, FL_INDEX_COUNT, FL_INDEX_SHIFT, N
<1>17. q \in Nat
  BY <1>0, <1>11, <1>12
<1> QED
  BY <1>3, <1>7, <1>8, <1>11, <1>12, <1>13, <1>15, <1>16, <1>17 DEF ClassFacts, m, k, q, N

\* The order of classes that the search follows.
Below(c, d) == c[1] < d[1] \/ (c[1] = d[1] /\ c[2] <= d[2])

LEMMA LeadingMonotone ==
  ASSUME NEW x \in Classed, NEW y \in Classed, x <= y
  PROVE  bsr32(x) <= bsr32(y)
<1>1. ClassFacts(x) /\ ClassFacts(y)
  BY ClassOf
<1> DEFINE m == bsr32(x)
           n == bsr32(y)
<1>2. m \in Nat /\ n \in Nat /\ n + 1 \in Nat /\ Pow2[m] <= x /\ y < Pow2[n + 1]
  BY <1>1, TlsfAssumption DEF ClassFacts
<1>3. x \in Int /\ y \in Int
  BY DEF Classed
<1> HIDE DEF m, n
<1> SUFFICES ASSUME n + 1 <= m PROVE FALSE
  BY <1>2 DEF m, n
<1>4. Pow2[n + 1] <= Pow2[m]
  BY <1>2, Pow2Monotone
<1>5. Pow2[n + 1] \in Int /\ Pow2[m] \in Int
  BY <1>2, Pow2Facts
<1> QED
  BY <1>2, <1>3, <1>4, <1>5

LEMMA ClassMonotone ==
  ASSUME NEW x \in Classed, NEW y \in Classed, x <= y
  PROVE  Below(map_insert(x), map_insert(y))
<1>1. ClassFacts(x) /\ ClassFacts(y) /\ bsr32(x) <= bsr32(y)
  BY ClassOf, LeadingMonotone
<1>2. bsr32(x) \in Int /\ bsr32(y) \in Int /\ SL_INDEX_BITS \in Int /\ x \in Int /\ y \in Int
  BY <1>1, TlsfAssumption DEF ClassFacts, Classed
<1>3. CASE bsr32(x) < bsr32(y)
  BY <1>1, <1>2, <1>3 DEF Below, ClassFacts
<1>4. CASE bsr32(x) = bsr32(y)
  <2> DEFINE k == Unit(x)
             p == Quot(x)
             q == Quot(y)
  <2>1. /\ k = Unit(y) /\ k \in Nat \ {0} /\ p \in Nat /\ q \in Nat
        /\ p * k <= x /\ y < (q + 1) * k
    BY <1>1, <1>4 DEF ClassFacts, Unit
  <2> HIDE DEF k, p, q
  <2>2. p <= q
    <3> SUFFICES ASSUME q < p PROVE FALSE
      BY <2>1
    <3>1. (q + 1) * k <= p * k
      BY <2>1, LessProduct
    <3>2. (q + 1) * k \in Int /\ p * k \in Int
      BY <2>1
    <3> QED
      BY <1>2, <2>1, <3>1, <3>2
  <2>3. /\ map_insert(x) = <<bsr32(x) - SL_INDEX_BITS, p - SL_CLASS_COUNT>>
        /\ map_insert(y) = <<bsr32(y) - SL_INDEX_BITS, q - SL_CLASS_COUNT>>
    BY <1>1 DEF ClassFacts, p, q
  <2>4. p - SL_CLASS_COUNT <= q - SL_CLASS_COUNT
    BY <2>1, <2>2, BlockMin
  <2> QED
    BY <1>4, <2>3, <2>4 DEF Below
<1> QED
  BY <1>1, <1>2, <1>3, <1>4

\* Rounding up stays among the classed sizes.
LEMMA RoundUpClassed ==
  ASSUME NEW a \in Classed, a <= Pow2[FL_INDEX_MAX]
  PROVE  RoundUp(a) = a + Unit(a) - 1 /\ RoundUp(a) \in Classed /\ a <= RoundUp(a)
<1> DEFINE m == bsr32(a)
           F == FL_INDEX_MAX
<1>0. F \in Nat /\ SL_INDEX_BITS \in Nat /\ F + 1 \in Nat
  BY TlsfAssumption
<1>1. /\ m \in SL_INDEX_BITS .. F /\ Pow2[m] <= a /\ a < Pow2[m + 1]
      /\ Unit(a) \in Nat \ {0} /\ Unit(a) = Pow2[m - SL_INDEX_BITS]
  BY ClassOf DEF ClassFacts, Unit
<1>2. /\ a \in Int /\ TLSF_BLOCK_MIN \in Int /\ TLSF_BLOCK_MIN <= a
      /\ Pow2[F] \in Int /\ Pow2[F + 1] = 2 * Pow2[F]
  BY <1>0, BlockMin, Pow2Facts DEF Classed
<1>3. RoundUp(a) = a + Unit(a) - 1
  <2>1. CASE m - SL_INDEX_BITS > 0
    BY <1>1, <2>1 DEF RoundUp
  <2>2. CASE m = SL_INDEX_BITS
    <3>1. m - SL_INDEX_BITS = 0
      BY <1>0, <2>2
    <3>2. Unit(a) = 1 /\ RoundUp(a) = a
      BY <1>1, <3>1, Pow2Facts DEF RoundUp
    <3> QED
      BY <1>2, <3>2
  <2> QED
    BY <1>0, <1>1, <2>1, <2>2
<1>4. m \in Nat /\ m + 1 \in Nat /\ m <= F /\ m - SL_INDEX_BITS \in Nat /\ m - SL_INDEX_BITS <= m
  BY <1>0, <1>1
<1>5. /\ Pow2[m] \in Int /\ Pow2[m + 1] = 2 * Pow2[m] /\ Unit(a) <= Pow2[m]
      /\ Pow2[m] <= Pow2[F]
  BY <1>0, <1>1, <1>4, Pow2Facts, Pow2Monotone
<1>6. a + Unit(a) - 1 < 2 * Pow2[F]
  BY <1>1, <1>2, <1>5
<1> HIDE DEF m, F
<1> QED
  BY <1>1, <1>2, <1>3, <1>6 DEF Classed, F

\* A block whose class is not below the class searched for is large enough.
LEMMA SearchLarge ==
  ASSUME NEW a \in Classed, a <= Pow2[FL_INDEX_MAX], NEW y \in Classed,
         Below(map_search(a), map_insert(y))
  PROVE  a <= y
<1> DEFINE z == RoundUp(a)
           u == Unit(a)
<1>1. z = a + u - 1 /\ z \in Classed /\ a <= z
  BY RoundUpClassed
<1>2. ClassFacts(a) /\ ClassFacts(y) /\ ClassFacts(z) /\ bsr32(a) <= bsr32(z)
  BY <1>1, ClassOf, LeadingMonotone
<1>3. /\ a \in Int /\ y \in Int /\ z \in Int /\ u \in Nat \ {0}
      /\ SL_INDEX_BITS \in Int /\ SL_CLASS_COUNT \in Int
      /\ bsr32(a) \in Nat /\ bsr32(y) \in Nat /\ bsr32(z) \in Nat
  BY <1>1, <1>2, TlsfAssumption, BlockMin DEF ClassFacts, Classed
<1>4. Below(map_insert(z), map_insert(y))
  BY DEF map_search
<1> HIDE DEF z, u
<1>5. \/ bsr32(z) < bsr32(y)
      \/ bsr32(z) = bsr32(y) /\ Quot(z) <= Quot(y)
  BY <1>2, <1>3, <1>4 DEF Below, ClassFacts
<1>6. CASE bsr32(z) < bsr32(y)
  <2>1. bsr32(z) + 1 <= bsr32(y) /\ bsr32(z) + 1 \in Nat
    BY <1>3, <1>6
  <2>2. Pow2[bsr32(z) + 1] <= Pow2[bsr32(y)]
    BY <1>3, <2>1, Pow2Monotone
  <2>3. Pow2[bsr32(z) + 1] \in Int /\ Pow2[bsr32(y)] \in Int
    BY <1>3, <2>1, Pow2Facts
  <2>4. z < Pow2[bsr32(z) + 1] /\ Pow2[bsr32(y)] <= y
    BY <1>2 DEF ClassFacts
  <2> QED
    BY <1>1, <1>3, <2>2, <2>3, <2>4
<1>7. CASE bsr32(z) = bsr32(y) /\ bsr32(a) < bsr32(z)
  <2>1. bsr32(a) + 1 <= bsr32(y) /\ bsr32(a) + 1 \in Nat
    BY <1>3, <1>7
  <2>2. Pow2[bsr32(a) + 1] <= Pow2[bsr32(y)]
    BY <1>3, <2>1, Pow2Monotone
  <2>3. Pow2[bsr32(a) + 1] \in Int /\ Pow2[bsr32(y)] \in Int
    BY <1>3, <2>1, Pow2Facts
  <2>4. a < Pow2[bsr32(a) + 1] /\ Pow2[bsr32(y)] <= y
    BY <1>2 DEF ClassFacts
  <2> QED
    BY <1>3, <2>2, <2>3, <2>4
<1>8. CASE bsr32(z) = bsr32(y) /\ bsr32(a) = bsr32(z) /\ Quot(z) <= Quot(y)
  <2>1. Unit(z) = u /\ Unit(y) = u
    BY <1>8 DEF Unit, u
  <2>2. /\ Quot(z) \in Nat /\ Quot(y) \in Nat
        /\ z < (Quot(z) + 1) * u /\ Quot(y) * u <= y
    BY <1>2, <2>1 DEF ClassFacts
  <2>3. ASSUME NEW p \in Nat, NEW q \in Nat, p <= q PROVE (p + 1) * u - u <= q * u
    <3>1. (p + 1) * u - u = p * u
      BY <1>3
    <3>2. q - p >= 0 /\ (q - p) * u >= 0
      BY <1>3, <2>3
    <3>3. (q - p) * u = q * u - p * u
      BY <1>3
    <3>4. q * u \in Int /\ p * u \in Int
      BY <1>3
    <3> QED
      BY <3>1, <3>2, <3>3, <3>4
  <2>4. (Quot(z) + 1) * u - u <= Quot(y) * u
    BY <1>8, <2>2, <2>3
  <2>5. (Quot(z) + 1) * u \in Int /\ Quot(y) * u \in Int
    BY <1>3, <2>2
  <2> QED
    BY <1>1, <1>3, <2>2, <2>4, <2>5
<1> QED
  BY <1>2, <1>3, <1>5, <1>6, <1>7, <1>8

\* What malloc makes of a request: a size with a class, unless it is too large.
LEMMA AlignedSize ==
  ASSUME NEW size \in Nat
  PROVE  Aligned(size) \in Nat /\ size <= Aligned(size) /\ TLSF_BLOCK_MIN <= Aligned(size)
<1> DEFINE A == TLSF_ALIGN_SIZE
           q == (size + A - 1) \div A
<1>0. A \in Nat \ {0} /\ TLSF_BLOCK_MIN \in Nat /\ size + A - 1 \in Nat
  BY TlsfAssumption, BlockMin
<1>1. size + A - 1 \in Int
  BY <1>0
<1>2. q \in Int /\ size + A - 1 < (q + 1) * A
  BY <1>0, <1>1, Division
<1> HIDE DEF q
<1>3. (q + 1) * A = q * A + A /\ q * A \in Int
  BY <1>0, <1>2
<1>4. size <= q * A
  BY <1>0, <1>2, <1>3
<1>5. Aligned(size) = IF q * A < TLSF_BLOCK_MIN THEN TLSF_BLOCK_MIN ELSE q * A
  BY DEF Aligned, q
<1> QED
  BY <1>0, <1>3, <1>4, <1>5

-----------------------------------------------------------------------------
(***************************************************************************)
(* The free lists and their bitmaps.                                       *)
(***************************************************************************)
\* The parts of ListsHold: class tells the class of a block.
Listed(L, sl, fl, class, D, S) ==
  /\ S \subseteq D
  /\ \A b \in S : class[b] \in FLs \X SLs
  /\ L \in [FLs \X SLs -> SUBSET D]
  /\ sl \in [FLs -> SUBSET SLs]
  /\ \A f \in FLs, s \in SLs : L[<<f, s>>] = {b \in S : class[b] = <<f, s>>}
  /\ \A f \in FLs : sl[f] = {s \in SLs : L[<<f, s>>] # {}}
  /\ fl = {f \in FLs : sl[f] # {}}

ClassFn(H) == [b \in DOMAIN H |-> map_insert(H[b].size)]

LEMMA ListsAreListed ==
  ASSUME NEW h, NEW S
  PROVE  ListsHold(h, S)
           <=> Listed(h.free_lists, h.sl_bitmap, h.fl_bitmap, ClassFn(h.hdr), DOMAIN h.hdr, S)
<1> DEFINE D == DOMAIN h.hdr
           K == ClassFn(h.hdr)
<1>1. \A b \in D : K[b] = map_insert(h.hdr[b].size)
  BY DEF ClassFn
<1> HIDE DEF K
<1>2. ASSUME S \subseteq D
      PROVE  /\ (\A b \in S : K[b] \in FLs \X SLs)
                  <=> (\A b \in S : map_insert(h.hdr[b].size) \in FLs \X SLs)
             /\ \A c : {b \in S : K[b] = c} = {b \in S : map_insert(h.hdr[b].size) = c}
  BY <1>1, <1>2
<1>3. (\A c \in FLs \X SLs : h.free_lists[c] = {b \in S : map_insert(h.hdr[b].size) = c})
      <=> (\A f \in FLs, s \in SLs :
             h.free_lists[<<f, s>>] = {b \in S : map_insert(h.hdr[b].size) = <<f, s>>})
  <2>1. ASSUME NEW c \in FLs \X SLs PROVE \E f \in FLs, s \in SLs : c = <<f, s>>
    OBVIOUS
  <2> QED
    BY <2>1
<1> HIDE DEF D
<1> QED
  BY <1>2, <1>3, ZenonT(60) DEF ListsHold, Listed, D, K

LEMMA ListedInsert ==
  ASSUME NEW L, NEW sl, NEW fl, NEW class, NEW D, NEW S, NEW b \in D,
         NEW f \in FLs, NEW s \in SLs, class[b] = <<f, s>>,
         Listed(L, sl, fl, class, D, S)
  PROVE  Listed([L EXCEPT ![<<f, s>>] = @ \cup {b}], [sl EXCEPT ![f] = @ \cup {s}],
                fl \cup {f}, class, D, S \cup {b})
<1> DEFINE M == [L EXCEPT ![<<f, s>>] = @ \cup {b}]
           tl == [sl EXCEPT ![f] = @ \cup {s}]
<1>1. /\ S \cup {b} \subseteq D
      /\ \A x \in S \cup {b} : class[x] \in FLs \X SLs
  <2>1. class[b] \in FLs \X SLs
    OBVIOUS
  <2>2. S \subseteq D /\ \A x \in S : class[x] \in FLs \X SLs
    BY DEF Listed
  <2> QED
    BY <2>1, <2>2
<1>2. M \in [FLs \X SLs -> SUBSET D] /\ tl \in [FLs -> SUBSET SLs]
  BY DEF Listed
<1>3. ASSUME NEW g \in FLs, NEW t \in SLs
      PROVE  M[<<g, t>>] = IF g = f /\ t = s THEN L[<<g, t>>] \cup {b} ELSE L[<<g, t>>]
  BY DEF Listed
<1>4. ASSUME NEW g \in FLs PROVE tl[g] = IF g = f THEN sl[g] \cup {s} ELSE sl[g]
  BY DEF Listed
<1> HIDE DEF M, tl
<1>5. ASSUME NEW g \in FLs, NEW t \in SLs
      PROVE  M[<<g, t>>] = {x \in S \cup {b} : class[x] = <<g, t>>}
  <2>1. L[<<g, t>>] = {x \in S : class[x] = <<g, t>>}
    BY DEF Listed
  <2>2. class[b] = <<g, t>> <=> g = f /\ t = s
    OBVIOUS
  <2> QED
    BY <1>3, <2>1, <2>2
<1>6. ASSUME NEW g \in FLs PROVE tl[g] = {t \in SLs : M[<<g, t>>] # {}}
  <2>1. sl[g] = {t \in SLs : L[<<g, t>>] # {}}
    BY DEF Listed
  <2> QED
    BY <1>3, <1>4, <2>1
<1>7. fl \cup {f} = {g \in FLs : tl[g] # {}}
  <2>1. fl = {g \in FLs : sl[g] # {}}
    BY DEF Listed
  <2> QED
    BY <1>4, <2>1
<1> QED
  BY <1>1, <1>2, <1>5, <1>6, <1>7 DEF Listed, M, tl

LEMMA ListedRemove ==
  ASSUME NEW L, NEW sl, NEW fl, NEW class, NEW D, NEW S, NEW b \in S,
         NEW f \in FLs, NEW s \in SLs, class[b] = <<f, s>>,
         Listed(L, sl, fl, class, D, S),
         NEW rest, rest = L[<<f, s>>] \ {b},
         NEW sls, sls = IF rest = {} THEN sl[f] \ {s} ELSE sl[f],
         NEW fls, fls = IF sls = {} THEN fl \ {f} ELSE fl
  PROVE  Listed([L EXCEPT ![<<f, s>>] = rest], [sl EXCEPT ![f] = sls],
                fls, class, D, S \ {b})
<1> DEFINE M == [L EXCEPT ![<<f, s>>] = rest]
           tl == [sl EXCEPT ![f] = sls]
<1>1. /\ S \ {b} \subseteq D
      /\ \A x \in S \ {b} : class[x] \in FLs \X SLs
  BY DEF Listed
<1>2. M \in [FLs \X SLs -> SUBSET D] /\ tl \in [FLs -> SUBSET SLs]
  <2>1. L[<<f, s>>] \in SUBSET D /\ sl[f] \in SUBSET SLs
    BY DEF Listed
  <2>2. rest \in SUBSET D /\ sls \in SUBSET SLs
    BY <2>1
  <2> QED
    BY <2>2 DEF Listed
<1>3. ASSUME NEW g \in FLs, NEW t \in SLs
      PROVE  M[<<g, t>>] = IF g = f /\ t = s THEN rest ELSE L[<<g, t>>]
  BY DEF Listed
<1>4. ASSUME NEW g \in FLs PROVE tl[g] = IF g = f THEN sls ELSE sl[g]
  BY DEF Listed
<1> HIDE DEF M, tl
<1>5. ASSUME NEW g \in FLs, NEW t \in SLs
      PROVE  M[<<g, t>>] = {x \in S \ {b} : class[x] = <<g, t>>}
  <2>1. L[<<g, t>>] = {x \in S : class[x] = <<g, t>>}
    BY DEF Listed
  <2>2. class[b] = <<g, t>> <=> g = f /\ t = s
    OBVIOUS
  <2> QED
    BY <1>3, <2>1, <2>2
<1>6. ASSUME NEW g \in FLs PROVE tl[g] = {t \in SLs : M[<<g, t>>] # {}}
  <2>1. sl[g] = {t \in SLs : L[<<g, t>>] # {}}
    BY DEF Listed
  <2> QED
    BY <1>3, <1>4, <2>1
<1>7. fls = {g \in FLs : tl[g] # {}}
  <2>1. fl = {g \in FLs : sl[g] # {}}
    BY DEF Listed
  <2>2. b \in L[<<f, s>>] /\ s \in sl[f]
    BY DEF Listed
  <2> QED
    BY <1>4, <2>1, <2>2
<1> QED
  BY <1>1, <1>2, <1>5, <1>6, <1>7 DEF Listed, M, tl

LEMMA ListedKept ==
  ASSUME NEW L, NEW sl, NEW fl, NEW class, NEW D, NEW S, NEW new, NEW C,
         Listed(L, sl, fl, class, D, S),
         S \subseteq C, \A b \in S : new[b] = class[b]
  PROVE  Listed(L, sl, fl, new, C, S)
<1>1. \A f \in FLs, s \in SLs : L[<<f, s>>] = {b \in S : new[b] = <<f, s>>}
  BY DEF Listed
<1>2. \A f \in FLs, s \in SLs : L[<<f, s>>] \in SUBSET C
  BY <1>1
<1>3. L \in [FLs \X SLs -> SUBSET C]
  <2>1. ASSUME NEW c \in FLs \X SLs PROVE L[c] \in SUBSET C
    <3>1. PICK f \in FLs, s \in SLs : c = <<f, s>>
      OBVIOUS
    <3> QED
      BY <1>2, <3>1
  <2> QED
    BY <2>1 DEF Listed
<1> QED
  BY <1>1, <1>3 DEF Listed

LEMMA ListsInsert ==
  ASSUME NEW h, NEW S, NEW b \in DOMAIN h.hdr, ListsHold(h, S),
         map_insert(h.hdr[b].size) \in FLs \X SLs
  PROVE  fl_insert(h, b).hdr = h.hdr /\ ListsHold(fl_insert(h, b), S \cup {b})
<1> DEFINE c == map_insert(h.hdr[b].size)
           K == ClassFn(h.hdr)
           D == DOMAIN h.hdr
           g == fl_insert(h, b)
<1>1. PICK f \in FLs, s \in SLs : c = <<f, s>>
  OBVIOUS
<1>2. c[1] = f /\ c[2] = s /\ K[b] = <<f, s>>
  BY <1>1 DEF ClassFn
<1>3. Listed(h.free_lists, h.sl_bitmap, h.fl_bitmap, K, D, S)
  BY ListsAreListed
<1>4. /\ g.hdr = h.hdr
      /\ g.free_lists = [h.free_lists EXCEPT ![c] = @ \cup {b}]
      /\ g.sl_bitmap = [h.sl_bitmap EXCEPT ![c[1]] = @ \cup {c[2]}]
      /\ g.fl_bitmap = h.fl_bitmap \cup {c[1]}
  BY DEF fl_insert
<1> HIDE DEF c, K, D, g
<1>5. /\ g.free_lists = [h.free_lists EXCEPT ![<<f, s>>] = @ \cup {b}]
      /\ g.sl_bitmap = [h.sl_bitmap EXCEPT ![f] = @ \cup {s}]
      /\ g.fl_bitmap = h.fl_bitmap \cup {f}
  BY <1>1, <1>2, <1>4
<1>6. b \in D
  BY DEF D
<1>7. Listed([h.free_lists EXCEPT ![<<f, s>>] = @ \cup {b}],
             [h.sl_bitmap EXCEPT ![f] = @ \cup {s}], h.fl_bitmap \cup {f}, K, D, S \cup {b})
  BY <1>2, <1>3, <1>6, ListedInsert
<1>8. Listed(g.free_lists, g.sl_bitmap, g.fl_bitmap, ClassFn(g.hdr), DOMAIN g.hdr, S \cup {b})
  BY <1>4, <1>5, <1>7 DEF K, D
<1> QED
  BY <1>4, <1>8, ListsAreListed DEF g

LEMMA ListsRemove ==
  ASSUME NEW h, NEW S, NEW b \in S, ListsHold(h, S)
  PROVE  fl_remove(h, b).hdr = h.hdr /\ ListsHold(fl_remove(h, b), S \ {b})
<1> DEFINE c == map_insert(h.hdr[b].size)
           K == ClassFn(h.hdr)
           D == DOMAIN h.hdr
           g == fl_remove(h, b)
           rest == h.free_lists[c] \ {b}
           sls == IF rest = {} THEN h.sl_bitmap[c[1]] \ {c[2]} ELSE h.sl_bitmap[c[1]]
           fls == IF sls = {} THEN h.fl_bitmap \ {c[1]} ELSE h.fl_bitmap
<1>0. b \in D /\ c \in FLs \X SLs
  BY DEF ListsHold
<1>1. PICK f \in FLs, s \in SLs : c = <<f, s>>
  BY <1>0
<1>2. c[1] = f /\ c[2] = s /\ K[b] = <<f, s>>
  BY <1>0, <1>1 DEF ClassFn
<1>3. Listed(h.free_lists, h.sl_bitmap, h.fl_bitmap, K, D, S)
  BY ListsAreListed
<1>4. /\ g.hdr = h.hdr
      /\ g.free_lists = [h.free_lists EXCEPT ![c] = rest]
      /\ g.sl_bitmap = [h.sl_bitmap EXCEPT ![c[1]] = sls]
      /\ g.fl_bitmap = fls
  BY DEF fl_remove
<1>5. /\ rest = h.free_lists[<<f, s>>] \ {b}
      /\ sls = IF rest = {} THEN h.sl_bitmap[f] \ {s} ELSE h.sl_bitmap[f]
      /\ fls = IF sls = {} THEN h.fl_bitmap \ {f} ELSE h.fl_bitmap
  BY <1>1, <1>2
<1> HIDE DEF c, K, D, g, rest, sls, fls
<1>6. /\ g.free_lists = [h.free_lists EXCEPT ![<<f, s>>] = rest]
      /\ g.sl_bitmap = [h.sl_bitmap EXCEPT ![f] = sls]
      /\ g.fl_bitmap = fls
  BY <1>1, <1>2, <1>4
<1>7. Listed([h.free_lists EXCEPT ![<<f, s>>] = rest], [h.sl_bitmap EXCEPT ![f] = sls],
             fls, K, D, S \ {b})
  <2> DEFINE L == h.free_lists
             sl == h.sl_bitmap
             fl == h.fl_bitmap
  <2>1. Listed(L, sl, fl, K, D, S) /\ K[b] = <<f, s>>
    BY <1>2, <1>3
  <2>2. /\ rest = L[<<f, s>>] \ {b} /\ sls = IF rest = {} THEN sl[f] \ {s} ELSE sl[f]
        /\ fls = IF sls = {} THEN fl \ {f} ELSE fl
    BY <1>5
  <2> HIDE DEF L, sl, fl
  <2>3. Listed([L EXCEPT ![<<f, s>>] = rest], [sl EXCEPT ![f] = sls], fls, K, D, S \ {b})
    BY <2>1, <2>2, ListedRemove
  <2> QED
    BY <2>3 DEF L, sl, fl
<1>8. Listed(g.free_lists, g.sl_bitmap, g.fl_bitmap, ClassFn(g.hdr), DOMAIN g.hdr, S \ {b})
  BY <1>4, <1>6, <1>7 DEF K, D
<1> QED
  BY <1>4, <1>8, ListsAreListed DEF g

LEMMA ListsKept ==
  ASSUME NEW h, NEW S, NEW H, ListsHold(h, S),
         S \subseteq DOMAIN H, \A b \in S : H[b].size = h.hdr[b].size
  PROVE  ListsHold(WithHdr(h, H), S) /\ WithHdr(h, H).hdr = H
<1> DEFINE g == WithHdr(h, H)
           K == ClassFn(h.hdr)
           J == ClassFn(H)
<1>1. /\ g.hdr = H /\ g.free_lists = h.free_lists
      /\ g.sl_bitmap = h.sl_bitmap /\ g.fl_bitmap = h.fl_bitmap
  BY DEF WithHdr
<1>2. Listed(h.free_lists, h.sl_bitmap, h.fl_bitmap, K, DOMAIN h.hdr, S)
  BY ListsAreListed
<1>3. \A b \in S : J[b] = K[b]
  BY DEF ClassFn, ListsHold
<1> HIDE DEF g, K, J
<1>4. Listed(h.free_lists, h.sl_bitmap, h.fl_bitmap, J, DOMAIN H, S)
  BY <1>2, <1>3, ListedKept
<1>5. Listed(g.free_lists, g.sl_bitmap, g.fl_bitmap, ClassFn(g.hdr), DOMAIN g.hdr, S)
  BY <1>1, <1>4 DEF J
<1> QED
  BY <1>1, <1>5, ListsAreListed DEF g

-----------------------------------------------------------------------------
(***************************************************************************)
(* Moves on the headers and what they keep.                                *)
(***************************************************************************)
LEMMA HeapNumbers ==
  /\ OVERHEAD \in Nat \ {0} /\ TLSF_BLOCK_MIN \in Nat \ {0}
  /\ HeapStart \in Nat /\ HeapLimit \in Nat /\ NULL \notin Nat
  /\ \A a \in Addrs : a \in Nat /\ a # NULL /\ HeapStart <= a /\ a <= HeapLimit
BY TlsfAssumption, BlockMin DEF Addrs

\* What the header of a block of a chain says.
BlockFacts(H, E, top, b) ==
  /\ b \in Addrs /\ b \in Nat /\ b # NULL /\ HeapStart <= b
  /\ H[b] = [prev |-> H[b].prev, size |-> H[b].size, free |-> H[b].free,
             prev_free |-> H[b].prev_free]
  /\ H[b].size \in 0 .. HeapLimit - HeapStart /\ H[b].size \in Nat
  /\ H[b].free \in BOOLEAN /\ H[b].prev_free \in BOOLEAN
  /\ H[b].prev \in Addrs \cup {NULL}
  /\ Nxt(H, b) \in Nat /\ b < Nxt(H, b) /\ b + OVERHEAD <= Nxt(H, b) /\ Nxt(H, b) <= top
  /\ top \in Nat /\ top <= HeapLimit
  /\ H[b].size # 0 => b \notin E /\ H[b].prev # NULL

LEMMA ChainFacts ==
  ASSUME NEW H, NEW E, NEW top, NEW b \in DOMAIN H, Chain(H, E, top)
  PROVE  Linked(H, E, top, b) /\ BlockFacts(H, E, top, b)
<1>1. Linked(H, E, top, b) /\ b \in Addrs /\ top \in Addrs
  BY DEF Chain
<1>2. H[b] \in Headers
  BY <1>1 DEF Linked
<1>3. /\ H[b] = [prev |-> H[b].prev, size |-> H[b].size, free |-> H[b].free,
                 prev_free |-> H[b].prev_free]
      /\ H[b].size \in 0 .. HeapLimit - HeapStart
      /\ H[b].free \in BOOLEAN /\ H[b].prev_free \in BOOLEAN
      /\ H[b].prev \in Addrs \cup {NULL}
  BY <1>2 DEF Headers
<1>4. b \in Nat /\ HeapStart <= b /\ b # NULL /\ top \in Nat /\ top <= HeapLimit
  BY <1>1, HeapNumbers
<1>5. H[b].size \in Nat
  BY <1>3, HeapNumbers
<1>6. Nxt(H, b) \in Nat /\ b < Nxt(H, b) /\ b + OVERHEAD <= Nxt(H, b)
  BY <1>4, <1>5, HeapNumbers DEF Nxt
<1>7. Nxt(H, b) <= top /\ (H[b].size # 0 => b \notin E /\ H[b].prev # NULL)
  BY <1>1 DEF Linked
<1> QED
  BY <1>1, <1>3, <1>4, <1>5, <1>6, <1>7 DEF BlockFacts

\* A header in front of b other than b ends before it.
LEMMA Before ==
  ASSUME NEW H, NEW E, NEW top, Chain(H, E, top),
         NEW x \in DOMAIN H, NEW b \in DOMAIN H, x < b, x \notin E
  PROVE  Nxt(H, x) <= b
<1>1. Linked(H, E, top, x) /\ BlockFacts(H, E, top, x) /\ BlockFacts(H, E, top, b)
  BY ChainFacts
<1>2. ~(x < b /\ b < Nxt(H, x))
  BY <1>1 DEF Linked
<1> QED
  BY <1>1, <1>2 DEF BlockFacts

LEMMA NextUnique ==
  ASSUME NEW H, NEW E, NEW top, Chain(H, E, top),
         NEW x \in DOMAIN H, NEW b \in DOMAIN H, x \notin E, b \notin E, Nxt(H, x) = Nxt(H, b)
  PROVE  x = b
<1>1. Linked(H, E, top, x) /\ Linked(H, E, top, b)
  BY ChainFacts
<1> QED
  BY <1>1 DEF Linked

\* The size of a block has a class.
LEMMA SizeClassed ==
  ASSUME NEW H, NEW E, NEW top, Chain(H, E, top), NEW b \in DOMAIN H, H[b].size # 0
  PROVE  /\ H[b].size \in Classed /\ map_insert(H[b].size) \in FLs \X SLs
         /\ H[b].size <= HeapLimit - HeapStart - OVERHEAD
<1>1. Linked(H, E, top, b) /\ BlockFacts(H, E, top, b)
  BY ChainFacts
<1>2. /\ b \in Nat /\ HeapStart <= b /\ H[b].size \in Nat /\ Nxt(H, b) <= HeapLimit
      /\ TLSF_BLOCK_MIN <= H[b].size
  <2>1. H[b].size # 0 => H[b].size >= TLSF_BLOCK_MIN
    BY <1>1 DEF Linked
  <2>2. /\ b \in Nat /\ HeapStart <= b /\ H[b].size \in Nat
        /\ Nxt(H, b) \in Nat /\ Nxt(H, b) <= top /\ top \in Nat /\ top <= HeapLimit
    BY <1>1 DEF BlockFacts
  <2> QED
    BY <2>1, <2>2, HeapNumbers
<1>3. H[b].size <= HeapLimit - HeapStart - OVERHEAD
  BY <1>2, HeapNumbers DEF Nxt
<1>4. Pow2[FL_INDEX_MAX + 1] \in Nat
  BY TlsfAssumption, Pow2Facts
<1>5. H[b].size <= Pow2[FL_INDEX_MAX + 1] - 1
  BY <1>2, <1>3, <1>4, HeapNumbers, TlsfAssumption
<1>6. H[b].size \in Classed
  BY <1>2, <1>4, <1>5, HeapNumbers DEF Classed
<1> QED
  BY <1>3, <1>6, ClassOf DEF ClassFacts

-----------------------------------------------------------------------------
\* A block is marked free or in use, in its header and the next one.
Marked(H, b, f) ==
  [x \in DOMAIN H |-> IF x = b THEN WithFree(H[x], f)
                      ELSE IF x = Nxt(H, b) THEN WithPrevFree(H[x], f) ELSE H[x]]

LEMMA MarkFields ==
  ASSUME NEW H, NEW E, NEW top, Chain(H, E, top), NEW b \in DOMAIN H, NEW f \in BOOLEAN
  PROVE  /\ DOMAIN Marked(H, b, f) = DOMAIN H
         /\ \A x \in DOMAIN H :
              /\ Marked(H, b, f)[x].prev = H[x].prev
              /\ Marked(H, b, f)[x].size = H[x].size
              /\ Nxt(Marked(H, b, f), x) = Nxt(H, x)
              /\ Marked(H, b, f)[x].free = IF x = b THEN f ELSE H[x].free
              /\ Marked(H, b, f)[x].prev_free = IF x = Nxt(H, b) THEN f ELSE H[x].prev_free
              /\ Marked(H, b, f)[x] \in Headers
<1>1. DOMAIN Marked(H, b, f) = DOMAIN H
  BY DEF Marked
<1>2. ASSUME NEW x \in DOMAIN H
      PROVE  /\ Marked(H, b, f)[x].prev = H[x].prev
             /\ Marked(H, b, f)[x].size = H[x].size
             /\ Marked(H, b, f)[x].free = IF x = b THEN f ELSE H[x].free
             /\ Marked(H, b, f)[x].prev_free = IF x = Nxt(H, b) THEN f ELSE H[x].prev_free
             /\ Marked(H, b, f)[x] \in Headers
  <2>1. BlockFacts(H, E, top, x) /\ BlockFacts(H, E, top, b)
    BY ChainFacts
  <2>2. b # Nxt(H, b)
    BY <2>1 DEF BlockFacts
  <2>3. Marked(H, b, f)[x] = IF x = b THEN WithFree(H[x], f)
                             ELSE IF x = Nxt(H, b) THEN WithPrevFree(H[x], f) ELSE H[x]
    BY DEF Marked
  <2>4. H[x] \in Headers
    BY ChainFacts DEF Linked
  <2>5. WithFree(H[x], f) \in Headers /\ WithPrevFree(H[x], f) \in Headers
    BY <2>4 DEF WithFree, WithPrevFree, Headers
  <2>6. /\ WithFree(H[x], f).prev = H[x].prev /\ WithFree(H[x], f).size = H[x].size
        /\ WithFree(H[x], f).free = f /\ WithFree(H[x], f).prev_free = H[x].prev_free
        /\ WithPrevFree(H[x], f).prev = H[x].prev /\ WithPrevFree(H[x], f).size = H[x].size
        /\ WithPrevFree(H[x], f).free = H[x].free /\ WithPrevFree(H[x], f).prev_free = f
    BY DEF WithFree, WithPrevFree
  <2> QED
    BY <2>2, <2>3, <2>4, <2>5, <2>6
<1> QED
  BY <1>1, <1>2 DEF Nxt

LEMMA MarkChain ==
  ASSUME NEW H, NEW E, NEW top, Chain(H, E, top), NEW b \in DOMAIN H, NEW f \in BOOLEAN,
         H[b].size # 0
  PROVE  Chain(Marked(H, b, f), E, top)
<1> DEFINE M == Marked(H, b, f)
           n == Nxt(H, b)
<1>1. /\ DOMAIN M = DOMAIN H
      /\ \A x \in DOMAIN H :
           /\ M[x].prev = H[x].prev /\ M[x].size = H[x].size /\ Nxt(M, x) = Nxt(H, x)
           /\ M[x].free = IF x = b THEN f ELSE H[x].free
           /\ M[x].prev_free = IF x = n THEN f ELSE H[x].prev_free
           /\ M[x] \in Headers
  BY MarkFields
<1>2. /\ b \notin E /\ H[b].prev # NULL /\ b # NULL
      /\ n \in DOMAIN H /\ H[n].prev = b
  <2>1. Linked(H, E, top, b) /\ BlockFacts(H, E, top, b)
    BY ChainFacts
  <2>2. b \notin E /\ H[b].prev # NULL /\ b # NULL
    BY <2>1 DEF BlockFacts
  <2> QED
    BY <2>1, <2>2 DEF Linked
<1> HIDE DEF M
<1>3. ASSUME NEW x \in DOMAIN H PROVE Linked(M, E, top, x)
  <2> DEFINE y == Nxt(H, x)
  <2>1. Linked(H, E, top, x)
    BY ChainFacts
  <2>2. M[x] \in Headers /\ Nxt(M, x) <= top /\ (M[x].size # 0 => M[x].size >= TLSF_BLOCK_MIN)
    BY <1>1, <2>1 DEF Linked
  <2>3. /\ x \in E => M[x].size = 0 /\ ~M[x].free
        /\ M[x].free => M[x].size # 0
    BY <1>1, <1>2, <2>1 DEF Linked
  <2>4. M[x].prev = NULL => M[x].size = 0 /\ ~M[x].free /\ ~M[x].prev_free
    BY <1>1, <1>2, <2>1 DEF Linked
  <2>5. M[x].prev # NULL =>
          M[x].prev \in DOMAIN M /\ M[x].prev \notin E /\ Nxt(M, M[x].prev) = x
    BY <1>1, <2>1 DEF Linked
  <2>6. ASSUME x \notin E
        PROVE  /\ y \in DOMAIN M /\ M[y].prev = x /\ M[y].prev_free = M[x].free
               /\ \A z \in DOMAIN M : ~(x < z /\ z < y)
    <3>1. /\ y \in DOMAIN H /\ H[y].prev = x /\ H[y].prev_free = H[x].free
          /\ \A z \in DOMAIN H : ~(x < z /\ z < y)
      BY <2>1, <2>6 DEF Linked
    <3>2. y = n <=> x = b
      BY <1>2, <3>1
    <3> HIDE DEF y, n
    <3> QED
      BY <1>1, <3>1, <3>2
  <2>7. Nxt(M, x) = y
    BY <1>1
  <2> HIDE DEF y
  <2> QED
    BY <2>2, <2>3, <2>4, <2>5, <2>6, <2>7 DEF Linked
<1> QED
  BY <1>1, <1>3 DEF Chain, M

\* The free blocks and the pairs after that.
LEMMA MarkFree ==
  ASSUME NEW H, NEW E, NEW top, Chain(H, E, top), NEW b \in DOMAIN H, H[b].size # 0
  PROVE  /\ FreeIn(Marked(H, b, TRUE)) = FreeIn(H) \cup {b}
         /\ FreeIn(Marked(H, b, FALSE)) = FreeIn(H) \ {b}
         /\ Pairs(Marked(H, b, TRUE)) \subseteq Pairs(H) \cup {b, H[b].prev}
         /\ Pairs(Marked(H, b, FALSE)) \subseteq Pairs(H)
<1> DEFINE M(f) == Marked(H, b, f)
<1>1. ASSUME NEW f \in BOOLEAN
      PROVE  /\ DOMAIN M(f) = DOMAIN H
             /\ \A x \in DOMAIN H : /\ M(f)[x].free = IF x = b THEN f ELSE H[x].free
                                    /\ Nxt(M(f), x) = Nxt(H, x)
  BY MarkFields
<1> HIDE DEF M
<1>2. FreeIn(M(TRUE)) = FreeIn(H) \cup {b} /\ FreeIn(M(FALSE)) = FreeIn(H) \ {b}
  BY <1>1 DEF FreeIn
<1>3. ASSUME NEW x \in DOMAIN H, H[x].free \/ H[x].size # 0
      PROVE  x \notin E /\ Nxt(H, x) \in DOMAIN H /\ H[Nxt(H, x)].prev = x
  <2>1. Linked(H, E, top, x)
    BY ChainFacts
  <2> QED
    BY <1>3, <2>1 DEF Linked
<1>4. b \notin E /\ Nxt(H, b) \in DOMAIN H /\ H[Nxt(H, b)].prev = b
  BY <1>3
<1>5. Pairs(M(TRUE)) \subseteq Pairs(H) \cup {b, H[b].prev}
  <2> SUFFICES ASSUME NEW x \in DOMAIN H, x # b, x # H[b].prev, M(TRUE)[x].free,
                      M(TRUE)[Nxt(M(TRUE), x)].free
               PROVE  x \in Pairs(H)
    BY <1>1 DEF Pairs
  <2>1. H[x].free
    BY <1>1
  <2>2. Nxt(H, x) \in DOMAIN H /\ H[Nxt(H, x)].prev = x
    BY <1>3, <2>1
  <2>3. Nxt(H, x) # b
    BY <2>2
  <2>4. M(TRUE)[Nxt(H, x)].free
    BY <1>1
  <2>5. H[Nxt(H, x)].free
    BY <1>1, <2>2, <2>3, <2>4
  <2> QED
    BY <2>1, <2>5 DEF Pairs
<1>6. Pairs(M(FALSE)) \subseteq Pairs(H)
  <2> SUFFICES ASSUME NEW x \in DOMAIN H, M(FALSE)[x].free, M(FALSE)[Nxt(M(FALSE), x)].free
               PROVE  x \in Pairs(H)
    BY <1>1 DEF Pairs
  <2>1. H[x].free
    BY <1>1
  <2>2. Nxt(H, x) \in DOMAIN H
    BY <1>3, <2>1
  <2>3. M(FALSE)[Nxt(H, x)].free
    BY <1>1
  <2> QED
    BY <1>1, <2>1, <2>2, <2>3 DEF Pairs
<1> QED
  BY <1>2, <1>5, <1>6 DEF M

-----------------------------------------------------------------------------
\* The free block c, which follows the free block b, becomes part of it.
Joined(H, b, c) ==
  LET size == H[b].size + OVERHEAD + H[c].size
  IN  [x \in DOMAIN H \ {c} |->
        IF x = b THEN WithSize(H[x], size)
        ELSE IF x = b + OVERHEAD + size THEN WithPrev(H[x], b) ELSE H[x]]

Joinable(H, E, b, c) ==
  /\ b \in DOMAIN H /\ c \in DOMAIN H /\ b \notin E /\ c \notin E
  /\ c = Nxt(H, b) /\ H[b].free /\ H[c].free

JoinFacts(H, E, b, c, n, J) ==
  /\ DOMAIN J = DOMAIN H \ {c}
  /\ b < c /\ c < n /\ b # n /\ c # n /\ b # c /\ b # NULL /\ b \in Int /\ c \in Int /\ n \in Int
  /\ n = Nxt(H, c) /\ n \in DOMAIN H /\ H[n].prev = c /\ H[c].prev = b
  /\ H[n].prev_free = H[c].free /\ H[b].prev # NULL /\ n <= HeapLimit
  /\ \A z \in DOMAIN H : z \in Int /\ ~(b < z /\ z < c) /\ ~(c < z /\ z < n)
  /\ J[b].size # 0 /\ J[b].size >= TLSF_BLOCK_MIN
  /\ \A x \in DOMAIN J :
       /\ J[x].prev = IF x = n THEN b ELSE H[x].prev
       /\ x # b => J[x].size = H[x].size
       /\ J[x].free = H[x].free
       /\ J[x].prev_free = H[x].prev_free
       /\ Nxt(J, x) = IF x = b THEN n ELSE Nxt(H, x)
       /\ J[x] \in Headers

LEMMA JoinFields ==
  ASSUME NEW H, NEW E, NEW top, Chain(H, E, top), NEW b, NEW c, Joinable(H, E, b, c)
  PROVE  JoinFacts(H, E, b, c, Nxt(H, c), Joined(H, b, c))
<1> DEFINE J == Joined(H, b, c)
           n == Nxt(H, c)
           size == H[b].size + OVERHEAD + H[c].size
<1>1. /\ b \in DOMAIN H /\ c \in DOMAIN H /\ b \notin E /\ c \notin E
      /\ c = Nxt(H, b) /\ H[b].free /\ H[c].free
  BY DEF Joinable
<1>2. /\ Linked(H, E, top, b) /\ BlockFacts(H, E, top, b)
      /\ Linked(H, E, top, c) /\ BlockFacts(H, E, top, c)
  BY <1>1, ChainFacts
<1>3. /\ b < c /\ c < n /\ b \in Nat /\ c \in Nat /\ n \in Nat /\ b # NULL
      /\ H[b].size \in Nat /\ H[c].size \in Nat /\ n <= top /\ top \in Nat /\ top <= HeapLimit
      /\ HeapStart <= b
  BY <1>1, <1>2 DEF BlockFacts
<1>4. /\ n \in DOMAIN H /\ H[n].prev = c /\ H[c].prev = b /\ H[n].prev_free = H[c].free
      /\ \A z \in DOMAIN H : ~(b < z /\ z < c) /\ ~(c < z /\ z < n)
  BY <1>1, <1>2 DEF Linked
<1>5. H[b].size # 0 /\ H[b].size >= TLSF_BLOCK_MIN
  BY <1>1, <1>2 DEF Linked
<1>6. H[b].prev # NULL
  BY <1>2, <1>5 DEF BlockFacts
<1>7. /\ b + OVERHEAD + size = n /\ size \in Nat /\ size >= TLSF_BLOCK_MIN /\ size # 0
      /\ size \in 0 .. HeapLimit - HeapStart
  <2>1. c = b + OVERHEAD + H[b].size /\ n = c + OVERHEAD + H[c].size
    BY <1>1 DEF Nxt
  <2> HIDE DEF n
  <2>2. b + OVERHEAD + size = n /\ size \in Nat
    BY <1>3, <2>1, HeapNumbers
  <2> QED
    BY <1>3, <1>5, <2>2, HeapNumbers
<1> HIDE DEF n, size
<1>8. /\ DOMAIN J = DOMAIN H \ {c}
      /\ \A x \in DOMAIN J : J[x] = IF x = b THEN WithSize(H[x], size)
                                    ELSE IF x = n THEN WithPrev(H[x], b) ELSE H[x]
  BY <1>7 DEF Joined, size
<1> HIDE DEF J
<1>9. b # n /\ c # n /\ b # c /\ n <= HeapLimit /\ b \in DOMAIN J
  BY <1>1, <1>3, <1>8, HeapNumbers
<1>10. \A z \in DOMAIN H : z \in Int
  BY HeapNumbers DEF Chain
<1>11. ASSUME NEW x \in DOMAIN J
       PROVE  /\ J[x].prev = IF x = n THEN b ELSE H[x].prev
              /\ J[x].size = IF x = b THEN size ELSE H[x].size
              /\ J[x].free = H[x].free
              /\ J[x].prev_free = H[x].prev_free
              /\ J[x] \in Headers
  <2>1. x \in DOMAIN H
    BY <1>8
  <2>2. H[x] \in Headers
    BY <2>1, ChainFacts DEF Linked
  <2>3. b \in Addrs
    BY <1>1 DEF Chain
  <2>4. WithSize(H[x], size) \in Headers /\ WithPrev(H[x], b) \in Headers
    BY <1>7, <2>2, <2>3 DEF WithSize, WithPrev, Headers
  <2>5. /\ WithSize(H[x], size).prev = H[x].prev /\ WithSize(H[x], size).size = size
        /\ WithSize(H[x], size).free = H[x].free
        /\ WithSize(H[x], size).prev_free = H[x].prev_free
        /\ WithPrev(H[x], b).prev = b /\ WithPrev(H[x], b).size = H[x].size
        /\ WithPrev(H[x], b).free = H[x].free
        /\ WithPrev(H[x], b).prev_free = H[x].prev_free
    BY DEF WithSize, WithPrev
  <2> QED
    BY <1>8, <1>9, <2>2, <2>4, <2>5
<1>12. ASSUME NEW x \in DOMAIN J PROVE Nxt(J, x) = IF x = b THEN n ELSE Nxt(H, x)
  BY <1>7, <1>11 DEF Nxt
<1> QED
  BY <1>3, <1>4, <1>6, <1>7, <1>8, <1>9, <1>10, <1>11, <1>12 DEF JoinFacts, J, n

LEMMA JoinChain ==
  ASSUME NEW H, NEW E, NEW top, Chain(H, E, top), NEW b, NEW c, Joinable(H, E, b, c)
  PROVE  Chain(Joined(H, b, c), E, top)
<1> DEFINE J == Joined(H, b, c)
           n == Nxt(H, c)
<1>1. JoinFacts(H, E, b, c, n, J)
  BY JoinFields
<1>2. /\ b \in DOMAIN H /\ c \in DOMAIN H /\ b \notin E /\ c \notin E
      /\ c = Nxt(H, b) /\ H[b].free /\ H[c].free
  BY DEF Joinable
<1> HIDE DEF J, n
<1>3. ASSUME NEW x \in DOMAIN J PROVE Linked(J, E, top, x)
  <2> DEFINE y == Nxt(H, x)
  <2>1. x \in DOMAIN H /\ x # c
    BY <1>1 DEF JoinFacts
  <2>2. Linked(H, E, top, x) /\ Linked(H, E, top, c) /\ Linked(H, E, top, b)
    BY <1>2, <2>1, ChainFacts
  <2>3. Nxt(J, x) <= top /\ J[x] \in Headers
    <3>1. n <= top
      BY <1>1, <2>2 DEF JoinFacts, Linked
    <3> QED
      BY <1>1, <2>2, <3>1 DEF JoinFacts, Linked
  <2>4. J[x].size # 0 => J[x].size >= TLSF_BLOCK_MIN
    BY <1>1, <2>2 DEF JoinFacts, Linked
  <2>5. x \in E => J[x].size = 0 /\ ~J[x].free
    BY <1>1, <1>2, <2>2 DEF JoinFacts, Linked
  <2>6. J[x].prev = NULL => J[x].size = 0 /\ ~J[x].free /\ ~J[x].prev_free
    BY <1>1, <1>2, <2>2 DEF JoinFacts, Linked
  <2>7. J[x].free => J[x].size # 0
    BY <1>1, <2>2 DEF JoinFacts, Linked
  <2>8. ASSUME J[x].prev # NULL
        PROVE  J[x].prev \in DOMAIN J /\ J[x].prev \notin E /\ Nxt(J, J[x].prev) = x
    <3>1. CASE x = n
      BY <1>1, <1>2, <3>1 DEF JoinFacts
    <3>2. CASE x # n
      <4> DEFINE p == H[x].prev
      <4>1. J[x].prev = p
        BY <1>1, <3>2 DEF JoinFacts
      <4>2. p \in DOMAIN H /\ p \notin E /\ Nxt(H, p) = x
        BY <2>2, <2>8, <4>1 DEF Linked
      <4> HIDE DEF p
      <4>3. p # c /\ p # b
        BY <1>1, <1>2, <2>1, <3>2, <4>2 DEF JoinFacts
      <4> QED
        BY <1>1, <4>1, <4>2, <4>3 DEF JoinFacts
    <3> QED
      BY <3>1, <3>2
  <2>9. ASSUME x \notin E
        PROVE  /\ Nxt(J, x) \in DOMAIN J /\ J[Nxt(J, x)].prev = x
               /\ J[Nxt(J, x)].prev_free = J[x].free
               /\ \A z \in DOMAIN J : ~(x < z /\ z < Nxt(J, x))
    <3>1. CASE x = b
      <4>1. Nxt(J, x) = n /\ n \in DOMAIN J
        BY <1>1, <3>1 DEF JoinFacts
      <4>2. J[n].prev = b /\ J[n].prev_free = H[n].prev_free
        BY <1>1, <4>1 DEF JoinFacts
      <4>3. H[n].prev_free = H[c].free /\ J[x].free = H[x].free
        BY <1>1 DEF JoinFacts
      <4>4. ASSUME NEW z \in DOMAIN J PROVE ~(b < z /\ z < n)
        <5>1. z \in DOMAIN H /\ z # c
          BY <1>1 DEF JoinFacts
        <5>2. z \in Int /\ ~(b < z /\ z < c) /\ ~(c < z /\ z < n) /\ c \in Int
          BY <1>1, <5>1 DEF JoinFacts
        <5> QED
          BY <5>1, <5>2
      <4>5. H[c].free = H[b].free
        BY <1>2, <2>2, HeapNumbers, ChainFacts DEF BlockFacts
      <4> QED
        BY <3>1, <4>1, <4>2, <4>3, <4>4, <4>5
    <3>2. CASE x # b
      <4>1. /\ y \in DOMAIN H /\ H[y].prev = x /\ H[y].prev_free = H[x].free
            /\ \A z \in DOMAIN H : ~(x < z /\ z < y)
        BY <2>2, <2>9 DEF Linked
      <4>2. Nxt(J, x) = y
        BY <1>1, <3>2 DEF JoinFacts
      <4> HIDE DEF y
      <4>3. y # c /\ y # n
        BY <1>1, <2>1, <3>2, <4>1 DEF JoinFacts
      <4> QED
        BY <1>1, <4>1, <4>2, <4>3 DEF JoinFacts
    <3> QED
      BY <3>1, <3>2
  <2> QED
    BY <2>3, <2>4, <2>5, <2>6, <2>7, <2>8, <2>9 DEF Linked
<1>4. E \subseteq DOMAIN J /\ DOMAIN J \subseteq Addrs
  BY <1>1, <1>2 DEF JoinFacts, Chain
<1> QED
  BY <1>3, <1>4 DEF Chain, J

LEMMA JoinFree ==
  ASSUME NEW H, NEW E, NEW top, Chain(H, E, top), NEW b, NEW c, Joinable(H, E, b, c)
  PROVE  /\ FreeIn(Joined(H, b, c)) = FreeIn(H) \ {c}
         /\ Used(Joined(H, b, c)) = Used(H)
         /\ \A x \in DOMAIN H \ {b, c} : Joined(H, b, c)[x].size = H[x].size
         /\ c \notin Pairs(H) => Pairs(Joined(H, b, c)) \subseteq Pairs(H) \ {b}
<1> DEFINE J == Joined(H, b, c)
           n == Nxt(H, c)
<1>1. JoinFacts(H, E, b, c, n, J)
  BY JoinFields
<1>2. /\ b \in DOMAIN H /\ c \in DOMAIN H /\ b \notin E /\ c \notin E
      /\ c = Nxt(H, b) /\ H[b].free /\ H[c].free
  BY DEF Joinable
<1> HIDE DEF J
<1>3. FreeIn(J) = FreeIn(H) \ {c}
  BY <1>1 DEF FreeIn, JoinFacts
<1>4. \A x \in DOMAIN H \ {b, c} : J[x].size = H[x].size
  BY <1>1 DEF JoinFacts
<1>5. Used(J) = Used(H)
  BY <1>1, <1>2, <1>4 DEF Used, JoinFacts
<1>6. ASSUME c \notin Pairs(H), NEW x \in Pairs(J) PROVE x \in Pairs(H) \ {b}
  <2>1. x \in DOMAIN J /\ J[x].free /\ J[Nxt(J, x)].free
    BY DEF Pairs
  <2>2. x \in DOMAIN H /\ H[x].free /\ x # c
    BY <1>1, <2>1 DEF JoinFacts
  <2>3. CASE x = b
    <3>1. Nxt(J, x) = n /\ n \in DOMAIN J
      BY <1>1, <2>1, <2>3 DEF JoinFacts
    <3>2. H[n].free
      BY <1>1, <2>1, <3>1 DEF JoinFacts
    <3> QED
      BY <1>2, <1>6, <3>2 DEF Pairs
  <2>4. CASE x # b
    <3>1. Linked(H, E, top, x)
      BY <2>2, ChainFacts
    <3>2. Nxt(H, x) \in DOMAIN H /\ H[Nxt(H, x)].prev = x
      BY <2>2, <3>1 DEF Linked
    <3>3. Nxt(H, x) # c
      BY <1>1, <2>4, <3>2 DEF JoinFacts
    <3>4. Nxt(J, x) = Nxt(H, x) /\ Nxt(H, x) \in DOMAIN J
      BY <1>1, <2>1, <2>4, <3>2, <3>3 DEF JoinFacts
    <3>5. H[Nxt(H, x)].free
      BY <1>1, <2>1, <3>4 DEF JoinFacts
    <3> QED
      BY <2>2, <2>4, <3>5 DEF Pairs
  <2> QED
    BY <2>3, <2>4
<1> QED
  BY <1>3, <1>4, <1>5, <1>6 DEF J

-----------------------------------------------------------------------------
\* The free block b is taken for size bytes; the tail stays free.
Taken(H, b, size, rem) ==
  LET tail == b + OVERHEAD + size
  IN  [x \in DOMAIN H \cup {tail} |->
        IF x = tail THEN [prev |-> b, size |-> rem, free |-> TRUE, prev_free |-> FALSE]
        ELSE IF x = b THEN WithFree(WithSize(H[x], size), FALSE)
        ELSE IF x = tail + OVERHEAD + rem THEN WithPrev(H[x], tail) ELSE H[x]]

Splits(H, b, size, rem) ==
  /\ b \in DOMAIN H /\ H[b].free
  /\ size \in Nat /\ size >= TLSF_BLOCK_MIN
  /\ rem \in Nat /\ rem >= TLSF_BLOCK_MIN
  /\ H[b].size = size + OVERHEAD + rem

TakeFacts(H, E, b, size, rem, tail, n, T) ==
  /\ DOMAIN T = DOMAIN H \cup {tail}
  /\ b < tail /\ tail < n /\ b # n /\ tail # n /\ b # tail /\ b # NULL /\ tail # NULL
  /\ b \in Int /\ tail \in Int /\ n \in Int /\ tail \in Addrs /\ tail \notin DOMAIN H
  /\ b \notin E /\ n = Nxt(H, b) /\ n \in DOMAIN H /\ H[n].prev = b /\ H[n].prev_free
  /\ H[b].prev # NULL
  /\ \A z \in DOMAIN H : z \in Int /\ ~(b < z /\ z < n)
  /\ T[b].size = size /\ size # 0
  /\ T[tail].prev = b /\ T[tail].size = rem /\ rem # 0 /\ T[tail].free /\ ~T[tail].prev_free
  /\ T[tail] \in Headers /\ Nxt(T, tail) = n
  /\ \A x \in DOMAIN H :
       /\ T[x].prev = IF x = n THEN tail ELSE H[x].prev
       /\ x # b => T[x].size = H[x].size
       /\ T[x].free = IF x = b THEN FALSE ELSE H[x].free
       /\ T[x].prev_free = H[x].prev_free
       /\ Nxt(T, x) = IF x = b THEN tail ELSE Nxt(H, x)
       /\ T[x] \in Headers

LEMMA TakeFields ==
  ASSUME NEW H, NEW E, NEW top, Chain(H, E, top),
         NEW b, NEW size, NEW rem, Splits(H, b, size, rem)
  PROVE  TakeFacts(H, E, b, size, rem, b + OVERHEAD + size, Nxt(H, b), Taken(H, b, size, rem))
<1> DEFINE T == Taken(H, b, size, rem)
           n == Nxt(H, b)
           tail == b + OVERHEAD + size
<1>1. /\ b \in DOMAIN H /\ H[b].free /\ size \in Nat /\ size >= TLSF_BLOCK_MIN
      /\ rem \in Nat /\ rem >= TLSF_BLOCK_MIN /\ H[b].size = size + OVERHEAD + rem
  BY DEF Splits
<1>2. Linked(H, E, top, b) /\ BlockFacts(H, E, top, b)
  BY <1>1, ChainFacts
<1>3. b \notin E
  BY <1>1, <1>2 DEF Linked
<1>4. /\ n \in DOMAIN H /\ H[n].prev = b /\ H[n].prev_free = H[b].free
      /\ \A z \in DOMAIN H : ~(b < z /\ z < n)
  BY <1>2, <1>3 DEF Linked
<1>5. /\ b \in Nat /\ n \in Nat /\ n <= top /\ top \in Nat /\ top <= HeapLimit
      /\ HeapStart <= b /\ b # NULL /\ H[b].size \in 0 .. HeapLimit - HeapStart
  BY <1>2 DEF BlockFacts
<1>6. H[b].prev # NULL
  BY <1>1, <1>2 DEF Linked
<1>7. n = b + OVERHEAD + (size + OVERHEAD + rem)
  BY <1>1 DEF Nxt
<1> HIDE DEF n
<1>8. /\ tail \in Nat /\ b < tail /\ tail < n /\ tail + OVERHEAD + rem = n
      /\ HeapStart <= tail /\ tail <= HeapLimit
      /\ size \in 0 .. HeapLimit - HeapStart /\ rem \in 0 .. HeapLimit - HeapStart
      /\ size # 0 /\ rem # 0
  BY <1>1, <1>5, <1>7, HeapNumbers
<1> HIDE DEF tail
<1>9. tail \in Addrs /\ tail # NULL /\ tail \notin DOMAIN H
  BY <1>4, <1>8, HeapNumbers DEF Addrs
<1>10. /\ DOMAIN T = DOMAIN H \cup {tail}
       /\ \A x \in DOMAIN T : T[x] =
            IF x = tail THEN [prev |-> b, size |-> rem, free |-> TRUE, prev_free |-> FALSE]
            ELSE IF x = b THEN WithFree(WithSize(H[x], size), FALSE)
            ELSE IF x = n THEN WithPrev(H[x], tail) ELSE H[x]
  BY <1>8 DEF Taken, tail
<1> HIDE DEF T
<1>11. b # n /\ tail # n /\ b # tail
  BY <1>5, <1>8
<1>12. \A z \in DOMAIN H : z \in Int
  BY HeapNumbers DEF Chain
<1>13. T[tail] = [prev |-> b, size |-> rem, free |-> TRUE, prev_free |-> FALSE]
  BY <1>10
<1>14. T[tail] \in Headers
  <2>1. b \in Addrs
    BY <1>1 DEF Chain
  <2> QED
    BY <1>8, <1>13, <2>1 DEF Headers
<1>15. ASSUME NEW x \in DOMAIN H
       PROVE  /\ T[x].prev = IF x = n THEN tail ELSE H[x].prev
              /\ T[x].size = IF x = b THEN size ELSE H[x].size
              /\ T[x].free = IF x = b THEN FALSE ELSE H[x].free
              /\ T[x].prev_free = H[x].prev_free
              /\ T[x] \in Headers
  <2>1. x # tail /\ x \in DOMAIN T
    BY <1>9, <1>10
  <2>2. H[x] \in Headers
    BY ChainFacts DEF Linked
  <2> DEFINE R == WithFree(WithSize(H[x], size), FALSE)
             Q == WithPrev(H[x], tail)
  <2>3. R \in Headers /\ Q \in Headers
    BY <1>8, <1>9, <2>2 DEF WithFree, WithSize, WithPrev, Headers
  <2>4. /\ R.prev = H[x].prev /\ R.size = size /\ R.free = FALSE /\ R.prev_free = H[x].prev_free
        /\ Q.prev = tail /\ Q.size = H[x].size /\ Q.free = H[x].free
        /\ Q.prev_free = H[x].prev_free
    BY DEF WithFree, WithSize, WithPrev
  <2>5. T[x] = IF x = b THEN R ELSE IF x = n THEN Q ELSE H[x]
    BY <1>10, <2>1
  <2> HIDE DEF R, Q
  <2> QED
    BY <1>11, <2>2, <2>3, <2>4, <2>5
<1>16. ASSUME NEW x \in DOMAIN H PROVE Nxt(T, x) = IF x = b THEN tail ELSE Nxt(H, x)
  BY <1>15 DEF Nxt, tail
<1>17. Nxt(T, tail) = n
  BY <1>8, <1>13 DEF Nxt
<1>18. T[b].size = size
  BY <1>1, <1>15
<1>19. T[tail].prev = b /\ T[tail].size = rem /\ T[tail].free /\ ~T[tail].prev_free
  BY <1>13
<1>20. n = Nxt(H, b) /\ H[n].prev_free /\ b \in Int /\ n \in Int /\ tail \in Int
  BY <1>1, <1>4, <1>5, <1>8 DEF n
<1>21. TakeFacts(H, E, b, size, rem, tail, n, T)
  BY <1>3, <1>4, <1>5, <1>6, <1>8, <1>9, <1>10, <1>11, <1>12, <1>14, <1>15, <1>16, <1>17,
     <1>18, <1>19, <1>20 DEF TakeFacts
<1> QED
  BY <1>21 DEF T, tail, n

LEMMA TakeChain ==
  ASSUME NEW H, NEW E, NEW top, Chain(H, E, top),
         NEW b, NEW size, NEW rem, Splits(H, b, size, rem)
  PROVE  Chain(Taken(H, b, size, rem), E, top)
<1> DEFINE T == Taken(H, b, size, rem)
           n == Nxt(H, b)
           tail == b + OVERHEAD + size
<1>1. TakeFacts(H, E, b, size, rem, tail, n, T)
  BY TakeFields
<1>2. b \in DOMAIN H /\ H[b].free /\ size >= TLSF_BLOCK_MIN /\ rem >= TLSF_BLOCK_MIN
  BY DEF Splits
<1>3. E \subseteq DOMAIN H /\ tail \notin E
  BY <1>1 DEF Chain, TakeFacts
<1> HIDE DEF T, n, tail
<1>4. n <= top
  <2>1. Linked(H, E, top, b)
    BY <1>2, ChainFacts
  <2> QED
    BY <2>1 DEF Linked, n
<1>5. tail <= top
  <2>1. BlockFacts(H, E, top, b)
    BY <1>2, ChainFacts
  <2> QED
    BY <1>1, <1>4, <2>1 DEF BlockFacts, TakeFacts
<1>6. Linked(T, E, top, tail)
  <2>1. /\ T[tail] \in Headers /\ Nxt(T, tail) = n /\ T[tail].prev = b /\ T[tail].size = rem
        /\ rem # 0 /\ T[tail].free /\ ~T[tail].prev_free /\ b # NULL
        /\ b \in DOMAIN T /\ b \notin E /\ Nxt(T, b) = tail
    BY <1>1, <1>2 DEF TakeFacts
  <2>2. n \in DOMAIN T /\ T[n].prev = tail /\ T[n].prev_free
    BY <1>1 DEF TakeFacts
  <2>3. ASSUME NEW z \in DOMAIN T PROVE ~(tail < z /\ z < n)
    <3>1. /\ b < tail /\ tail < n /\ b \in Int /\ tail \in Int /\ n \in Int
          /\ z = tail \/ (z \in Int /\ ~(b < z /\ z < n))
      BY <1>1 DEF TakeFacts
    <3> QED
      BY <3>1
  <2> QED
    BY <1>2, <1>3, <1>4, <2>1, <2>2, <2>3 DEF Linked
<1>7. ASSUME NEW x \in DOMAIN H PROVE Linked(T, E, top, x)
  <2> DEFINE y == Nxt(H, x)
  <2>1. Linked(H, E, top, x)
    BY ChainFacts
  <2>2. Nxt(T, x) <= top /\ T[x] \in Headers
    BY <1>1, <1>5, <2>1 DEF TakeFacts, Linked
  <2>3. T[x].size # 0 => T[x].size >= TLSF_BLOCK_MIN
    BY <1>1, <1>2, <2>1 DEF TakeFacts, Linked
  <2>4. /\ x \in E => T[x].size = 0 /\ ~T[x].free
        /\ T[x].free => T[x].size # 0
    BY <1>1, <2>1 DEF TakeFacts, Linked
  <2>5. T[x].prev = NULL => T[x].size = 0 /\ ~T[x].free /\ ~T[x].prev_free
    BY <1>1, <2>1, ZenonT(60) DEF TakeFacts, Linked
  <2>6. ASSUME T[x].prev # NULL
        PROVE  T[x].prev \in DOMAIN T /\ T[x].prev \notin E /\ Nxt(T, T[x].prev) = x
    <3>1. CASE x = n
      BY <1>1, <1>3, <3>1 DEF TakeFacts
    <3>2. CASE x # n
      <4> DEFINE p == H[x].prev
      <4>1. T[x].prev = p
        BY <1>1, <3>2 DEF TakeFacts
      <4>2. p \in DOMAIN H /\ p \notin E /\ Nxt(H, p) = x
        BY <2>1, <2>6, <4>1 DEF Linked
      <4> HIDE DEF p
      <4>3. p # b
        BY <1>1, <3>2, <4>2 DEF TakeFacts
      <4> QED
        BY <1>1, <4>1, <4>2, <4>3 DEF TakeFacts
    <3> QED
      BY <3>1, <3>2
  <2>7. ASSUME x \notin E
        PROVE  /\ Nxt(T, x) \in DOMAIN T /\ T[Nxt(T, x)].prev = x
               /\ T[Nxt(T, x)].prev_free = T[x].free
               /\ \A z \in DOMAIN T : ~(x < z /\ z < Nxt(T, x))
    <3>1. CASE x = b
      <4>1. Nxt(T, x) = tail /\ tail \in DOMAIN T
        BY <1>1, <3>1 DEF TakeFacts
      <4>2. T[tail].prev = b /\ T[tail].prev_free = T[x].free
        <5>1. T[x].free = FALSE /\ ~T[tail].prev_free /\ T[tail] \in Headers
          BY <1>1, <3>1 DEF TakeFacts
        <5>2. T[tail].prev_free \in BOOLEAN
          BY <5>1 DEF Headers
        <5> QED
          BY <1>1, <5>1, <5>2 DEF TakeFacts
      <4>3. ASSUME NEW z \in DOMAIN T PROVE ~(b < z /\ z < tail)
        <5>1. /\ tail < n /\ b \in Int /\ tail \in Int /\ n \in Int
              /\ z = tail \/ (z \in Int /\ ~(b < z /\ z < n))
          BY <1>1 DEF TakeFacts
        <5> QED
          BY <5>1
      <4> QED
        BY <3>1, <4>1, <4>2, <4>3
    <3>2. CASE x # b
      <4>1. /\ y \in DOMAIN H /\ H[y].prev = x /\ H[y].prev_free = H[x].free
            /\ \A z \in DOMAIN H : ~(x < z /\ z < y)
        BY <2>1, <2>7 DEF Linked
      <4>2. Nxt(T, x) = y
        BY <1>1, <3>2 DEF TakeFacts
      <4>3. ~(x < tail /\ tail < y)
        <5>1. /\ b < tail /\ tail < n /\ b \in Int /\ tail \in Int /\ n \in Int
              /\ x \in Int /\ y \in Int /\ ~(b < x /\ x < n)
          BY <1>1, <4>1 DEF TakeFacts
        <5>2. ASSUME x < b PROVE y <= b
          BY <1>2, <2>7, <5>2, Before
        <5> HIDE DEF y
        <5> QED
          BY <3>2, <5>1, <5>2
      <4> HIDE DEF y
      <4>4. y # n
        BY <1>1, <3>2, <4>1 DEF TakeFacts
      <4>5. \A z \in DOMAIN T : ~(x < z /\ z < y)
        BY <1>1, <4>1, <4>3 DEF TakeFacts
      <4>6. T[y].prev = x /\ T[y].prev_free = T[x].free /\ y \in DOMAIN T
        BY <1>1, <3>2, <4>1, <4>4 DEF TakeFacts
      <4> QED
        BY <4>2, <4>5, <4>6
    <3> QED
      BY <3>1, <3>2
  <2> QED
    BY <2>2, <2>3, <2>4, <2>5, <2>6, <2>7 DEF Linked
<1>8. DOMAIN T = DOMAIN H \cup {tail} /\ tail \in Addrs
  BY <1>1 DEF TakeFacts
<1>9. \A x \in DOMAIN T : Linked(T, E, top, x)
  BY <1>6, <1>7, <1>8
<1> QED
  BY <1>3, <1>8, <1>9 DEF Chain, T

LEMMA TakeFree ==
  ASSUME NEW H, NEW E, NEW top, Chain(H, E, top),
         NEW b, NEW size, NEW rem, Splits(H, b, size, rem)
  PROVE  /\ FreeIn(Taken(H, b, size, rem)) = (FreeIn(H) \ {b}) \cup {b + OVERHEAD + size}
         /\ Used(Taken(H, b, size, rem)) = Used(H) \cup {b}
         /\ \A x \in DOMAIN H \ {b} : Taken(H, b, size, rem)[x].size = H[x].size
         /\ Pairs(H) = {} => Pairs(Taken(H, b, size, rem)) = {}
<1> DEFINE T == Taken(H, b, size, rem)
           n == Nxt(H, b)
           tail == b + OVERHEAD + size
<1>1. TakeFacts(H, E, b, size, rem, tail, n, T)
  BY TakeFields
<1>2. b \in DOMAIN H /\ H[b].free
  BY DEF Splits
<1> HIDE DEF T, tail
<1>3. FreeIn(T) = (FreeIn(H) \ {b}) \cup {tail}
  <2>1. /\ DOMAIN T = DOMAIN H \cup {tail} /\ T[tail].free /\ b # tail
        /\ \A x \in DOMAIN H : T[x].free = IF x = b THEN FALSE ELSE H[x].free
    BY <1>1 DEF TakeFacts
  <2> QED
    BY <1>2, <2>1 DEF FreeIn
<1>4. Used(T) = Used(H) \cup {b}
  <2>1. /\ DOMAIN T = DOMAIN H \cup {tail} /\ T[tail].free /\ b # tail /\ tail \notin DOMAIN H
        /\ \A x \in DOMAIN H : T[x].free = IF x = b THEN FALSE ELSE H[x].free
        /\ \A x \in DOMAIN H : x # b => T[x].size = H[x].size
        /\ T[b].size = size /\ size # 0
    BY <1>1 DEF TakeFacts
  <2>2. ASSUME NEW x \in Used(T) PROVE x \in Used(H) \cup {b}
    BY <2>1 DEF Used
  <2>3. ASSUME NEW x \in Used(H) \cup {b} PROVE x \in Used(T)
    BY <1>2, <2>1 DEF Used
  <2> QED
    BY <2>2, <2>3
<1>5. \A x \in DOMAIN H \ {b} : T[x].size = H[x].size
  BY <1>1 DEF TakeFacts
<1>6. ASSUME Pairs(H) = {}, NEW x \in Pairs(T) PROVE FALSE
  <2>1. x \in DOMAIN T /\ T[x].free /\ T[Nxt(T, x)].free
    BY DEF Pairs
  <2>2. CASE x = tail
    <3>1. Nxt(T, x) = n /\ n \in DOMAIN H /\ n # b
      BY <1>1, <2>2 DEF TakeFacts
    <3>2. H[n].free
      BY <1>1, <2>1, <3>1 DEF TakeFacts
    <3> QED
      BY <1>2, <1>6, <3>2 DEF Pairs
  <2>3. CASE x # tail
    <3>1. x \in DOMAIN H /\ x # b /\ H[x].free
      BY <1>1, <2>1, <2>3 DEF TakeFacts
    <3>2. Linked(H, E, top, x)
      BY <3>1, ChainFacts
    <3>3. Nxt(H, x) \in DOMAIN H /\ Nxt(T, x) = Nxt(H, x)
      BY <1>1, <3>1, <3>2 DEF Linked, TakeFacts
    <3>4. H[Nxt(H, x)].free
      BY <1>1, <2>1, <3>3, ZenonT(60) DEF TakeFacts
    <3> QED
      BY <1>6, <3>1, <3>4 DEF Pairs
  <2> QED
    BY <2>2, <2>3
<1> QED
  BY <1>3, <1>4, <1>5, <1>6 DEF T, tail

-----------------------------------------------------------------------------
\* The memory from top on becomes a pool: a free block between two sentinels.
Added(H, mem, bytes) ==
  LET mb == mem + OVERHEAD
      se == mem + bytes - OVERHEAD
  IN  [x \in DOMAIN H \cup {mem, mb, se} |->
        IF x = mem THEN [prev |-> NULL, size |-> 0, free |-> FALSE, prev_free |-> FALSE]
        ELSE IF x = se THEN [prev |-> mb, size |-> 0, free |-> FALSE, prev_free |-> TRUE]
        ELSE IF x = mb THEN [prev |-> mem, size |-> bytes - 3 * OVERHEAD, free |-> TRUE,
                             prev_free |-> FALSE]
        ELSE H[x]]

Room(top, bytes) ==
  bytes \in Nat /\ bytes >= 3 * OVERHEAD + TLSF_BLOCK_MIN /\ top + bytes <= HeapLimit

AddFacts(H, mem, bytes, mb, se, A) ==
  /\ mem \in Int /\ mb \in Int /\ se \in Int /\ mem + bytes \in Addrs
  /\ mem < mb /\ mb < se /\ se = mem + bytes - OVERHEAD /\ mb = mem + OVERHEAD
  /\ mem # NULL /\ mb # NULL
  /\ mem \in Addrs /\ mb \in Addrs /\ se \in Addrs
  /\ DOMAIN A = DOMAIN H \cup {mem, mb, se}
  /\ \A x \in DOMAIN H : /\ x \in Int /\ x < mem /\ x # mb /\ x # se
                         /\ A[x] = H[x] /\ Nxt(A, x) = Nxt(H, x)
  /\ A[mem] \in Headers /\ A[mb] \in Headers /\ A[se] \in Headers
  /\ A[mem].prev = NULL /\ A[mem].size = 0 /\ ~A[mem].free /\ ~A[mem].prev_free
  /\ A[mb].prev = mem /\ A[mb].size = bytes - 3 * OVERHEAD /\ A[mb].free /\ ~A[mb].prev_free
  /\ A[mb].size # 0 /\ A[mb].size >= TLSF_BLOCK_MIN
  /\ A[se].prev = mb /\ A[se].size = 0 /\ ~A[se].free /\ A[se].prev_free
  /\ Nxt(A, mem) = mb /\ Nxt(A, mb) = se /\ Nxt(A, se) = mem + bytes

LEMMA AddFields ==
  ASSUME NEW H, NEW E, NEW top, Chain(H, E, top), NEW bytes, Room(top, bytes)
  PROVE  AddFacts(H, top, bytes, top + OVERHEAD, top + bytes - OVERHEAD, Added(H, top, bytes))
<1> DEFINE mb == top + OVERHEAD
           se == top + bytes - OVERHEAD
           size == bytes - 3 * OVERHEAD
           A == Added(H, top, bytes)
           mRec == [prev |-> NULL, size |-> 0, free |-> FALSE, prev_free |-> FALSE]
           sRec == [prev |-> mb, size |-> 0, free |-> FALSE, prev_free |-> TRUE]
           bRec == [prev |-> top, size |-> size, free |-> TRUE, prev_free |-> FALSE]
<1>1. /\ bytes \in Nat /\ bytes >= 3 * OVERHEAD + TLSF_BLOCK_MIN /\ top + bytes <= HeapLimit
      /\ top \in Nat /\ HeapStart <= top /\ top \in Addrs
  BY HeapNumbers DEF Room, Chain
<1>2. /\ mb \in Nat /\ se \in Nat /\ size \in Nat
      /\ top < mb /\ mb < se /\ mb + OVERHEAD + size = se /\ se + OVERHEAD = top + bytes
      /\ size # 0 /\ size >= TLSF_BLOCK_MIN /\ size \in 0 .. HeapLimit - HeapStart
      /\ 0 \in 0 .. HeapLimit - HeapStart
      /\ mb \in Addrs /\ se \in Addrs /\ top + bytes \in Addrs
  BY <1>1, HeapNumbers DEF Addrs
<1>3. top # NULL /\ mb # NULL
  BY <1>1, <1>2, HeapNumbers
<1>4. mRec \in Headers /\ sRec \in Headers /\ bRec \in Headers
  <2> HIDE DEF size, mb, se
  <2> QED
    BY <1>1, <1>2 DEF Headers
<1>5. /\ DOMAIN A = DOMAIN H \cup {top, mb, se}
      /\ \A x \in DOMAIN A : A[x] = IF x = top THEN mRec ELSE IF x = se THEN sRec
                                    ELSE IF x = mb THEN bRec ELSE H[x]
  BY DEF Added
<1> HIDE DEF A
<1>6. ASSUME NEW x \in DOMAIN H PROVE x \in Int /\ x < top
  <2>1. BlockFacts(H, E, top, x)
    BY ChainFacts
  <2> QED
    BY <1>1, <2>1 DEF BlockFacts
<1>7. ASSUME NEW x \in DOMAIN H PROVE x \in Int /\ x < top /\ x # mb /\ x # se /\ A[x] = H[x]
  <2>1. x \in Int /\ x < top
    BY <1>6
  <2>2. x # top /\ x # mb /\ x # se /\ x \in DOMAIN A
    BY <1>1, <1>2, <1>5, <2>1
  <2> QED
    BY <1>5, <2>1, <2>2
<1>8. A[top] = mRec /\ A[mb] = bRec /\ A[se] = sRec
  <2>1. top # mb /\ top # se /\ mb # se
    BY <1>1, <1>2
  <2> HIDE DEF mb, se, mRec, sRec, bRec
  <2> QED
    BY <1>5, <2>1
<1>9. /\ A[top].prev = NULL /\ A[top].size = 0 /\ ~A[top].free /\ ~A[top].prev_free
      /\ A[mb].prev = top /\ A[mb].size = size /\ A[mb].free /\ ~A[mb].prev_free
      /\ A[se].prev = mb /\ A[se].size = 0 /\ ~A[se].free /\ A[se].prev_free
      /\ A[top] \in Headers /\ A[mb] \in Headers /\ A[se] \in Headers
  <2> HIDE DEF mb, se, size
  <2> QED
    BY <1>4, <1>8
<1>10. Nxt(A, top) = mb /\ Nxt(A, mb) = se /\ Nxt(A, se) = top + bytes
  BY <1>1, <1>2, <1>9, HeapNumbers DEF Nxt
<1>11. \A x \in DOMAIN H : Nxt(A, x) = Nxt(H, x)
  BY <1>7 DEF Nxt
<1>12. mb = top + OVERHEAD /\ se = top + bytes - OVERHEAD /\ size = bytes - 3 * OVERHEAD
  OBVIOUS
<1>13. top \in Int /\ mb \in Int /\ se \in Int
  BY <1>1, <1>2
<1> HIDE DEF mb, se, size
<1>14. AddFacts(H, top, bytes, mb, se, A)
  BY <1>1, <1>2, <1>3, <1>5, <1>7, <1>9, <1>10, <1>11, <1>12, <1>13 DEF AddFacts
<1> QED
  BY <1>14 DEF mb, se, A

LEMMA AddChain ==
  ASSUME NEW H, NEW E, NEW top, Chain(H, E, top), NEW bytes, Room(top, bytes)
  PROVE  Chain(Added(H, top, bytes), E \cup {top + bytes - OVERHEAD}, top + bytes)
<1> DEFINE mb == top + OVERHEAD
           se == top + bytes - OVERHEAD
           up == top + bytes
           F == E \cup {se}
           A == Added(H, top, bytes)
<1>1. AddFacts(H, top, bytes, mb, se, A)
  BY AddFields
<1>2. /\ bytes \in Nat /\ OVERHEAD \in Nat \ {0} /\ top \in Int /\ up \in Int
      /\ se + OVERHEAD = up /\ top <= up /\ se <= up
  <2>1. bytes \in Nat /\ OVERHEAD \in Nat \ {0} /\ top \in Int /\ bytes >= 3 * OVERHEAD
    BY <1>1, HeapNumbers DEF Room, AddFacts
  <2> QED
    BY <2>1
<1>3. \A x \in DOMAIN H : x \in F <=> x \in E
  BY <1>1 DEF AddFacts
<1>4. top \notin F /\ mb \notin F /\ se \in F /\ F \subseteq DOMAIN A
  <2>1. E \subseteq DOMAIN H /\ top \notin DOMAIN H /\ mb \notin DOMAIN H
    BY <1>1 DEF AddFacts, Chain
  <2>2. top # se /\ mb # se
    <3> HIDE DEF mb, se
    <3> QED
      BY <1>1 DEF AddFacts
  <2> HIDE DEF mb, se
  <2> QED
    BY <1>1, <2>1, <2>2 DEF AddFacts
<1>5. up \in Addrs
  BY <1>1 DEF AddFacts
<1> HIDE DEF A, F, mb, se, up
<1>6. ASSUME NEW x \in DOMAIN H PROVE Linked(A, F, up, x)
  <2>1. Linked(H, E, top, x) /\ BlockFacts(H, E, top, x)
    BY ChainFacts
  <2>2. A[x] = H[x] /\ Nxt(A, x) = Nxt(H, x)
    BY <1>1 DEF AddFacts
  <2>3. Nxt(H, x) <= up /\ Nxt(H, x) \in Int /\ Nxt(H, x) <= top
    BY <1>2, <2>1 DEF BlockFacts
  <2>4. ASSUME x \notin F
        PROVE  /\ Nxt(H, x) \in DOMAIN A /\ A[Nxt(H, x)].prev = x
               /\ A[Nxt(H, x)].prev_free = H[x].free
               /\ \A z \in DOMAIN A : ~(x < z /\ z < Nxt(H, x))
    <3>1. /\ Nxt(H, x) \in DOMAIN H /\ H[Nxt(H, x)].prev = x
          /\ H[Nxt(H, x)].prev_free = H[x].free
          /\ \A z \in DOMAIN H : ~(x < z /\ z < Nxt(H, x))
      BY <1>3, <2>1, <2>4 DEF Linked
    <3>2. \A z \in {top, mb, se} : z \in Int /\ top <= z
      BY <1>1 DEF AddFacts
    <3>3. \A z \in {top, mb, se} : ~(z < Nxt(H, x))
      BY <1>2, <2>3, <3>2
    <3> QED
      BY <1>1, <3>1, <3>3 DEF AddFacts
  <2>5. ASSUME H[x].prev # NULL
        PROVE  H[x].prev \in DOMAIN A /\ H[x].prev \notin F /\ Nxt(A, H[x].prev) = x
    <3>1. H[x].prev \in DOMAIN H /\ H[x].prev \notin E /\ Nxt(H, H[x].prev) = x
      BY <2>1, <2>5 DEF Linked
    <3> QED
      BY <1>1, <1>3, <3>1 DEF AddFacts
  <2> QED
    BY <1>3, <2>1, <2>2, <2>3, <2>4, <2>5 DEF Linked
<1>7. Linked(A, F, up, top)
  <2>1. /\ Nxt(A, top) = mb /\ A[mb].prev = top /\ ~A[mb].prev_free /\ mb \in DOMAIN A
        /\ A[top].prev = NULL /\ A[top].size = 0 /\ ~A[top].free /\ ~A[top].prev_free
        /\ A[top] \in Headers /\ A[mb] \in Headers /\ mb <= up
    BY <1>1, <1>2 DEF AddFacts
  <2>2. A[mb].prev_free = A[top].free
    BY <2>1 DEF Headers
  <2>3. \A z \in DOMAIN A : ~(top < z /\ z < mb)
    BY <1>1 DEF AddFacts
  <2> QED
    BY <1>4, <2>1, <2>2, <2>3 DEF Linked
<1>8. Linked(A, F, up, mb)
  <2>1. /\ Nxt(A, mb) = se /\ A[se].prev = mb /\ A[se].prev_free /\ se \in DOMAIN A
        /\ A[mb].prev = top /\ A[mb].size # 0 /\ A[mb].size >= TLSF_BLOCK_MIN /\ A[mb].free
        /\ ~A[mb].prev_free /\ top # NULL /\ top \in DOMAIN A /\ Nxt(A, top) = mb
        /\ A[se] \in Headers /\ A[mb] \in Headers
    BY <1>1 DEF AddFacts
  <2>2. A[se].prev_free = A[mb].free
    BY <2>1 DEF Headers
  <2>3. \A z \in DOMAIN A : ~(mb < z /\ z < se)
    BY <1>1 DEF AddFacts
  <2> QED
    BY <1>2, <1>4, <2>1, <2>2, <2>3 DEF Linked
<1>9. Linked(A, F, up, se)
  <2>1. /\ Nxt(A, se) = up /\ A[se].prev = mb /\ A[se].size = 0 /\ ~A[se].free
        /\ A[se] \in Headers /\ mb \in DOMAIN A /\ Nxt(A, mb) = se /\ mb # NULL
    BY <1>1 DEF AddFacts, up
  <2> QED
    BY <1>2, <1>4, <2>1 DEF Linked
<1>10. DOMAIN A = DOMAIN H \cup {top, mb, se} /\ DOMAIN A \subseteq Addrs
  BY <1>1 DEF AddFacts, Chain
<1>11. \A x \in DOMAIN A : Linked(A, F, up, x)
  BY <1>6, <1>7, <1>8, <1>9, <1>10
<1>12. Chain(A, F, up)
  BY <1>4, <1>5, <1>10, <1>11 DEF Chain
<1> QED
  BY <1>12 DEF A, F, se, up

LEMMA AddFree ==
  ASSUME NEW H, NEW E, NEW top, Chain(H, E, top), NEW bytes, Room(top, bytes)
  PROVE  /\ FreeIn(Added(H, top, bytes)) = FreeIn(H) \cup {top + OVERHEAD}
         /\ Used(Added(H, top, bytes)) = Used(H)
         /\ \A x \in DOMAIN H : Added(H, top, bytes)[x] = H[x]
         /\ top + OVERHEAD \in DOMAIN Added(H, top, bytes) \ DOMAIN H
         /\ DOMAIN H \subseteq DOMAIN Added(H, top, bytes)
         /\ Pairs(H) = {} => Pairs(Added(H, top, bytes)) = {}
<1> DEFINE mb == top + OVERHEAD
           se == top + bytes - OVERHEAD
           A == Added(H, top, bytes)
<1>1. AddFacts(H, top, bytes, mb, se, A)
  BY AddFields
<1> HIDE DEF A, mb, se
<1>2. /\ DOMAIN A = DOMAIN H \cup {top, mb, se}
      /\ \A x \in DOMAIN H : A[x] = H[x] /\ Nxt(A, x) = Nxt(H, x)
      /\ ~A[top].free /\ A[mb].free /\ ~A[se].free
      /\ A[top].size = 0 /\ A[se].size = 0 /\ Nxt(A, mb) = se
      /\ top \notin DOMAIN H /\ mb \notin DOMAIN H /\ se \notin DOMAIN H
  BY <1>1 DEF AddFacts
<1>3. FreeIn(A) = FreeIn(H) \cup {mb}
  BY <1>2 DEF FreeIn
<1>4. Used(A) = Used(H)
  BY <1>2 DEF Used
<1>5. ASSUME Pairs(H) = {}, NEW x \in Pairs(A) PROVE FALSE
  <2>1. x \in DOMAIN A /\ A[x].free /\ A[Nxt(A, x)].free
    BY DEF Pairs
  <2>2. x \in DOMAIN H /\ H[x].free
    BY <1>2, <2>1
  <2>3. Linked(H, E, top, x)
    BY <2>2, ChainFacts
  <2>4. Nxt(H, x) \in DOMAIN H
    BY <2>2, <2>3 DEF Linked
  <2>5. H[Nxt(H, x)].free
    BY <1>2, <2>1, <2>2, <2>4
  <2> QED
    BY <1>5, <2>2, <2>5 DEF Pairs
<1> QED
  BY <1>2, <1>3, <1>4, <1>5 DEF A, mb

-----------------------------------------------------------------------------
(***************************************************************************)
(* The search for a free block.                                            *)
(***************************************************************************)
LEMMA LeastMember ==
  ASSUME NEW S, S \subseteq Nat, S # {}
  PROVE  LeastOf(S) \in S
<1>1. PICK s0 \in S : TRUE
  OBVIOUS
<1>2. S \in SUBSET Nat
  OBVIOUS
<1>3. \E s \in S : \A u \in S : s <= u
  BY <1>1, <1>2, LeastElement
<1> QED
  BY <1>3 DEF LeastOf

LEMMA SearchFinds ==
  ASSUME NEW h, NEW S, ListsHold(h, S), NEW c \in FLs \X SLs
  PROVE  /\ \A x \in find_free_block(h, c) : x \in S /\ Below(c, map_insert(h.hdr[x].size))
         /\ (\E x \in S : Below(c, map_insert(h.hdr[x].size))) => find_free_block(h, c) # {}
<1> DEFINE sls == {s \in h.sl_bitmap[c[1]] : s >= c[2]}
           fls == {f \in h.fl_bitmap : f > c[1]}
           fl == LeastOf(fls)
           s1 == LeastOf(sls)
           s2 == LeastOf(h.sl_bitmap[fl])
           found == find_free_block(h, c)
<1>1. PICK f0 \in FLs, s0 \in SLs : c = <<f0, s0>>
  OBVIOUS
<1>2. c[1] = f0 /\ c[2] = s0 /\ FLs \subseteq Nat /\ SLs \subseteq Nat
  <2>1. FL_INDEX_COUNT \in Int /\ SL_CLASS_COUNT \in Int
    BY TlsfAssumption, BlockMin DEF FL_INDEX_COUNT, FL_INDEX_SHIFT
  <2> QED
    BY <1>1, <2>1 DEF FLs, SLs
<1>3. /\ \A f \in FLs, s \in SLs :
           h.free_lists[<<f, s>>] = {b \in S : map_insert(h.hdr[b].size) = <<f, s>>}
      /\ \A f \in FLs : h.sl_bitmap[f] = {s \in SLs : h.free_lists[<<f, s>>] # {}}
      /\ h.fl_bitmap = {f \in FLs : h.sl_bitmap[f] # {}}
  BY DEF ListsHold
<1>4. found = IF sls # {} THEN h.free_lists[<<f0, s1>>]
              ELSE IF fls # {} THEN h.free_lists[<<fl, s2>>] ELSE {}
  BY <1>2 DEF find_free_block
<1>5. sls \subseteq SLs /\ fls \subseteq FLs /\ sls \subseteq Nat /\ fls \subseteq Nat
  BY <1>2, <1>3
<1>6. sls # {} => s1 \in sls
  <2> HIDE DEF sls
  <2> QED
    BY <1>5, LeastMember
<1>7. fls # {} => fl \in fls
  <2> HIDE DEF fls
  <2> QED
    BY <1>5, LeastMember
<1>8. ASSUME fls # {} PROVE fl \in FLs /\ fl > f0 /\ s2 \in h.sl_bitmap[fl]
  <2>1. fl \in FLs /\ fl > f0 /\ fl \in h.fl_bitmap
    BY <1>2, <1>5, <1>7, <1>8
  <2> HIDE DEF fl
  <2>2. h.sl_bitmap[fl] # {} /\ h.sl_bitmap[fl] \subseteq Nat
    BY <1>2, <1>3, <2>1
  <2> QED
    BY <2>1, <2>2, LeastMember
<1>9. sls = {s \in h.sl_bitmap[f0] : s >= s0} /\ fls = {f \in h.fl_bitmap : f > f0}
  BY <1>2
<1> HIDE DEF fl, s1, s2, found, sls, fls
<1>10. CASE sls # {}
  <2>1. s1 \in SLs /\ s1 >= s0 /\ h.free_lists[<<f0, s1>>] # {}
    BY <1>3, <1>6, <1>9, <1>10
  <2>2. \A x \in found : x \in S /\ map_insert(h.hdr[x].size) = <<f0, s1>>
    BY <1>3, <1>4, <1>10, <2>1
  <2>3. Below(c, <<f0, s1>>)
    BY <1>2, <2>1 DEF Below
  <2> QED
    BY <1>4, <1>10, <2>1, <2>2, <2>3 DEF found
<1>11. CASE sls = {} /\ fls # {}
  <2>1. s2 \in SLs /\ fl \in FLs /\ fl > f0 /\ h.free_lists[<<fl, s2>>] # {}
    BY <1>3, <1>8, <1>11
  <2>2. \A x \in found : x \in S /\ map_insert(h.hdr[x].size) = <<fl, s2>>
    BY <1>3, <1>4, <1>11, <2>1
  <2>3. Below(c, <<fl, s2>>)
    BY <1>2, <2>1 DEF Below
  <2> QED
    BY <1>4, <1>11, <2>1, <2>2, <2>3 DEF found
<1>12. CASE sls = {} /\ fls = {}
  <2>1. found = {}
    BY <1>4, <1>12
  <2>2. ASSUME NEW x \in S, Below(c, map_insert(h.hdr[x].size)) PROVE FALSE
    <3>1. map_insert(h.hdr[x].size) \in FLs \X SLs
      BY DEF ListsHold
    <3>2. PICK f \in FLs, s \in SLs : map_insert(h.hdr[x].size) = <<f, s>>
      BY <3>1
    <3>3. x \in h.free_lists[<<f, s>>]
      BY <1>3, <3>2
    <3>4. s \in h.sl_bitmap[f] /\ f \in h.fl_bitmap
      BY <1>3, <3>3
    <3>5. f0 < f \/ (f0 = f /\ s0 <= s)
      BY <1>2, <2>2, <3>2 DEF Below
    <3>6. f \in Nat /\ s \in Nat /\ f0 \in Nat /\ s0 \in Nat
      BY <1>2
    <3> QED
      BY <1>9, <1>12, <3>4, <3>5, <3>6
  <2> QED
    BY <2>1, <2>2 DEF found
<1> QED
  BY <1>10, <1>11, <1>12

\* A request that is not above the limit.
Asked(a) == a \in Nat /\ TLSF_BLOCK_MIN <= a

LEMMA CandidatesFit ==
  ASSUME NEW h, NEW E, NEW top, Chain(h.hdr, E, top), ListsHold(h, FreeIn(h.hdr)),
         NEW a, Asked(a)
  PROVE  /\ \A b \in Candidates(h, a) :
              b \in DOMAIN h.hdr /\ h.hdr[b].free /\ h.hdr[b].size # 0 /\ a <= h.hdr[b].size
         /\ a <= Pow2[FL_INDEX_MAX]
              /\ (\E b \in FreeIn(h.hdr) : h.hdr[b].size >= RoundUp(a))
            => Candidates(h, a) # {}
<1>0. Pow2[FL_INDEX_MAX] \in Nat /\ Pow2[FL_INDEX_MAX + 1] = 2 * Pow2[FL_INDEX_MAX]
      /\ Pow2[FL_INDEX_MAX] # 0
  BY Pow2Facts, TlsfAssumption
<1>1. CASE a > Pow2[FL_INDEX_MAX]
  <2>1. Candidates(h, a) = {}
    BY <1>1 DEF Candidates
  <2> QED
    BY <1>0, <1>1, <2>1 DEF Asked
<1>2. CASE ~(a > Pow2[FL_INDEX_MAX])
  <2> DEFINE c == map_search(a)
             z == RoundUp(a)
  <2>1. a \in Classed /\ a <= Pow2[FL_INDEX_MAX]
    BY <1>0, <1>2, BlockMin DEF Asked, Classed
  <2>2. z \in Classed /\ c = map_insert(z)
    BY <2>1, RoundUpClassed DEF map_search
  <2> HIDE DEF z
  <2>3. c \in FLs \X SLs
    BY <2>2, ClassOf DEF ClassFacts
  <2>4. ~(c[1] >= FL_INDEX_COUNT)
    <3>1. c[1] \in FLs
      BY <2>3
    <3>2. FL_INDEX_COUNT \in Int
      BY TlsfAssumption DEF FL_INDEX_COUNT, FL_INDEX_SHIFT
    <3> HIDE DEF c
    <3> QED
      BY <3>1, <3>2 DEF FLs
  <2>5. Candidates(h, a) = find_free_block(h, c)
    BY <1>2, <2>4 DEF Candidates
  <2>6. /\ \A x \in find_free_block(h, c) :
             x \in FreeIn(h.hdr) /\ Below(c, map_insert(h.hdr[x].size))
        /\ (\E x \in FreeIn(h.hdr) : Below(c, map_insert(h.hdr[x].size)))
             => find_free_block(h, c) # {}
    <3> HIDE DEF c
    <3> QED
      BY <2>3, SearchFinds
  <2>7. ASSUME NEW b \in FreeIn(h.hdr)
        PROVE  b \in DOMAIN h.hdr /\ h.hdr[b].free /\ h.hdr[b].size # 0 /\ h.hdr[b].size \in Classed
    <3>1. b \in DOMAIN h.hdr /\ h.hdr[b].free
      BY DEF FreeIn
    <3>2. Linked(h.hdr, E, top, b)
      BY <3>1, ChainFacts
    <3>3. h.hdr[b].size # 0
      BY <3>1, <3>2 DEF Linked
    <3> QED
      BY <3>1, <3>3, SizeClassed
  <2>8. ASSUME NEW b \in Candidates(h, a)
        PROVE  b \in DOMAIN h.hdr /\ h.hdr[b].free /\ h.hdr[b].size # 0 /\ a <= h.hdr[b].size
    <3>1. b \in FreeIn(h.hdr) /\ Below(c, map_insert(h.hdr[b].size))
      BY <2>5, <2>6
    <3>2. b \in DOMAIN h.hdr /\ h.hdr[b].free /\ h.hdr[b].size # 0 /\ h.hdr[b].size \in Classed
      BY <2>7, <3>1
    <3> QED
      BY <2>1, <3>1, <3>2, SearchLarge
  <2>9. ASSUME NEW b \in FreeIn(h.hdr), h.hdr[b].size >= z PROVE Candidates(h, a) # {}
    <3>1. z \in Int /\ h.hdr[b].size \in Int /\ h.hdr[b].size \in Classed
      BY <2>2, <2>7 DEF Classed
    <3>2. Below(c, map_insert(h.hdr[b].size))
      BY <2>2, <2>9, <3>1, ClassMonotone
    <3> QED
      BY <2>5, <2>6, <3>2
  <2> QED
    BY <2>8, <2>9 DEF z
<1> QED
  BY <1>1, <1>2

-----------------------------------------------------------------------------
(***************************************************************************)
(* The calls keep the heap sound: h is a heap, L what callers hold of it.  *)
(***************************************************************************)
Sound(h, E, top, L) ==
  /\ Chain(h.hdr, E, top)
  /\ ListsHold(h, FreeIn(h.hdr))
  /\ Pairs(h.hdr) = {}
  /\ Holds(h.hdr, L)

\* The same while block b is between the lists and a holder: it is marked
\* free, in no list yet, and what may still merge is in P.
Loose(h, E, top, L, b, P) ==
  /\ Chain(h.hdr, E, top)
  /\ b \in FreeIn(h.hdr)
  /\ ListsHold(h, FreeIn(h.hdr) \ {b})
  /\ Pairs(h.hdr) \subseteq P
  /\ Holds(h.hdr, L)

LEMMA HoldsKept ==
  ASSUME NEW H, NEW J, NEW L, Holds(H, L),
         Used(J) = Used(H), \A x \in Used(H) : J[x].size = H[x].size
  PROVE  Holds(J, L)
BY DEF Holds

\* set_next_prev_free after set_free marks the block on both sides.
MarkHeap(h, b, f) == set_next_prev_free(set_free(h, b, f), b, f)

LEMMA MarkOp ==
  ASSUME NEW h, NEW E, NEW top, Chain(h.hdr, E, top), NEW b \in DOMAIN h.hdr,
         h.hdr[b].size # 0, NEW f \in BOOLEAN, NEW S, ListsHold(h, S)
  PROVE  MarkHeap(h, b, f).hdr = Marked(h.hdr, b, f) /\ ListsHold(MarkHeap(h, b, f), S)
<1> DEFINE H == h.hdr
           n == Nxt(H, b)
           G == [H EXCEPT ![b] = WithFree(H[b], f)]
           g == WithHdr(h, G)
           K == [G EXCEPT ![n] = WithPrevFree(G[n], f)]
           M == Marked(H, b, f)
<1>1. Linked(H, E, top, b) /\ BlockFacts(H, E, top, b)
  BY ChainFacts
<1>2. b # n /\ n \in DOMAIN H
  BY <1>1 DEF Linked, BlockFacts
<1>3. \A x \in DOMAIN H : G[x] = IF x = b THEN WithFree(H[b], f) ELSE H[x]
  OBVIOUS
<1>4. DOMAIN G = DOMAIN H /\ G[b].size = H[b].size
  BY <1>3 DEF WithFree
<1>5. set_free(h, b, f) = g /\ g.hdr = G
  BY DEF set_free, WithHdr
<1> HIDE DEF g, G, n
<1>6. next_phys(g, b) = n
  BY <1>4, <1>5 DEF next_phys, n, Nxt
<1>7. MarkHeap(h, b, f) = WithHdr(g, K)
  BY <1>5, <1>6 DEF MarkHeap, set_next_prev_free
<1>8. K = M
  <2>1. DOMAIN K = DOMAIN H /\ DOMAIN M = DOMAIN H
    BY <1>4 DEF Marked
  <2>2. K = [x \in DOMAIN H |-> IF x = b THEN WithFree(H[x], f)
                                ELSE IF x = n THEN WithPrevFree(H[x], f) ELSE H[x]]
    BY <1>2, <1>3, <1>4
  <2> QED
    BY <2>2 DEF Marked, n
<1> HIDE DEF K, M
<1>9. /\ DOMAIN M = DOMAIN H
      /\ \A x \in DOMAIN H : M[x].size = H[x].size /\ G[x].size = H[x].size
  <2>1. /\ DOMAIN M = DOMAIN H
        /\ \A x \in DOMAIN H : M[x].size = H[x].size
    BY MarkFields DEF M
  <2>2. \A x \in DOMAIN H : G[x].size = H[x].size
    BY <1>3 DEF WithFree
  <2> QED
    BY <2>1, <2>2
<1>10. S \subseteq DOMAIN H
  BY DEF ListsHold
<1>11. ListsHold(g, S)
  BY <1>4, <1>9, <1>10, ListsKept DEF g
<1>12. ListsHold(WithHdr(g, M), S) /\ WithHdr(g, M).hdr = M
  BY <1>5, <1>9, <1>10, <1>11, ListsKept
<1> QED
  BY <1>7, <1>8, <1>12 DEF M

LEMMA JoinOp ==
  ASSUME NEW h, NEW S, ListsHold(h, S), NEW b, NEW c, b \notin S, c \notin S,
         NEW E, NEW top, Chain(h.hdr, E, top), Joinable(h.hdr, E, b, c)
  PROVE  Join(h, b, c).hdr = Joined(h.hdr, b, c) /\ ListsHold(Join(h, b, c), S)
<1> DEFINE J == Joined(h.hdr, b, c)
<1>1. Join(h, b, c) = WithHdr(h, J)
  BY DEF Join, Joined
<1>2. \A x \in DOMAIN h.hdr \ {b, c} : J[x].size = h.hdr[x].size
  BY JoinFree
<1>3. DOMAIN J = DOMAIN h.hdr \ {c}
  BY DEF Joined
<1>4. S \subseteq DOMAIN h.hdr
  BY DEF ListsHold
<1> HIDE DEF J
<1>5. ListsHold(WithHdr(h, J), S) /\ WithHdr(h, J).hdr = J
  BY <1>2, <1>3, <1>4, ListsKept
<1> QED
  BY <1>1, <1>5 DEF J

LEMMA MergeNext ==
  ASSUME NEW h, NEW E, NEW top, NEW L, NEW b, NEW p,
         Loose(h, E, top, L, b, {b, p}), p = h.hdr[b].prev
  PROVE  Loose(merge_next(h, b), E, top, L, b, {p}) /\ merge_next(h, b).hdr[b].prev = p
<1> DEFINE H == h.hdr
           c == Nxt(H, b)
           g == fl_remove(h, c)
           F == FreeIn(H)
<1>0. /\ Chain(H, E, top) /\ b \in F /\ ListsHold(h, F \ {b})
      /\ Pairs(H) \subseteq {b, p} /\ Holds(H, L)
  BY DEF Loose
<1>1. b \in DOMAIN H /\ H[b].free
  BY <1>0 DEF FreeIn
<1>2. Linked(H, E, top, b) /\ BlockFacts(H, E, top, b)
  BY <1>0, <1>1, ChainFacts
<1>3. b \notin E /\ c \in DOMAIN H /\ H[c].prev = b /\ b # c /\ b \in Nat
  BY <1>1, <1>2 DEF Linked, BlockFacts
<1>4. Linked(H, E, top, c) /\ BlockFacts(H, E, top, c)
  BY <1>0, <1>3, ChainFacts
<1>5. next_phys(h, b) = c
  BY DEF next_phys, Nxt
<1> HIDE DEF c, g, F
<1>6. CASE H[c].free
  <2>1. H[c].size # 0 /\ c \notin E
    BY <1>4, <1>6 DEF Linked
  <2>2. c \in F \ {b}
    BY <1>3, <1>6 DEF F, FreeIn
  <2>3. g.hdr = H /\ ListsHold(g, (F \ {b}) \ {c})
    BY <1>0, <2>2, ListsRemove DEF g
  <2>4. merge_next(h, b) = Join(g, b, c)
    BY <1>5, <1>6, <2>1 DEF merge_next, g
  <2>5. Joinable(H, E, b, c)
    BY <1>1, <1>3, <1>6, <2>1 DEF Joinable, c
  <2> DEFINE J == Joined(H, b, c)
             j == Join(g, b, c)
  <2>6. j.hdr = J /\ ListsHold(j, (F \ {b}) \ {c})
    BY <1>0, <2>3, <2>5, JoinOp
  <2>7. c \notin Pairs(H)
    <3>1. c # p
      <4>1. b < c /\ c \in Nat
        BY <1>2, <1>4 DEF BlockFacts, c
      <4>2. H[b].prev # NULL => Nxt(H, p) = b /\ p \in DOMAIN H
        BY <1>2 DEF Linked
      <4>3. c # NULL
        BY <1>4 DEF BlockFacts
      <4>4. H[b].prev # NULL => p < b /\ p \in Nat
        <5>1. ASSUME H[b].prev # NULL PROVE BlockFacts(H, E, top, p)
          BY <1>0, <4>2, <5>1, ChainFacts
        <5> QED
          BY <4>2, <5>1 DEF BlockFacts
      <4> QED
        BY <1>3, <4>1, <4>3, <4>4
    <3> QED
      BY <1>0, <1>3, <3>1
  <2>8. Chain(J, E, top)
    BY <1>0, <2>5, JoinChain
  <2>9. /\ FreeIn(J) = F \ {c} /\ Used(J) = Used(H)
        /\ \A x \in DOMAIN H \ {b, c} : J[x].size = H[x].size
        /\ Pairs(J) \subseteq Pairs(H) \ {b}
    BY <1>0, <2>5, <2>7, JoinFree DEF F
  <2>10. Holds(J, L)
    <3>1. \A x \in Used(H) : x \in DOMAIN H \ {b, c}
      BY <1>1, <1>6 DEF Used
    <3> HIDE DEF J
    <3> QED
      BY <1>0, <2>9, <3>1, HoldsKept
  <2>11. J[b].prev = p
    <3>1. JoinFacts(H, E, b, c, Nxt(H, c), J)
      BY <1>0, <2>5, JoinFields
    <3> HIDE DEF J
    <3> QED
      BY <1>1, <3>1 DEF JoinFacts
  <2> HIDE DEF J, j
  <2>12. (F \ {b}) \ {c} = FreeIn(J) \ {b} /\ b \in FreeIn(J)
    BY <1>0, <1>3, <2>9
  <2>13. ListsHold(j, FreeIn(j.hdr) \ {b})
    BY <2>6, <2>12
  <2>14. Pairs(J) \subseteq {p}
    BY <1>0, <2>9
  <2>15. Loose(j, E, top, L, b, {p})
    BY <2>6, <2>8, <2>10, <2>12, <2>13, <2>14 DEF Loose
  <2> QED
    BY <2>4, <2>6, <2>11, <2>15 DEF j
<1>7. CASE ~H[c].free
  <2>1. merge_next(h, b) = h
    BY <1>5, <1>7 DEF merge_next
  <2>2. b \notin Pairs(H)
    BY <1>7 DEF Pairs, c
  <2>3. Pairs(H) \subseteq {p}
    BY <1>0, <2>2
  <2> QED
    BY <1>0, <2>1, <2>3 DEF Loose, F
<1> QED
  BY <1>6, <1>7

LEMMA MergePrev ==
  ASSUME NEW h, NEW E, NEW top, NEW L, NEW b, Loose(h, E, top, L, b, {h.hdr[b].prev})
  PROVE  Sound(merge_prev(h, b), E, top, L)
<1> DEFINE H == h.hdr
           p == H[b].prev
           g == fl_remove(h, p)
           F == FreeIn(H)
<1>0. /\ Chain(H, E, top) /\ b \in F /\ ListsHold(h, F \ {b})
      /\ Pairs(H) \subseteq {p} /\ Holds(H, L)
  BY DEF Loose
<1>1. b \in DOMAIN H /\ H[b].free
  BY <1>0 DEF FreeIn
<1>2. Linked(H, E, top, b) /\ BlockFacts(H, E, top, b)
  BY <1>0, <1>1, ChainFacts
<1>3. b \notin E /\ H[b].size # 0 /\ p # NULL
  BY <1>1, <1>2 DEF Linked
<1>4. p \in DOMAIN H /\ p \notin E /\ Nxt(H, p) = b
  BY <1>2, <1>3 DEF Linked
<1>5. Linked(H, E, top, p) /\ BlockFacts(H, E, top, p)
  BY <1>0, <1>4, ChainFacts
<1>6. H[b].prev_free = H[p].free /\ p # b
  BY <1>4, <1>5 DEF Linked, BlockFacts
<1> HIDE DEF p, g, F
<1>7. CASE H[b].prev_free
  <2>1. H[p].free
    BY <1>6, <1>7
  <2>2. p \in F \ {b}
    BY <1>4, <1>6, <2>1 DEF F, FreeIn
  <2>3. g.hdr = H /\ ListsHold(g, (F \ {b}) \ {p})
    BY <1>0, <2>2, ListsRemove DEF g
  <2> DEFINE J == Joined(H, p, b)
             j == Join(g, p, b)
  <2>4. merge_prev(h, b) = fl_insert(j, p)
    BY <1>7 DEF merge_prev, g, p
  <2>5. Joinable(H, E, p, b)
    BY <1>1, <1>3, <1>4, <2>1 DEF Joinable
  <2>6. j.hdr = J /\ ListsHold(j, (F \ {b}) \ {p})
    BY <1>0, <2>3, <2>5, JoinOp
  <2>7. b \notin Pairs(H)
    BY <1>0, <1>6
  <2>8. Chain(J, E, top)
    BY <1>0, <2>5, JoinChain
  <2>9. /\ FreeIn(J) = F \ {b} /\ Used(J) = Used(H)
        /\ \A x \in DOMAIN H \ {p, b} : J[x].size = H[x].size
        /\ Pairs(J) \subseteq Pairs(H) \ {p}
    BY <1>0, <2>5, <2>7, JoinFree DEF F
  <2>10. Holds(J, L)
    <3>1. \A x \in Used(H) : x \in DOMAIN H \ {p, b}
      BY <1>1, <2>1 DEF Used
    <3> HIDE DEF J
    <3> QED
      BY <1>0, <2>9, <3>1, HoldsKept
  <2>11. p \in DOMAIN J /\ J[p].size # 0
    <3>1. JoinFacts(H, E, p, b, Nxt(H, b), J)
      BY <1>0, <2>5, JoinFields
    <3> HIDE DEF J
    <3> QED
      BY <1>4, <1>6, <3>1 DEF JoinFacts
  <2> HIDE DEF J, j
  <2>12. map_insert(J[p].size) \in FLs \X SLs
    BY <2>8, <2>11, SizeClassed
  <2>13. fl_insert(j, p).hdr = J /\ ListsHold(fl_insert(j, p), ((F \ {b}) \ {p}) \cup {p})
    BY <2>6, <2>11, <2>12, ListsInsert
  <2>14. ((F \ {b}) \ {p}) \cup {p} = FreeIn(J)
    BY <2>2, <2>9
  <2>15. Pairs(J) = {}
    BY <1>0, <2>9
  <2> QED
    BY <2>4, <2>8, <2>10, <2>13, <2>14, <2>15 DEF Sound
<1>8. CASE ~H[b].prev_free
  <2>1. merge_prev(h, b) = fl_insert(h, b)
    BY <1>8 DEF merge_prev
  <2>2. p \notin Pairs(H)
    BY <1>6, <1>8 DEF Pairs
  <2>3. Pairs(H) = {}
    BY <1>0, <2>2
  <2>4. map_insert(H[b].size) \in FLs \X SLs
    BY <1>0, <1>1, <1>3, SizeClassed
  <2>5. fl_insert(h, b).hdr = H /\ ListsHold(fl_insert(h, b), (F \ {b}) \cup {b})
    BY <1>0, <1>1, <2>4, ListsInsert
  <2>6. (F \ {b}) \cup {b} = FreeIn(H)
    BY <1>0 DEF F
  <2> QED
    BY <1>0, <2>1, <2>3, <2>5, <2>6 DEF Sound
<1> QED
  BY <1>7, <1>8

\* Giving a block back.
LEMMA FreeKeeps ==
  ASSUME NEW h, NEW E, NEW top, NEW L, Sound(h, E, top, L), NEW x \in L
  PROVE  Sound(free(h, x.blk), E, top, L \ {x})
<1> DEFINE H == h.hdr
           b == x.blk
           p == H[b].prev
           g == MarkHeap(h, b, TRUE)
           M == Marked(H, b, TRUE)
           K == L \ {x}
<1>0. Chain(H, E, top) /\ ListsHold(h, FreeIn(H)) /\ Pairs(H) = {} /\ Holds(H, L)
  BY DEF Sound
<1>1. b \in Used(H)
  BY <1>0 DEF Holds
<1>2. b \in DOMAIN H /\ ~H[b].free /\ H[b].size # 0
  BY <1>1 DEF Used
<1> HIDE DEF b, p, g, K
<1>3. g.hdr = M /\ ListsHold(g, FreeIn(H))
  BY <1>0, <1>2, MarkOp DEF g
<1>4. Chain(M, E, top)
  BY <1>0, <1>2, MarkChain
<1>5. FreeIn(M) = FreeIn(H) \cup {b} /\ Pairs(M) \subseteq {b, p}
  BY <1>0, <1>2, MarkFree DEF p
<1>6. FreeIn(H) = FreeIn(M) \ {b} /\ b \in FreeIn(M)
  BY <1>2, <1>5 DEF FreeIn
<1>7. /\ DOMAIN M = DOMAIN H
      /\ \A y \in DOMAIN H : /\ M[y].prev = H[y].prev /\ M[y].size = H[y].size
                             /\ y # b => M[y].free = H[y].free
      /\ M[b].free
  <2>1. ASSUME NEW f \in BOOLEAN
        PROVE  /\ DOMAIN Marked(H, b, f) = DOMAIN H
               /\ \A y \in DOMAIN H :
                    /\ Marked(H, b, f)[y].prev = H[y].prev
                    /\ Marked(H, b, f)[y].size = H[y].size
                    /\ y # b => Marked(H, b, f)[y].free = H[y].free
    BY <1>0, <1>2, MarkFields
  <2>2. M[b].free
    BY <1>6 DEF FreeIn
  <2> QED
    BY <2>1, <2>2
<1> HIDE DEF M
<1>8. Used(M) = Used(H) \ {b}
  BY <1>2, <1>7 DEF Used
<1>9. Holds(M, K)
  <2>1. \A y \in L : y \in [blk : Used(H), size : Nat] /\ y.size > 0 /\ y.size <= H[y.blk].size
    BY <1>0 DEF Holds
  <2>2. \A y, z \in L : y.blk = z.blk => y = z
    BY <1>0 DEF Holds
  <2>3. ASSUME NEW y \in K
        PROVE  y \in [blk : Used(M), size : Nat] /\ y.size > 0 /\ y.size <= M[y.blk].size
    <3>1. y \in L /\ y.blk # b
      BY <2>2 DEF K, b
    <3>2. y \in [blk : Used(H), size : Nat] /\ y.size > 0 /\ y.size <= H[y.blk].size
      BY <2>1, <3>1
    <3>3. y.blk \in Used(M) /\ y.blk \in DOMAIN H
      BY <1>8, <3>1, <3>2 DEF Used
    <3>4. y \in [blk : Used(M), size : Nat]
      BY <3>2, <3>3
    <3> QED
      BY <1>7, <3>2, <3>3, <3>4
  <2>4. ASSUME NEW c \in Used(M) PROVE \E y \in K : y.blk = c
    <3>1. c \in Used(H) /\ c # b
      BY <1>8
    <3>2. PICK y \in L : y.blk = c
      BY <1>0, <3>1 DEF Holds
    <3> QED
      BY <3>1, <3>2 DEF K, b
  <2>5. \A y, z \in K : y.blk = z.blk => y = z
    BY <2>2 DEF K
  <2> QED
    BY <2>3, <2>4, <2>5 DEF Holds
<1>10. M[b].prev = p
  BY <1>2, <1>7 DEF p
<1>11. Loose(g, E, top, K, b, {b, p})
  BY <1>3, <1>4, <1>5, <1>6, <1>9 DEF Loose
<1> DEFINE m == merge_next(g, b)
<1>12. Loose(m, E, top, K, b, {p}) /\ m.hdr[b].prev = p
  BY <1>3, <1>10, <1>11, MergeNext
<1> HIDE DEF m
<1>13. Sound(merge_prev(m, b), E, top, K)
  BY <1>12, MergePrev
<1>14. free(h, x.blk) = merge_prev(m, b)
  BY DEF free, m, g, b, MarkHeap
<1> QED
  BY <1>13, <1>14 DEF K

\* A pool is added at the end of the heap.
LEMMA PoolKeeps ==
  ASSUME NEW h, NEW E, NEW top, NEW L, Sound(h, E, top, L), NEW bytes, Room(top, bytes)
  PROVE  /\ Sound(add_pool(h, top, bytes), E \cup {top + bytes - OVERHEAD}, top + bytes, L)
         /\ DOMAIN h.hdr \subseteq DOMAIN add_pool(h, top, bytes).hdr
<1> DEFINE H == h.hdr
           A == Added(H, top, bytes)
           mb == top + OVERHEAD
           F == E \cup {top + bytes - OVERHEAD}
           g == WithHdr(h, A)
<1>0. Chain(H, E, top) /\ ListsHold(h, FreeIn(H)) /\ Pairs(H) = {} /\ Holds(H, L)
  BY DEF Sound
<1>1. ~(bytes < 3 * OVERHEAD + TLSF_BLOCK_MIN)
  BY HeapNumbers DEF Room
<1>2. add_pool(h, top, bytes) = fl_insert(g, mb)
  BY <1>1 DEF add_pool, Added
<1>3. /\ FreeIn(A) = FreeIn(H) \cup {mb} /\ Used(A) = Used(H)
      /\ \A x \in DOMAIN H : A[x] = H[x]
      /\ mb \in DOMAIN A /\ DOMAIN H \subseteq DOMAIN A /\ Pairs(A) = {}
  BY <1>0, AddFree
<1>4. Chain(A, F, top + bytes)
  BY <1>0, AddChain
<1>5. A[mb].size # 0
  <2>1. AddFacts(H, top, bytes, mb, top + bytes - OVERHEAD, A)
    BY <1>0, AddFields
  <2> HIDE DEF A, mb
  <2> QED
    BY <2>1 DEF AddFacts
<1> HIDE DEF A, mb, F
<1>6. map_insert(A[mb].size) \in FLs \X SLs
  BY <1>3, <1>4, <1>5, SizeClassed
<1>7. FreeIn(H) \subseteq DOMAIN H
  BY DEF FreeIn
<1>8. g.hdr = A /\ ListsHold(g, FreeIn(H))
  BY <1>0, <1>3, <1>7, ListsKept
<1> HIDE DEF g
<1>9. fl_insert(g, mb).hdr = A /\ ListsHold(fl_insert(g, mb), FreeIn(H) \cup {mb})
  BY <1>3, <1>6, <1>8, ListsInsert
<1>10. Holds(A, L)
  <2>1. \A x \in Used(H) : A[x].size = H[x].size
    BY <1>3 DEF Used
  <2> QED
    BY <1>0, <1>3, <2>1, HoldsKept
<1>11. Sound(fl_insert(g, mb), F, top + bytes, L)
  BY <1>3, <1>4, <1>9, <1>10 DEF Sound
<1> QED
  BY <1>2, <1>3, <1>9, <1>11 DEF F

\* The remainder of a block that is large enough, if its split does not wrap around.
LEMMA ExactRemainder ==
  ASSUME NEW h, NEW b, NEW size \in Nat, h.hdr[b].size \in Nat, size <= h.hdr[b].size,
         h.hdr[b].size <= HeapLimit - HeapStart - OVERHEAD, ~Wraps(h, b, size)
  PROVE  /\ rem_sz(h, b, size) \in Nat
         /\ h.hdr[b].size = size + OVERHEAD + rem_sz(h, b, size)
<1> DEFINE s == h.hdr[b].size
           k == s - size - OVERHEAD
<1>1. /\ s \in Nat /\ size \in Nat /\ SIZE_MOD \in Nat /\ SIZE_MOD > HeapLimit
      /\ HeapLimit \in Nat /\ HeapStart \in Nat /\ OVERHEAD \in Nat \ {0}
      /\ size <= s /\ s <= HeapLimit - HeapStart - OVERHEAD
  BY TlsfAssumption
<1>2. rem_sz(h, b, size) = k % SIZE_MOD /\ ~(k % SIZE_MOD > s)
  BY DEF rem_sz, Wraps
<1> HIDE DEF s
<1>3. k \in Int /\ SIZE_MOD > s + OVERHEAD /\ SIZE_MOD \in Nat \ {0}
  BY <1>1
<1>4. k >= 0
  <2> SUFFICES ASSUME k < 0 PROVE FALSE
    BY <1>3
  <2>1. k + SIZE_MOD \in 0 .. SIZE_MOD - 1 /\ k + SIZE_MOD > s
    BY <1>1, <1>3
  <2>2. k % SIZE_MOD = k + SIZE_MOD
    <3>1. k \div SIZE_MOD \in Int /\ k % SIZE_MOD \in 0 .. SIZE_MOD - 1
          /\ k = SIZE_MOD * (k \div SIZE_MOD) + (k % SIZE_MOD)
      BY <1>3
    <3> DEFINE q == k \div SIZE_MOD
    <3>2. q = -1
      <4> HIDE DEF q, k
      <4>1. ASSUME q >= 0 PROVE FALSE
        <5>1. SIZE_MOD * q >= 0
          BY <1>3, <3>1, <4>1 DEF q
        <5>2. SIZE_MOD * q \in Int
          BY <1>3, <3>1 DEF q
        <5> QED
          BY <1>3, <2>1, <3>1, <5>1, <5>2 DEF q
      <4>2. ASSUME q <= -2 PROVE FALSE
        <5>1. SIZE_MOD * q <= SIZE_MOD * (-2)
          BY <1>3, <3>1, <4>2 DEF q
        <5>2. SIZE_MOD * q \in Int
          BY <1>3, <3>1 DEF q
        <5> QED
          BY <1>3, <2>1, <3>1, <5>1, <5>2 DEF q
      <4> QED
        BY <3>1, <4>1, <4>2 DEF q
    <3> HIDE DEF k
    <3> QED
      BY <1>3, <3>1, <3>2
  <2> QED
    BY <1>1, <1>2, <2>1, <2>2
<1>5. k \in 0 .. 2 * SIZE_MOD - 1 /\ k < SIZE_MOD
  BY <1>1, <1>3, <1>4
<1>6. k % SIZE_MOD = k
  BY <1>3, <1>5, SmallRemainder
<1>7. s = size + OVERHEAD + k
  BY <1>1
<1> QED
  BY <1>2, <1>3, <1>4, <1>6, <1>7 DEF s

\* The headers of a split block, as blk_split leaves them and after the marks.
SplitSteps(H, b, size, rem, n, tail, T, cut, G, K) ==
  /\ b \in DOMAIN H /\ tail = b + OVERHEAD + size /\ n = tail + OVERHEAD + rem
  /\ T = Taken(H, b, size, rem)
  /\ cut = [x \in DOMAIN H \cup {tail} |->
              IF x = tail THEN [prev |-> b, size |-> rem, free |-> TRUE, prev_free |-> FALSE]
              ELSE IF x = b THEN WithSize(H[x], size)
              ELSE IF x = tail + OVERHEAD + rem THEN WithPrev(H[x], tail)
              ELSE H[x]]
  /\ G = [cut EXCEPT ![b] = WithFree(cut[b], FALSE)]
  /\ K = [G EXCEPT ![tail] = WithPrevFree(G[tail], FALSE)]

LEMMA SplitHeaders ==
  ASSUME NEW H, NEW E, NEW b, NEW size, NEW rem, NEW n, NEW tail, NEW T, NEW cut, NEW G, NEW K,
         TakeFacts(H, E, b, size, rem, tail, n, T),
         SplitSteps(H, b, size, rem, n, tail, T, cut, G, K)
  PROVE  /\ K = T /\ G[b].size = size
         /\ DOMAIN cut = DOMAIN T /\ DOMAIN G = DOMAIN T
         /\ \A x \in DOMAIN T : cut[x].size = T[x].size /\ G[x].size = T[x].size
<1>1. b # tail /\ b # n /\ tail # n /\ tail \notin DOMAIN H /\ DOMAIN T = DOMAIN H \cup {tail}
  BY DEF TakeFacts
<1>2. DOMAIN cut = DOMAIN T /\ DOMAIN G = DOMAIN T /\ DOMAIN K = DOMAIN T
  BY <1>1 DEF SplitSteps
<1>3. cut[tail] = [prev |-> b, size |-> rem, free |-> TRUE, prev_free |-> FALSE]
  BY DEF SplitSteps
<1>4. cut[b] = WithSize(H[b], size) /\ b \in DOMAIN T /\ tail \in DOMAIN T
  BY <1>1 DEF SplitSteps
<1>5. /\ G[b] = WithFree(cut[b], FALSE) /\ G[tail] = cut[tail]
      /\ \A x \in DOMAIN T : x # b => G[x] = cut[x]
  BY <1>1, <1>2, <1>4 DEF SplitSteps
<1>6. /\ K[tail] = WithPrevFree(G[tail], FALSE)
      /\ \A x \in DOMAIN T : x # tail => K[x] = G[x]
  BY <1>2, <1>4 DEF SplitSteps
<1>7. K[tail] = [prev |-> b, size |-> rem, free |-> TRUE, prev_free |-> FALSE]
  BY <1>3, <1>5, <1>6 DEF WithPrevFree
<1>8. K[b] = WithFree(WithSize(H[b], size), FALSE)
  BY <1>1, <1>4, <1>5, <1>6
<1>9. \A x \in DOMAIN T : T[x] =
        IF x = tail THEN [prev |-> b, size |-> rem, free |-> TRUE, prev_free |-> FALSE]
        ELSE IF x = b THEN WithFree(WithSize(H[x], size), FALSE)
        ELSE IF x = tail + OVERHEAD + rem THEN WithPrev(H[x], tail) ELSE H[x]
  BY <1>1 DEF SplitSteps, Taken
<1>10. \A x \in DOMAIN T : x # tail /\ x # b =>
         K[x] = IF x = tail + OVERHEAD + rem THEN WithPrev(H[x], tail) ELSE H[x]
  BY <1>1, <1>5, <1>6 DEF SplitSteps
<1>11. \A x \in DOMAIN T : K[x] = T[x]
  BY <1>7, <1>8, <1>9, <1>10
<1>12. K = T
  <2>1. K = [x \in DOMAIN K |-> K[x]]
    BY DEF SplitSteps
  <2>2. T = [x \in DOMAIN T |-> T[x]]
    BY DEF SplitSteps, Taken
  <2> QED
    BY <1>2, <1>11, <2>1, <2>2
<1>13. G[b].size = size /\ T[b].size = size /\ cut[b].size = size
  <2>1. WithSize(H[b], size).size = size
    BY DEF WithSize
  <2>2. cut[b].size = size
    BY <1>4, <2>1
  <2>3. G[b].size = size
    BY <1>5, <2>2 DEF WithFree
  <2>4. K[b].size = size
    BY <1>8, <2>1 DEF WithFree
  <2> QED
    BY <1>12, <2>2, <2>3, <2>4
<1>14. ASSUME NEW x \in DOMAIN T PROVE cut[x].size = T[x].size /\ G[x].size = T[x].size
  <2>1. CASE x = b
    BY <1>13, <2>1
  <2>2. CASE x = tail
    BY <1>1, <1>3, <1>5, <1>7, <1>12, <2>2
  <2>3. CASE x # b /\ x # tail
    BY <1>5, <1>6, <1>11, <2>3
  <2> QED
    BY <2>1, <2>2, <2>3
<1> QED
  BY <1>2, <1>12, <1>13, <1>14

\* Who gets a block of free memory holds it besides what was held.
Gains(H, J, b, size) ==
  /\ b \notin Used(H) /\ Used(J) = Used(H) \cup {b}
  /\ \A x \in Used(H) : J[x].size = H[x].size
  /\ size \in Nat /\ 0 < size /\ size <= J[b].size

LEMMA HoldsMore ==
  ASSUME NEW H, NEW J, NEW L, NEW b, NEW size, Holds(H, L), Gains(H, J, b, size)
  PROVE  Holds(J, L \cup {[blk |-> b, size |-> size]}) /\ \A x \in L : x.blk # b
<1> DEFINE new == [blk |-> b, size |-> size]
           K == L \cup {new}
<1>0. /\ b \notin Used(H) /\ Used(J) = Used(H) \cup {b}
      /\ \A x \in Used(H) : J[x].size = H[x].size
      /\ size \in Nat /\ 0 < size /\ size <= J[b].size
  BY DEF Gains
<1>1. new.blk = b /\ new.size = size /\ new \in [blk : Used(J), size : Nat]
  BY <1>0
<1>2. ASSUME NEW x \in L
      PROVE  /\ x \in [blk : Used(J), size : Nat] /\ x.size > 0 /\ x.size <= J[x.blk].size
             /\ x.blk # b
  <2>1. x \in [blk : Used(H), size : Nat] /\ x.size > 0 /\ x.size <= H[x.blk].size
    BY DEF Holds
  <2>2. x.blk \in Used(H) /\ x.blk \in Used(J)
    BY <1>0, <2>1
  <2>3. x \in [blk : Used(J), size : Nat]
    BY <2>1, <2>2
  <2> QED
    BY <1>0, <2>1, <2>2, <2>3
<1> HIDE DEF new
<1>3. \A x, y \in K : x.blk = y.blk => x = y
  <2>1. \A x, y \in L : x.blk = y.blk => x = y
    BY DEF Holds
  <2> QED
    BY <1>1, <1>2, <2>1
<1>4. \A c \in Used(J) : \E x \in K : x.blk = c
  <2>1. \A c \in Used(H) : \E x \in L : x.blk = c
    BY DEF Holds
  <2> QED
    BY <1>0, <1>1, <2>1
<1>5. \A x \in K : x \in [blk : Used(J), size : Nat] /\ x.size > 0 /\ x.size <= J[x.blk].size
  BY <1>0, <1>1, <1>2
<1> HIDE DEF K
<1>6. Holds(J, K)
  BY <1>3, <1>4, <1>5 DEF Holds
<1> QED
  BY <1>2, <1>6 DEF K, new

\* Taking a block the search offers.
LEMMA TakeKeeps ==
  ASSUME NEW h, NEW E, NEW top, NEW L, Sound(h, E, top, L), NEW a, Asked(a),
         NEW b \in Candidates(h, a), ~Wraps(h, b, a)
  PROVE  /\ Sound(malloc_Take(h, b, a), E, top, L \cup {[blk |-> b, size |-> a]})
         /\ \A x \in L : x.blk # b
<1> DEFINE H == h.hdr
           F == FreeIn(H)
           h1 == fl_remove(h, b)
           rem == rem_sz(h, b, a)
           new == [blk |-> b, size |-> a]
<1>0. Chain(H, E, top) /\ ListsHold(h, F) /\ Pairs(H) = {} /\ Holds(H, L)
  BY DEF Sound
<1>1. b \in DOMAIN H /\ H[b].free /\ H[b].size # 0 /\ a <= H[b].size /\ b \in F
  BY <1>0, CandidatesFit DEF FreeIn
<1>2. a \in Nat /\ TLSF_BLOCK_MIN <= a /\ 0 < a
  BY HeapNumbers DEF Asked
<1>3. BlockFacts(H, E, top, b) /\ Linked(H, E, top, b)
  BY <1>0, <1>1, ChainFacts
<1>4. H[b].size \in Nat /\ H[b].size <= HeapLimit - HeapStart - OVERHEAD
  BY <1>0, <1>1, <1>3, SizeClassed DEF BlockFacts
<1>5. rem \in Nat /\ H[b].size = a + OVERHEAD + rem
  BY <1>1, <1>2, <1>4, ExactRemainder
<1>6. h1.hdr = H /\ ListsHold(h1, F \ {b})
  BY <1>0, <1>1, ListsRemove
<1>7. rem_sz(h1, b, a) = rem
  BY <1>6 DEF rem_sz
<1> HIDE DEF h1, rem, F
<1>8. b \notin Used(H)
  BY <1>1 DEF Used
<1>9. malloc_Take(h, b, a) = MarkHeap(blk_split(h1, b, a), b, FALSE)
  BY DEF malloc_Take, MarkHeap, h1
<1>10. CASE rem < TLSF_BLOCK_MIN
  <2> DEFINE M == Marked(H, b, FALSE)
             g == MarkHeap(h1, b, FALSE)
  <2>1. blk_split(h1, b, a) = h1
    BY <1>7, <1>10 DEF blk_split
  <2>2. g.hdr = M /\ ListsHold(g, F \ {b})
    <3>1. /\ Chain(h1.hdr, E, top) /\ b \in DOMAIN h1.hdr /\ h1.hdr[b].size # 0
          /\ ListsHold(h1, F \ {b}) /\ FALSE \in BOOLEAN
      BY <1>0, <1>1, <1>6
    <3>2. g.hdr = Marked(h1.hdr, b, FALSE) /\ ListsHold(g, F \ {b})
      BY <3>1, MarkOp
    <3> QED
      BY <1>6, <3>2
  <2>3. Chain(M, E, top)
    BY <1>0, <1>1, MarkChain
  <2>4. FreeIn(M) = F \ {b} /\ Pairs(M) = {}
    BY <1>0, <1>1, MarkFree DEF F
  <2>5. ASSUME NEW f \in BOOLEAN
        PROVE  /\ DOMAIN Marked(H, b, f) = DOMAIN H
               /\ \A y \in DOMAIN H :
                    /\ Marked(H, b, f)[y].size = H[y].size
                    /\ y # b => Marked(H, b, f)[y].free = H[y].free
    BY <1>0, <1>1, MarkFields
  <2>6. /\ DOMAIN M = DOMAIN H
        /\ \A y \in DOMAIN H : M[y].size = H[y].size /\ (y # b => M[y].free = H[y].free)
    BY <2>5
  <2> HIDE DEF M, g
  <2>7. ~M[b].free
    BY <1>1, <2>4, <2>6 DEF FreeIn
  <2>8. Used(M) = Used(H) \cup {b}
    BY <1>1, <2>6, <2>7 DEF Used
  <2>9. \A x \in Used(H) : M[x].size = H[x].size
    BY <2>6 DEF Used
  <2>10. a <= M[b].size
    BY <1>1, <2>6
  <2>11. Holds(M, L \cup {new}) /\ \A x \in L : x.blk # b
    <3>1. Gains(H, M, b, a)
      BY <1>2, <1>8, <2>8, <2>9, <2>10 DEF Gains
    <3> QED
      BY <1>0, <3>1, HoldsMore
  <2>12. Sound(g, E, top, L \cup {new})
    BY <2>2, <2>3, <2>4, <2>11 DEF Sound
  <2> QED
    BY <1>9, <2>1, <2>11, <2>12 DEF g
<1>11. CASE ~(rem < TLSF_BLOCK_MIN)
  <2> DEFINE tail == b + OVERHEAD + a
             n == Nxt(H, b)
             T == Taken(H, b, a, rem)
             cut == [x \in DOMAIN H \cup {tail} |->
                 IF x = tail THEN [prev |-> b, size |-> rem, free |-> TRUE, prev_free |-> FALSE]
                 ELSE IF x = b THEN WithSize(H[x], a)
                 ELSE IF x = tail + OVERHEAD + rem THEN WithPrev(H[x], tail)
                 ELSE H[x]]
             G == [cut EXCEPT ![b] = WithFree(cut[b], FALSE)]
             K == [G EXCEPT ![tail] = WithPrevFree(G[tail], FALSE)]
             S == (F \ {b}) \cup {tail}
             g1 == WithHdr(h1, cut)
             h2 == fl_insert(g1, tail)
             g2 == WithHdr(h2, G)
             h3 == WithHdr(g2, K)
  <2>1. Splits(H, b, a, rem)
    BY <1>1, <1>2, <1>5, <1>11, HeapNumbers DEF Splits
  <2>2. TakeFacts(H, E, b, a, rem, tail, n, T)
    BY <1>0, <2>1, TakeFields
  <2>3. n = tail + OVERHEAD + rem
    BY <1>2, <1>3, <1>5, HeapNumbers DEF Nxt, BlockFacts
  <2>4. blk_split(h1, b, a) = h2
    BY <1>6, <1>7, <1>11 DEF blk_split
  <2>5. /\ K = T /\ G[b].size = a
        /\ DOMAIN cut = DOMAIN T /\ DOMAIN G = DOMAIN T
        /\ \A x \in DOMAIN T : cut[x].size = T[x].size /\ G[x].size = T[x].size
    <3>1. SplitSteps(H, b, a, rem, n, tail, T, cut, G, K)
      BY <1>1, <2>3 DEF SplitSteps
    <3> HIDE DEF T, n, tail, cut, G, K
    <3> QED
      BY <2>2, <3>1, SplitHeaders
  <2>6. Chain(T, E, top)
    BY <1>0, <2>1, TakeChain
  <2>7. /\ FreeIn(T) = S /\ Used(T) = Used(H) \cup {b} /\ Pairs(T) = {}
        /\ \A x \in DOMAIN H \ {b} : T[x].size = H[x].size
    BY <1>0, <2>1, TakeFree DEF F
  <2>8. /\ DOMAIN T = DOMAIN H \cup {tail} /\ T[tail].size = rem /\ rem # 0
        /\ T[b].size = a
    BY <2>2 DEF TakeFacts
  <2>9. MarkHeap(h2, b, FALSE) = WithHdr(g2, K) /\ h2.hdr = cut
    <3>1. h2.hdr = cut
      BY DEF fl_insert, WithHdr
    <3> HIDE DEF cut, h2
    <3>2. set_free(h2, b, FALSE) = g2 /\ g2.hdr = G
      BY <3>1 DEF set_free, WithHdr
    <3> HIDE DEF g2, G
    <3>3. next_phys(g2, b) = tail
      BY <2>5, <3>2 DEF next_phys
    <3> HIDE DEF tail
    <3> QED
      BY <3>1, <3>2, <3>3 DEF MarkHeap, set_next_prev_free
  <2> HIDE DEF T, cut, G, K, g1, h2, g2, tail, n, S
  <2>10. map_insert(cut[tail].size) \in FLs \X SLs
    <3>1. cut[tail].size = T[tail].size /\ tail \in DOMAIN T
      BY <2>5, <2>8
    <3> QED
      BY <2>6, <2>8, <3>1, SizeClassed
  <2>11. F \ {b} \subseteq DOMAIN H \ {b}
    BY DEF F, FreeIn
  <2>12. g1.hdr = cut /\ ListsHold(g1, F \ {b})
    <3>1. \A x \in F \ {b} : cut[x].size = H[x].size
      BY <2>5, <2>7, <2>8, <2>11
    <3>2. F \ {b} \subseteq DOMAIN cut
      BY <2>5, <2>8, <2>11
    <3> QED
      BY <1>6, <3>1, <3>2, ListsKept DEF g1
  <2>13. ListsHold(h2, S)
    <3>1. tail \in DOMAIN cut
      BY <2>5, <2>8
    <3> QED
      BY <2>10, <2>12, <3>1, ListsInsert DEF h2, S
  <2>14. S \subseteq DOMAIN T
    BY <2>7 DEF FreeIn
  <2>15. g2.hdr = G /\ ListsHold(g2, S)
    <3>1. S \subseteq DOMAIN G /\ \A x \in S : G[x].size = h2.hdr[x].size
      BY <2>5, <2>9, <2>14
    <3>2. WithHdr(h2, G).hdr = G /\ ListsHold(WithHdr(h2, G), S)
      BY <2>13, <3>1, ListsKept
    <3> QED
      BY <3>2 DEF g2
  <2>16. WithHdr(g2, T).hdr = T /\ ListsHold(WithHdr(g2, T), S)
    <3>1. S \subseteq DOMAIN T /\ \A x \in S : T[x].size = g2.hdr[x].size
      BY <2>5, <2>14, <2>15
    <3>2. ListsHold(g2, S)
      BY <2>15
    <3> QED
      BY <3>1, <3>2, ListsKept
  <2>17. Holds(T, L \cup {new}) /\ \A x \in L : x.blk # b
    <3>1. \A x \in Used(H) : T[x].size = H[x].size
      BY <1>8, <2>7 DEF Used
    <3>2. a <= T[b].size
      BY <1>2, <2>8
    <3>3. Gains(H, T, b, a)
      BY <1>2, <1>8, <2>7, <3>1, <3>2 DEF Gains
    <3> QED
      BY <1>0, <3>3, HoldsMore
  <2>18. Sound(WithHdr(g2, T), E, top, L \cup {new})
    BY <2>6, <2>7, <2>16, <2>17 DEF Sound
  <2> QED
    BY <1>9, <2>4, <2>5, <2>9, <2>17, <2>18
<1> QED
  BY <1>10, <1>11

-----------------------------------------------------------------------------
(***************************************************************************)
(* The calls of heap.cpp.                                                  *)
(***************************************************************************)
LEMMA Invariant == TlsfIInv <=> Sound(heap, Ends, g_heap_top, live) /\ wrapped \in BOOLEAN
BY DEF TlsfIInv, Sound

\* Pages that are mapped are room for a pool.
LEMMA PagesRoom ==
  ASSUME NEW k \in Nat \ {0}, NEW t \in Addrs, t + k * PAGE_SIZE <= HeapLimit
  PROVE  Room(t, k * PAGE_SIZE) /\ t + k * PAGE_SIZE \in Addrs
<1>1. PAGE_SIZE \in Nat /\ PAGE_SIZE >= 3 * OVERHEAD + TLSF_BLOCK_MIN
  BY TlsfAssumption
<1>2. k = (k - 1) + 1 /\ k - 1 \in Nat
  OBVIOUS
<1>3. (k - 1) * PAGE_SIZE \in Nat /\ k * PAGE_SIZE = (k - 1) * PAGE_SIZE + PAGE_SIZE
  BY <1>1, <1>2
<1>4. k * PAGE_SIZE \in Nat /\ k * PAGE_SIZE >= PAGE_SIZE
  BY <1>1, <1>3
<1> HIDE DEF Room
<1>5. t \in Nat /\ HeapStart <= t /\ OVERHEAD \in Nat /\ TLSF_BLOCK_MIN \in Nat
      /\ HeapLimit \in Nat /\ HeapStart \in Nat
  BY HeapNumbers
<1>6. k * PAGE_SIZE >= 3 * OVERHEAD + TLSF_BLOCK_MIN
  BY <1>1, <1>4, <1>5
<1> QED
  BY <1>4, <1>5, <1>6 DEF Room, Addrs

LEMMA EmptyIsSound == Sound(EmptyHeap, {}, HeapStart, {}) /\ HeapStart \in Addrs
<1>1. HeapStart \in Nat /\ HeapLimit \in Nat /\ HeapStart <= HeapLimit
  <2>1. InitialPages \in Nat /\ PAGE_SIZE \in Nat /\ HeapStart \in Nat /\ HeapLimit \in Nat
    BY TlsfAssumption
  <2>2. InitialPages * PAGE_SIZE \in Nat
    BY <2>1
  <2>3. HeapStart + InitialPages * PAGE_SIZE <= HeapLimit
    BY TlsfAssumption
  <2> QED
    BY <2>1, <2>2, <2>3
<1>2. HeapStart \in Addrs
  BY <1>1 DEF Addrs
<1>3. DOMAIN EmptyHeap.hdr = {}
  BY DEF EmptyHeap
<1>4. /\ FreeIn(EmptyHeap.hdr) = {} /\ Pairs(EmptyHeap.hdr) = {}
      /\ Holds(EmptyHeap.hdr, {}) /\ Chain(EmptyHeap.hdr, {}, HeapStart)
  BY <1>2, <1>3 DEF FreeIn, Pairs, Holds, Used, Chain
<1>5. /\ EmptyHeap.free_lists = [c \in FLs \X SLs |-> {}]
      /\ EmptyHeap.sl_bitmap = [f \in FLs |-> {}] /\ EmptyHeap.fl_bitmap = {}
  BY DEF EmptyHeap
<1>6. ListsHold(EmptyHeap, {})
  <2>1. \A f \in FLs, s \in SLs : EmptyHeap.free_lists[<<f, s>>] = {}
    BY <1>5
  <2>2. \A f \in FLs : EmptyHeap.sl_bitmap[f] = {s \in SLs : EmptyHeap.free_lists[<<f, s>>] # {}}
    BY <1>5, <2>1
  <2>3. EmptyHeap.fl_bitmap = {f \in FLs : EmptyHeap.sl_bitmap[f] # {}}
    BY <1>5
  <2> QED
    BY <1>3, <1>5, <2>2, <2>3 DEF ListsHold
<1> QED
  BY <1>2, <1>4, <1>6 DEF Sound

LEMMA InitSound == TlsfInit => TlsfIInv
<1> SUFFICES ASSUME TlsfInit PROVE TlsfIInv
  OBVIOUS
<1> DEFINE bytes == InitialPages * PAGE_SIZE
<1>1. InitialPages \in Nat \ {0} /\ HeapStart + bytes <= HeapLimit
  BY TlsfAssumption
<1>2. Room(HeapStart, bytes)
  BY <1>1, PagesRoom, EmptyIsSound
<1> HIDE DEF bytes
<1>3. Sound(add_pool(EmptyHeap, HeapStart, bytes), {} \cup {HeapStart + bytes - OVERHEAD},
            HeapStart + bytes, {})
  BY <1>2, EmptyIsSound, PoolKeeps
<1>4. Ends = {} \cup {HeapStart + bytes - OVERHEAD}
  BY DEF TlsfInit, Ends, bytes
<1>5. /\ heap = add_pool(EmptyHeap, HeapStart, bytes) /\ g_heap_top = HeapStart + bytes
      /\ live = {} /\ wrapped = FALSE
  BY DEF TlsfInit, bytes
<1> QED
  BY <1>3, <1>4, <1>5, Invariant

\* What is held after a call that took a block for the one in gone, if any.
Given(gone) ==
  \E new : /\ live' = (live \ gone) \cup {new}
           /\ \A y \in live \ gone : y.blk # new.blk

AtMostOne(gone) == gone = {} \/ \E x \in live : gone = {x}

LEMMA HandKeeps ==
  ASSUME NEW h, NEW E, NEW top, Sound(h, E, top, live), NEW a, Asked(a),
         NEW gone, AtMostOne(gone), Hand(h, a, gone), wrapped \in BOOLEAN
  PROVE  /\ Sound(heap', E, top, live') /\ wrapped' \in BOOLEAN
         /\ live' = live \/ Given(gone)
<1>1. PICK b \in Candidates(h, a) :
        IF Wraps(h, b, a) THEN wrapped' = TRUE /\ heap' = h /\ UNCHANGED live
        ELSE /\ heap' = IF gone = {} THEN malloc_Take(h, b, a)
                        ELSE free(malloc_Take(h, b, a), (CHOOSE x \in gone : TRUE).blk)
             /\ live' = (live \ gone) \cup {[blk |-> b, size |-> a]}
             /\ UNCHANGED wrapped
  BY DEF Hand
<1>2. CASE Wraps(h, b, a)
  BY <1>1, <1>2
<1>3. CASE ~Wraps(h, b, a)
  <2> DEFINE taken == malloc_Take(h, b, a)
             new == [blk |-> b, size |-> a]
             L == live \cup {new}
  <2>1. Sound(taken, E, top, L) /\ \A x \in live : x.blk # b
    BY <1>3, TakeKeeps
  <2>2. wrapped' \in BOOLEAN /\ new.blk = b
    BY <1>1, <1>3
  <2>3. Given(gone)
    <3>1. live' = (live \ gone) \cup {new}
      BY <1>1, <1>3
    <3> HIDE DEF new
    <3> QED
      BY <2>1, <2>2, <3>1 DEF Given
  <2>4. CASE gone = {}
    <3>1. heap' = taken /\ live' = L
      BY <1>1, <1>3, <2>4
    <3> QED
      BY <2>1, <2>2, <2>3, <3>1
  <2>5. ASSUME NEW x \in live, gone = {x} PROVE Sound(heap', E, top, live')
    <3>1. heap' = free(taken, x.blk)
      <4>1. gone # {} /\ (CHOOSE z \in gone : TRUE) = x
        BY <2>5
      <4> QED
        BY <1>1, <1>3, <4>1
    <3>2. x # new
      BY <2>1, <2>2
    <3>3. live' = L \ {x}
      BY <1>1, <1>3, <2>5, <3>2
    <3>4. x \in L
      OBVIOUS
    <3> HIDE DEF L, taken
    <3>5. Sound(free(taken, x.blk), E, top, L \ {x})
      BY <2>1, <3>4, FreeKeeps
    <3> QED
      BY <3>1, <3>3, <3>5
  <2> QED
    BY <2>2, <2>3, <2>4, <2>5 DEF AtMostOne
<1> QED
  BY <1>2, <1>3

LEMMA AllocKeeps ==
  ASSUME TlsfIInv, NEW a, Asked(a), NEW pages \in Int, NEW gone, AtMostOne(gone),
         AllocOrGrow(a, pages, gone)
  PROVE  TlsfIInv' /\ (live' = live \/ Given(gone))
<1>0. Sound(heap, Ends, g_heap_top, live) /\ wrapped \in BOOLEAN
  BY Invariant
<1>1. CASE Hand(heap, a, gone) /\ UNCHANGED <<g_heap_top, pools>>
  <2>1. Sound(heap', Ends, g_heap_top, live') /\ wrapped' \in BOOLEAN
        /\ (live' = live \/ Given(gone))
    BY <1>0, <1>1, HandKeeps
  <2>2. Ends' = Ends /\ g_heap_top' = g_heap_top
    BY <1>1 DEF Ends
  <2>3. Sound(heap', Ends', g_heap_top', live')
    BY <2>1, <2>2
  <2> QED
    BY <2>1, <2>3 DEF TlsfIInv, Sound
<1>2. ASSUME NEW mapped \in 1 .. pages, NEW h, h = add_pool(heap, g_heap_top, mapped * PAGE_SIZE),
             heap_grow(pages, mapped, h),
             Hand(h, a, gone) \/ (heap' = h /\ UNCHANGED <<live, wrapped>>)
      PROVE  TlsfIInv' /\ (live' = live \/ Given(gone))
  <2> DEFINE bytes == mapped * PAGE_SIZE
             se == g_heap_top + bytes - OVERHEAD
  <2>1. mapped \in Nat \ {0}
    OBVIOUS
  <2>2. g_heap_top \in Addrs
    BY <1>0 DEF Sound, Chain
  <2>3. g_heap_top + bytes <= HeapLimit
    BY <1>2 DEF heap_grow
  <2>4. Room(g_heap_top, bytes)
    BY <2>1, <2>2, <2>3, PagesRoom
  <2>5. h = add_pool(heap, g_heap_top, bytes)
    BY <1>2
  <2>6. g_heap_top' = g_heap_top + bytes /\ Ends' = Ends \cup {se}
    <3>1. pools' = pools \cup {[start |-> g_heap_top, bytes |-> bytes]}
      BY <1>2 DEF heap_grow
    <3>2. g_heap_top' = g_heap_top + bytes
      BY <1>2 DEF heap_grow
    <3> DEFINE r == [start |-> g_heap_top, bytes |-> bytes]
    <3>3. r.start + r.bytes - OVERHEAD = se
      OBVIOUS
    <3> HIDE DEF r, se, bytes
    <3>4. Ends' = Ends \cup {r.start + r.bytes - OVERHEAD}
      BY <3>1 DEF Ends, r
    <3> QED
      BY <3>2, <3>3, <3>4
  <2> HIDE DEF bytes
  <2>7. Sound(h, Ends \cup {se}, g_heap_top + bytes, live)
    BY <1>0, <2>4, <2>5, PoolKeeps
  <2>8. Sound(h, Ends', g_heap_top', live)
    BY <2>6, <2>7
  <2>9. CASE Hand(h, a, gone)
    <3>1. Sound(heap', Ends', g_heap_top', live') /\ wrapped' \in BOOLEAN
          /\ (live' = live \/ Given(gone))
      BY <1>0, <2>8, <2>9, HandKeeps
    <3> QED
      BY <3>1 DEF TlsfIInv, Sound
  <2>10. CASE heap' = h /\ UNCHANGED <<live, wrapped>>
    <3>1. Sound(heap', Ends', g_heap_top', live') /\ wrapped' \in BOOLEAN /\ live' = live
      BY <1>0, <2>8, <2>10
    <3> QED
      BY <3>1 DEF TlsfIInv, Sound
  <2> QED
    BY <1>2, <2>9, <2>10
<1> QED
  BY <1>1, <1>2 DEF AllocOrGrow

LEMMA Requests ==
  ASSUME NEW size \in Sizes
  PROVE  /\ Asked(Aligned(size)) /\ Aligned(size) > 0
         /\ GrowPages(size) \in Int /\ HEAP_GROW_PAGES \in Int
<1>1. size \in Nat /\ GROW_SLACK \in Nat /\ PAGE_SIZE \in Nat \ {0} /\ HEAP_GROW_PAGES \in Int
  BY TlsfAssumption, HeapNumbers
<1>2. (size + GROW_SLACK + PAGE_SIZE - 1) \div PAGE_SIZE \in Int
  BY <1>1
<1>3. GrowPages(size) \in Int
  BY <1>1, <1>2 DEF GrowPages
<1>4. Aligned(size) \in Nat /\ TLSF_BLOCK_MIN <= Aligned(size)
  BY <1>1, AlignedSize
<1>5. Aligned(size) > 0
  BY <1>4, HeapNumbers
<1> QED
  BY <1>1, <1>3, <1>4, <1>5 DEF Asked

\* A holder's block is asked to be smaller, or to be as large as it is.
LEMMA ResizeHolds ==
  ASSUME NEW H, NEW L, Holds(H, L), NEW x \in L, NEW y, NEW a \in Nat, a > 0, a <= H[x.blk].size,
         y = [blk |-> x.blk, size |-> a]
  PROVE  Holds(H, (L \ {x}) \cup {y})
<1> DEFINE K == (L \ {x}) \cup {y}
<1>0. y.blk = x.blk /\ y.size = a
  OBVIOUS
<1>1. ASSUME NEW z \in L
      PROVE  z \in [blk : Used(H), size : Nat] /\ z.blk \in Used(H) /\ z.size > 0
             /\ z.size <= H[z.blk].size
  BY DEF Holds
<1>2. y \in [blk : Used(H), size : Nat] /\ y.size > 0 /\ y.size <= H[y.blk].size
  BY <1>0, <1>1
<1>3. \A u, v \in L : u.blk = v.blk => u = v
  BY DEF Holds
<1>4. \A b \in Used(H) : \E z \in L : z.blk = b
  BY DEF Holds
<1>5. \A z \in L \ {x} : z.blk # x.blk
  BY <1>3
<1>6. \A u, v \in K : u.blk = v.blk => u = v
  BY <1>0, <1>3, <1>5
<1>7. \A b \in Used(H) : \E z \in K : z.blk = b
  BY <1>0, <1>4
<1>8. \A z \in K : z \in [blk : Used(H), size : Nat] /\ z.size > 0 /\ z.size <= H[z.blk].size
  BY <1>1, <1>2
<1> HIDE DEF K
<1> QED
  BY <1>6, <1>7, <1>8 DEF Holds, K

\* What a step may do to what is held.
LiveStep ==
  \/ live' = live
  \/ \E x \in live : live' = live \ {x}
  \/ \E gone : AtMostOne(gone) /\ Given(gone)

LEMMA NextKeeps == ASSUME TlsfIInv, TlsfNext PROVE TlsfIInv' /\ LiveStep
<1>0. Sound(heap, Ends, g_heap_top, live) /\ wrapped \in BOOLEAN
  BY Invariant
<1>1. ASSUME NEW size \in Sizes, kmalloc(size) PROVE TlsfIInv' /\ LiveStep
  <2>1. AllocOrGrow(Aligned(size), GrowPages(size), {})
    BY <1>1 DEF kmalloc
  <2>2. AtMostOne({})
    BY DEF AtMostOne
  <2>3. TlsfIInv' /\ (live' = live \/ Given({}))
    BY <2>1, <2>2, AllocKeeps, Requests
  <2> QED
    BY <2>2, <2>3 DEF LiveStep
<1>2. ASSUME NEW x \in live, kfree(x) PROVE TlsfIInv' /\ LiveStep
  <2>1. Sound(free(heap, x.blk), Ends, g_heap_top, live \ {x})
    BY <1>0, FreeKeeps
  <2>2. /\ heap' = free(heap, x.blk) /\ live' = live \ {x}
        /\ g_heap_top' = g_heap_top /\ wrapped' = wrapped /\ pools' = pools
    BY <1>2 DEF kfree
  <2>3. Ends' = Ends
    BY <2>2 DEF Ends
  <2>4. Sound(heap', Ends', g_heap_top', live') /\ wrapped' \in BOOLEAN
    BY <1>0, <2>1, <2>2, <2>3
  <2> QED
    BY <2>2, <2>4 DEF TlsfIInv, Sound, LiveStep
<1>3. ASSUME NEW x \in live, NEW size \in Sizes, krealloc_Stay(x, size)
      PROVE  TlsfIInv' /\ LiveStep
  <2> DEFINE a == Aligned(size)
             y == [blk |-> x.blk, size |-> a]
  <2>0. Holds(heap.hdr, live)
    BY <1>0 DEF Sound
  <2>1. a \in Nat /\ a > 0
    BY Requests DEF Asked
  <2>2. x \in [blk : Used(heap.hdr), size : Nat]
    BY <2>0 DEF Holds
  <2>3. [x EXCEPT !.size = a] = y /\ y.blk = x.blk
    BY <2>2
  <2>4. /\ heap' = heap /\ live' = (live \ {x}) \cup {y}
        /\ g_heap_top' = g_heap_top /\ wrapped' = wrapped /\ pools' = pools
        /\ heap.hdr[x.blk].size >= a
    BY <1>3, <2>3 DEF krealloc_Stay
  <2>5. heap.hdr[x.blk].size \in Nat
    <3>1. x.blk \in DOMAIN heap.hdr
      BY <2>2 DEF Used
    <3>2. Chain(heap.hdr, Ends, g_heap_top)
      BY <1>0 DEF Sound
    <3>3. BlockFacts(heap.hdr, Ends, g_heap_top, x.blk)
      BY <3>1, <3>2, ChainFacts
    <3> QED
      BY <3>3 DEF BlockFacts
  <2> HIDE DEF a
  <2>6. a <= heap.hdr[x.blk].size
    BY <2>1, <2>4, <2>5
  <2>7. Holds(heap.hdr, (live \ {x}) \cup {y})
    BY <2>0, <2>1, <2>6, ResizeHolds
  <2>8. Ends' = Ends
    BY <2>4 DEF Ends
  <2> HIDE DEF y
  <2>9. TlsfIInv'
    BY <2>4, <2>7, <2>8 DEF TlsfIInv
  <2>10. \A z \in live \ {x} : z.blk # y.blk
    BY <2>0, <2>3 DEF Holds
  <2>11. AtMostOne({x}) /\ Given({x})
    BY <2>4, <2>10 DEF AtMostOne, Given
  <2> QED
    BY <2>9, <2>11 DEF LiveStep
<1>4. ASSUME NEW x \in live, NEW size \in Sizes, krealloc_Move(x, size)
      PROVE  TlsfIInv' /\ LiveStep
  <2>1. AllocOrGrow(Aligned(size), HEAP_GROW_PAGES, {x})
    BY <1>4 DEF krealloc_Move
  <2>2. AtMostOne({x})
    BY DEF AtMostOne
  <2>3. TlsfIInv' /\ (live' = live \/ Given({x}))
    BY <2>1, <2>2, AllocKeeps, Requests
  <2> QED
    BY <2>2, <2>3 DEF LiveStep
<1>5. CASE Undefined
  <2>1. heap' = heap /\ live' = live /\ g_heap_top' = g_heap_top /\ wrapped' = wrapped /\ Ends' = Ends
    BY <1>5 DEF Undefined, tlsfVars, Ends
  <2> QED
    BY <2>1 DEF TlsfIInv, LiveStep
<1> QED
  BY <1>1, <1>2, <1>3, <1>4, <1>5 DEF TlsfNext

\* The chain of blocks, the lists and bitmaps, and the table of what callers
\* hold fit together after every sequence of kmalloc, kfree and krealloc.
THEOREM TlsfInvariant == TlsfSpec => []TlsfIInv
<1>1. TlsfIInv /\ [TlsfNext]_tlsfVars => TlsfIInv'
  <2>1. CASE UNCHANGED tlsfVars
    <3>1. UNCHANGED tlsfVars => Ends' = Ends
      BY DEF tlsfVars, Ends
    <3> QED
      BY <2>1, <3>1 DEF tlsfVars, TlsfIInv
  <2> QED
    BY <2>1, NextKeeps
<1> QED
  BY <1>1, InitSound, PTL DEF TlsfSpec

-----------------------------------------------------------------------------
(***************************************************************************)
(* What the invariant means for the callers.                               *)
(***************************************************************************)
LEMMA SoundFromInvariant == TlsfIInv => TlsfSound
<1> SUFFICES ASSUME TlsfIInv PROVE TlsfSound
  OBVIOUS
<1> DEFINE H == heap.hdr
<1>0. /\ Chain(H, Ends, g_heap_top) /\ ListsHold(heap, FreeIn(H)) /\ Pairs(H) = {}
      /\ Holds(H, live) /\ wrapped \in BOOLEAN
  BY DEF TlsfIInv
<1>1. ASSUME NEW b \in DOMAIN H
      PROVE  Linked(H, Ends, g_heap_top, b) /\ BlockFacts(H, Ends, g_heap_top, b)
  BY <1>0, ChainFacts
<1>2. ASSUME NEW b PROVE IsEnd(b) <=> b \in Ends
  BY DEF IsEnd, Ends
<1>3. \A b : next_phys(heap, b) = Nxt(H, b)
  BY DEF next_phys, Nxt
<1>4. FreeBlocks = FreeIn(H)
  BY DEF FreeBlocks, FreeIn
<1>5. DOMAIN H \subseteq Addrs /\ g_heap_top \in Addrs
  BY <1>0 DEF Chain
<1>6. \A x \in live : x.blk \in Used(H) /\ x \in [blk : Used(H), size : Nat] /\ x.size <= H[x.blk].size
  BY <1>0 DEF Holds
<1>7. Used(H) \subseteq DOMAIN H
  BY DEF Used
<1> HIDE DEF H
<1>8. TlsfTypeOK
  <2>1. \A b \in DOMAIN H : H[b] \in Headers
    BY <1>1 DEF Linked
  <2>2. live \subseteq [blk : DOMAIN H, size : Nat]
    BY <1>6, <1>7
  <2>3. /\ heap.free_lists \in [FLs \X SLs -> SUBSET DOMAIN H]
        /\ heap.sl_bitmap \in [FLs -> SUBSET SLs]
        /\ heap.fl_bitmap \subseteq FLs
    BY <1>0 DEF ListsHold, H
  <2> QED
    BY <1>0, <1>5, <2>1, <2>2, <2>3 DEF TlsfTypeOK, Headers, H
<1>9. BoundaryTags
  <2> SUFFICES ASSUME NEW b \in DOMAIN H, b \notin Ends
               PROVE  LET n == Nxt(H, b) IN
                      /\ n \in DOMAIN H /\ H[n].prev = b /\ H[n].prev_free = H[b].free
                      /\ (b + 1 .. n - 1) \cap DOMAIN H = {}
    BY <1>2, <1>3 DEF BoundaryTags, H
  <2> DEFINE n == Nxt(H, b)
  <2>1. /\ n \in DOMAIN H /\ H[n].prev = b /\ H[n].prev_free = H[b].free
        /\ \A x \in DOMAIN H : ~(b < x /\ x < n)
    BY <1>1 DEF Linked
  <2>2. b \in Int /\ n \in Int /\ \A x \in DOMAIN H : x \in Int
    BY <1>5, <2>1, HeapNumbers
  <2> HIDE DEF n
  <2>3. ASSUME NEW x \in DOMAIN H, x \in b + 1 .. n - 1 PROVE FALSE
    BY <2>1, <2>2, <2>3
  <2>4. (b + 1 .. n - 1) \cap DOMAIN H = {}
    BY <2>3
  <2> QED
    BY <2>1, <2>4 DEF n
<1>10. Coalesced
  <2> SUFFICES ASSUME NEW b \in DOMAIN H, H[b].free
               PROVE  ~H[Nxt(H, b)].free /\ ~H[b].prev_free
    BY <1>3, <1>4 DEF Coalesced, FreeIn, H
  <2>1. ~H[Nxt(H, b)].free
    BY <1>0 DEF Pairs, H
  <2>2. ASSUME H[b].prev_free PROVE FALSE
    <3> DEFINE p == H[b].prev
    <3>1. p # NULL
      BY <1>1, <2>2 DEF Linked
    <3>2. p \in DOMAIN H /\ p \notin Ends /\ Nxt(H, p) = b
      BY <1>1, <3>1 DEF Linked
    <3>3. H[p].free
      BY <1>1, <2>2, <3>2 DEF Linked
    <3>4. p \in Pairs(H)
      BY <3>2, <3>3 DEF Pairs
    <3> QED
      BY <1>0, <3>4 DEF H
  <2> QED
    BY <2>1, <2>2
<1>11. ListsExact
  BY <1>0, <1>4 DEF ListsExact, ListsHold, H
<1>12. HeldBlocks
  <2> DEFINE T == {x.blk : x \in live}
             g == [x \in live |-> x.blk]
  <2>1. T = Used(H)
    BY <1>0, <1>6 DEF Holds, H
  <2>2. IsFiniteSet(T)
    <3>1. IsFiniteSet(Addrs)
      BY HeapNumbers, FS_Interval DEF Addrs
    <3>2. T \subseteq Addrs
      BY <1>5, <1>7, <2>1
    <3> QED
      BY <3>1, <3>2, FS_Subset
  <2>3. OneToOne(g, T)
    <3>1. \A x, y \in live : x.blk = y.blk => x = y
      BY <1>0 DEF Holds
    <3> QED
      BY <3>1 DEF OneToOne
  <2>4. DOMAIN g = live
    OBVIOUS
  <2> HIDE DEF g
  <2>5. Cardinality(T) = Cardinality(live)
    <3>1. Cardinality(DOMAIN g) = Cardinality(T)
      BY <2>2, <2>3, Counted
    <3> QED
      BY <2>4, <3>1
  <2>6. \A x \in live : H[x.blk].size >= x.size
    <3> SUFFICES ASSUME NEW x \in live PROVE H[x.blk].size >= x.size
      OBVIOUS
    <3>1. x.blk \in DOMAIN H /\ x.size \in Nat /\ x.size <= H[x.blk].size
      BY <1>6, <1>7
    <3>2. H[x.blk].size \in Nat
      BY <1>1, <3>1 DEF BlockFacts
    <3> QED
      BY <3>1, <3>2
  <2> QED
    BY <2>1, <2>5, <2>6 DEF HeldBlocks, Used, H
<1> QED
  BY <1>8, <1>9, <1>10, <1>11, <1>12 DEF TlsfSound

\* Headers, boundary tags, free lists, bitmaps and what callers hold describe
\* one division of the heap into blocks, whatever the sizes of pages, headers
\* and classes, and whatever is asked for in whatever order.
THEOREM HeapIsSound == TlsfSpec => []TlsfSound
BY TlsfInvariant, SoundFromInvariant, PTL

\* "Rounds up so the found block is always large enough": what find_free_block
\* offers for a request fits it, and it offers something if a block of the
\* rounded-up size is free.
THEOREM SearchesFit == TlsfSpec => []SearchFits
<1>1. TlsfIInv => SearchFits
  <2> SUFFICES ASSUME TlsfIInv, NEW size \in Sizes \ {0}
               PROVE  LET a == Aligned(size) IN
                 /\ \A b \in Candidates(heap, a) : heap.hdr[b].size >= a
                 /\ a <= Pow2[FL_INDEX_MAX] /\ (\E b \in FreeBlocks : heap.hdr[b].size >= RoundUp(a))
                      => Candidates(heap, a) # {}
    BY DEF SearchFits
  <2> DEFINE a == Aligned(size)
             H == heap.hdr
  <2>0. Chain(H, Ends, g_heap_top) /\ ListsHold(heap, FreeIn(H))
    BY DEF TlsfIInv
  <2>1. Asked(a) /\ a \in Nat
    BY Requests DEF Asked
  <2> HIDE DEF a
  <2>2. /\ \A b \in Candidates(heap, a) :
              b \in DOMAIN H /\ H[b].free /\ H[b].size # 0 /\ a <= H[b].size
        /\ a <= Pow2[FL_INDEX_MAX] /\ (\E b \in FreeIn(H) : H[b].size >= RoundUp(a))
             => Candidates(heap, a) # {}
    BY <2>0, <2>1, CandidatesFit
  <2>3. \A b \in DOMAIN H : H[b].size \in Nat
    <3> SUFFICES ASSUME NEW b \in DOMAIN H PROVE H[b].size \in Nat
      OBVIOUS
    <3>1. BlockFacts(H, Ends, g_heap_top, b)
      BY <2>0, ChainFacts
    <3> QED
      BY <3>1 DEF BlockFacts
  <2>4. \A b \in Candidates(heap, a) : H[b].size >= a
    BY <2>1, <2>2, <2>3
  <2> QED
    BY <2>2, <2>4 DEF FreeBlocks, FreeIn, a
<1> QED
  BY <1>1, TlsfInvariant, PTL

-----------------------------------------------------------------------------
(***************************************************************************)
(* The heap implements HeapBlocks: a block in the hands of a caller is the *)
(* range of addresses it asked for.                                        *)
(***************************************************************************)
Extent(x) == (x.blk + OVERHEAD) .. (x.blk + OVERHEAD + x.size - 1)
Extents(L) == {Extent(x) : x \in L}

LEMMA Apart ==
  ASSUME NEW H, NEW E, NEW top, Chain(H, E, top), NEW L, Holds(H, L), NEW x \in L, NEW y \in L,
         x.blk < y.blk
  PROVE  Extent(x) \cap Extent(y) = {}
<1>1. /\ x.blk \in Used(H) /\ y.blk \in Used(H) /\ x.size \in Nat /\ y.size \in Nat
      /\ x.size <= H[x.blk].size
  BY DEF Holds
<1>2. x.blk \in DOMAIN H /\ y.blk \in DOMAIN H /\ H[x.blk].size # 0
  BY <1>1 DEF Used
<1>3. /\ Linked(H, E, top, x.blk) /\ BlockFacts(H, E, top, x.blk)
      /\ BlockFacts(H, E, top, y.blk)
  BY <1>2, ChainFacts
<1>4. x.blk \notin E
  BY <1>2, <1>3 DEF Linked
<1>5. Nxt(H, x.blk) <= y.blk
  BY <1>2, <1>4, Before
<1>6. x.blk \in Nat /\ y.blk \in Nat /\ H[x.blk].size \in Nat /\ OVERHEAD \in Nat
  BY <1>3, HeapNumbers DEF BlockFacts
<1>7. x.blk + OVERHEAD + x.size <= y.blk
  BY <1>1, <1>5, <1>6 DEF Nxt
<1> QED
  BY <1>1, <1>6, <1>7 DEF Extent

LEMMA ExtentsFresh ==
  ASSUME NEW H, NEW E, NEW top, Chain(H, E, top), NEW L, Holds(H, L), NEW x \in L
  PROVE  /\ Extent(x) # {} /\ Extent(x) \subseteq Addrs
         /\ \A y \in L \ {x} : Extent(x) \cap Extent(y) = {} /\ Extent(x) # Extent(y)
<1>1. /\ x.blk \in Used(H) /\ x.size \in Nat /\ x.size > 0 /\ x.size <= H[x.blk].size
  BY DEF Holds
<1>2. x.blk \in DOMAIN H
  BY <1>1 DEF Used
<1>3. BlockFacts(H, E, top, x.blk) /\ Linked(H, E, top, x.blk) /\ top \in Addrs
  BY <1>2, ChainFacts DEF Chain
<1>4. /\ x.blk \in Nat /\ HeapStart <= x.blk /\ H[x.blk].size \in Nat
      /\ Nxt(H, x.blk) <= top /\ top \in Nat /\ top <= HeapLimit
      /\ OVERHEAD \in Nat \ {0} /\ HeapStart \in Nat /\ HeapLimit \in Nat
  BY <1>3, HeapNumbers DEF BlockFacts, Linked
<1>5. x.blk + OVERHEAD + x.size <= HeapLimit
  BY <1>1, <1>4 DEF Nxt
<1>6. x.blk + OVERHEAD \in Extent(x) /\ Extent(x) \subseteq Addrs
  BY <1>1, <1>4, <1>5 DEF Extent, Addrs
<1>7. ASSUME NEW y \in L, y # x PROVE Extent(x) \cap Extent(y) = {}
  <2>1. y.blk # x.blk
    BY <1>7 DEF Holds
  <2>2. y.blk \in Nat
    <3>1. y.blk \in DOMAIN H
      BY DEF Holds, Used
    <3>2. BlockFacts(H, E, top, y.blk)
      BY <3>1, ChainFacts
    <3> QED
      BY <3>2 DEF BlockFacts
  <2>3. x.blk < y.blk \/ y.blk < x.blk
    BY <1>4, <2>1, <2>2
  <2> QED
    BY <2>3, Apart
<1> HIDE DEF Extent
<1> QED
  BY <1>6, <1>7

\* A step of the heap is a step of HeapBlocks or changes nothing there.
LEMMA StepImplements ==
  ASSUME TlsfIInv, TlsfIInv', LiveStep
  PROVE  \/ Extents(live') = Extents(live)
         \/ \E e \in Extents(live) : Extents(live') = Extents(live) \ {e}
         \/ \E f \in Extents(live') :
              /\ f # {} /\ f \subseteq Addrs
              /\ \/ /\ \A o \in Extents(live) : f \cap o = {}
                    /\ Extents(live') = Extents(live) \cup {f}
                 \/ \E e \in Extents(live) :
                      /\ \A o \in Extents(live) \ {e} : f \cap o = {}
                      /\ Extents(live') = (Extents(live) \ {e}) \cup {f}
<1>1. /\ Chain(heap.hdr, Ends, g_heap_top) /\ Holds(heap.hdr, live)
      /\ Chain(heap'.hdr, Ends', g_heap_top') /\ Holds(heap'.hdr, live')
  BY DEF TlsfIInv
<1>2. ASSUME NEW x \in live
      PROVE  Extents(live \ {x}) = Extents(live) \ {Extent(x)} /\ Extent(x) \in Extents(live)
  <2>1. \A y \in live \ {x} : Extent(x) # Extent(y)
    BY <1>1, ExtentsFresh
  <2> QED
    BY <2>1 DEF Extents
<1>3. ASSUME NEW gone, AtMostOne(gone), Given(gone)
      PROVE  \E f \in Extents(live') :
              /\ f # {} /\ f \subseteq Addrs
              /\ \/ /\ \A o \in Extents(live) : f \cap o = {}
                    /\ Extents(live') = Extents(live) \cup {f}
                 \/ \E e \in Extents(live) :
                      /\ \A o \in Extents(live) \ {e} : f \cap o = {}
                      /\ Extents(live') = (Extents(live) \ {e}) \cup {f}
  <2>1. PICK new : live' = (live \ gone) \cup {new} /\ \A y \in live \ gone : y.blk # new.blk
    BY <1>3 DEF Given
  <2> DEFINE f == Extent(new)
  <2>2. new \in live' /\ new \notin live \ gone
    BY <2>1
  <2>3. f # {} /\ f \subseteq Addrs /\ \A y \in live' \ {new} : f \cap Extent(y) = {}
    BY <1>1, <2>2, ExtentsFresh
  <2> HIDE DEF f
  <2>4. \A o \in Extents(live \ gone) : f \cap o = {}
    BY <2>1, <2>2, <2>3 DEF Extents
  <2>5. Extents(live') = Extents(live \ gone) \cup {f} /\ f \in Extents(live')
    BY <2>1 DEF Extents, f
  <2>6. CASE gone = {}
    <3>1. live \ gone = live
      BY <2>6
    <3> QED
      BY <2>3, <2>4, <2>5, <3>1
  <2>7. ASSUME NEW x \in live, gone = {x}
        PROVE  \E e \in Extents(live) : Extents(live \ gone) = Extents(live) \ {e}
    BY <1>2, <2>7
  <2> QED
    BY <1>3, <2>3, <2>4, <2>5, <2>6, <2>7 DEF AtMostOne
<1> QED
  BY <1>2, <1>3 DEF LiveStep

\* What kmalloc, kfree and krealloc promise in malloc.h: a range handed out is
\* not empty, lies in the heap and overlaps no range that is still held, and
\* nothing but a call of its holder takes it away or changes it.
THEOREM HeapImplemented == TlsfSpec => ImplementsHeap
<1> DEFINE allocated ==
             {(x.blk + OVERHEAD) .. (x.blk + OVERHEAD + x.size - 1) : x \in live}
<1>1. allocated = Extents(live)
  BY DEF Extents, Extent
<1>2. TlsfInit => Promise!HeapInit
  BY DEF TlsfInit, Promise!HeapInit
<1>3. TlsfIInv /\ TlsfIInv' /\ [TlsfNext]_tlsfVars => [Promise!HeapNext]_allocated
  <2> SUFFICES ASSUME TlsfIInv, TlsfIInv', [TlsfNext]_tlsfVars
               PROVE  Promise!HeapNext \/ allocated' = allocated
    OBVIOUS
  <2>0. /\ allocated = Extents(live) /\ allocated' = Extents(live')
    BY DEF Extents, Extent
  <2>1. LiveStep
    BY NextKeeps DEF LiveStep, tlsfVars
  <2> HIDE DEF allocated
  <2>2. \/ allocated' = allocated
        \/ \E e \in allocated : allocated' = allocated \ {e}
        \/ \E f \in allocated' :
             /\ f # {} /\ f \subseteq Addrs
             /\ \/ /\ \A o \in allocated : f \cap o = {}
                   /\ allocated' = allocated \cup {f}
                \/ \E e \in allocated :
                     /\ \A o \in allocated \ {e} : f \cap o = {}
                     /\ allocated' = (allocated \ {e}) \cup {f}
    BY <2>0, <2>1, StepImplements
  <2> QED
    BY <2>2 DEF allocated, Promise!HeapNext, Promise!Alloc, Promise!Free, Promise!Resize, Promise!Fresh
<1> QED
  BY <1>2, <1>3, TlsfInvariant, PTL DEF TlsfSpec, ImplementsHeap, Promise!HeapSpec

=============================================================================

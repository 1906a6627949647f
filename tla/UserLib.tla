-------------------------------- MODULE UserLib --------------------------------
(***************************************************************************)
(* The C library the user programs are linked with (src/user/lib): the     *)
(* heap behind malloc, realloc and free, which grows by whole pages with   *)
(* SYS_BRK, and the streams of stdio.c on top of it.                       *)
(*                                                                         *)
(* A heap is a record: "hdr", the block headers by their distance from     *)
(* g_heap_start (bytes that are no header have no entry: reading them as   *)
(* one is undefined); "brk", the break; "limit", the break the kernel      *)
(* still grants; "gap", set once a growth left bytes that belong to no     *)
(* block; "wild", set once a loop has read something that is no header.    *)
(***************************************************************************)
EXTENDS Integers, Sequences, SequencesExt

CONSTANTS HDR,        \* sizeof(block_hdr_t) (8)
          MIN_SPLIT,  \* smallest payload worth a block of its own (4)
          ALIGN,      \* sizes are multiples of this (4)
          PAGE,       \* the heap grows by this (4096)
          FILE_SIZE,  \* sizeof(FILE)
          FILE_BUF,   \* FILE_BUF_SIZE, what fgetc reads at a time (512)
          LINE        \* the line buffer of the programs (512)

ASSUME UserLibAssumption ==
  /\ {HDR, MIN_SPLIT, ALIGN, PAGE, FILE_SIZE, FILE_BUF} \subseteq Nat \ {0}
  /\ LINE \in Nat /\ LINE >= 2
  /\ HDR % ALIGN = 0 /\ PAGE % ALIGN = 0

Null == -1

NewHeap(limit) == [hdr |-> <<>>, brk |-> 0, limit |-> limit, gap |-> FALSE, wild |-> FALSE]

Rounded(n, unit) == ((n + unit - 1) \div unit) * unit

WithHeader(hdr, p, size, used) ==
  [q \in DOMAIN hdr \union {p} |-> IF q = p THEN [size |-> size, used |-> used] ELSE hdr[q]]
Without(hdr, p) == [q \in DOMAIN hdr \ {p} |-> hdr[q]]

\* The places the loops of malloc and free look at, in their order; the walk
\* ends at the first that holds no header.
Walk(h) ==
  LET f[p \in 0 .. h.brk + PAGE] ==
        IF p + HDR > h.brk THEN <<>>
        ELSE IF p \notin DOMAIN h.hdr THEN <<p>>
        ELSE <<p>> \o f[p + HDR + h.hdr[p].size]
  IN f[0]

\* Takes n bytes out of the block at p; a rest that can hold a block becomes one.
Carve(h, p, n) ==
  LET size == h.hdr[p].size
  IN [h EXCEPT !.hdr =
        IF size >= n + HDR + MIN_SPLIT
        THEN WithHeader(WithHeader(@, p, n, TRUE), p + HDR + n, size - n - HDR, FALSE)
        ELSE WithHeader(@, p, size, TRUE)]

\* A new chunk behind the break: the block asked for, and a free one from what
\* is left over if that is large enough.
Grow(h, n) ==
  LET p == h.brk
      chunk == Rounded(HDR + n, PAGE)
      left == chunk - (HDR + n)
      first == WithHeader(h.hdr, p, n, TRUE)
  IN IF p + chunk > h.limit THEN [h |-> h, ptr |-> Null]
     ELSE [h |-> [h EXCEPT !.brk = p + chunk,
                           !.hdr = IF left >= HDR + MIN_SPLIT
                                   THEN WithHeader(first, p + HDR + n, left - HDR, FALSE)
                                   ELSE first,
                           !.gap = @ \/ left \in 1 .. HDR + MIN_SPLIT - 1],
           ptr |-> p + HDR]

malloc(h, bytes) ==
  LET n == Rounded(bytes, ALIGN)
      Fits(p) == p \in DOMAIN h.hdr /\ ~h.hdr[p].used /\ h.hdr[p].size >= n
      Searched(w) ==
        IF \E i \in DOMAIN w : Fits(w[i])
        THEN LET p == SelectSeq(w, Fits)[1] IN [h |-> Carve(h, p, n), ptr |-> p + HDR]
        ELSE IF Range(w) \subseteq DOMAIN h.hdr THEN Grow(h, n)
        ELSE [h |-> [h EXCEPT !.wild = TRUE], ptr |-> Null]
  IN IF bytes = 0 THEN [h |-> h, ptr |-> Null] ELSE Searched(Walk(h))

\* Faulty: the header of the block that disappears is not added.
Joined_NoHeader(hdr, w) ==
  FoldLeft(LAMBDA acc, p :
             IF acc.at # Null /\ ~acc.hdr[acc.at].used /\ ~acc.hdr[p].used
             THEN [acc EXCEPT !.hdr = Without(WithHeader(@, acc.at,
                                 @[acc.at].size + @[p].size, FALSE), p)]
             ELSE [acc EXCEPT !.at = p],
           [hdr |-> hdr, at |-> Null], w).hdr

\* One pass over the heap joins every free block with the free ones behind it.
Joined(hdr, w) ==
  FoldLeft(LAMBDA acc, p :
             IF acc.at # Null /\ ~acc.hdr[acc.at].used /\ ~acc.hdr[p].used
             THEN [acc EXCEPT !.hdr = Without(WithHeader(@, acc.at,
                                 @[acc.at].size + HDR + @[p].size, FALSE), p)]
             ELSE [acc EXCEPT !.at = p],
           [hdr |-> hdr, at |-> Null], w).hdr

free(h, ptr) ==
  LET Released(g, w) == IF Range(w) \subseteq DOMAIN g.hdr THEN [g EXCEPT !.hdr = Joined(@, w)]
                        ELSE [g EXCEPT !.wild = TRUE]
      Marked(g) == Released(g, Walk(g))
  IN IF ptr = Null THEN h ELSE Marked([h EXCEPT !.hdr[ptr - HDR].used = FALSE])

\* A shorter block gives its end back; a longer one is a new block.
realloc(h, ptr, bytes) ==
  LET Moved(new) == IF new.ptr = Null THEN new ELSE [h |-> free(new.h, ptr), ptr |-> new.ptr]
      n == Rounded(bytes, ALIGN)
  IN CASE ptr = Null -> malloc(h, bytes)
       [] ptr # Null /\ bytes = 0 -> [h |-> free(h, ptr), ptr |-> Null]
       [] ptr # Null /\ bytes > 0 /\ h.hdr[ptr - HDR].size >= n ->
            [h |-> Carve(h, ptr - HDR, n), ptr |-> ptr]
       [] OTHER -> Moved(malloc(h, bytes))

---------------------------------------------------------------------------
(* Streams: a FILE is [ptr, name, pos, got, at, eof] with the file position *)
(* of the kernel, the bytes fgetc has read and how many of them it gave out. *)

NoFile == [ptr |-> Null, name |-> <<>>, pos |-> 0, got |-> <<>>, at |-> 0, eof |-> FALSE]

\* "w" creates the file or empties it; the FILE comes from malloc afterwards,
\* so a file may be emptied though fopen fails.  "opens" is the kernel's answer.
fopen(h, disk, name, mode, opens) ==
  LET d == IF mode = "w"
           THEN [n \in DOMAIN disk \union {name} |-> IF n = name THEN <<>> ELSE disk[n]]
           ELSE disk
      Stream(m) == [h |-> m.h, disk |-> d,
                    f |-> IF m.ptr = Null THEN NoFile ELSE [NoFile EXCEPT !.ptr = m.ptr, !.name = name]]
  IN IF ~opens \/ (mode = "r" /\ name \notin DOMAIN disk) THEN [h |-> h, disk |-> disk, f |-> NoFile]
     ELSE Stream(malloc(h, FILE_SIZE))

fclose(h, f) == free(h, f.ptr)

\* Up to n bytes from the kernel's position; fread does not look at "got".
fread(disk, f, n) ==
  LET data == disk[f.name]
      end == IF f.pos + n < Len(data) THEN f.pos + n ELSE Len(data)
      bytes == IF f.pos < end THEN SubSeq(data, f.pos + 1, end) ELSE <<>>
  IN [bytes |-> bytes, f |-> [f EXCEPT !.pos = @ + Len(bytes), !.eof = @ \/ bytes = <<>>]]

\* The next byte, from the buffer or after filling it; Null at the end.
fgetc(disk, f) ==
  LET r == fread(disk, f, FILE_BUF)
  IN CASE f.eof -> [c |-> Null, f |-> f]
       [] ~f.eof /\ f.at < Len(f.got) -> [c |-> f.got[f.at + 1], f |-> [f EXCEPT !.at = @ + 1]]
       [] ~f.eof /\ f.at >= Len(f.got) /\ r.bytes = <<>> -> [c |-> Null, f |-> [f EXCEPT !.eof = TRUE]]
       [] OTHER -> [c |-> r.bytes[1], f |-> [r.f EXCEPT !.got = r.bytes, !.at = 1]]

\* Up to LINE - 1 bytes or a line.
fgets(disk, f0) ==
  LET g[k \in 0 .. LINE - 1] ==
        IF k = 0 THEN [line |-> <<>>, f |-> f0, more |-> TRUE]
        ELSE LET prev == g[k - 1]
                 r == fgetc(disk, prev.f)
             IN IF ~prev.more THEN prev
                ELSE IF r.c = Null THEN [prev EXCEPT !.f = r.f, !.more = FALSE]
                ELSE [line |-> Append(prev.line, r.c), f |-> r.f, more |-> r.c # 10]
  IN g[LINE - 1]

\* A string ends at its first NUL.
CString(s) == SubSeq(s, 1, CHOOSE n \in 0 .. Len(s) : /\ \A i \in 1 .. n : s[i] # 0
                                                      /\ n < Len(s) => s[n + 1] = 0)

\* fwrite at the position: only the first n bytes find room.
fwrite(disk, f, bytes, n) ==
  [disk |-> [disk EXCEPT ![f.name] = SubSeq(@, 1, f.pos) \o SubSeq(bytes, 1, n)
                                     \o SubSeq(@, f.pos + n + 1, Len(@))],
   f |-> [f EXCEPT !.pos = @ + n]]
=============================================================================

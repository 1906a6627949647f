--------------------------------- MODULE Tools ---------------------------------
(***************************************************************************)
(* The small user programs: gzip (with -d and -l), cat, cp, rm, mkdir, ls, *)
(* hello and curl, each from its main to its exit, over the user library   *)
(* of UserLib; and a program that only calls the library: the allocator,   *)
(* the formatters, the scanners and the sorts of LibC.                     *)
(*                                                                         *)
(* A program has the machine for itself until it exits (sys_exec waits for *)
(* it), so an action is one of its functions or one turn of its loops; the *)
(* system calls may fail or write less than asked.                         *)
(***************************************************************************)
EXTENDS UserLib, FiniteSets

CONSTANTS IntBits, SORT_STACK, INSERTION,    \* of LibC, IntBits being its W
          BLOCK,        \* largest stored block of deflate_store (65535)
          FNAME_MAX,    \* name bytes do_decompress keeps (255)
          PRINTF_BUF,   \* buffer of vfprintf (512)
          RECV,         \* bytes curl asks recv for (1023)
          Crc(_),       \* crc32_update as four bytes: written, shown, never compared
          Launches_,    \* the command lines: records [prog, argv]
          Limits,       \* breaks the kernel may grant
          DiskAtStart,  \* name -> bytes
          Streams,      \* what a server may send to curl
          AllocSizes, MaxAllocs,   \* calls of the allocator's client
          Prints,       \* calls of the formatters: [lib, d, size, layout]
          Arrays,       \* arrays to sort and search
          MaxPrograms

Libc == INSTANCE LibC WITH W <- IntBits

ASSUME ToolsAssumption ==
  /\ IntBits \in Nat /\ IntBits >= 8 /\ IntBits % 4 = 0
  /\ {SORT_STACK, INSERTION, PRINTF_BUF} \subseteq Nat \ {0, 1}
  /\ BLOCK \in 1 .. 65535 /\ FNAME_MAX \in Nat /\ RECV \in Nat /\ MaxPrograms \in Nat

VARIABLES disk,   \* the files: name -> bytes
          dirs,   \* directories made by mkdir
          heap,   \* the heap of the running program
          job,    \* the running program
          made,   \* history: the archives gzip reported as written
          ran     \* programs started so far (bounded by MaxPrograms)

toolVars == <<disk, dirs, heap, job, made, ran>>

NoJob == [prog |-> "none", at |-> "idle", argv |-> <<>>, i |-> 1,
          f |-> NoFile, g |-> NoFile,
          data |-> <<>>, pdata |-> Null, ppack |-> Null, out |-> <<>>, pout |-> Null,
          name |-> <<>>, screen |-> <<>>, left |-> {}, held |-> {}, calls |-> 0,
          ret |-> 0, fault |-> FALSE, before |-> <<>>, result |-> <<>>]

ToolsInit == /\ disk = DiskAtStart /\ dirs = {} /\ made = {} /\ ran = 0
             /\ heap = NewHeap(0) /\ job = NoJob

Finished(j, ret) == [j EXCEPT !.at = "done", !.ret = ret]

\* Reading past the headers is undefined: nothing is said of such a program.
Settle(h, j) == /\ heap' = h
                /\ job' = IF h.wild THEN [j EXCEPT !.at = "wild"] ELSE j

First_(prog) == CASE prog \in {"gzip", "gunzip", "gzip -l"} -> "read"
                  [] prog \in {"cat", "cp", "rm", "mkdir", "ls", "hello", "curl"} -> "open"
                  [] OTHER -> "call"

Launch(l, limit) ==
  /\ job.at = "idle" /\ ran < MaxPrograms
  /\ job' = [NoJob EXCEPT !.prog = l.prog, !.argv = l.argv, !.at = First_(l.prog), !.before = disk]
  /\ heap' = NewHeap(limit)
  /\ ran' = ran + 1
  /\ UNCHANGED <<disk, dirs, made>>

Exit_ == /\ job.at \in {"done", "wild"}
         /\ job' = NoJob /\ heap' = NewHeap(0)
         /\ UNCHANGED <<disk, dirs, made, ran>>

---------------------------------------------------------------------------
(* gzip *)

Byte(n) == n % 256
LittleEndian(n) == <<Byte(n), Byte(n \div 256), Byte(n \div 65536), 0>>
Suffix == <<46, 103, 122>>

\* The whole file in one buffer.  An empty file counts as unreadable; a read
\* that fails ("reads" FALSE) passes for a file without content.
read_file(h, name, reads) ==
  LET size == Len(disk[name])
      Into(o, m) == [h |-> fclose(m.h, o.f), ptr |-> m.ptr,
                     data |-> IF reads THEN fread(disk, o.f, size).bytes ELSE <<>>]
      Opened(o) == IF o.f.ptr = Null THEN [h |-> o.h, ptr |-> Null, data |-> <<>>]
                   ELSE IF size = 0 THEN [h |-> fclose(o.h, o.f), ptr |-> Null, data |-> <<>>]
                   ELSE Into(o, malloc(o.h, size + 1))
  IN Opened(fopen(h, disk, name, "r", TRUE))

\* The file is emptied before anything is written; n bytes find room.
write_file(h, name, bytes, opens, n) ==
  LET Opened(o) ==
        IF o.f.ptr = Null THEN [h |-> o.h, disk |-> o.disk, ret |-> -1]
        ELSE [h |-> fclose(o.h, o.f), disk |-> fwrite(o.disk, o.f, bytes, n).disk,
              ret |-> IF n = Len(bytes) THEN 0 ELSE -1]
  IN Opened(fopen(h, disk, name, "w", opens))

adler32(data) ==
  LET s == FoldLeft(LAMBDA acc, b : <<acc[1] + b, acc[2] + acc[1] + b>>, <<1, 0>>, data)
  IN <<Byte((s[2] % 65521) \div 256), Byte(s[2] % 65521),
       Byte((s[1] % 65521) \div 256), Byte(s[1] % 65521)>>

\* Faulty: every block is marked as the last.
deflate_store_AllLast(data, cap) ==
  LET chunks == (Len(data) + BLOCK - 1) \div BLOCK
      Chunk(k) == SubSeq(data, ((k - 1) * BLOCK) + 1,
                         IF k = chunks THEN Len(data) ELSE k * BLOCK)
      Stored(k) == LET n == Len(Chunk(k)) IN
                   <<1, Byte(n), n \div 256, 255 - Byte(n), 255 - (n \div 256)>> \o Chunk(k)
  IN [ok |-> cap >= 2 + (chunks * 5) + Len(data) + 4,
      bytes |-> <<120, 1>> \o FlattenSeq([k \in 1 .. chunks |-> Stored(k)]) \o adler32(data)]

\* Stored blocks between a zlib header and the checksum; the last is marked.
deflate_store(data, cap) ==
  LET chunks == (Len(data) + BLOCK - 1) \div BLOCK
      Chunk(k) == SubSeq(data, ((k - 1) * BLOCK) + 1,
                         IF k = chunks THEN Len(data) ELSE k * BLOCK)
      Stored(k) == LET n == Len(Chunk(k)) IN
                   <<IF k = chunks THEN 1 ELSE 0, Byte(n), n \div 256,
                     255 - Byte(n), 255 - (n \div 256)>> \o Chunk(k)
  IN [ok |-> cap >= 2 + (chunks * 5) + Len(data) + 4,
      bytes |-> <<120, 1>> \o FlattenSeq([k \in 1 .. chunks |-> Stored(k)]) \o adler32(data)]

\* From byte pos on: the blocks up to the one marked last, or to where no
\* header fits any more; the checksums are not looked at.
RECURSIVE Inflate(_, _, _, _)
Inflate(src, cap, pos, out) ==
  LET n == src[pos + 2] + (256 * src[pos + 3])
      from == pos + 5
      new == out \o SubSeq(src, from + 1, from + n)
  IN CASE pos + 4 >= Len(src) -> [ok |-> TRUE, bytes |-> out]
       [] pos + 4 < Len(src) /\ (src[pos + 1] \div 2) % 4 # 0 -> [ok |-> FALSE, bytes |-> <<>>]
       [] OTHER -> IF from + n > Len(src) \/ Len(out) + n > cap THEN [ok |-> FALSE, bytes |-> <<>>]
                   ELSE IF src[pos + 1] % 2 = 1 THEN [ok |-> TRUE, bytes |-> new]
                   ELSE Inflate(src, cap, from + n, new)

inflate_stored(src, cap) == IF Len(src) < 6 THEN [ok |-> FALSE, bytes |-> <<>>]
                            ELSE Inflate(src, cap, 2, <<>>)

\* FLG says that a name follows; the time is 0.
write_gzip_header(name) == <<31, 139, 8, 8, 0, 0, 0, 0, 0, 255>> \o name \o <<0>>

\* The common first part: read_file.
GzRead(opens, reads) ==
  LET Got(r) == Settle(r.h, IF r.ptr = Null THEN Finished(job, 1)
                            ELSE [job EXCEPT !.at = "pack", !.data = r.data, !.pdata = r.ptr,
                                             !.fault = ~reads])
  IN /\ job.prog \in {"gzip", "gunzip", "gzip -l"} /\ job.at = "read"
     /\ job.argv[1] \in DOMAIN disk \/ ~opens
     /\ IF opens THEN Got(read_file(heap, job.argv[1], reads)) ELSE Settle(heap, Finished(job, 1))
     /\ UNCHANGED <<disk, dirs, made, ran>>

\* The blocks given back on the way out, in this order.
FreeAll(h, ptrs) == FoldLeft(free, h, ptrs)
GivesUp(h, ptrs) == Settle(FreeAll(h, ptrs), [Finished(job, 1) EXCEPT !.pdata = Null])

\* Compress in memory: the deflated bytes, then the archive around them.
do_compress ==
  LET len == Len(job.data)
      cap == len + (((len \div BLOCK) + 1) * 5) + 16
      Archive(d, m1, m2) ==
        IF m2.ptr = Null THEN GivesUp(m2.h, <<job.pdata, m1.ptr>>)
        ELSE Settle(m2.h, [job EXCEPT !.at = "write", !.ppack = m1.ptr, !.pout = m2.ptr,
                             !.name = job.argv[1] \o Suffix,
                             !.out = write_gzip_header(job.argv[1]) \o d.bytes
                                       \o Crc(job.data) \o LittleEndian(len)])
      Packed(d, m1) ==
        IF m1.ptr = Null THEN GivesUp(m1.h, <<job.pdata>>)
        ELSE IF ~d.ok THEN GivesUp(m1.h, <<job.pdata, m1.ptr>>)
        ELSE Archive(d, m1, malloc(m1.h, 10 + Len(job.argv[1]) + 1 + Len(d.bytes) + 8))
  IN /\ job.prog = "gzip" /\ job.at = "pack"
     /\ Packed(deflate_store(job.data, cap), malloc(heap, cap))
     /\ UNCHANGED <<disk, dirs, made, ran>>

\* The header's optional fields, each from byte p on: an extra field with its
\* length, a name of which FNAME_MAX bytes are kept, a comment, a checksum.
Flag(s, b) == (s[4] \div b) % 2 = 1
NulAt(s, p) == IF p > Len(s) THEN p
               ELSE CHOOSE n \in p .. Len(s) : /\ \A k \in p + 1 .. n : s[k] # 0
                                               /\ n < Len(s) => s[n + 1] = 0
PastExtra(s) == IF Flag(s, 4) THEN 12 + s[11] + (256 * s[12]) ELSE 10
Shorter(m, n) == IF m < n THEN m ELSE n
NameEnd(s, p) == Shorter(NulAt(s, p), p + FNAME_MAX)
PastName(s, p) == IF Flag(s, 8) THEN NameEnd(s, p) + 1 ELSE p
PastComment(s, p) == IF Flag(s, 16) THEN NulAt(s, p) + 1 ELSE p
BlocksAt(s) == PastComment(s, PastName(s, PastExtra(s))) + (IF Flag(s, 2) THEN 2 ELSE 0)
KeptName(s, p) == IF Flag(s, 8) THEN SubSeq(s, p + 1, NameEnd(s, p)) ELSE <<>>

\* Without a name in the header: the archive's without .gz, or with .out.
Stem(n) == IF Len(n) > 3 /\ SubSeq(n, Len(n) - 2, Len(n)) = Suffix
           THEN SubSeq(n, 1, Len(n) - 3) ELSE n \o <<46, 111, 117, 116>>

\* The room for the output: what the trailer says, if it is below 64 MB.
Room(s, blocks) ==
  LET len == Len(s)
      isize == s[len - 3] + (256 * s[len - 2]) + (65536 * s[len - 1])
  IN IF s[len] < 4 /\ isize > 0 THEN isize + 1 ELSE (blocks * 4) + 1024

do_decompress ==
  LET s == job.data
      len == Len(s)
      Unpacked(m, r, name) ==
        IF ~r.ok THEN GivesUp(m.h, <<job.pdata, m.ptr>>)
        ELSE Settle(m.h, [job EXCEPT !.at = "write", !.pout = m.ptr, !.out = r.bytes,
                                     !.name = IF name # <<>> THEN name ELSE Stem(job.argv[1])])
      Into(m, pos, cap) ==
        IF m.ptr = Null THEN GivesUp(m.h, <<job.pdata>>)
        ELSE Unpacked(m, inflate_stored(SubSeq(s, pos + 1, len - 8), cap), KeptName(s, PastExtra(s)))
      From(pos) ==
        IF len < pos + 8 THEN GivesUp(heap, <<job.pdata>>)
        ELSE Into(malloc(heap, Room(s, len - pos - 8)), pos, Room(s, len - pos - 8))
  IN /\ job.prog = "gunzip" /\ job.at = "pack"
     /\ IF len < 18 THEN GivesUp(heap, <<job.pdata>>)
        ELSE IF s[1] # 31 \/ s[2] # 139 THEN GivesUp(heap, <<job.pdata>>)
        ELSE From(BlocksAt(s))
     /\ UNCHANGED <<disk, dirs, made, ran>>

\* write_file and the way out of both; "made" remembers what was archived.
GzWrite(opens, n) ==
  LET Written(w) ==
        /\ Settle(FreeAll(w.h, <<job.pdata, job.ppack, job.pout>>),
                  [Finished(job, IF w.ret = 0 THEN 0 ELSE 1)
                     EXCEPT !.pdata = Null, !.ppack = Null, !.pout = Null])
        /\ disk' = w.disk
        /\ made' = IF w.ret = 0 /\ ~job.fault /\ job.prog = "gzip"
                   THEN made \union {[bytes |-> job.out, name |-> job.argv[1], data |-> job.data]}
                   ELSE made
  IN /\ job.prog \in {"gzip", "gunzip"} /\ job.at = "write" /\ n \in 0 .. Len(job.out)
     /\ Written(write_file(heap, job.name, job.out, opens, n))
     /\ UNCHANGED <<dirs, ran>>

\* gzip -l: what the trailer says.
do_list ==
  /\ job.prog = "gzip -l" /\ job.at = "pack"
  /\ LET s == job.data
         bad == Len(s) < 18 \/ (Len(s) >= 2 /\ (s[1] # 31 \/ s[2] # 139))
     IN Settle(free(heap, job.pdata),
               [Finished(job, IF bad THEN 1 ELSE 0)
                  EXCEPT !.pdata = Null,
                         !.screen = IF bad THEN <<>> ELSE SubSeq(s, Len(s) - 7, Len(s))])
  /\ UNCHANGED <<disk, dirs, made, ran>>

---------------------------------------------------------------------------
(* cat, cp, rm, mkdir, ls, hello, curl *)

NextArg(j) == IF j.i < Len(j.argv) THEN [j EXCEPT !.i = @ + 1, !.at = "open", !.f = NoFile]
              ELSE [j EXCEPT !.at = "done", !.f = NoFile]

CatOpen(opens) ==
  /\ job.prog = "cat" /\ job.at = "open"
  /\ LET o == fopen(heap, disk, job.argv[job.i], "r", opens)
     IN Settle(o.h, IF o.f.ptr = Null THEN [NextArg(job) EXCEPT !.ret = 1]
                    ELSE [job EXCEPT !.at = "copy", !.f = o.f])
  /\ UNCHANGED <<disk, dirs, made, ran>>

\* One line from fgets to fputs, which stops at a NUL; the read may fail, which
\* looks like the end of the file.
CatLine(reads) ==
  /\ job.prog = "cat" /\ job.at = "copy"
  /\ LET r == fgets(disk, job.f)
     IN IF reads /\ r.line # <<>>
        THEN Settle(heap, [job EXCEPT !.f = r.f, !.screen = @ \o CString(r.line)])
        ELSE Settle(fclose(heap, job.f),
                    [NextArg(job) EXCEPT !.fault = @ \/ (~reads /\ r.line # <<>>)])
  /\ UNCHANGED <<disk, dirs, made, ran>>

\* Source first, then the target, which that empties.
CpOpen(opens1, opens2) ==
  /\ job.prog = "cp" /\ job.at = "open"
  /\ LET src == fopen(heap, disk, job.argv[1], "r", opens1)
         dst == fopen(src.h, disk, job.argv[2], "w", opens2)
     IN IF src.f.ptr = Null THEN Settle(src.h, Finished(job, 1)) /\ UNCHANGED disk
        ELSE /\ disk' = dst.disk
             /\ IF dst.f.ptr = Null THEN Settle(fclose(dst.h, src.f), Finished(job, 1))
                ELSE Settle(dst.h, [job EXCEPT !.at = "copy", !.f = src.f, !.g = dst.f])
  /\ UNCHANGED <<dirs, made, ran>>

\* A buffer at a time; what fwrite returns is not looked at.
CpChunk(reads, short) ==
  /\ job.prog = "cp" /\ job.at = "copy"
  /\ LET r == fread(disk, job.f, LINE)
         n == IF short THEN Len(r.bytes) - 1 ELSE Len(r.bytes)
         w == fwrite(disk, job.g, r.bytes, n)
         end == ~reads \/ r.bytes = <<>>
     IN /\ disk' = IF end THEN disk ELSE w.disk
        /\ IF end
           THEN Settle(fclose(fclose(heap, job.f), job.g),
                       [Finished(job, 0) EXCEPT !.f = NoFile, !.g = NoFile,
                                                !.fault = @ \/ r.bytes # <<>>])
           ELSE Settle(heap, [job EXCEPT !.f = r.f, !.g = w.f, !.fault = @ \/ short])
  /\ UNCHANGED <<dirs, made, ran>>

RmOne(works) ==
  /\ job.prog = "rm" /\ job.at = "open"
  /\ LET name == job.argv[job.i]
         gone == works /\ name \in DOMAIN disk
     IN /\ disk' = IF gone THEN [n \in DOMAIN disk \ {name} |-> disk[n]] ELSE disk
        /\ Settle(heap, IF gone THEN NextArg(job) ELSE [NextArg(job) EXCEPT !.ret = 1])
  /\ UNCHANGED <<dirs, made, ran>>

MkdirOne(works) ==
  /\ job.prog = "mkdir" /\ job.at = "open"
  /\ dirs' = IF works THEN dirs \union {job.argv[job.i]} ELSE dirs
  /\ Settle(heap, IF works THEN NextArg(job) ELSE [NextArg(job) EXCEPT !.ret = 1])
  /\ UNCHANGED <<disk, made, ran>>

\* opendir and readdir until it ends; hello lists /bin the same way.
LsOpen(opens) ==
  /\ job.prog \in {"ls", "hello"} /\ job.at = "open"
  /\ Settle(heap, IF opens THEN [job EXCEPT !.at = "list", !.left = DOMAIN disk \union dirs]
                  ELSE IF job.prog = "ls" THEN Finished(job, 1)
                  ELSE [job EXCEPT !.at = "peek", !.fault = TRUE])
  /\ UNCHANGED <<disk, dirs, made, ran>>

LsEntry ==
  /\ job.prog \in {"ls", "hello"} /\ job.at = "list"
  /\ IF job.left = {}
     THEN Settle(heap, IF job.prog = "ls" THEN Finished(job, 0) ELSE [job EXCEPT !.at = "peek"])
     ELSE LET n == CHOOSE n \in job.left : TRUE
          IN Settle(heap, [job EXCEPT !.left = @ \ {n}, !.screen = Append(@, <<n, n \in dirs>>)])
  /\ UNCHANGED <<disk, dirs, made, ran>>

\* hello shows the first bytes of a file, without the library's streams.
HelloRead(opens) ==
  /\ job.prog = "hello" /\ job.at = "peek"
  /\ Settle(heap, Finished([job EXCEPT !.result = IF opens /\ job.argv[1] \in DOMAIN disk
                                                  THEN SubSeq(disk[job.argv[1]], 1, 4) ELSE <<>>], 0))
  /\ UNCHANGED <<disk, dirs, made, ran>>

\* Name look-up, socket or connect may fail.
CurlConnect(stream, works) ==
  /\ job.prog = "curl" /\ job.at = "open"
  /\ Settle(heap, IF works THEN [job EXCEPT !.at = "copy", !.data = stream, !.out = stream]
                  ELSE Finished(job, 1))
  /\ UNCHANGED <<disk, dirs, made, ran>>

\* Every piece goes through printf("%s"): cut at a NUL and at PRINTF_BUF.
CurlReceive(n) ==
  /\ job.prog = "curl" /\ job.at = "copy"
  /\ n \in (IF job.data = <<>> THEN {0} ELSE 1 .. (IF Len(job.data) < RECV THEN Len(job.data) ELSE RECV))
  /\ LET piece == SubSeq(job.data, 1, n)
         shown == Libc!vsnprintf(<<[conv |-> "s", left |-> FALSE, width |-> 0,
                                    arg |-> CString(piece)]>>, PRINTF_BUF)
     IN Settle(heap, IF n = 0 THEN Finished(job, 0)
                     ELSE [job EXCEPT !.data = SubSeq(@, n + 1, Len(@)), !.screen = @ \o shown,
                                      !.fault = @ \/ shown # piece])
  /\ UNCHANGED <<disk, dirs, made, ran>>

---------------------------------------------------------------------------
(* A program that calls the library *)

AllocMalloc(n) ==
  /\ job.prog = "alloc" /\ job.at = "call" /\ job.calls < MaxAllocs
  /\ LET m == malloc(heap, n)
     IN Settle(m.h, [job EXCEPT !.calls = @ + 1,
                                !.held = @ \union ({m.ptr} \ {Null})])
  /\ UNCHANGED <<disk, dirs, made, ran>>

AllocRealloc(p, n) ==
  /\ job.prog = "alloc" /\ job.at = "call" /\ job.calls < MaxAllocs
  /\ LET m == realloc(heap, p, n)
     IN Settle(m.h, [job EXCEPT !.calls = @ + 1,
                                !.held = IF m.ptr = Null /\ n # 0 THEN @
                                         ELSE (@ \ {p}) \union ({m.ptr} \ {Null})])
  /\ UNCHANGED <<disk, dirs, made, ran>>

AllocFree(p) ==
  /\ job.prog = "alloc" /\ job.at = "call"
  /\ Settle(free(heap, p), [job EXCEPT !.held = @ \ {p}])
  /\ UNCHANGED <<disk, dirs, made, ran>>

AllocEnd ==
  /\ job.prog = "alloc" /\ job.at = "call" /\ job.held = {}
  /\ Settle(heap, Finished(job, 0))
  /\ UNCHANGED <<disk, dirs, made, ran>>

Formatted(lib, fmt, size) == CASE lib = "user" -> Libc!vsnprintf(fmt, size)
                           [] lib = "sdk" -> Libc!vsnprintf_sdk(fmt, size)
                           [] lib = "kernel" -> Libc!vsnprintf_k(fmt, size)
                           [] lib = "kstring" -> Libc!snprintf(fmt, size)
                           [] lib = "kprintf" -> Libc!kprintf(fmt)
                           [] lib = "klog" -> Libc!kvprintf(fmt)

\* Two directives with a bar between them, or two columns without one.
Bar == [conv |-> "lit", arg |-> 124, left |-> FALSE, zero |-> FALSE, width |-> 0]
Layout(c) == IF c.layout = "bar" THEN <<c.d, Bar, c.d>> ELSE <<c.d, c.d>>

\* The scanning format: %i for what was printed with a prefix, and in columns
\* as wide as they were printed.
Expecting(c) ==
  LET d == [conv |-> IF (c.d.alt /\ c.d.conv \in {"x", "X", "o"}) \/ (c.d.conv = "p" /\ c.lib = "sdk") THEN "i"
                     ELSE IF c.d.conv \in {"X", "p"} THEN "x" ELSE c.d.conv,
            width |-> IF c.layout = "bar" THEN 0 ELSE c.d.width, suppress |-> FALSE]
  IN IF c.layout = "bar" THEN <<d, [conv |-> "white"], Bar, d>> ELSE <<d, d>>

\* Each library is read by the scanner that goes with it; the user library has
\* none, programs use atoi and strtoul on the first number.
ReadBack(c, text) ==
  CASE c.lib = "sdk" -> Libc!vscan_core(text, Expecting(c)).out
    [] c.lib = "user" -> LET v == IF c.d.conv = "d" THEN Libc!katoi(text)
                                  ELSE Libc!strtoul(text, Libc!Radix(c.d.conv))
                         IN <<v, v>>
    [] OTHER -> Libc!vsscanf_k(text, Expecting(c)).out

PrintNumbers(c) ==
  /\ job.prog = "print" /\ job.at = "call"
  /\ LET text == Formatted(c.lib, Layout(c), c.size)
     IN Settle(heap, [Finished(job, 0) EXCEPT
                        !.result = [call |-> c, text |-> text, read |-> ReadBack(c, text)]])
  /\ UNCHANGED <<disk, dirs, made, ran>>

SortArray(a) ==
  /\ job.prog = "sort" /\ job.at = "call"
  /\ LET n == Len(a)
         arr == [k \in 0 .. n - 1 |-> a[k + 1]]
         s == Libc!qsort(arr, n)
         k == Libc!kqsort(arr, n)
     IN Settle(heap, [Finished(job, 0) EXCEPT
          !.result = [given |-> arr, sorted |-> s, ksorted |-> k.a, lost |-> k.lost,
                      found |-> [key \in 0 .. 3 |-> Libc!bsearch(key, s, n)]]])
  /\ UNCHANGED <<disk, dirs, made, ran>>

---------------------------------------------------------------------------
Compress == \/ \E opens, reads \in BOOLEAN : GzRead(opens, reads)
            \/ do_compress
            \/ do_decompress
            \/ \E opens \in BOOLEAN, n \in {0, Len(job.out) - 1, Len(job.out)} : GzWrite(opens, n)
            \/ do_list

Utilities == \/ \E opens \in BOOLEAN : CatOpen(opens)
             \/ \E reads \in BOOLEAN : CatLine(reads)
             \/ \E o1, o2 \in BOOLEAN : CpOpen(o1, o2)
             \/ \E reads, short \in BOOLEAN : CpChunk(reads, short)
             \/ \E works \in BOOLEAN : RmOne(works)
             \/ \E works \in BOOLEAN : MkdirOne(works)
             \/ \E opens \in BOOLEAN : LsOpen(opens)
             \/ LsEntry
             \/ \E opens \in BOOLEAN : HelloRead(opens)
             \/ \E stream \in Streams, works \in BOOLEAN : CurlConnect(stream, works)
             \/ \E n \in 0 .. Len(job.data) : CurlReceive(n)

LibraryCalls == \/ \E n \in AllocSizes : AllocMalloc(n)
                \/ \E p \in job.held, n \in AllocSizes : AllocRealloc(p, n)
                \/ \E p \in job.held : AllocFree(p)
                \/ AllocEnd
                \/ job.prog = "print" /\ job.at = "call" /\ \E c \in Prints : PrintNumbers(c)
                \/ job.prog = "sort" /\ job.at = "call" /\ \E a \in Arrays : SortArray(a)

ToolsNext == \/ job.at = "idle" /\ \E l \in Launches_, limit \in Limits : Launch(l, limit)
             \/ Exit_
             \/ Compress
             \/ Utilities
             \/ LibraryCalls

ToolsSpec == ToolsInit /\ [][ToolsNext]_toolVars

---------------------------------------------------------------------------
(* Properties *)

Held == ({job.f.ptr, job.g.ptr, job.pdata, job.ppack, job.pout} \union job.held) \ {Null}

\* The heap of every program is tiled by blocks from its start to the break, so
\* that the loops of malloc and free meet every header and nothing else; the
\* blocks in use are those the program holds, and a program that ends has given
\* all of them back.  A growth that leaves 4 or 8 bytes unregistered breaks the
\* chain (LeftoverRegistered) and is excepted.
HeapTiled ==
  LET w == Walk(heap)
  IN ~heap.gap =>
       /\ ~heap.wild
       /\ DOMAIN heap.hdr = {w[i] : i \in DOMAIN w}
       /\ w = <<>> => heap.brk = 0
       /\ w # <<>> => Last(w) + HDR + heap.hdr[Last(w)].size = heap.brk
       /\ {p + HDR : p \in {q \in DOMAIN heap.hdr : heap.hdr[q].used}} = Held
       /\ job.at = "done" => Held = {}

\* The comment above the growth in malloc: what is left over of a chunk is
\* registered as a free block.
LeftoverRegistered == ~heap.gap

\* A program that reports success and met no failure it does not report has
\* done its work: gunzip restores what gzip archived, byte for byte, and under
\* the name it had; cat shows the files, cp copies, rm removes, ls shows every
\* entry once, and curl what the server sent.
ToolsExact ==
  (job.at = "done" /\ job.ret = 0 /\ ~job.fault) =>
    LET b == job.before
        all == {job.argv[k] : k \in DOMAIN job.argv}
    IN /\ job.prog = "gunzip" =>
            \A m \in made : b[job.argv[1]] = m.bytes => disk[m.name] = m.data
       /\ job.prog = "gzip -l" =>
            \A m \in made : b[job.argv[1]] = m.bytes =>
              job.screen = Crc(m.data) \o LittleEndian(Len(m.data))
       /\ (job.prog = "cat" /\ \A n \in all : \A k \in DOMAIN b[n] : b[n][k] # 0) =>
            job.screen = FlattenSeq([k \in DOMAIN job.argv |-> b[job.argv[k]]])
       /\ (job.prog = "cp" /\ job.argv[1] # job.argv[2]) =>
            disk[job.argv[2]] = b[job.argv[1]] /\ disk[job.argv[1]] = b[job.argv[1]]
       /\ job.prog = "rm" => DOMAIN disk = DOMAIN b \ all
       /\ job.prog = "ls" => /\ Len(job.screen) = Cardinality(DOMAIN disk \union dirs)
                             /\ {job.screen[k][1] : k \in DOMAIN job.screen} = DOMAIN disk \union dirs
       /\ job.prog = "curl" => job.screen = job.out

\* What is known to come out differently: zeros in front of the sign of a
\* padded negative number (user library and kernel), and the smallest number,
\* of which the kernel prints only the sign.
Misprinted(c) ==
  /\ c.d.conv = "d" /\ c.d.arg < 0
  /\ \/ c.lib \in {"user", "kernel"} /\ c.d.zero /\ ~c.d.left
     \/ c.lib \in {"kernel", "kstring"} /\ c.d.arg = Libc!Lowest

\* Formatting and scanning are inverse: a number printed with any flags and
\* width, as a word or in columns, is read back as the same number, unless the
\* text was cut; and no text is longer than its buffer.
NumbersReadBack ==
  (job.at = "done" /\ job.prog = "print") =>
    LET c == job.result.call
        v == IF c.d.conv = "d" \/ (Expecting(c)[1].conv = "i")
             THEN Libc!Signed(c.d.arg) ELSE Libc!Unsigned(c.d.arg)
    IN /\ c.lib \notin {"kprintf", "klog"} => Len(job.result.text) < c.size
       /\ (~Misprinted(c) /\ Len(job.result.text) < c.size - 1) => job.result.read = <<v, v>>

Occurrences(f, x) == Cardinality({k \in DOMAIN f : f[k] = x})
Sorts(f, g) == /\ \A i \in DOMAIN g : \A j \in DOMAIN g : i <= j => g[i] <= g[j]
               /\ DOMAIN g = DOMAIN f
               /\ \A i \in DOMAIN f : Occurrences(f, f[i]) = Occurrences(g, f[i])

\* Both quicksorts deliver the given elements in order, unless the kernel's
\* stack of ranges was full; binary search finds a key exactly if it is there.
SortsAndFinds ==
  (job.at = "done" /\ job.prog = "sort") =>
    LET r == job.result
    IN /\ Sorts(r.given, r.sorted)
       /\ ~r.lost => Sorts(r.given, r.ksorted)
       /\ \A key \in 0 .. 3 :
            IF \E k \in DOMAIN r.given : r.given[k] = key
            THEN r.found[key] \in DOMAIN r.sorted /\ r.sorted[r.found[key]] = key
            ELSE r.found[key] = -1
=============================================================================

----------------------------- MODULE NetProofs -----------------------------
(***************************************************************************)
(* Proofs about Net, for every size of the card's ring, of the ARP cache   *)
(* and of the sockets' rings: a socket's ring is a queue, whoever polls    *)
(* when (StreamKept), and in the orderly network every packet stored is    *)
(* given to the stack once and in order (PacketsOnce).                     *)
(***************************************************************************)
EXTENDS Net, Numbers

-----------------------------------------------------------------------------
(***************************************************************************)
(* A ring of N cells read at h and written at t as a sequence.             *)
(***************************************************************************)
Queued(buf, N, h, t) == [j \in 1 .. (t - h) % N |-> buf[(h + j - 1) % N]]

\* A difference and a sum that wrap once at most.
LEMMA Wraps ==
  ASSUME NEW N \in Nat \ {0}, NEW a \in 0 .. N - 1, NEW b \in 0 .. N - 1
  PROVE  /\ (a - b) % N = IF b <= a THEN a - b ELSE a - b + N
         /\ (a + b) % N = IF a + b < N THEN a + b ELSE a + b - N
         /\ (a + 1) % N = IF a + 1 < N THEN a + 1 ELSE 0
<1>1. (a + b) % N = IF a + b < N THEN a + b ELSE a + b - N
  <2> DEFINE c == a + b
  <2>1. c \in 0 .. 2 * N - 1
    OBVIOUS
  <2> HIDE DEF c
  <2>2. c % N = IF c < N THEN c ELSE c - N
    BY <2>1, SmallRemainder
  <2> QED
    BY <2>2 DEF c
<1>2. (a + 1) % N = IF a + 1 < N THEN a + 1 ELSE 0
  <2> DEFINE c == a + 1
  <2>1. c \in 0 .. 2 * N - 1
    OBVIOUS
  <2> HIDE DEF c
  <2>2. c % N = IF c < N THEN c ELSE c - N
    BY <2>1, SmallRemainder
  <2> QED
    BY <2>1, <2>2 DEF c
<1>3. (a - b) % N = IF b <= a THEN a - b ELSE a - b + N
  <2> DEFINE q == (a - b) \div N
             r == (a - b) % N
  <2>1. q \in Int /\ r \in 0 .. N - 1 /\ a - b = N * q + r
    <3>1. a - b \in Int /\ N \in Int /\ N > 0
      OBVIOUS
    <3> QED
      BY <3>1
  <2> HIDE DEF q, r
  <2>2. q = 0 \/ q = -1
    <3>1. CASE q >= 1
      <4>1. N * q >= N
        BY <2>1, <3>1
      <4> QED
        BY <2>1, <4>1
    <3>2. CASE q <= -2
      <4>1. N * q <= -(2 * N)
        BY <2>1, <3>2
      <4> QED
        BY <2>1, <4>1
    <3> QED
      BY <2>1, <3>1, <3>2
  <2>3. r = IF b <= a THEN a - b ELSE a - b + N
    BY <2>1, <2>2
  <2> QED
    BY <2>3 DEF r
<1> QED
  BY <1>1, <1>2, <1>3

\* Its cells, by their number from the front.
LEMMA QueuedLen ==
  ASSUME NEW N \in Nat \ {0}, NEW h \in 0 .. N - 1, NEW t \in 0 .. N - 1, NEW S, NEW buf \in [0 .. N - 1 -> S]
  PROVE  /\ (t - h) % N \in 0 .. N - 1 /\ Queued(buf, N, h, t) \in Seq(S)
         /\ Len(Queued(buf, N, h, t)) = (t - h) % N
<1>1. (t - h) % N \in 0 .. N - 1
  BY Wraps
<1>2. ASSUME NEW j \in 1 .. (t - h) % N PROVE (h + j - 1) % N \in 0 .. N - 1
  <2>1. h + j - 1 \in Int /\ N \in Int /\ N > 0
    BY <1>1
  <2> QED
    BY <2>1
<1>3. Queued(buf, N, h, t) \in [1 .. (t - h) % N -> S]
  BY <1>2 DEF Queued
<1> QED
  BY <1>1, <1>3

\* A cell written behind the last one is appended, unless the ring is full; a
\* full ring holds N - 1.
AppendsAt(buf, N, h, t, x) ==
  /\ (t + 1) % N = h => (t - h) % N = N - 1
  /\ (t + 1) % N # h =>
       /\ (t - h) % N < N - 1 /\ (t + 1) % N \in 0 .. N - 1
       /\ Queued([buf EXCEPT ![t] = x], N, h, (t + 1) % N) = Append(Queued(buf, N, h, t), x)

LEMMA QueuedAppend ==
  ASSUME NEW N \in Nat \ {0}, NEW h \in 0 .. N - 1, NEW t \in 0 .. N - 1, NEW S,
         NEW buf \in [0 .. N - 1 -> S], NEW x \in S
  PROVE  AppendsAt(buf, N, h, t, x)
<1>1. /\ (t - h) % N = IF h <= t THEN t - h ELSE t - h + N
      /\ (t + 1) % N = IF t + 1 < N THEN t + 1 ELSE 0
  BY Wraps
<1>2. CASE (t + 1) % N = h
  BY <1>1, <1>2 DEF AppendsAt
<1>3. CASE (t + 1) % N # h
  <2> DEFINE u == (t + 1) % N
             n == (t - h) % N
             new == [buf EXCEPT ![t] = x]
  <2>1. u \in 0 .. N - 1 /\ n \in 0 .. N - 1 /\ n < N - 1
    BY <1>1, <1>3
  <2>2. (u - h) % N = n + 1
    <3>1. (u - h) % N = IF h <= u THEN u - h ELSE u - h + N
      BY <2>1, Wraps
    <3> QED
      BY <1>1, <1>3, <3>1
  <2>3. new \in [0 .. N - 1 -> S]
    OBVIOUS
  <2> HIDE DEF new, u, n
  <2>4. /\ Queued(buf, N, h, t) \in Seq(S) /\ Len(Queued(buf, N, h, t)) = n
        /\ Queued(new, N, h, u) \in Seq(S) /\ Len(Queued(new, N, h, u)) = n + 1
    BY <2>1, <2>2, <2>3, QueuedLen DEF n
  <2>5. ASSUME NEW j \in 1 .. n + 1
        PROVE  Queued(new, N, h, u)[j] = IF j <= n THEN Queued(buf, N, h, t)[j] ELSE x
    <3> DEFINE c == (h + j - 1) % N
    <3>1. c = IF h + j - 1 < N THEN h + j - 1 ELSE h + j - 1 - N
      <4> DEFINE b == j - 1
      <4>1. b \in 0 .. N - 1 /\ h + j - 1 = h + b
        BY <2>1
      <4> HIDE DEF b
      <4>2. (h + b) % N = IF h + b < N THEN h + b ELSE h + b - N
        BY <4>1, Wraps
      <4> QED
        BY <4>1, <4>2
    <3>2. c = t <=> j = n + 1
      BY <1>1, <2>1, <3>1 DEF n
    <3>3. c \in 0 .. N - 1
      BY <2>1, <3>1
    <3>4. Queued(new, N, h, u)[j] = new[c]
      BY <2>2 DEF Queued
    <3>5. j <= n => Queued(buf, N, h, t)[j] = buf[c]
      BY <2>1 DEF Queued, n
    <3> HIDE DEF c
    <3>6. new[c] = IF c = t THEN x ELSE buf[c]
      BY <3>3 DEF new
    <3> QED
      BY <2>1, <3>2, <3>4, <3>5, <3>6
  <2>6. Queued(new, N, h, u) = Append(Queued(buf, N, h, t), x)
    BY <2>1, <2>4, <2>5
  <2> QED
    BY <1>3, <2>1, <2>6 DEF new, u, n, AppendsAt
<1> QED
  BY <1>2, <1>3

\* A sequence without its first n elements.
LEMMA Dropped ==
  ASSUME NEW S, NEW q \in Seq(S), NEW n \in Nat, n <= Len(q), NEW r \in Seq(S), Len(r) = Len(q) - n,
         \A j \in 1 .. Len(q) - n : r[j] = q[n + j]
  PROVE  r = SubSeq(q, n + 1, Len(q))
<1> DEFINE u == SubSeq(q, n + 1, Len(q))
<1>1. u \in Seq(S) /\ Len(u) = Len(q) - n
  OBVIOUS
<1>2. ASSUME NEW j \in 1 .. Len(q) - n PROVE u[j] = q[n + j]
  <2>1. u[j] = q[n + 1 + j - 1]
    BY <1>2
  <2>2. n + 1 + j - 1 = n + j
    OBVIOUS
  <2> QED
    BY <2>1, <2>2
<1> HIDE DEF u
<1> DEFINE m == Len(q) - n
<1>3. m \in Nat /\ Len(r) = m /\ Len(u) = m
  BY <1>1
<1>4. \A j \in 1 .. m : r[j] = u[j]
  BY <1>2
<1> HIDE DEF m
<1>5. r = u
  BY <1>1, <1>3, <1>4
<1> QED
  BY <1>5 DEF u

\* The n first cells are read.
LEMMA QueuedDrop ==
  ASSUME NEW N \in Nat \ {0}, NEW h \in 0 .. N - 1, NEW t \in 0 .. N - 1, NEW S,
         NEW buf \in [0 .. N - 1 -> S], NEW n \in 0 .. (t - h) % N
  PROVE  /\ (h + n) % N \in 0 .. N - 1
         /\ Queued(buf, N, (h + n) % N, t) = SubSeq(Queued(buf, N, h, t), n + 1, Len(Queued(buf, N, h, t)))
<1> DEFINE k == (h + n) % N
           m == (t - h) % N
<1>1. m = (IF h <= t THEN t - h ELSE t - h + N) /\ m \in 0 .. N - 1
  BY Wraps
<1>2. n \in 0 .. N - 1 /\ n <= m
  BY <1>1
<1>3. k = IF h + n < N THEN h + n ELSE h + n - N
  BY <1>2, Wraps
<1>4. k \in 0 .. N - 1
  BY <1>2, <1>3
<1>5. (t - k) % N = m - n
  <2>1. (t - k) % N = IF k <= t THEN t - k ELSE t - k + N
    BY <1>4, Wraps
  <2> DEFINE r == (t - k) % N
  <2> HIDE DEF k, m, r
  <2>2. r = IF k <= t THEN t - k ELSE t - k + N
    BY <2>1 DEF r
  <2>3. CASE h + n < N
    BY <1>1, <1>2, <1>3, <2>2, <2>3
  <2>4. CASE ~(h + n < N)
    BY <1>1, <1>2, <1>3, <2>2, <2>4
  <2> QED
    BY <2>3, <2>4 DEF r
<1> HIDE DEF k, m
<1>6. /\ Queued(buf, N, h, t) \in Seq(S) /\ Len(Queued(buf, N, h, t)) = m
      /\ Queued(buf, N, k, t) \in Seq(S) /\ Len(Queued(buf, N, k, t)) = m - n
  BY <1>4, <1>5, QueuedLen DEF m
<1>7. ASSUME NEW j \in 1 .. m - n
      PROVE  Queued(buf, N, k, t)[j] = Queued(buf, N, h, t)[n + j]
  <2>1. Queued(buf, N, k, t)[j] = buf[(k + j - 1) % N]
    BY <1>5 DEF Queued
  <2>2. Queued(buf, N, h, t)[n + j] = buf[(h + (n + j) - 1) % N]
    <3>1. n + j \in 1 .. (t - h) % N
      BY <1>1, <1>2 DEF m
    <3> QED
      BY <3>1 DEF Queued
  <2>3. (k + j - 1) % N = (h + (n + j) - 1) % N
    <3> DEFINE b == j - 1
               c == n + j - 1
    <3>1. b \in 0 .. N - 1 /\ c \in 0 .. N - 1 /\ k + j - 1 = k + b /\ h + (n + j) - 1 = h + c /\ c = n + b
      BY <1>1, <1>2, <1>4
    <3> HIDE DEF b, c
    <3>2. (k + b) % N = IF k + b < N THEN k + b ELSE k + b - N
      BY <1>4, <3>1, Wraps
    <3>3. (h + c) % N = IF h + c < N THEN h + c ELSE h + c - N
      BY <3>1, Wraps
    <3> QED
      BY <1>1, <1>2, <1>3, <1>4, <3>1, <3>2, <3>3
  <2> QED
    BY <2>1, <2>2, <2>3
<1>8. Queued(buf, N, k, t) = SubSeq(Queued(buf, N, h, t), n + 1, m)
  <2> DEFINE q == Queued(buf, N, h, t)
             r == Queued(buf, N, k, t)
  <2> HIDE DEF q, r
  <2>1. q \in Seq(S) /\ Len(q) = m /\ r \in Seq(S) /\ Len(r) = m - n /\ \A j \in 1 .. m - n : r[j] = q[n + j]
    BY <1>6, <1>7 DEF q, r
  <2>2. r = SubSeq(q, n + 1, m)
    <3>1. /\ q \in Seq(S) /\ r \in Seq(S) /\ n \in Nat /\ n <= Len(q) /\ Len(r) = Len(q) - n
          /\ \A j \in 1 .. Len(q) - n : r[j] = q[n + j]
      BY <1>2, <2>1
    <3>2. r = SubSeq(q, n + 1, Len(q))
      BY <3>1, Dropped
    <3> QED
      BY <2>1, <3>2
  <2> QED
    BY <2>2 DEF q, r
<1> QED
  BY <1>4, <1>6, <1>8 DEF k

-----------------------------------------------------------------------------
(***************************************************************************)
(* The bytes of a segment.                                                 *)
(***************************************************************************)
Cells == 0 .. TCP_RXBUF_SIZE - 1
SockRec == [connected : BOOLEAN, ip : Nat, rport : Nat, lport : Nat, seq_rx : Nat, head : Cells, tail : Cells,
            buf : [Cells -> Int], queue : Seq(Int)]
IsQueue(k) == k.queue = Queued(k.buf, TCP_RXBUF_SIZE, k.head, k.tail)
SockSound(k) == k \in SockRec /\ IsQueue(k)

LEMMA Constants ==
  /\ PAGES \in Nat \ {0, 1} /\ ARP_CACHE_SIZE \in Nat \ {0} /\ KSOCK_MAX \in Nat \ {0}
  /\ TCP_RXBUF_SIZE \in Nat \ {0} /\ SEQ \in Nat \ {0} /\ Packets \subseteq PacketRec
  /\ Empty \notin Packets
<1>1. Empty \notin PacketRec
  <2>1. ASSUME NEW p \in PacketRec PROVE p.k # "none"
    BY DEF PacketRec
  <2> QED
    BY <2>1 DEF Empty
<1> QED
  BY <1>1, NetAssumption

LEMMA SockFields ==
  ASSUME NEW k \in SockRec
  PROVE  /\ k.connected \in BOOLEAN /\ k.ip \in Nat /\ k.rport \in Nat /\ k.lport \in Nat /\ k.seq_rx \in Nat
         /\ k.head \in Cells /\ k.tail \in Cells /\ k.buf \in [Cells -> Int] /\ k.queue \in Seq(Int)
  BY DEF SockRec

\* k2 is k after some bytes.
Fed(k, k2) == SockSound(k2) /\ k2.ip = k.ip

LEMMA RxStore ==
  ASSUME NEW k, SockSound(k), NEW b \in Int
  PROVE  Fed(k, rx_store(k, b))
<1> DEFINE N == TCP_RXBUF_SIZE
           next == (k.tail + 1) % N
           queue == IF Len(k.queue) < N - 1 THEN Append(k.queue, b) ELSE k.queue
           buf == [k.buf EXCEPT ![k.tail] = b]
           r == rx_store(k, b)
<1>1. N \in Nat \ {0} /\ k \in SockRec
  BY Constants DEF SockSound
<1>2. k.head \in 0 .. N - 1 /\ k.tail \in 0 .. N - 1 /\ k.buf \in [0 .. N - 1 -> Int] /\ k.queue \in Seq(Int)
  BY <1>1, SockFields DEF Cells
<1>3. /\ Len(k.queue) = (k.tail - k.head) % N
      /\ next = k.head => (k.tail - k.head) % N = N - 1
      /\ next # k.head => /\ (k.tail - k.head) % N < N - 1 /\ next \in 0 .. N - 1
                          /\ Queued(buf, N, k.head, next) = Append(k.queue, b)
  <2> DEFINE h == k.head
             t == k.tail
             c == k.buf
             n == TCP_RXBUF_SIZE
  <2>1. n \in Nat \ {0} /\ h \in 0 .. n - 1 /\ t \in 0 .. n - 1 /\ c \in [0 .. n - 1 -> Int]
        /\ k.queue = Queued(c, n, h, t)
    BY <1>1, <1>2 DEF SockSound, IsQueue
  <2> HIDE DEF h, t, c, n
  <2>2. Len(Queued(c, n, h, t)) = (t - h) % n
    BY <2>1, QueuedLen
  <2>3. AppendsAt(c, n, h, t, b)
    BY <2>1, QueuedAppend
  <2> QED
    BY <2>1, <2>2, <2>3 DEF h, t, c, n, AppendsAt
<1>4. /\ r = [(IF next # k.head THEN [k EXCEPT !.buf = buf, !.tail = next] ELSE k) EXCEPT !.queue = queue]
      /\ queue \in Seq(Int) /\ buf \in [0 .. N - 1 -> Int]
  BY <1>2 DEF rx_store
<1> HIDE DEF next, queue, buf, r
<1>5. CASE next # k.head
  <2>1. /\ r.buf = buf /\ r.tail = next /\ r.head = k.head /\ r.queue = queue /\ r.ip = k.ip
        /\ r \in SockRec
    BY <1>1, <1>3, <1>4, <1>5 DEF SockRec, Cells
  <2>2. r.queue = Queued(r.buf, N, r.head, r.tail)
    BY <1>3, <1>5, <2>1 DEF queue
  <2> QED
    BY <2>1, <2>2 DEF Fed, SockSound, IsQueue, r
<1>6. CASE next = k.head
  <2>1. queue = k.queue
    BY <1>3, <1>6 DEF queue
  <2>2. /\ r.buf = k.buf /\ r.tail = k.tail /\ r.head = k.head /\ r.queue = k.queue /\ r.ip = k.ip
        /\ r \in SockRec
    BY <1>1, <1>4, <1>6, <2>1 DEF SockRec
  <2> QED
    BY <2>2 DEF Fed, SockSound, IsQueue, r
<1> QED
  BY <1>5, <1>6

\* One byte after the other: the values in between exist, and each is sound.
IsFeeding(f, k, data, n) == f = [m \in 0 .. n |-> IF m = 0 THEN k ELSE rx_store(f[m - 1], data[m])]

LEMMA FeedingExists ==
  ASSUME NEW k, NEW data \in Seq(Int), NEW n \in Nat
  PROVE  \E f : IsFeeding(f, k, data, n)
<1> DEFINE S == {i \in Nat : \E f : IsFeeding(f, k, data, i)}
<1>1. 0 \in S
  <2> DEFINE f == [m \in 0 .. 0 |-> k]
  <2>1. f = [m \in 0 .. 0 |-> IF m = 0 THEN k ELSE rx_store(f[m - 1], data[m])]
    OBVIOUS
  <2> HIDE DEF f
  <2>2. IsFeeding(f, k, data, 0)
    BY <2>1 DEF IsFeeding
  <2> QED
    BY <2>2
<1>2. ASSUME NEW i \in S PROVE i + 1 \in S
  <2>1. PICK f : IsFeeding(f, k, data, i)
    BY <1>2
  <2> DEFINE g == [m \in 0 .. i + 1 |-> IF m = i + 1 THEN rx_store(f[i], data[m]) ELSE f[m]]
  <2>2. ASSUME NEW m \in 0 .. i + 1
        PROVE  g[m] = IF m = 0 THEN k ELSE rx_store(g[m - 1], data[m])
    <3>1. \A j \in 0 .. i : f[j] = IF j = 0 THEN k ELSE rx_store(f[j - 1], data[j])
      BY <2>1 DEF IsFeeding
    <3>2. CASE m = i + 1
      <4>1. g[m] = rx_store(f[i], data[m]) /\ g[i] = f[i] /\ m - 1 = i /\ m # 0
        BY <3>2
      <4> HIDE DEF g
      <4> QED
        BY <4>1
    <3>3. CASE m # i + 1 /\ m # 0
      <4>1. g[m] = f[m] /\ g[m - 1] = f[m - 1] /\ m \in 0 .. i
        BY <3>3
      <4> HIDE DEF g
      <4> QED
        BY <3>1, <3>3, <4>1
    <3>4. CASE m = 0
      <4>1. g[m] = f[m] /\ m \in 0 .. i
        BY <3>4
      <4> HIDE DEF g
      <4> QED
        BY <3>1, <3>4, <4>1
    <3> QED
      BY <3>2, <3>3, <3>4
  <2>3. g = [m \in 0 .. i + 1 |-> g[m]]
    OBVIOUS
  <2> HIDE DEF g
  <2>4. IsFeeding(g, k, data, i + 1)
    BY <2>2, <2>3 DEF IsFeeding
  <2> QED
    BY <2>4
<1> HIDE DEF S
<1>3. S = Nat
  <2>1. S \in SUBSET Nat
    BY DEF S
  <2> QED
    BY <1>1, <1>2, <2>1, Induct
<1> QED
  BY <1>3 DEF S

LEMMA RxBytes ==
  ASSUME NEW k, SockSound(k), NEW data \in Seq(Int)
  PROVE  Fed(k, rx_bytes(k, data))
<1> DEFINE f == CHOOSE g : IsFeeding(g, k, data, Len(data))
           S == {i \in Nat : i <= Len(data) => Fed(k, f[i])}
<1>1. Len(data) \in Nat
  OBVIOUS
<1>2. IsFeeding(f, k, data, Len(data)) /\ rx_bytes(k, data) = f[Len(data)]
  <2>1. IsFeeding(f, k, data, Len(data))
    BY <1>1, FeedingExists
  <2>2. rx_bytes(k, data) = f[Len(data)]
    BY DEF rx_bytes, IsFeeding
  <2> QED
    BY <2>1, <2>2
<1> HIDE DEF f
<1>3. \A i \in 0 .. Len(data) : f[i] = IF i = 0 THEN k ELSE rx_store(f[i - 1], data[i])
  BY <1>2 DEF IsFeeding
<1>4. 0 \in S
  BY <1>1, <1>3 DEF Fed
<1>5. ASSUME NEW i \in S PROVE i + 1 \in S
  <2>1. SUFFICES ASSUME i + 1 <= Len(data) PROVE Fed(k, f[i + 1])
    BY <1>5
  <2>2. Fed(k, f[i]) /\ i \in Nat
    BY <1>1, <1>5, <2>1
  <2>3. f[i + 1] = rx_store(f[i], data[i + 1]) /\ data[i + 1] \in Int
    BY <1>1, <1>3, <2>1, <2>2
  <2>4. Fed(f[i], rx_store(f[i], data[i + 1]))
    BY <2>2, <2>3, RxStore DEF Fed
  <2> QED
    BY <2>2, <2>3, <2>4 DEF Fed
<1> HIDE DEF S
<1>6. S = Nat
  <2>1. S \in SUBSET Nat
    BY DEF S
  <2> QED
    BY <1>4, <1>5, <2>1, Induct
<1> QED
  BY <1>1, <1>2, <1>6 DEF S

-----------------------------------------------------------------------------
(***************************************************************************)
(* Types, and the streams of all sockets.                                  *)
(***************************************************************************)
Pages == 0 .. PAGES - 1
PollRec == [f : {"poll"}, pkt : Packets \cup {Empty}, next : Pages, fin : 0 .. KSOCK_MAX,
            got : BOOLEAN, ovw : BOOLEAN, res : Int]
Waiting == [f : {"ip_send"}, to : Nat, tries : Nat, res : Int]
             \cup [f : {"connect"}, i : Socks, tries : Nat, res : Int]
             \cup [f : {"query"}, n : 1 .. Len(Servers), tries : Nat, res : Int]
Calling == [f : {"recv"}, i : Socks, len : Nat, res : Int] \cup [f : {"close"}, i : Socks, res : Int]
Act == PollRec \cup Waiting \cup Calling

NetRec == [arp : [1 .. ARP_CACHE_SIZE -> Nat], tcp : [Socks -> SockRec], udp : [port : Nat, data : Seq(Int)]]
NetSound(n) == n \in NetRec /\ \A i \in Socks : IsQueue(n.tcp[i])
StateSound(s) == s \in [net : NetRec, stack : Seq(Act)] /\ NetSound(s.net)

NicRec == [ring : [Pages -> Packets \cup {Empty}], curr : Pages, bnry : Pages, prx : BOOLEAN, ovw : BOOLEAN]
ClockRec == [booted : BOOLEAN, synced : BOOLEAN, server : Int, rtc : Int, asked : Int]

TypeOK ==
  /\ nic \in NicRec
  /\ g_next_pkt \in Pages
  /\ NetSound(net)
  /\ clock \in ClockRec
  /\ cs \in [Threads -> Seq(Act)]
  /\ due \in Seq(Packets)

-----------------------------------------------------------------------------
\* Stacks.
LEMMA StackTop ==
  ASSUME NEW s \in Seq(Act), s # <<>>
  PROVE  /\ Len(s) \in Nat \ {0} /\ Len(s) \in DOMAIN s /\ s[Len(s)] \in Act
         /\ SubSeq(s, 1, Len(s) - 1) \in Seq(Act) /\ Len(SubSeq(s, 1, Len(s) - 1)) = Len(s) - 1
         /\ \A j \in 1 .. Len(s) - 1 : SubSeq(s, 1, Len(s) - 1)[j] = s[j]
         /\ \A a \in Act : /\ [s EXCEPT ![Len(s)] = a] \in Seq(Act) /\ Len([s EXCEPT ![Len(s)] = a]) = Len(s)
                           /\ [s EXCEPT ![Len(s)] = a] # <<>> /\ [s EXCEPT ![Len(s)] = a][Len(s)] = a
                           /\ \A j \in 1 .. Len(s) - 1 : [s EXCEPT ![Len(s)] = a][j] = s[j]
<1>1. Len(s) \in Nat \ {0} /\ Len(s) \in DOMAIN s /\ s[Len(s)] \in Act
  OBVIOUS
<1>2. /\ SubSeq(s, 1, Len(s) - 1) \in Seq(Act) /\ Len(SubSeq(s, 1, Len(s) - 1)) = Len(s) - 1
      /\ \A j \in 1 .. Len(s) - 1 : SubSeq(s, 1, Len(s) - 1)[j] = s[j]
  <2> DEFINE n == Len(s) - 1
             b == SubSeq(s, 1, n)
  <2>1. n \in Nat /\ n <= Len(s)
    BY <1>1
  <2> HIDE DEF n
  <2>2. b \in Seq(Act) /\ Len(b) = n
    BY <2>1
  <2>3. ASSUME NEW j \in 1 .. n PROVE b[j] = s[j]
    <3>1. b[j] = s[1 + j - 1]
      BY <2>1
    <3>2. 1 + j - 1 = j
      OBVIOUS
    <3> QED
      BY <3>1, <3>2
  <2> QED
    BY <2>2, <2>3 DEF n
<1>3. ASSUME NEW a \in Act
      PROVE  /\ [s EXCEPT ![Len(s)] = a] \in Seq(Act) /\ Len([s EXCEPT ![Len(s)] = a]) = Len(s)
             /\ [s EXCEPT ![Len(s)] = a] # <<>> /\ [s EXCEPT ![Len(s)] = a][Len(s)] = a
             /\ \A j \in 1 .. Len(s) - 1 : [s EXCEPT ![Len(s)] = a][j] = s[j]
  BY <1>1
<1> QED
  BY <1>1, <1>2, <1>3

LEMMA StackPush ==
  ASSUME NEW s \in Seq(Act), NEW a \in Act
  PROVE  /\ Append(s, a) \in Seq(Act) /\ Len(Append(s, a)) = Len(s) + 1 /\ Append(s, a) # <<>>
         /\ Append(s, a)[Len(s) + 1] = a /\ \A j \in 1 .. Len(s) : Append(s, a)[j] = s[j]
  OBVIOUS

LEMMA PollFields ==
  ASSUME NEW a \in PollRec
  PROVE  /\ a.f = "poll" /\ a.pkt \in Packets \cup {Empty} /\ a.next \in Pages /\ a.fin \in 0 .. KSOCK_MAX
         /\ a.got \in BOOLEAN /\ a.ovw \in BOOLEAN
  BY DEF PollRec

\* An activation of ne2000_poll is one by its name.
LEMMA PollByName ==
  ASSUME NEW a \in Act, a.f = "poll"
  PROVE  a \in PollRec
<1>1. ASSUME NEW b \in Waiting PROVE b.f # "poll"
  BY DEF Waiting
<1>2. ASSUME NEW b \in Calling PROVE b.f # "poll"
  BY DEF Calling
<1> QED
  BY <1>1, <1>2 DEF Act

-----------------------------------------------------------------------------
(***************************************************************************)
(* What a packet does.                                                     *)
(***************************************************************************)
LEMMA NetFields ==
  ASSUME NEW n, NetSound(n)
  PROVE  /\ n.arp \in [1 .. ARP_CACHE_SIZE -> Nat] /\ n.tcp \in [Socks -> SockRec]
         /\ n.udp \in [port : Nat, data : Seq(Int)] /\ \A i \in Socks : SockSound(n.tcp[i])
<1>1. n \in NetRec
  BY DEF NetSound
<1>2. /\ n.arp \in [1 .. ARP_CACHE_SIZE -> Nat] /\ n.tcp \in [Socks -> SockRec]
      /\ n.udp \in [port : Nat, data : Seq(Int)]
  BY <1>1 DEF NetRec
<1> QED
  BY <1>2 DEF NetSound, SockSound

\* The part of a socket that is not its stream may change.
LEMMA SockSet ==
  ASSUME NEW n, NetSound(n), NEW i \in Socks, NEW k, SockSound(k)
  PROVE  NetSound([n EXCEPT !.tcp[i] = k]) /\ [n EXCEPT !.tcp[i] = k].arp = n.arp
         /\ [n EXCEPT !.tcp[i] = k].tcp[i] = k
<1>1. n \in NetRec /\ n.tcp \in [Socks -> SockRec] /\ \A j \in Socks : IsQueue(n.tcp[j])
  BY NetFields DEF NetSound, SockSound
<1>2. k \in SockRec /\ IsQueue(k)
  BY DEF SockSound
<1> DEFINE m == [n EXCEPT !.tcp[i] = k]
<1>3. /\ m \in NetRec /\ m.arp = n.arp /\ m.tcp[i] = k /\ \A j \in Socks \ {i} : m.tcp[j] = n.tcp[j]
  BY <1>1, <1>2 DEF NetRec
<1> HIDE DEF m
<1>4. NetSound(m)
  BY <1>1, <1>2, <1>3 DEF NetSound
<1> QED
  BY <1>3, <1>4 DEF m

LEMMA SockFlags ==
  ASSUME NEW k, SockSound(k)
  PROVE  /\ SockSound([k EXCEPT !.connected = FALSE]) /\ [k EXCEPT !.connected = FALSE].ip = k.ip
         /\ \A q \in Nat : SockSound([k EXCEPT !.seq_rx = q]) /\ [k EXCEPT !.seq_rx = q].ip = k.ip
<1>1. k \in SockRec /\ IsQueue(k)
  BY DEF SockSound
<1>2. SockSound([k EXCEPT !.connected = FALSE]) /\ [k EXCEPT !.connected = FALSE].ip = k.ip
  BY <1>1 DEF SockSound, SockRec, IsQueue
<1>3. ASSUME NEW q \in Nat PROVE SockSound([k EXCEPT !.seq_rx = q]) /\ [k EXCEPT !.seq_rx = q].ip = k.ip
  BY <1>1 DEF SockSound, SockRec, IsQueue
<1> QED
  BY <1>2, <1>3

LEMMA Inserts ==
  ASSUME NEW n, NetSound(n), NEW ip \in Nat
  PROVE  NetSound(arp_cache_insert(n, ip))
<1> DEFINE free == {i \in 1 .. ARP_CACHE_SIZE : n.arp[i] = 0}
           slot == IF free = {} THEN 1 ELSE CHOOSE i \in free : \A j \in free : i <= j
<1>1. n \in NetRec /\ n.arp \in [1 .. ARP_CACHE_SIZE -> Nat] /\ \A j \in Socks : IsQueue(n.tcp[j])
  BY NetFields DEF NetSound
<1> DEFINE m == [n EXCEPT !.arp[slot] = ip]
<1>2. m.arp \in [1 .. ARP_CACHE_SIZE -> Nat] /\ m.tcp = n.tcp /\ m \in NetRec
  <2> HIDE DEF slot
  <2> QED
    BY <1>1 DEF NetRec
<1>3. arp_cache_insert(n, ip) = IF arp_cache_lookup(n, ip) THEN n ELSE m
  BY DEF arp_cache_insert
<1> HIDE DEF m
<1> QED
  BY <1>1, <1>2, <1>3 DEF NetSound

\* ip_send sends, or waits.
LEMMA Sends ==
  ASSUME NEW s, StateSound(s), NEW to \in Nat
  PROVE  /\ StateSound(ip_send(s, to)) /\ ip_send(s, to).net = s.net
         /\ arp_cache_lookup(s.net, Hop(to)) => ip_send(s, to) = s
<1>1. s \in [net : NetRec, stack : Seq(Act)] /\ NetSound(s.net) /\ s.stack \in Seq(Act)
  BY DEF StateSound
<1> DEFINE a == [f |-> "ip_send", to |-> to, tries |-> 0, res |-> 0]
           r == [s EXCEPT !.stack = Append(@, a)]
<1>2. a \in Act
  BY DEF Act, Waiting
<1> HIDE DEF a
<1>3. Append(s.stack, a) \in Seq(Act)
  BY <1>1, <1>2, StackPush
<1>4. r \in [net : NetRec, stack : Seq(Act)] /\ r.net = s.net
  BY <1>1, <1>3
<1>5. ip_send(s, to) = IF arp_cache_lookup(s.net, Hop(to)) THEN s ELSE r
  BY DEF ip_send, a
<1> HIDE DEF r
<1> QED
  BY <1>1, <1>4, <1>5 DEF StateSound

\* s1 is s after a handler changed sockets and what poll's frame notes of them;
\* the answer, if any, is yet to be sent.
Moved(s, s1) ==
  /\ StateSound(s1) /\ s1.net.arp = s.net.arp
  /\ \/ s1.stack = s.stack
     \/ \E i \in Socks : s1.stack = [s.stack EXCEPT ![Len(s.stack)].fin = i]
Handled(s, to, r) == \E s1 : Moved(s, s1) /\ (r = s1 \/ r = ip_send(s1, to))

WithSock(s, i, k) == [s EXCEPT !.net.tcp[i] = k]

LEMMA MovedTcp ==
  ASSUME NEW s, StateSound(s), NEW i \in Socks, NEW k, SockSound(k)
  PROVE  /\ Moved(s, WithSock(s, i, k)) /\ WithSock(s, i, k).stack = s.stack
         /\ WithSock(s, i, k).net.tcp[i] = k
<1> DEFINE n == [s.net EXCEPT !.tcp[i] = k]
           r == WithSock(s, i, k)
<1>1. s \in [net : NetRec, stack : Seq(Act)] /\ NetSound(s.net)
  BY DEF StateSound
<1>2. NetSound(n) /\ n.arp = s.net.arp /\ n.tcp[i] = k
  BY <1>1, SockSet
<1>3. r = [s EXCEPT !.net = n]
  BY <1>1 DEF WithSock
<1> HIDE DEF n, r
<1>4. r.net = n /\ r.stack = s.stack /\ r \in [net : NetRec, stack : Seq(Act)]
  BY <1>1, <1>2, <1>3 DEF NetSound
<1>5. Moved(s, r)
  BY <1>2, <1>4 DEF Moved, StateSound
<1> QED
  BY <1>2, <1>4, <1>5 DEF r

\* poll notes which connection ends.
LEMMA MovedFin ==
  ASSUME NEW s, NEW s1, Moved(s, s1), s1.stack = s.stack, s.stack # <<>>, s.stack[Len(s.stack)] \in PollRec,
         NEW i \in Socks
  PROVE  Moved(s, [s1 EXCEPT !.stack[Len(s.stack)].fin = i]) /\ [s1 EXCEPT !.stack[Len(s.stack)].fin = i].net = s1.net
<1> DEFINE a == [s.stack[Len(s.stack)] EXCEPT !.fin = i]
           new == [s.stack EXCEPT ![Len(s.stack)] = a]
           r == [s1 EXCEPT !.stack[Len(s.stack)].fin = i]
<1>1. s1 \in [net : NetRec, stack : Seq(Act)] /\ NetSound(s1.net) /\ s1.net.arp = s.net.arp /\ s.stack \in Seq(Act)
  BY DEF Moved, StateSound
<1>2. a \in PollRec
  BY DEF PollRec, Socks
<1>3. new \in Seq(Act)
  <2> HIDE DEF a
  <2>1. a \in Act
    BY <1>2 DEF Act
  <2> QED
    BY <1>1, <2>1, StackTop
<1>4. r = [s1 EXCEPT !.stack = new] /\ new = [s.stack EXCEPT ![Len(s.stack)].fin = i]
  OBVIOUS
<1> HIDE DEF new, r, a
<1>5. r \in [net : NetRec, stack : Seq(Act)] /\ r.net = s1.net /\ r.stack = new
  BY <1>1, <1>3, <1>4
<1>6. Moved(s, r)
  BY <1>1, <1>4, <1>5 DEF Moved, StateSound
<1> QED
  BY <1>5, <1>6 DEF r

\* handle_tcp by its parts: whose the segment is, the number noted, the rest.
Mine(s, p) == {i \in Socks : LET k == s.net.tcp[i] IN
                 k.connected /\ k.ip = p.ip /\ k.rport = p.sport /\ k.lport = p.dport}
Seen(s, p, i, n) == [s EXCEPT !.net.tcp[i].seq_rx = (p.seq + n) % SEQ]
Answer(s, p, i) ==
  IF "RST" \in p.flags THEN [s EXCEPT !.net.tcp[i].connected = FALSE]
  ELSE IF "FIN" \in p.flags THEN tcp_send_flags([Seen(s, p, i, 1) EXCEPT !.stack[Len(s.stack)].fin = i], i)
  ELSE IF {"ACK", "SYN"} \subseteq p.flags THEN tcp_send_flags(Seen(s, p, i, 1), i)
  ELSE IF p.data = <<>> THEN s
  ELSE tcp_send_flags([Seen(s, p, i, Len(p.data)) EXCEPT !.net.tcp[i] = rx_bytes(@, p.data)], i)
Owner(s, p) == CHOOSE j \in Mine(s, p) : \A m \in Mine(s, p) : j <= m

LEMMA TcpParts ==
  ASSUME NEW s, NEW p
  PROVE  handle_tcp(s, p) = IF Mine(s, p) = {} THEN s ELSE Answer(s, p, Owner(s, p))
  BY Zenon DEF handle_tcp, Mine, Seen, Answer, Owner

LEMMA SeenSock ==
  ASSUME NEW s, StateSound(s), NEW p \in Packets, p.k = "tcp", NEW i \in Socks, s.net.tcp[i].ip = p.ip, NEW n \in Nat
  PROVE  \E k1 : SockSound(k1) /\ k1.ip = p.ip /\ Seen(s, p, i, n) = WithSock(s, i, k1)
<1> DEFINE k == s.net.tcp[i]
           c == p.seq + n
           q == c % SEQ
<1>1. q \in Nat
  <2>1. c \in Nat /\ SEQ \in Nat \ {0}
    BY Constants DEF PacketRec
  <2> HIDE DEF c
  <2>2. c % SEQ \in 0 .. SEQ - 1
    BY <2>1, DivisionWithRest
  <2> QED
    BY <2>1, <2>2
<1>2. Seen(s, p, i, n) = WithSock(s, i, [k EXCEPT !.seq_rx = q])
  BY DEF Seen, WithSock
<1> HIDE DEF q
<1>3. SockSound(k)
  BY NetFields DEF StateSound
<1>4. SockSound([k EXCEPT !.seq_rx = q]) /\ [k EXCEPT !.seq_rx = q].ip = k.ip
  BY <1>1, <1>3, SockFlags
<1> QED
  BY <1>2, <1>4

LEMMA AnswerHandled ==
  ASSUME NEW s, StateSound(s), s.stack # <<>>, s.stack[Len(s.stack)] \in PollRec,
         NEW p \in Packets, p.k = "tcp", NEW i \in Socks, s.net.tcp[i].ip = p.ip, NEW r, r = Answer(s, p, i)
  PROVE  Handled(s, p.ip, r)
<1>1. s \in [net : NetRec, stack : Seq(Act)] /\ s.net.tcp \in [Socks -> SockRec] /\ SockSound(s.net.tcp[i])
  BY NetFields DEF StateSound
<1>2. p.ip \in Nat /\ p.data \in Seq(Int)
  BY Constants DEF PacketRec, Addresses
<1>3. \A n \in Nat : \E k1 : SockSound(k1) /\ k1.ip = p.ip /\ Seen(s, p, i, n) = WithSock(s, i, k1)
  BY SeenSock
<1>4. ASSUME NEW k1, SockSound(k1), k1.ip = p.ip
      PROVE  /\ Moved(s, WithSock(s, i, k1)) /\ WithSock(s, i, k1).stack = s.stack /\ WithSock(s, i, k1).net.tcp[i] = k1
             /\ tcp_send_flags(WithSock(s, i, k1), i) = ip_send(WithSock(s, i, k1), p.ip)
  <2>1. /\ Moved(s, WithSock(s, i, k1)) /\ WithSock(s, i, k1).stack = s.stack /\ WithSock(s, i, k1).net.tcp[i] = k1
    BY <1>4, MovedTcp
  <2> QED
    BY <1>4, <2>1 DEF tcp_send_flags
<1>5. CASE "RST" \in p.flags
  <2> DEFINE k1 == [s.net.tcp[i] EXCEPT !.connected = FALSE]
  <2>1. r = WithSock(s, i, k1)
    BY <1>5 DEF Answer, WithSock
  <2>2. SockSound(k1)
    BY <1>1, SockFlags
  <2> HIDE DEF k1
  <2> QED
    BY <2>1, <2>2, MovedTcp DEF Handled
<1>6. CASE "RST" \notin p.flags /\ "FIN" \in p.flags
  <2>1. PICK k1 : SockSound(k1) /\ k1.ip = p.ip /\ Seen(s, p, i, 1) = WithSock(s, i, k1)
    BY <1>3
  <2> DEFINE s1 == WithSock(s, i, k1)
             s2 == [s1 EXCEPT !.stack[Len(s.stack)].fin = i]
  <2>2. r = tcp_send_flags(s2, i)
    BY <1>6, <2>1 DEF Answer
  <2>3. Moved(s, s1) /\ s1.stack = s.stack /\ s1.net.tcp[i] = k1
    BY <1>4, <2>1
  <2> HIDE DEF s1
  <2>4. Moved(s, s2) /\ s2.net = s1.net
    BY <2>3, MovedFin
  <2> HIDE DEF s2
  <2>5. r = ip_send(s2, p.ip)
    BY <2>1, <2>2, <2>3, <2>4 DEF tcp_send_flags
  <2> QED
    BY <2>4, <2>5 DEF Handled
<1>7. CASE "RST" \notin p.flags /\ "FIN" \notin p.flags /\ {"ACK", "SYN"} \subseteq p.flags
  <2>1. PICK k1 : SockSound(k1) /\ k1.ip = p.ip /\ Seen(s, p, i, 1) = WithSock(s, i, k1)
    BY <1>3
  <2>2. r = tcp_send_flags(WithSock(s, i, k1), i)
    BY <1>7, <2>1 DEF Answer
  <2>3. Moved(s, WithSock(s, i, k1)) /\ r = ip_send(WithSock(s, i, k1), p.ip)
    BY <1>4, <2>1, <2>2
  <2> QED
    BY <2>3 DEF Handled
<1>8. CASE /\ "RST" \notin p.flags /\ "FIN" \notin p.flags /\ ~({"ACK", "SYN"} \subseteq p.flags)
           /\ p.data = <<>>
  <2>1. r = s
    BY <1>8 DEF Answer
  <2> QED
    BY <2>1 DEF Handled, Moved
<1>9. CASE /\ "RST" \notin p.flags /\ "FIN" \notin p.flags /\ ~({"ACK", "SYN"} \subseteq p.flags)
           /\ p.data # <<>>
  <2>1. Len(p.data) \in Nat
    BY <1>2
  <2>2. PICK k1 : SockSound(k1) /\ k1.ip = p.ip /\ Seen(s, p, i, Len(p.data)) = WithSock(s, i, k1)
    BY <1>3, <2>1
  <2> DEFINE s1 == WithSock(s, i, k1)
             k2 == rx_bytes(k1, p.data)
  <2>3. r = tcp_send_flags([s1 EXCEPT !.net.tcp[i] = rx_bytes(s1.net.tcp[i], p.data)], i)
    BY <1>9, <2>2 DEF Answer
  <2>4. SockSound(k2) /\ k2.ip = p.ip
    BY <1>2, <2>2, RxBytes DEF Fed
  <2>5. s1.net.tcp[i] = k1
    BY <1>4, <2>2
  <2>6. [s1 EXCEPT !.net.tcp[i] = k2] = WithSock(s, i, k2)
    <3> HIDE DEF k2
    <3> QED
      BY <1>1 DEF WithSock, NetRec
  <2> HIDE DEF s1
  <2>7. r = tcp_send_flags(WithSock(s, i, k2), i)
    BY <2>3, <2>5, <2>6
  <2> HIDE DEF k2
  <2>8. Moved(s, WithSock(s, i, k2)) /\ r = ip_send(WithSock(s, i, k2), p.ip)
    BY <1>4, <2>4, <2>7
  <2> QED
    BY <2>8 DEF Handled
<1> QED
  BY <1>5, <1>6, <1>7, <1>8, <1>9

LEMMA HandleTcp ==
  ASSUME NEW s, StateSound(s), s.stack # <<>>, s.stack[Len(s.stack)] \in PollRec,
         NEW p \in Packets, p.k = "tcp"
  PROVE  Handled(s, p.ip, handle_tcp(s, p))
<1> DEFINE S == Mine(s, p)
           i == CHOOSE j \in S : \A m \in S : j <= m
<1>1. handle_tcp(s, p) = IF S = {} THEN s ELSE Answer(s, p, i)
  BY TcpParts DEF Owner
<1>2. S \in SUBSET Nat /\ \A j \in S : j \in Socks /\ s.net.tcp[j].ip = p.ip
  BY DEF Mine, Socks
<1> HIDE DEF S
<1>3. CASE S = {}
  BY <1>1, <1>3 DEF Handled, Moved
<1>4. CASE S # {}
  <2>1. \E j \in S : \A m \in S : j <= m
    BY <1>2, <1>4, LeastElement
  <2>2. i \in Socks /\ s.net.tcp[i].ip = p.ip
    BY <1>2, <2>1
  <2> HIDE DEF i
  <2> QED
    BY <1>1, <1>4, <2>2, AnswerHandled
<1> QED
  BY <1>3, <1>4

\* What arrives: a neighbour's address is stored, or a handler runs.
LEMMA RxInput ==
  ASSUME NEW s, StateSound(s), s.stack # <<>>, s.stack[Len(s.stack)] \in PollRec, NEW p \in Packets
  PROVE  /\ p.k = "arp" => /\ lwip_rx_input(s, p) = [s EXCEPT !.net = arp_cache_insert(@, p.ip)]
                           /\ StateSound(lwip_rx_input(s, p))
         /\ p.k # "arp" => Handled(s, p.ip, lwip_rx_input(s, p))
<1> DEFINE r == lwip_rx_input(s, p)
<1>1. s \in [net : NetRec, stack : Seq(Act)] /\ NetSound(s.net)
  BY DEF StateSound
<1>2. p \in PacketRec /\ p.ip \in Nat /\ p.k \in {"arp", "icmp", "tcp", "udp"}
  BY Constants DEF PacketRec, Addresses
<1>3. Moved(s, s)
  BY DEF Moved
<1>4. CASE p.k = "arp"
  <2> DEFINE n == arp_cache_insert(s.net, p.ip)
  <2>1. r = [s EXCEPT !.net = n]
    BY <1>4 DEF lwip_rx_input, handle_arp
  <2>2. NetSound(n)
    BY <1>1, <1>2, Inserts
  <2> HIDE DEF n
  <2>3. r \in [net : NetRec, stack : Seq(Act)] /\ r.net = n
    BY <1>1, <2>1, <2>2 DEF NetSound
  <2> QED
    BY <1>4, <2>1, <2>2, <2>3 DEF StateSound, n
<1>5. CASE p.k = "icmp"
  <2>1. r = ip_send(s, p.ip)
    BY <1>5 DEF lwip_rx_input, handle_icmp
  <2> QED
    BY <1>3, <1>5, <2>1 DEF Handled
<1>6. CASE p.k = "tcp"
  <2>1. r = handle_tcp(s, p)
    BY <1>6 DEF lwip_rx_input
  <2> QED
    BY <1>6, <2>1, HandleTcp
<1>7. CASE p.k = "udp"
  <2>1. r = handle_udp(s, p)
    BY <1>7 DEF lwip_rx_input
  <2>2. p.data \in Seq(Int)
    BY <1>2, <1>7 DEF PacketRec
  <2>3. s.net.udp \in [port : Nat, data : Seq(Int)] /\ s.net \in NetRec
    BY <1>1, NetFields DEF NetSound
  <2> DEFINE u == [s.net.udp EXCEPT !.data = p.data]
             n == [s.net EXCEPT !.udp = u]
  <2>4. u \in [port : Nat, data : Seq(Int)]
    BY <2>2, <2>3
  <2>5. r = s \/ r = [s EXCEPT !.net = n]
    BY <2>1, <2>3 DEF handle_udp
  <2> HIDE DEF u
  <2>6. n \in NetRec /\ n.tcp = s.net.tcp /\ n.arp = s.net.arp
    BY <2>3, <2>4 DEF NetRec
  <2> HIDE DEF n
  <2>7. NetSound(n)
    BY <1>1, <2>6 DEF NetSound
  <2> DEFINE s1 == [s EXCEPT !.net = n]
  <2>8. s1 \in [net : NetRec, stack : Seq(Act)] /\ s1.net = n /\ s1.stack = s.stack
    BY <1>1, <2>6
  <2> HIDE DEF s1
  <2>9. Moved(s, s1)
    BY <2>6, <2>7, <2>8 DEF Moved, StateSound
  <2> QED
    BY <1>3, <1>7, <2>5, <2>9 DEF Handled, s1
<1> QED
  BY <1>2, <1>4, <1>5, <1>6, <1>7

\* Either way the state stays sound, and nothing waits when the host is known.
LEMMA RxSound ==
  ASSUME NEW s, StateSound(s), s.stack # <<>>, s.stack[Len(s.stack)] \in PollRec, NEW p \in Packets
  PROVE  StateSound(lwip_rx_input(s, p))
<1>1. CASE p.k = "arp"
  BY <1>1, RxInput
<1>2. CASE p.k # "arp"
  <2>1. p.ip \in Nat
    BY Constants DEF PacketRec, Addresses
  <2>2. PICK s1 : Moved(s, s1) /\ (lwip_rx_input(s, p) = s1 \/ lwip_rx_input(s, p) = ip_send(s1, p.ip))
    BY <1>2, RxInput DEF Handled
  <2>3. StateSound(s1)
    BY <2>2 DEF Moved
  <2> QED
    BY <2>1, <2>2, <2>3, Sends
<1> QED
  BY <1>1, <1>2

-----------------------------------------------------------------------------
(***************************************************************************)
(* Every step keeps the types and the streams.                             *)
(***************************************************************************)
LEMMA Stacks ==
  ASSUME TypeOK, NEW t \in Threads
  PROVE  /\ cs[t] \in Seq(Act)
         /\ \A s \in Seq(Act) : [cs EXCEPT ![t] = s] \in [Threads -> Seq(Act)] /\ [cs EXCEPT ![t] = s][t] = s
  BY DEF TypeOK

LEMMA TopOf ==
  ASSUME TypeOK, NEW t \in Threads, NEW f, In(t, f)
  PROVE  /\ cs[t] \in Seq(Act) /\ cs[t] # <<>> /\ top(t) = cs[t][Len(cs[t])] /\ top(t) \in Act /\ top(t).f = f
         /\ Below(t) \in Seq(Act)
<1>1. cs[t] \in Seq(Act) /\ cs[t] # <<>>
  BY Stacks DEF In
<1> QED
  BY <1>1, StackTop DEF In, top, Below

\* The fields of the activations that wait or are called.
LEMMA ActFields ==
  ASSUME NEW a \in Act
  PROVE  /\ a.f = "ip_send" => a.to \in Nat /\ a.tries \in Nat
         /\ a.f = "connect" => a.i \in Socks /\ a.tries \in Nat
         /\ a.f = "query" => a.n \in 1 .. Len(Servers) /\ a.tries \in Nat
         /\ a.f = "recv" => a.i \in Socks /\ a.len \in Nat
         /\ a.f = "close" => a.i \in Socks
         /\ a.res \in Int
<1>1. CASE a \in PollRec
  BY <1>1 DEF PollRec
<1>2. CASE a \in Waiting
  BY <1>2 DEF Waiting
<1>3. CASE a \in Calling
  BY <1>3 DEF Calling
<1> QED
  BY <1>1, <1>2, <1>3 DEF Act

\* One more turn of a loop, and a result: the frame stays one.
LEMMA ActChanges ==
  ASSUME NEW a \in Act
  PROVE  /\ a.f \in {"ip_send", "connect", "query"} => [a EXCEPT !.tries = @ + 1] \in Act
                                                        /\ [a EXCEPT !.tries = @ + 1].f = a.f
         /\ \A res \in Int : [a EXCEPT !.res = res] \in Act /\ [a EXCEPT !.res = res].f = a.f
<1>1. CASE a \in PollRec
  BY <1>1 DEF PollRec, Act
<1>2. CASE a \in Waiting
  <2>1. [a EXCEPT !.tries = @ + 1] \in Waiting /\ [a EXCEPT !.tries = @ + 1].f = a.f
    BY <1>2 DEF Waiting
  <2>2. ASSUME NEW res \in Int PROVE [a EXCEPT !.res = res] \in Waiting /\ [a EXCEPT !.res = res].f = a.f
    BY <1>2 DEF Waiting
  <2> QED
    BY <2>1, <2>2 DEF Act
<1>3. CASE a \in Calling
  <2>1. a.f \notin {"ip_send", "connect", "query"}
    BY <1>3 DEF Calling
  <2>2. ASSUME NEW res \in Int PROVE [a EXCEPT !.res = res] \in Calling /\ [a EXCEPT !.res = res].f = a.f
    BY <1>3 DEF Calling
  <2> QED
    BY <2>1, <2>2 DEF Act
<1> QED
  BY <1>1, <1>2, <1>3 DEF Act

LEMMA NicFields ==
  ASSUME NEW n \in NicRec
  PROVE  /\ n.ring \in [Pages -> Packets \cup {Empty}] /\ n.curr \in Pages /\ n.bnry \in Pages
         /\ n.prx \in BOOLEAN /\ n.ovw \in BOOLEAN
  BY DEF NicRec

\* poll's frame at the head of its loop.
LEMMA NewPoll ==
  ASSUME NEW o \in BOOLEAN
  PROVE  /\ [Poll EXCEPT !.ovw = o] \in PollRec /\ [Poll EXCEPT !.ovw = o] \in Act
         /\ [Poll EXCEPT !.ovw = o].got = FALSE
<1> DEFINE a == [Poll EXCEPT !.ovw = o]
<1>1. 0 \in Pages /\ 0 \in 0 .. KSOCK_MAX
  BY Constants DEF Pages
<1>2. Poll \in PollRec /\ Poll.got = FALSE
  BY <1>1 DEF Poll, PollRec
<1>3. a \in PollRec /\ a.got = FALSE
  BY <1>2 DEF PollRec
<1> QED
  BY <1>3 DEF Act, a

\* ne2000_poll starts or does nothing.
LEMMA PollStarts ==
  ASSUME TypeOK, NEW t \in Threads, NEW s \in Seq(Act), ne2000_poll(t, s)
  PROVE  /\ nic' \in NicRec /\ cs' \in [Threads -> Seq(Act)]
         /\ nic' = nic \/ nic' = [nic EXCEPT !.prx = FALSE]
         /\ \/ cs' = [cs EXCEPT ![t] = s]
            \/ \E a \in PollRec : a.got = FALSE /\ cs' = [cs EXCEPT ![t] = Append(s, a)]
<1>1. nic \in NicRec /\ cs \in [Threads -> Seq(Act)]
  BY DEF TypeOK
<1> DEFINE a == [Poll EXCEPT !.ovw = nic.ovw]
<1>2. a \in PollRec /\ a \in Act /\ a.got = FALSE
  BY <1>1, NicFields, NewPoll
<1> HIDE DEF a
<1>3. Append(s, a) \in Seq(Act)
  BY <1>2, StackPush
<1>4. \/ cs' = [cs EXCEPT ![t] = Append(s, a)] /\ nic' = [nic EXCEPT !.prx = FALSE]
      \/ cs' = [cs EXCEPT ![t] = s] /\ nic' = nic
  BY DEF ne2000_poll, a
<1>5. [nic EXCEPT !.prx = FALSE] \in NicRec
  BY <1>1 DEF NicRec
<1> QED
  BY <1>1, <1>2, <1>3, <1>4, <1>5

LEMMA PollStep ==
  ASSUME TypeOK, NEW t \in Threads,
         PollRead(t) \/ PollDeliver(t) \/ PollAdvance(t) \/ PollEnd(t)
  PROVE  TypeOK'
<1> DEFINE a == top(t)
           l == Len(cs[t])
<1>1. /\ nic \in NicRec /\ g_next_pkt \in Pages /\ NetSound(net) /\ clock \in ClockRec
      /\ cs \in [Threads -> Seq(Act)] /\ due \in Seq(Packets)
  BY DEF TypeOK
<1>2. In(t, "poll")
  BY DEF PollRead, PollDeliver, PollAdvance, PollEnd
<1>3. cs[t] \in Seq(Act) /\ cs[t] # <<>> /\ a = cs[t][l] /\ a \in Act /\ a \in PollRec /\ Below(t) \in Seq(Act)
  BY <1>2, TopOf, PollByName
<1>4. \A b \in Act : [cs[t] EXCEPT ![l] = b] \in Seq(Act)
  BY <1>3, StackTop
<1>5. \A s \in Seq(Act) : [cs EXCEPT ![t] = s] \in [Threads -> Seq(Act)]
  BY Stacks
<1> HIDE DEF a, l
<1>6. CASE PollRead(t)
  <2> DEFINE b == [a EXCEPT !.got = TRUE, !.pkt = nic.ring[g_next_pkt], !.next = Next_(g_next_pkt)]
  <2>1. Next_(g_next_pkt) \in Pages
    BY <1>1, Constants DEF Next_, Pages
  <2>2. nic.ring[g_next_pkt] \in Packets \cup {Empty}
    BY <1>1, NicFields
  <2>3. b \in Act
    BY <1>3, <2>1, <2>2 DEF PollRec, Act
  <2>4. cs' = [cs EXCEPT ![t] = [cs[t] EXCEPT ![l] = b]]
    BY <1>1, <1>3, <1>6 DEF PollRead, l
  <2> HIDE DEF b
  <2>5. cs' \in [Threads -> Seq(Act)]
    BY <1>4, <1>5, <2>3, <2>4
  <2> QED
    BY <1>1, <1>6, <2>5 DEF PollRead, TypeOK, History
<1>7. CASE PollDeliver(t)
  <2> DEFINE b == [a EXCEPT !.pkt = Empty]
             s == [Now(t) EXCEPT !.stack[l].pkt = Empty]
             r == lwip_rx_input(s, a.pkt)
  <2>1. b \in PollRec
    BY <1>3 DEF PollRec
  <2> HIDE DEF b
  <2>2. [cs[t] EXCEPT ![l] = b] \in Seq(Act) /\ [cs[t] EXCEPT ![l] = b] # <<>>
        /\ Len([cs[t] EXCEPT ![l] = b]) = l /\ [cs[t] EXCEPT ![l] = b][l] = b
    BY <1>3, <2>1, StackTop DEF Act, l
  <2>3. s = [net |-> net, stack |-> [cs[t] EXCEPT ![l] = b]]
    BY <1>3 DEF Now, b
  <2> HIDE DEF s
  <2>4. StateSound(s) /\ s.stack # <<>> /\ s.stack[Len(s.stack)] \in PollRec
    BY <1>1, <2>1, <2>2, <2>3 DEF StateSound, NetSound
  <2>5. a.pkt \in Packets /\ Goes(t, r)
    BY <1>3, <1>7, PollFields DEF PollDeliver, a, s, l
  <2>6. StateSound(r)
    BY <2>4, <2>5, RxSound
  <2> HIDE DEF r
  <2>7. NetSound(net') /\ cs' \in [Threads -> Seq(Act)]
    BY <1>5, <2>5, <2>6 DEF Goes, StateSound
  <2>8. due' \in Seq(Packets)
    BY <1>1, <1>7 DEF PollDeliver
  <2> QED
    BY <1>1, <1>7, <2>7, <2>8 DEF PollDeliver, TypeOK
<1>8. CASE PollAdvance(t)
  <2> DEFINE b == [Poll EXCEPT !.ovw = a.ovw]
             n == [net EXCEPT !.tcp[a.fin].connected = FALSE]
  <2>1. a.next \in Pages /\ a.fin \in 0 .. KSOCK_MAX /\ a.ovw \in BOOLEAN
    BY <1>3, PollFields
  <2>2. b \in Act
    BY <2>1, NewPoll
  <2>3. bnry(a.next) \in Pages
    BY <2>1, Constants DEF bnry, Pages
  <2>4. nic' \in NicRec
    BY <1>1, <1>8, <2>3 DEF PollAdvance, NicRec, a
  <2>5. a.fin # 0 => NetSound(n)
    <3>1. SUFFICES ASSUME a.fin # 0 PROVE NetSound(n)
      OBVIOUS
    <3>2. a.fin \in Socks /\ SockSound(net.tcp[a.fin])
      BY <1>1, <2>1, <3>1, NetFields DEF Socks
    <3> DEFINE k == [net.tcp[a.fin] EXCEPT !.connected = FALSE]
    <3>3. n = [net EXCEPT !.tcp[a.fin] = k]
      OBVIOUS
    <3>4. SockSound(k)
      BY <3>2, SockFlags
    <3> HIDE DEF k, n
    <3> QED
      BY <1>1, <3>2, <3>3, <3>4, SockSet
  <2>6. net' = net \/ (a.fin # 0 /\ net' = n)
    BY <1>8 DEF PollAdvance, a
  <2> HIDE DEF n
  <2>7. NetSound(net')
    BY <1>1, <2>5, <2>6
  <2>8. cs' = [cs EXCEPT ![t] = [cs[t] EXCEPT ![l] = b]]
    BY <1>1, <1>3, <1>8 DEF PollAdvance, l, a
  <2> HIDE DEF b
  <2>9. cs' \in [Threads -> Seq(Act)]
    BY <1>4, <1>5, <2>2, <2>8
  <2>10. g_next_pkt' \in Pages /\ UNCHANGED <<clock, due>>
    BY <1>8, <2>1 DEF PollAdvance, History, a
  <2> QED
    BY <1>1, <2>4, <2>7, <2>9, <2>10 DEF TypeOK
<1>9. CASE PollEnd(t)
  <2>1. cs' \in [Threads -> Seq(Act)]
    BY <1>3, <1>5, <1>9 DEF PollEnd
  <2>2. nic' \in NicRec
    BY <1>1, <1>9 DEF PollEnd, NicRec
  <2> QED
    BY <1>1, <1>9, <2>1, <2>2 DEF PollEnd, TypeOK, History
<1> QED
  BY <1>6, <1>7, <1>8, <1>9

\* What a step does to the stack of t and to the network.
LEMMA GoesSound ==
  ASSUME TypeOK, NEW t \in Threads, NEW s, StateSound(s), Goes(t, s)
  PROVE  NetSound(net') /\ cs' \in [Threads -> Seq(Act)]
<1>1. s.stack \in Seq(Act) /\ NetSound(s.net)
  BY DEF StateSound
<1> QED
  BY <1>1, Stacks DEF Goes

\* A state put together from a network and a stack.
LEMMA StateOf ==
  ASSUME NEW n, NetSound(n), NEW s \in Seq(Act)
  PROVE  /\ StateSound([net |-> n, stack |-> s])
         /\ [net |-> n, stack |-> s].net = n /\ [net |-> n, stack |-> s].stack = s
  BY DEF StateSound, NetSound

\* A turn of a loop that waits.
TurnOf(t) == [cs[t] EXCEPT ![Len(cs[t])].tries = @ + 1]

LEMMA Turns ==
  ASSUME TypeOK, NEW t \in Threads, NEW f \in {"ip_send", "connect", "query"}, In(t, f)
  PROVE  /\ TurnOf(t) \in Seq(Act) /\ Len(TurnOf(t)) = Len(cs[t])
         /\ \A j \in 1 .. Len(cs[t]) : TurnOf(t)[j].f = cs[t][j].f
<1>1. cs[t] \in Seq(Act) /\ cs[t] # <<>> /\ top(t) = cs[t][Len(cs[t])] /\ top(t) \in Act /\ top(t).f = f
  BY TopOf
<1> DEFINE b == [top(t) EXCEPT !.tries = @ + 1]
<1>2. b \in Act /\ b.f = f
  BY <1>1, ActChanges
<1>3. TurnOf(t) = [cs[t] EXCEPT ![Len(cs[t])] = b]
  BY <1>1 DEF TurnOf
<1> HIDE DEF b
<1>4. /\ TurnOf(t) \in Seq(Act) /\ Len(TurnOf(t)) = Len(cs[t]) /\ TurnOf(t)[Len(cs[t])] = b
      /\ \A j \in 1 .. Len(cs[t]) - 1 : TurnOf(t)[j] = cs[t][j]
  BY <1>1, <1>2, <1>3, StackTop
<1>5. ASSUME NEW j \in 1 .. Len(cs[t]) PROVE TurnOf(t)[j].f = cs[t][j].f
  <2>1. j = Len(cs[t]) \/ j \in 1 .. Len(cs[t]) - 1
    BY <1>1
  <2> QED
    BY <1>1, <1>2, <1>4, <2>1
<1> QED
  BY <1>4, <1>5

LEMMA PollAgainType ==
  ASSUME TypeOK, NEW t \in Threads, NEW f \in {"ip_send", "connect", "query"}, In(t, f), PollAgain(t)
  PROVE  TypeOK'
<1>1. TurnOf(t) \in Seq(Act)
  BY Turns
<1>2. ne2000_poll(t, TurnOf(t))
  BY DEF PollAgain, TurnOf
<1>3. nic' \in NicRec /\ cs' \in [Threads -> Seq(Act)]
  BY <1>1, <1>2, PollStarts
<1> QED
  BY <1>3 DEF PollAgain, TypeOK, History

\* The result of a call for its caller.
LEMMA Returns ==
  ASSUME NEW s \in Seq(Act), NEW res \in Int
  PROVE  /\ Return(s, res) \in Seq(Act) /\ Len(Return(s, res)) = Len(s)
         /\ \A j \in 1 .. Len(s) : Return(s, res)[j].f = s[j].f
<1>1. CASE s = <<>>
  BY <1>1 DEF Return
<1>2. CASE s # <<>>
  <2> DEFINE b == [s[Len(s)] EXCEPT !.res = res]
             r == Return(s, res)
  <2>1. r = [s EXCEPT ![Len(s)] = b] /\ s[Len(s)] \in Act
    BY <1>2 DEF Return
  <2>2. b \in Act /\ b.f = s[Len(s)].f
    BY <2>1, ActChanges
  <2> HIDE DEF b, r
  <2>3. /\ r \in Seq(Act) /\ Len(r) = Len(s) /\ r[Len(s)] = b
        /\ \A j \in 1 .. Len(s) - 1 : r[j] = s[j]
    BY <1>2, <2>1, <2>2, StackTop
  <2>4. ASSUME NEW j \in 1 .. Len(s) PROVE r[j].f = s[j].f
    <3>1. j = Len(s) \/ j \in 1 .. Len(s) - 1
      OBVIOUS
    <3> QED
      BY <2>2, <2>3, <3>1
  <2> QED
    BY <2>3, <2>4 DEF r
<1> QED
  BY <1>1, <1>2

LEMMA SendWaitStep ==
  ASSUME TypeOK, NEW t \in Threads, ip_send_wait(t)
  PROVE  TypeOK'
<1> DEFINE found == arp_cache_lookup(net, Hop(top(t).to))
<1>1. In(t, "ip_send")
  BY DEF ip_send_wait
<1>2. CASE PollAgain(t)
  BY <1>1, <1>2, PollAgainType
<1>3. CASE /\ cs' = [cs EXCEPT ![t] = Return(Below(t), IF found THEN 0 ELSE -1)]
           /\ UNCHANGED <<nic, net, g_next_pkt, g_sockets, clock, History, calls>>
  <2>1. Below(t) \in Seq(Act)
    BY <1>1, TopOf
  <2>2. Return(Below(t), IF found THEN 0 ELSE -1) \in Seq(Act)
    BY <2>1, Returns
  <2>3. cs' \in [Threads -> Seq(Act)]
    BY <1>3, <2>2, Stacks
  <2> QED
    BY <1>3, <2>3 DEF TypeOK, History
<1> QED
  BY <1>2, <1>3 DEF ip_send_wait

LEMMA ConnectWaitStep ==
  ASSUME TypeOK, NEW t \in Threads, connect_wait(t)
  PROVE  TypeOK'
<1> DEFINE i == top(t).i
           k == [net.tcp[i] EXCEPT !.connected = FALSE]
           n == [net EXCEPT !.tcp[i].connected = FALSE]
<1>1. In(t, "connect")
  BY DEF connect_wait
<1>2. CASE PollAgain(t)
  BY <1>1, <1>2, PollAgainType
<1>3. CASE /\ net' = net \/ net' = n
           /\ cs' = [cs EXCEPT ![t] = Below(t)]
           /\ UNCHANGED <<nic, g_next_pkt, clock, History, calls>>
  <2>1. Below(t) \in Seq(Act) /\ i \in Socks
    BY <1>1, TopOf, ActFields
  <2>2. NetSound(net) /\ SockSound(net.tcp[i])
    BY <2>1, NetFields DEF TypeOK
  <2>3. n = [net EXCEPT !.tcp[i] = k]
    OBVIOUS
  <2>4. SockSound(k)
    BY <2>2, SockFlags
  <2> HIDE DEF k, n, i
  <2>5. NetSound(n)
    BY <2>1, <2>2, <2>3, <2>4, SockSet
  <2>6. NetSound(net') /\ cs' \in [Threads -> Seq(Act)]
    BY <1>3, <2>1, <2>2, <2>5, Stacks
  <2> QED
    BY <1>3, <2>6 DEF TypeOK, History
<1> QED
  BY <1>2, <1>3 DEF connect_wait

LEMMA LeastOfTwo ==
  ASSUME NEW a \in Nat, NEW b \in Nat
  PROVE  Min({a, b}) \in 0 .. b
<1>1. \E x \in {a, b} : \A y \in {a, b} : x <= y
  <2>1. a <= b \/ b <= a
    OBVIOUS
  <2> QED
    BY <2>1
<1>2. Min({a, b}) \in {a, b} /\ \A y \in {a, b} : Min({a, b}) <= y
  BY <1>1 DEF Min
<1> QED
  BY <1>2

\* What is read leaves the stream at its front.
LEMMA RecvStep ==
  ASSUME TypeOK, NEW t \in Threads, lwip_tcp_recv(t)
  PROVE  TypeOK'
<1> DEFINE i == top(t).i
           k == net.tcp[i]
           N == TCP_RXBUF_SIZE
           m == (k.tail - k.head) % N
           n == Min({top(t).len, m})
           k2 == [k EXCEPT !.head = (k.head + n) % N, !.queue = SubSeq(@, n + 1, Len(@))]
<1>1. Below(t) \in Seq(Act) /\ i \in Socks /\ top(t).len \in Nat
  BY TopOf, ActFields DEF lwip_tcp_recv
<1>2. NetSound(net) /\ SockSound(k) /\ N \in Nat \ {0}
  BY <1>1, NetFields, Constants DEF TypeOK
<1>3. net' = [net EXCEPT !.tcp[i] = k2] /\ cs' = [cs EXCEPT ![t] = Below(t)]
      /\ UNCHANGED <<nic, g_next_pkt, clock, due>>
  BY DEF lwip_tcp_recv, History
<1> HIDE DEF i, k
<1>4. k \in SockRec /\ IsQueue(k) /\ k.head \in 0 .. N - 1 /\ k.tail \in 0 .. N - 1 /\ k.buf \in [0 .. N - 1 -> Int]
      /\ k.queue \in Seq(Int)
  BY <1>2, SockFields DEF SockSound, Cells
<1>5. m \in 0 .. N - 1
  BY <1>2, <1>4, QueuedLen
<1>6. n \in 0 .. m
  <2> HIDE DEF m
  <2> QED
    BY <1>1, <1>5, LeastOfTwo
<1> DEFINE h == (k.head + n) % N
           rest == SubSeq(k.queue, n + 1, Len(k.queue))
<1>7. h \in 0 .. N - 1 /\ rest = Queued(k.buf, N, h, k.tail)
  <2> HIDE DEF n
  <2> DEFINE kh == k.head
             kt == k.tail
             kb == k.buf
             M == N
  <2>1. M \in Nat \ {0} /\ kh \in 0 .. M - 1 /\ kt \in 0 .. M - 1 /\ kb \in [0 .. M - 1 -> Int] /\ n \in 0 .. (kt - kh) % M
    BY <1>2, <1>4, <1>6
  <2> HIDE DEF kh, kt, kb, M
  <2>2. /\ (kh + n) % M \in 0 .. M - 1
        /\ Queued(kb, M, (kh + n) % M, kt) = SubSeq(Queued(kb, M, kh, kt), n + 1, Len(Queued(kb, M, kh, kt)))
    BY <2>1, QueuedDrop
  <2> QED
    BY <1>4, <2>2 DEF IsQueue, kh, kt, kb, M
<1>8. rest \in Seq(Int)
  <2> DEFINE kh == h
             kt == k.tail
             kb == k.buf
             M == N
  <2>1. M \in Nat \ {0} /\ kh \in 0 .. M - 1 /\ kt \in 0 .. M - 1 /\ kb \in [0 .. M - 1 -> Int]
    BY <1>2, <1>4, <1>7
  <2> HIDE DEF kh, kt, kb, M
  <2>2. Queued(kb, M, kh, kt) \in Seq(Int)
    BY <2>1, QueuedLen
  <2> QED
    BY <1>7, <2>2 DEF kh, kt, kb, M
<1>9. k2 = [k EXCEPT !.head = h, !.queue = rest]
  OBVIOUS
<1> HIDE DEF h, rest, k2, m, n
<1>10. k2 \in SockRec /\ k2.queue = rest /\ k2.head = h /\ k2.tail = k.tail /\ k2.buf = k.buf
  BY <1>4, <1>7, <1>8, <1>9 DEF SockRec, Cells
<1>11. SockSound(k2)
  BY <1>7, <1>10 DEF SockSound, IsQueue
<1>12. NetSound(net') /\ cs' \in [Threads -> Seq(Act)]
  BY <1>1, <1>2, <1>3, <1>11, SockSet, Stacks
<1> QED
  BY <1>3, <1>12 DEF TypeOK


\* A network after a socket lost its connection.
LEMMA Disconnects ==
  ASSUME NEW n, NetSound(n), NEW i \in Socks
  PROVE  NetSound([n EXCEPT !.tcp[i].connected = FALSE])
<1> DEFINE k == [n.tcp[i] EXCEPT !.connected = FALSE]
           m == [n EXCEPT !.tcp[i].connected = FALSE]
<1>1. m = [n EXCEPT !.tcp[i] = k]
  OBVIOUS
<1>2. SockSound(n.tcp[i])
  BY NetFields
<1>3. SockSound(k)
  BY <1>2, SockFlags
<1> HIDE DEF k, m
<1>4. NetSound(m)
  BY <1>1, <1>3, SockSet
<1> QED
  BY <1>4 DEF m

LEMMA CloseStep ==
  ASSUME TypeOK, NEW t \in Threads, CloseEnd(t)
  PROVE  TypeOK'
<1> DEFINE i == top(t).i
           n == [net EXCEPT !.tcp[i].connected = FALSE]
<1>1. In(t, "close")
  BY DEF CloseEnd
<1>2. /\ net' = net \/ net' = n
      /\ cs' = [cs EXCEPT ![t] = Below(t)]
      /\ UNCHANGED <<nic, g_next_pkt, clock, History, calls>>
  BY DEF CloseEnd
<1>3. Below(t) \in Seq(Act) /\ i \in Socks
  BY <1>1, TopOf, ActFields
<1> HIDE DEF i
<1>4. NetSound(net) /\ NetSound(n)
  BY <1>3, Disconnects DEF TypeOK
<1> HIDE DEF n
<1>5. NetSound(net') /\ cs' \in [Threads -> Seq(Act)]
  BY <1>2, <1>3, <1>4, Stacks
<1> QED
  BY <1>2, <1>5 DEF TypeOK, History

\* Another datagram waited for, or received.
LEMMA UdpSet ==
  ASSUME NEW n, NetSound(n), NEW u \in [port : Nat, data : Seq(Int)]
  PROVE  NetSound([n EXCEPT !.udp = u]) /\ [n EXCEPT !.udp = u].arp = n.arp
<1> DEFINE m == [n EXCEPT !.udp = u]
<1>1. n \in NetRec /\ \A j \in Socks : IsQueue(n.tcp[j])
  BY DEF NetSound
<1>2. m \in NetRec /\ m.tcp = n.tcp /\ m.arp = n.arp
  BY <1>1 DEF NetRec
<1> HIDE DEF m
<1>3. NetSound(m)
  BY <1>1, <1>2 DEF NetSound
<1> QED
  BY <1>2, <1>3 DEF m

\* A question for the time.
LEMMA Asks ==
  ASSUME NetSound(net), NEW n \in 1 .. Len(Servers), NEW s \in Seq(Act)
  PROVE  StateSound(lwip_udp_query(n, s))
<1> DEFINE u == [port |-> NTP_LOCAL_PORT, data |-> <<>>]
           m == [net EXCEPT !.udp = u]
           a == [f |-> "query", n |-> n, tries |-> 0, res |-> 0]
           x == [net |-> m, stack |-> s \o <<a>>]
<1>1. u \in [port : Nat, data : Seq(Int)]
  BY DEF NTP_LOCAL_PORT
<1>2. lwip_udp_query(n, s) = ip_send(x, Servers[n])
  BY DEF lwip_udp_query
<1>3. a \in Act
  BY DEF Act, Waiting
<1> HIDE DEF u, a
<1>4. NetSound(m)
  BY <1>1, UdpSet
<1>5. s \o <<a>> \in Seq(Act)
  BY <1>3
<1> HIDE DEF m
<1>6. StateSound(x)
  BY <1>4, <1>5, StateOf
<1> HIDE DEF x
<1>7. Servers[n] \in Nat
  BY NetAssumption DEF Addresses
<1> QED
  BY <1>2, <1>6, <1>7, Sends

Booted(c, r) == [c EXCEPT !.booted = TRUE, !.rtc = r]

LEMMA ClockSet ==
  ASSUME NEW c \in ClockRec
  PROVE  /\ \A r \in Int : Booted(c, r) \in ClockRec
         /\ \A ts, r \in Int : [c EXCEPT !.booted = TRUE, !.synced = TRUE, !.rtc = r, !.server = ts] \in ClockRec
         /\ [c EXCEPT !.asked = 1] \in ClockRec
<1>1. ASSUME NEW r \in Int PROVE Booted(c, r) \in ClockRec
  BY DEF ClockRec, Booted
<1>2. ASSUME NEW r \in Int, NEW ts \in Int
      PROVE  [c EXCEPT !.booted = TRUE, !.synced = TRUE, !.rtc = r, !.server = ts] \in ClockRec
  <2> DEFINE d == [c EXCEPT !.booted = TRUE, !.synced = TRUE]
  <2>1. d \in ClockRec
    BY DEF ClockRec
  <2>2. [c EXCEPT !.booted = TRUE, !.synced = TRUE, !.rtc = r, !.server = ts] = [d EXCEPT !.rtc = r, !.server = ts]
    OBVIOUS
  <2> HIDE DEF d
  <2>3. [d EXCEPT !.rtc = r, !.server = ts] \in ClockRec
    BY <2>1 DEF ClockRec
  <2> QED
    BY <2>2, <2>3
<1>3. [c EXCEPT !.asked = 1] \in ClockRec
  BY DEF ClockRec
<1> QED
  BY <1>1, <1>2, <1>3

LEMMA QueryStep ==
  ASSUME TypeOK, NEW t \in Threads, query_server(t)
  PROVE  TypeOK'
<1> DEFINE a == top(t)
           found == net.udp.data # <<>>
           u == [port |-> 0, data |-> IF found /\ a.res = 0 THEN <<>> ELSE net.udp.data]
           closed == [net EXCEPT !.udp = [port |-> 0, data |-> IF found /\ a.res = 0 THEN <<>> ELSE @.data]]
           ts == Head(net.udp.data)
<1>1. In(t, "query")
  BY DEF query_server
<1>2. NetSound(net) /\ clock \in ClockRec
  BY DEF TypeOK
<1>3. a.n \in 1 .. Len(Servers) /\ a.n \in Nat /\ Len(Servers) \in Nat
  <2>1. Len(Servers) \in Nat
    BY NetAssumption
  <2> QED
    BY <1>1, <2>1, TopOf, ActFields
<1>4. Below(t) \in Seq(Act)
  BY <1>1, TopOf
<1>5. net.udp \in [port : Nat, data : Seq(Int)]
  BY <1>2, NetFields
<1>6. NetSound(closed)
  <2>1. u \in [port : Nat, data : Seq(Int)]
    BY <1>5
  <2>2. closed = [net EXCEPT !.udp = u]
    OBVIOUS
  <2> HIDE DEF u, closed
  <2> QED
    BY <1>2, <2>1, <2>2, UdpSet
<1> DEFINE good == found /\ ts >= 0
           again == a.res = 0 /\ Waits(t, found /\ a.tries > 0, QUERY_POLLS)
<1>7. /\ again => PollAgain(t)
      /\ ~again =>
           /\ \/ /\ found /\ \E r \in Rtc : clock' = show_boot_time(ts, r)
                 /\ net' = closed /\ cs' = [cs EXCEPT ![t] = Below(t)]
              \/ /\ a.n < Len(Servers) /\ Goes(t, lwip_udp_query(a.n + 1, Below(t))) /\ UNCHANGED clock
              \/ /\ \E r \in Rtc : clock' = [clock EXCEPT !.booted = TRUE, !.rtc = r]
                 /\ net' = closed /\ cs' = [cs EXCEPT ![t] = Below(t)]
           /\ UNCHANGED <<nic, g_next_pkt, g_sockets, History, calls>>
  BY Zenon DEF query_server
<1> HIDE DEF closed, u
<1>8. CASE PollAgain(t)
  BY <1>1, <1>8, PollAgainType
<1>9. CASE ~again
  <2>1. ASSUME net' = closed, cs' = [cs EXCEPT ![t] = Below(t)]
        PROVE  NetSound(net') /\ cs' \in [Threads -> Seq(Act)]
    BY <1>4, <1>6, <2>1, Stacks
  <2>2. Rtc \subseteq Int
    BY NetAssumption
  <2>3. found => ts \in Int
    BY <1>5
  <2>4. NetSound(net') /\ cs' \in [Threads -> Seq(Act)] /\ clock' \in ClockRec
    <3>1. CASE /\ found /\ \E r \in Rtc : clock' = show_boot_time(ts, r)
               /\ net' = closed /\ cs' = [cs EXCEPT ![t] = Below(t)]
      <4>1. PICK r \in Rtc : clock' = [clock EXCEPT !.booted = TRUE, !.synced = TRUE, !.rtc = r, !.server = ts]
        BY <3>1 DEF show_boot_time
      <4>2. r \in Int /\ ts \in Int
        BY <2>2, <2>3, <3>1
      <4> HIDE DEF ts
      <4>3. clock' \in ClockRec
        BY <1>2, <4>1, <4>2, ClockSet
      <4> QED
        BY <2>1, <3>1, <4>3
    <3>2. CASE /\ a.n < Len(Servers) /\ Goes(t, lwip_udp_query(a.n + 1, Below(t))) /\ UNCHANGED clock
      <4>1. a.n + 1 \in 1 .. Len(Servers)
        BY <1>3, <3>2
      <4>2. StateSound(lwip_udp_query(a.n + 1, Below(t)))
        BY <1>2, <1>4, <4>1, Asks
      <4> QED
        BY <1>2, <3>2, <4>2, GoesSound
    <3>3. CASE /\ \E r \in Rtc : clock' = [clock EXCEPT !.booted = TRUE, !.rtc = r]
               /\ net' = closed /\ cs' = [cs EXCEPT ![t] = Below(t)]
      BY <1>2, <2>1, <2>2, <3>3, ClockSet DEF Booted
    <3> QED
      BY <1>7, <1>9, <3>1, <3>2, <3>3
  <2>5. UNCHANGED <<nic, g_next_pkt, due>>
    BY <1>7, <1>9 DEF History
  <2> QED
    BY <2>4, <2>5 DEF TypeOK
<1> QED
  BY <1>7, <1>8, <1>9


LEMMA ArriveStep ==
  ASSUME TypeOK, NEW p \in Packets, Arrive(p)
  PROVE  TypeOK'
<1>1. nic \in NicRec /\ due \in Seq(Packets) /\ nic.curr \in Pages
  BY NicFields DEF TypeOK
<1>2. Next_(nic.curr) \in Pages
  BY <1>1, Constants DEF Next_, Pages
<1>3. nic' \in NicRec /\ due' \in Seq(Packets)
  <2>1. [nic EXCEPT !.ovw = TRUE] \in NicRec
    BY <1>1 DEF NicRec
  <2>2. [nic EXCEPT !.ring[nic.curr] = p, !.curr = Next_(nic.curr), !.prx = TRUE] \in NicRec
    <3> DEFINE ring == [nic.ring EXCEPT ![nic.curr] = p]
               n == Next_(nic.curr)
    <3>1. ring \in [Pages -> Packets \cup {Empty}]
      BY <1>1, NicFields
    <3>2. [nic EXCEPT !.ring[nic.curr] = p, !.curr = n, !.prx = TRUE] = [nic EXCEPT !.ring = ring, !.curr = n, !.prx = TRUE]
      OBVIOUS
    <3> HIDE DEF ring, n
    <3>3. [nic EXCEPT !.ring = ring, !.curr = n, !.prx = TRUE] \in NicRec
      BY <1>1, <1>2, <3>1 DEF NicRec, n
    <3> QED
      BY <3>2, <3>3 DEF n
  <2>3. Append(due, p) \in Seq(Packets)
    BY <1>1
  <2> QED
    BY <1>1, <2>1, <2>2, <2>3 DEF Arrive
<1> QED
  BY <1>3 DEF Arrive, TypeOK

\* A socket's stream before anything came.
LEMMA NoSockSound == SockSound(NoSock)
<1>1. 0 \in Cells /\ TCP_RXBUF_SIZE \in Nat \ {0}
  BY Constants DEF Cells
<1>2. NoSock \in SockRec
  BY <1>1 DEF NoSock, SockRec, Cells
<1>3. (0 - 0) % TCP_RXBUF_SIZE = 0
  BY <1>1
<1>4. Queued(NoSock.buf, TCP_RXBUF_SIZE, 0, 0) = <<>>
  BY <1>3 DEF Queued
<1> QED
  BY <1>2, <1>4 DEF SockSound, IsQueue, NoSock

\* Calls of a program, and the idle loop's.
LEMMA NewSock ==
  ASSUME NEW i \in Socks, NEW ip \in Hosts, NEW port \in Ports
  PROVE  SockSound([NoSock EXCEPT !.connected = TRUE, !.ip = ip, !.rport = port, !.lport = LocalPort(i, port)])
<1> DEFINE k == [NoSock EXCEPT !.connected = TRUE, !.ip = ip, !.rport = port, !.lport = LocalPort(i, port)]
<1>1. LocalPort(i, port) \in Nat /\ ip \in Nat /\ port \in Nat
  <2>1. port \in Nat /\ ip \in Nat /\ i \in Nat \ {0}
    BY NetAssumption DEF Addresses, Socks
  <2>2. port % 16 \in Nat
    BY <2>1
  <2> DEFINE m == port % 16
  <2> HIDE DEF m
  <2>3. 1024 + (i - 1) * 10 + m \in Nat
    BY <2>1, <2>2 DEF m
  <2> QED
    BY <2>1, <2>3 DEF LocalPort, m
<1>2. NoSock \in SockRec /\ IsQueue(NoSock)
  BY NoSockSound DEF SockSound
<1>3. k \in SockRec /\ k.head = NoSock.head /\ k.tail = NoSock.tail /\ k.buf = NoSock.buf /\ k.queue = NoSock.queue
  BY <1>1, <1>2 DEF SockRec
<1> HIDE DEF k
<1>4. SockSound(k)
  BY <1>2, <1>3 DEF SockSound, IsQueue
<1> QED
  BY <1>4 DEF k

LEMMA ConnectStep ==
  ASSUME TypeOK, NEW i \in Socks, NEW ip \in Hosts, NEW port \in Ports, ksocket_connect(i, ip, port)
  PROVE  TypeOK'
<1> DEFINE k == [NoSock EXCEPT !.connected = TRUE, !.ip = ip, !.rport = port, !.lport = LocalPort(i, port)]
           n == [net EXCEPT !.tcp[i] = k]
           a == [f |-> "connect", i |-> i, tries |-> 0, res |-> 0]
           s == [net |-> n, stack |-> <<a>>]
<1>1. SockSound(k)
  BY NewSock
<1> HIDE DEF k
<1>2. NetSound(n) /\ n.tcp[i] = k
  BY <1>1, SockSet DEF TypeOK
<1> HIDE DEF n
<1>3. <<a>> \in Seq(Act)
  BY DEF Act, Waiting
<1>4. StateSound(s) /\ s.net = n
  BY <1>2, <1>3, StateOf
<1>5. Goes("prog", ip_send(s, k.ip)) /\ UNCHANGED <<nic, g_next_pkt, g_sockets, clock, History>>
  BY <1>2 DEF ksocket_connect, tcp_send_flags, k, n
<1> HIDE DEF s
<1>6. StateSound(ip_send(s, k.ip))
  BY <1>1, <1>4, Sends, SockFields DEF SockSound
<1>7. NetSound(net') /\ cs' \in [Threads -> Seq(Act)]
  BY <1>5, <1>6, GoesSound DEF Threads
<1> QED
  BY <1>5, <1>7 DEF TypeOK, History

LEMMA SendStep ==
  ASSUME TypeOK, NEW i \in Socks, ksocket_send(i) \/ ksocket_close(i)
  PROVE  TypeOK'
<1>1. ASSUME NEW s \in Seq(Act)
      PROVE  /\ StateSound([net |-> net, stack |-> s])
             /\ StateSound(tcp_send_flags([net |-> net, stack |-> s], i))
  <2> DEFINE x == [net |-> net, stack |-> s]
  <2>1. StateSound(x) /\ x.net = net
    BY StateOf DEF TypeOK
  <2>2. net.tcp[i].ip \in Nat
    BY NetFields, SockFields DEF TypeOK, SockSound
  <2> HIDE DEF x
  <2>3. StateSound(ip_send(x, net.tcp[i].ip))
    BY <2>1, <2>2, Sends
  <2>4. StateSound(tcp_send_flags(x, i))
    BY <2>1, <2>3 DEF tcp_send_flags
  <2> QED
    BY <2>1, <2>4 DEF x
<1> DEFINE a == [f |-> "close", i |-> i, res |-> 0]
<1>2. <<>> \in Seq(Act) /\ <<a>> \in Seq(Act)
  BY DEF Act, Calling
<1>3. \E s : StateSound(s) /\ Goes("prog", s)
  <2>1. CASE ksocket_send(i)
    BY <1>1, <1>2, <2>1 DEF ksocket_send
  <2>2. CASE ksocket_close(i)
    BY <1>1, <1>2, <2>2 DEF ksocket_close
  <2> QED
    BY <2>1, <2>2
<1>4. NetSound(net') /\ cs' \in [Threads -> Seq(Act)]
  BY <1>3, GoesSound DEF Threads
<1> QED
  BY <1>4 DEF ksocket_send, ksocket_close, TypeOK, History

LEMMA CallStep ==
  ASSUME TypeOK,
         \/ sntp_query \/ IdlePoll \/ ksocket_create
         \/ \E i \in Socks : \/ ksocket_bind(i) \/ ksocket_listen(i) \/ ksocket_accept(i) \/ ksocket_send(i)
                             \/ ksocket_recv(i, 2) \/ ksocket_close(i)
                             \/ \E ip \in Hosts, port \in Ports : ksocket_connect(i, ip, port)
  PROVE  TypeOK'
<1>1. CASE sntp_query
  <2>1. 1 \in 1 .. Len(Servers) /\ <<>> \in Seq(Act) /\ "idle" \in Threads
    BY NetAssumption DEF Threads
  <2>2. StateSound(lwip_udp_query(1, <<>>))
    BY <2>1, Asks DEF TypeOK
  <2>3. NetSound(net') /\ cs' \in [Threads -> Seq(Act)]
    BY <1>1, <2>1, <2>2, GoesSound DEF sntp_query
  <2>4. clock' \in ClockRec
    BY <1>1, ClockSet DEF sntp_query, TypeOK
  <2> QED
    BY <1>1, <2>3, <2>4 DEF sntp_query, TypeOK, History
<1>2. CASE IdlePoll
  <2>1. <<>> \in Seq(Act) /\ "idle" \in Threads
    BY DEF Threads
  <2>2. nic' \in NicRec /\ cs' \in [Threads -> Seq(Act)]
    BY <1>2, <2>1, PollStarts DEF IdlePoll
  <2> QED
    BY <1>2, <2>2 DEF IdlePoll, TypeOK, History
<1>3. CASE ksocket_create
  BY <1>3 DEF ksocket_create, Quiet, TypeOK, History
<1>4. ASSUME NEW i \in Socks, ksocket_bind(i) \/ ksocket_listen(i) \/ ksocket_accept(i)
      PROVE  TypeOK'
  BY <1>4 DEF ksocket_bind, ksocket_listen, ksocket_accept, Quiet, TypeOK, History
<1>5. ASSUME NEW i \in Socks, ksocket_recv(i, 2)
      PROVE  TypeOK'
  <2> DEFINE a == [f |-> "recv", i |-> i, len |-> 2, res |-> 0]
  <2>1. <<a>> \in Seq(Act) /\ "prog" \in Threads
    BY DEF Act, Calling, Threads
  <2>2. ne2000_poll("prog", <<a>>) /\ UNCHANGED <<g_next_pkt, net, g_sockets, clock, History>>
    BY <1>5 DEF ksocket_recv
  <2> HIDE DEF a
  <2>3. nic' \in NicRec /\ cs' \in [Threads -> Seq(Act)]
    BY <2>1, <2>2, PollStarts
  <2> QED
    BY <2>2, <2>3 DEF TypeOK, History
<1> QED
  BY <1>1, <1>2, <1>3, <1>4, <1>5, SendStep, ConnectStep

\* The types hold at the start and are kept.
LEMMA TypesAtStart ==
  ASSUME Init
  PROVE  TypeOK
<1>1. 0 \in Cells /\ TCP_RXBUF_SIZE \in Nat \ {0} /\ PAGES \in Nat \ {0, 1} /\ 0 \in Pages /\ 1 \in Pages
  BY Constants DEF Cells, Pages
<1>2. NoSock \in SockRec /\ IsQueue(NoSock)
  BY NoSockSound DEF SockSound
<1>3. nic \in NicRec /\ g_next_pkt \in Pages
  BY <1>1 DEF Init, ne2000_init, NicRec, Pages
<1>4. NetSound(net)
  <2>1. net \in NetRec
    BY <1>2 DEF Init, lwip_init, NetRec
  <2>2. \A i \in Socks : net.tcp[i] = NoSock
    BY DEF Init, lwip_init
  <2> QED
    BY <1>2, <2>1, <2>2 DEF NetSound
<1>5. clock \in ClockRec
  BY DEF Init, ClockRec
<1>6. cs \in [Threads -> Seq(Act)] /\ due \in Seq(Packets)
  BY DEF Init
<1> QED
  BY <1>3, <1>4, <1>5, <1>6 DEF TypeOK

LEMMA TypesKept ==
  ASSUME TypeOK, [Next]_vars
  PROVE  TypeOK'
<1>1. CASE UNCHANGED vars
  BY <1>1 DEF vars, TypeOK, History
<1>2. CASE \E p \in Packets : Arrive(p)
  BY <1>2, ArriveStep
<1>3. CASE \E t \in Threads : Inside(t)
  BY <1>3, PollStep, SendWaitStep, ConnectWaitStep, RecvStep, CloseStep, QueryStep DEF Inside
<1> QED
  BY <1>1, <1>2, <1>3, CallStep DEF Next

(***************************************************************************)
(* The state stays well-formed: activations, the card's pages, the bytes   *)
(* and marks of every socket, and each socket's ring holds the bytes that  *)
(* came while there was room, in their order.                              *)
(***************************************************************************)
THEOREM WellFormed == Spec => []TypeOK
<1>1. Init => TypeOK
  BY TypesAtStart
<1>2. TypeOK /\ [Next]_vars => TypeOK'
  BY TypesKept
<1> QED
  BY <1>1, <1>2, PTL DEF Spec

(***************************************************************************)
(* The receive ring of a socket (tcp_rx_push, lwip_tcp_recv) is a queue of *)
(* TCP_RXBUF_SIZE - 1 bytes, for segments of every length, in whatever     *)
(* order packets arrive, calls are made and threads are switched.          *)
(***************************************************************************)
THEOREM StreamsKept == Spec => []StreamKept
<1>1. TypeOK => StreamKept
  BY DEF TypeOK, NetSound, IsQueue, Queued, StreamKept
<1> QED
  BY <1>1, WellFormed, PTL


-----------------------------------------------------------------------------
(***************************************************************************)
(* Order.  In the orderly network a handler never waits, so that           *)
(* ne2000_poll is entered once at most and gives what it has read to the   *)
(* stack before it reads on; and the card stores nothing over BNRY, which  *)
(* is the page before the first that is still to be read.                  *)
(***************************************************************************)
\* An activation of ne2000_poll is the innermost; it may have read a packet,
\* and given it to the stack.
OnTop(s) == \A j \in 1 .. Len(s) - 1 : s[j].f # "poll"
Busy(s) == s # <<>> /\ s[Len(s)].f = "poll" /\ s[Len(s)].got
Given(s) == Busy(s) /\ s[Len(s)].pkt = Empty
Reading(s, n, g) ==
  LET a == s[Len(s)]
  IN  Busy(s) => g # n.curr /\ a.next = Next_(g) /\ (a.pkt # Empty => a.pkt = n.ring[g])
StacksInOrder ==
  /\ \A t \in Threads : OnTop(cs[t]) /\ Reading(cs[t], nic, g_next_pkt)
  /\ cs["idle"] = <<>> \/ cs["prog"] = <<>>
  /\ ~clock.booted => cs["prog"] = <<>>

\* What is due is what the ring holds from the first page whose packet the
\* stack has not been given.
From == IF \E t \in Threads : Given(cs[t]) THEN Next_(g_next_pkt) ELSE g_next_pkt
RingInOrder ==
  /\ nic.bnry = bnry(g_next_pkt) /\ nic.curr # nic.bnry
  /\ due = Queued(nic.ring, PAGES, From, nic.curr)

\* Every host that has asked for our address is known, once and for all.
ArpKept(arp) ==
  /\ \A i \in 1 .. ARP_CACHE_SIZE : arp[i] \in Neighbours \cup {0}
  /\ \A i, j \in 1 .. ARP_CACHE_SIZE : arp[i] = arp[j] /\ arp[i] # 0 => i = j
KnownTo(n, d) == \A j \in 1 .. Len(d) : d[j].k # "arp" => arp_cache_lookup(n, Hop(d[j].ip))

OrderInv == once /\ StacksInOrder /\ RingInOrder /\ ArpKept(net.arp) /\ KnownTo(net, due)

\* The cache has room for a neighbour that is new.
LEMMA InsertKeeps ==
  ASSUME Orderly, NEW n, NetSound(n), ArpKept(n.arp), NEW ip \in Neighbours
  PROVE  /\ ArpKept(arp_cache_insert(n, ip).arp)
         /\ \A h \in Addresses : arp_cache_lookup(n, h) => arp_cache_lookup(arp_cache_insert(n, ip), h)
<1> DEFINE D == 1 .. ARP_CACHE_SIZE
           free == {i \in D : n.arp[i] = 0}
           slot == IF free = {} THEN 1 ELSE CHOOSE i \in free : \A j \in free : i <= j
           m == [n EXCEPT !.arp[slot] = ip]
<1>1. arp_cache_insert(n, ip) = IF arp_cache_lookup(n, ip) THEN n ELSE m
  BY DEF arp_cache_insert
<1>2. SUFFICES ASSUME ~arp_cache_lookup(n, ip)
               PROVE  /\ ArpKept(m.arp)
                      /\ \A h \in Addresses : arp_cache_lookup(n, h) => arp_cache_lookup(m, h)
  BY <1>1
<1>3. n.arp \in [D -> Nat] /\ n \in NetRec /\ ARP_CACHE_SIZE \in Nat \ {0}
  BY NetFields, Constants DEF NetSound
<1>4. ip # 0 /\ ip \in Neighbours
  BY Constants DEF Neighbours, PacketRec, Addresses
<1>5. free # {}
  <2>1. SUFFICES ASSUME free = {} PROVE FALSE
    OBVIOUS
  <2> DEFINE T == Neighbours \ {ip}
             f == n.arp
  <2>2. IsFiniteSet(T) /\ Cardinality(T) = Cardinality(Neighbours) - 1 /\ Cardinality(Neighbours) \in Nat
        /\ Cardinality(Neighbours) <= ARP_CACHE_SIZE
    BY OrderlyAssumption, FS_RemoveElement, FS_CardinalityType
  <2>3. f \in [D -> T]
    <3>1. ASSUME NEW i \in D PROVE f[i] \in T
      BY <1>2, <2>1 DEF ArpKept, arp_cache_lookup
    <3> QED
      BY <1>3, <3>1
  <2>4. IsFiniteSet(D) /\ Cardinality(D) = ARP_CACHE_SIZE
    <3>1. 1 \in Int /\ ARP_CACHE_SIZE \in Int /\ 1 <= ARP_CACHE_SIZE
      BY <1>3
    <3> QED
      BY <1>3, <3>1, FS_Interval
  <2> HIDE DEF T, D, f
  <2>5. Cardinality(T) < Cardinality(D)
    BY <1>3, <2>2, <2>4
  <2>6. \E x, y \in D : x # y /\ f[x] = f[y]
    BY <2>2, <2>3, <2>4, <2>5, FS_PigeonHole
  <2> QED
    BY <2>1, <2>6 DEF ArpKept, D, f
<1>6. slot \in D /\ n.arp[slot] = 0
  <2>1. free \in SUBSET Nat
    OBVIOUS
  <2>2. \E i \in free : \A j \in free : i <= j
    BY <1>5, <2>1, LeastElement
  <2> QED
    BY <1>5, <2>2
<1> HIDE DEF slot, free
<1>7. m.arp = [n.arp EXCEPT ![slot] = ip]
  BY <1>3 DEF NetRec
<1> HIDE DEF m
<1>8. ArpKept(m.arp)
  BY <1>2, <1>3, <1>4, <1>6, <1>7 DEF ArpKept, arp_cache_lookup
<1>9. ASSUME NEW h \in Addresses, arp_cache_lookup(n, h) PROVE arp_cache_lookup(m, h)
  BY <1>3, <1>6, <1>7, <1>9 DEF arp_cache_lookup, Addresses
<1> QED
  BY <1>8, <1>9

LEMMA Hops ==
  ASSUME NEW p \in Packets
  PROVE  p.ip \in Addresses /\ Hop(p.ip) \in Addresses /\ p # Empty /\ (p.k = "arp" => p.ip \in Neighbours)
<1>1. p.ip \in Addresses
  BY Constants DEF PacketRec
<1>2. Hop(p.ip) = p.ip \/ Hop(p.ip) = g_gateway
  BY DEF Hop
<1> QED
  BY <1>1, <1>2, NetAssumption, Constants DEF Neighbours

-----------------------------------------------------------------------------
\* Stacks without ne2000_poll, and with it on top.
Plain(s) == \A j \in 1 .. Len(s) : s[j].f # "poll"
Rests(s) == s \in Seq(Act) /\ OnTop(s) /\ ~Busy(s)

LEMMA PlainStacks ==
  ASSUME NEW s \in Seq(Act), Plain(s)
  PROVE  /\ Rests(s)
         /\ \A a \in Act : a.f # "poll" => Append(s, a) \in Seq(Act) /\ Plain(Append(s, a))
         /\ \A a \in PollRec : a.got = FALSE => Rests(Append(s, a))
<1>1. Rests(s)
  BY DEF Plain, Rests, OnTop, Busy
<1>2. ASSUME NEW a \in Act, a.f # "poll" PROVE Append(s, a) \in Seq(Act) /\ Plain(Append(s, a))
  <2> DEFINE r == Append(s, a)
  <2>1. r \in Seq(Act) /\ Len(r) = Len(s) + 1 /\ r[Len(s) + 1] = a /\ \A j \in 1 .. Len(s) : r[j] = s[j]
    BY StackPush
  <2> HIDE DEF r
  <2>2. Plain(r)
    <3>1. ASSUME NEW j \in 1 .. Len(r) PROVE r[j].f # "poll"
      <4>1. j = Len(s) + 1 \/ j \in 1 .. Len(s)
        BY <2>1
      <4> QED
        BY <1>2, <2>1, <4>1 DEF Plain
    <3> QED
      BY <3>1 DEF Plain
  <2> QED
    BY <2>1, <2>2 DEF r
<1>3. ASSUME NEW a \in PollRec, a.got = FALSE PROVE Rests(Append(s, a))
  <2> DEFINE r == Append(s, a)
  <2>1. a \in Act
    BY DEF Act
  <2>2. r \in Seq(Act) /\ Len(r) = Len(s) + 1 /\ r[Len(s) + 1] = a /\ \A j \in 1 .. Len(s) : r[j] = s[j]
    BY <2>1, StackPush
  <2> HIDE DEF r
  <2>3. OnTop(r)
    BY <2>2 DEF OnTop, Plain
  <2>4. ~Busy(r)
    BY <1>3, <2>2 DEF Busy
  <2> QED
    BY <2>2, <2>3, <2>4 DEF Rests, r
<1> QED
  BY <1>1, <1>2, <1>3

LEMMA PlainBelow ==
  ASSUME NEW s \in Seq(Act), s # <<>>, OnTop(s)
  PROVE  /\ SubSeq(s, 1, Len(s) - 1) \in Seq(Act) /\ Plain(SubSeq(s, 1, Len(s) - 1))
         /\ s[Len(s)].f # "poll" => Plain(s)
<1> DEFINE b == SubSeq(s, 1, Len(s) - 1)
<1>1. b \in Seq(Act) /\ Len(b) = Len(s) - 1 /\ \A j \in 1 .. Len(s) - 1 : b[j] = s[j]
  BY StackTop
<1> HIDE DEF b
<1>2. Plain(b)
  BY <1>1 DEF Plain, OnTop
<1>3. ASSUME s[Len(s)].f # "poll" PROVE Plain(s)
  <2>1. ASSUME NEW j \in 1 .. Len(s) PROVE s[j].f # "poll"
    <3>1. j = Len(s) \/ j \in 1 .. Len(s) - 1
      OBVIOUS
    <3> QED
      BY <1>3, <3>1 DEF OnTop
  <2> QED
    BY <2>1 DEF Plain
<1> QED
  BY <1>1, <1>2, <1>3 DEF b

LEMMA SendPlain ==
  ASSUME NEW s, StateSound(s), Plain(s.stack), NEW to \in Nat
  PROVE  /\ ip_send(s, to).net = s.net
         /\ ip_send(s, to).stack \in Seq(Act) /\ Plain(ip_send(s, to).stack)
<1> DEFINE a == [f |-> "ip_send", to |-> to, tries |-> 0, res |-> 0]
           r == ip_send(s, to)
<1>1. s \in [net : NetRec, stack : Seq(Act)]
  BY DEF StateSound
<1>2. a \in Act /\ a.f # "poll"
  BY DEF Act, Waiting
<1>3. r = s \/ r = [s EXCEPT !.stack = Append(@, a)]
  BY DEF ip_send
<1> HIDE DEF a, r
<1>4. Append(s.stack, a) \in Seq(Act) /\ Plain(Append(s.stack, a))
  BY <1>1, <1>2, PlainStacks
<1>5. r.net = s.net /\ (r.stack = s.stack \/ r.stack = Append(s.stack, a))
  BY <1>1, <1>3
<1> QED
  BY <1>1, <1>4, <1>5 DEF r


\* Threads take turns.
LEMMA TurnAlone ==
  ASSUME Orderly, TypeOK, OrderInv, NEW t \in Threads, NEW f, In(t, f)
  PROVE  /\ \A u \in Threads \ {t} : cs[u] = <<>>
         /\ t = "prog" => clock.booted
         /\ cs[t] \in Seq(Act) /\ cs[t] # <<>> /\ OnTop(cs[t]) /\ cs[t][Len(cs[t])].f = f
         /\ Below(t) \in Seq(Act) /\ Plain(Below(t))
         /\ f # "poll" => Plain(cs[t])
<1>1. /\ cs[t] \in Seq(Act) /\ cs[t] # <<>> /\ OnTop(cs[t]) /\ cs[t][Len(cs[t])].f = f
  BY TopOf DEF OrderInv, StacksInOrder, top
<1>2. \A u \in Threads \ {t} : cs[u] = <<>>
  BY DEF In, Turn
<1>3. t = "prog" => clock.booted
  BY <1>1 DEF OrderInv, StacksInOrder
<1>4. Below(t) \in Seq(Act) /\ Plain(Below(t)) /\ (f # "poll" => Plain(cs[t]))
  BY <1>1, PlainBelow DEF Below
<1> QED
  BY <1>1, <1>2, <1>3, <1>4

\* A step that leaves the packets alone: t is the only thread in a call, has no
\* packet in its hands, and has none after it.
SamePackets == /\ nic'.ring = nic.ring /\ nic'.curr = nic.curr /\ nic'.bnry = nic.bnry
               /\ UNCHANGED <<g_next_pkt, due, once>> /\ net'.arp = net.arp
               /\ clock.booted => clock'.booted
StepsAside(t) == \E s : Rests(s) /\ cs' = [cs EXCEPT ![t] = s]

LEMMA PlainStep ==
  ASSUME TypeOK, TypeOK', OrderInv, NEW t \in Threads, \A u \in Threads \ {t} : cs[u] = <<>>,
         t = "prog" => clock.booted, ~Busy(cs[t]), StepsAside(t), SamePackets
  PROVE  OrderInv'
<1>1. PICK s : Rests(s) /\ cs' = [cs EXCEPT ![t] = s]
  BY DEF StepsAside
<1>2. cs'[t] = s /\ \A u \in Threads \ {t} : cs'[u] = <<>>
  BY <1>1 DEF TypeOK
<1>3. \A u \in Threads : ~Busy(cs[u]) /\ ~Busy(cs'[u]) /\ OnTop(cs'[u])
  BY <1>1, <1>2 DEF Busy, OnTop, Rests
<1>4. From = g_next_pkt /\ From' = g_next_pkt
  BY <1>3 DEF From, Given, SamePackets
<1>5. StacksInOrder'
  <2>1. \A u \in Threads : OnTop(cs'[u]) /\ Reading(cs'[u], nic', g_next_pkt')
    BY <1>3 DEF Reading
  <2>2. "idle" \in Threads /\ "prog" \in Threads /\ "idle" # "prog"
    BY DEF Threads
  <2>3. cs'["idle"] = <<>> \/ cs'["prog"] = <<>>
    BY <1>2, <2>2
  <2>4. ~clock'.booted => cs'["prog"] = <<>>
    BY <1>2, <2>2 DEF SamePackets
  <2> QED
    BY <2>1, <2>3, <2>4 DEF StacksInOrder
<1>6. RingInOrder'
  BY <1>4 DEF RingInOrder, OrderInv, SamePackets
<1>7. ArpKept(net'.arp) /\ KnownTo(net', due') /\ once'
  BY DEF OrderInv, SamePackets, KnownTo, arp_cache_lookup
<1> QED
  BY <1>5, <1>6, <1>7 DEF OrderInv

\* ne2000_poll is entered from a stack without it.
LEMMA PollsAside ==
  ASSUME TypeOK, NEW t \in Threads, NEW s \in Seq(Act), Plain(s), ne2000_poll(t, s)
  PROVE  StepsAside(t) /\ nic'.ring = nic.ring /\ nic'.curr = nic.curr /\ nic'.bnry = nic.bnry
<1>1. nic' = nic \/ nic' = [nic EXCEPT !.prx = FALSE]
  BY PollStarts
<1>2. nic'.ring = nic.ring /\ nic'.curr = nic.curr /\ nic'.bnry = nic.bnry
  BY <1>1 DEF TypeOK, NicRec
<1>3. \/ cs' = [cs EXCEPT ![t] = s]
      \/ \E a \in PollRec : a.got = FALSE /\ cs' = [cs EXCEPT ![t] = Append(s, a)]
  BY PollStarts
<1>4. StepsAside(t)
  BY <1>3, PlainStacks DEF StepsAside
<1> QED
  BY <1>2, <1>4

LEMMA PollsAgain ==
  ASSUME Orderly, TypeOK, OrderInv, NEW t \in Threads, NEW f \in {"ip_send", "connect", "query"}, In(t, f), PollAgain(t)
  PROVE  StepsAside(t) /\ SamePackets
<1>1. TurnOf(t) \in Seq(Act) /\ Len(TurnOf(t)) = Len(cs[t]) /\ \A j \in 1 .. Len(cs[t]) : TurnOf(t)[j].f = cs[t][j].f
  BY Turns
<1>2. Plain(cs[t])
  BY TurnAlone
<1>3. Plain(TurnOf(t))
  BY <1>1, <1>2 DEF Plain
<1>4. ne2000_poll(t, TurnOf(t))
  BY DEF PollAgain, TurnOf
<1>5. StepsAside(t) /\ nic'.ring = nic.ring /\ nic'.curr = nic.curr /\ nic'.bnry = nic.bnry
  BY <1>1, <1>3, <1>4, PollsAside
<1> QED
  BY <1>5 DEF PollAgain, SamePackets, History

LEMMA GoesAside ==
  ASSUME NEW t \in Threads, NEW s, s.stack \in Seq(Act), Plain(s.stack), Goes(t, s)
  PROVE  StepsAside(t)
  BY PlainStacks DEF Goes, StepsAside

\* The stack of a call that sends, and what becomes of the network.
LEMMA SendsAside ==
  ASSUME NEW t \in Threads, NEW n, NetSound(n), NEW st \in Seq(Act), Plain(st), NEW to \in Nat,
         Goes(t, ip_send([net |-> n, stack |-> st], to))
  PROVE  StepsAside(t) /\ net' = n
<1> DEFINE s == [net |-> n, stack |-> st]
           r == ip_send(s, to)
<1>1. StateSound(s) /\ s.net = n /\ s.stack = st
  BY StateOf
<1> HIDE DEF s
<1>2. r.net = n /\ r.stack \in Seq(Act) /\ Plain(r.stack)
  BY <1>1, SendPlain
<1>3. Goes(t, r)
  BY DEF s
<1> HIDE DEF r
<1> QED
  BY <1>2, <1>3, GoesAside DEF Goes

LEMMA NotBusy ==
  ASSUME NEW s, NEW f, f # "poll", s # <<>> => s[Len(s)].f = f
  PROVE  ~Busy(s)
  BY DEF Busy

\* Actions that wait or end a call.
LEMMA WaitOrder ==
  ASSUME Orderly, TypeOK, TypeOK', OrderInv, NEW t \in Threads,
         ip_send_wait(t) \/ connect_wait(t) \/ lwip_tcp_recv(t) \/ CloseEnd(t)
  PROVE  OrderInv'
<1>1. PICK f \in {"ip_send", "connect", "recv", "close"} : In(t, f)
  BY DEF ip_send_wait, connect_wait, lwip_tcp_recv, CloseEnd
<1>2. /\ \A u \in Threads \ {t} : cs[u] = <<>>
      /\ t = "prog" => clock.booted
      /\ cs[t] # <<>> /\ cs[t][Len(cs[t])].f = f /\ Below(t) \in Seq(Act) /\ Plain(Below(t))
  BY <1>1, TurnAlone
<1>3. ~Busy(cs[t])
  BY <1>2, NotBusy
<1>4. net \in NetRec
  BY DEF TypeOK, NetSound
<1>5. Rests(Below(t)) /\ \A res \in Int : Rests(Return(Below(t), res))
  <2>1. ASSUME NEW res \in Int PROVE Rests(Return(Below(t), res))
    <3> DEFINE r == Return(Below(t), res)
    <3>1. r \in Seq(Act) /\ Len(r) = Len(Below(t)) /\ \A j \in 1 .. Len(Below(t)) : r[j].f = Below(t)[j].f
      BY <1>2, Returns
    <3> HIDE DEF r
    <3>2. Plain(r)
      BY <1>2, <3>1 DEF Plain
    <3>3. Rests(r)
      BY <3>1, <3>2, PlainStacks
    <3> QED
      BY <3>3 DEF r
  <2> QED
    BY <1>2, <2>1, PlainStacks
<1>6. StepsAside(t) /\ SamePackets
  <2>1. CASE ip_send_wait(t)
    <3> DEFINE found == arp_cache_lookup(net, Hop(top(t).to))
    <3>1. In(t, "ip_send")
      BY <2>1 DEF ip_send_wait
    <3>2. CASE PollAgain(t)
      BY <3>1, <3>2, PollsAgain
    <3>3. CASE /\ cs' = [cs EXCEPT ![t] = Return(Below(t), IF found THEN 0 ELSE -1)]
               /\ UNCHANGED <<nic, net, g_next_pkt, g_sockets, clock, History, calls>>
      <4> DEFINE res == IF found THEN 0 ELSE -1
      <4>1. res \in Int
        OBVIOUS
      <4> HIDE DEF res
      <4>2. Rests(Return(Below(t), res))
        BY <1>5, <4>1
      <4>3. cs' = [cs EXCEPT ![t] = Return(Below(t), res)]
        BY <3>3 DEF res
      <4> QED
        BY <3>3, <4>2, <4>3 DEF StepsAside, SamePackets, History
    <3> QED
      BY <2>1, <3>2, <3>3 DEF ip_send_wait
  <2>2. CASE connect_wait(t)
    <3> DEFINE n == [net EXCEPT !.tcp[top(t).i].connected = FALSE]
    <3>1. In(t, "connect")
      BY <2>2 DEF connect_wait
    <3>2. CASE PollAgain(t)
      BY <3>1, <3>2, PollsAgain
    <3>3. CASE /\ net' = net \/ net' = n
               /\ cs' = [cs EXCEPT ![t] = Below(t)]
               /\ UNCHANGED <<nic, g_next_pkt, clock, History, calls>>
      <4>1. n.arp = net.arp
        BY <1>4 DEF NetRec
      <4> HIDE DEF n
      <4> QED
        BY <1>5, <3>3, <4>1 DEF StepsAside, SamePackets, History
    <3> HIDE DEF n
    <3>4. PollAgain(t) \/ (/\ net' = net \/ net' = n
                           /\ cs' = [cs EXCEPT ![t] = Below(t)]
                           /\ UNCHANGED <<nic, g_next_pkt, clock, History, calls>>)
      BY <2>2 DEF connect_wait, n
    <3> QED
      BY <3>2, <3>3, <3>4
  <2>3. CASE lwip_tcp_recv(t) \/ CloseEnd(t)
    <3>1. net'.arp = net.arp
      BY <1>4, <2>3 DEF lwip_tcp_recv, CloseEnd, NetRec
    <3> QED
      BY <1>5, <2>3, <3>1 DEF lwip_tcp_recv, CloseEnd, StepsAside, SamePackets, History
  <2> QED
    BY <2>1, <2>2, <2>3
<1> QED
  BY <1>2, <1>3, <1>6, PlainStep


LEMMA Untouched ==
  ASSUME OrderInv, UNCHANGED <<nic, g_next_pkt, net, clock, cs, due, once>>
  PROVE  OrderInv'
<1>1. From' = From
  BY DEF From, Given, Busy
<1>2. StacksInOrder' /\ RingInOrder'
  BY <1>1 DEF OrderInv, StacksInOrder, RingInOrder, Reading, Busy, OnTop
<1> QED
  BY <1>2 DEF OrderInv, KnownTo, arp_cache_lookup

\* A question for the time.
LEMMA AsksAside ==
  ASSUME NetSound(net), NEW t \in Threads, NEW n \in 1 .. Len(Servers), NEW s \in Seq(Act), Plain(s),
         Goes(t, lwip_udp_query(n, s))
  PROVE  StepsAside(t) /\ net'.arp = net.arp
<1> DEFINE u == [port |-> NTP_LOCAL_PORT, data |-> <<>>]
           m == [net EXCEPT !.udp = u]
           a == [f |-> "query", n |-> n, tries |-> 0, res |-> 0]
<1>1. u \in [port : Nat, data : Seq(Int)]
  BY DEF NTP_LOCAL_PORT
<1>2. Goes(t, ip_send([net |-> m, stack |-> s \o <<a>>], Servers[n]))
  BY DEF lwip_udp_query
<1>3. a \in Act /\ a.f # "poll"
  BY DEF Act, Waiting
<1> HIDE DEF u, a
<1>4. NetSound(m) /\ m.arp = net.arp
  BY <1>1, UdpSet
<1>5. s \o <<a>> = Append(s, a)
  BY <1>3
<1>6. s \o <<a>> \in Seq(Act) /\ Plain(s \o <<a>>)
  BY <1>3, <1>5, PlainStacks
<1> HIDE DEF m
<1>7. Servers[n] \in Nat
  BY NetAssumption DEF Addresses
<1> QED
  BY <1>2, <1>4, <1>6, <1>7, SendsAside


LEMMA QueryOrder ==
  ASSUME Orderly, TypeOK, TypeOK', OrderInv, NEW t \in Threads, query_server(t)
  PROVE  OrderInv'
<1> DEFINE a == top(t)
           found == net.udp.data # <<>>
           closed == [net EXCEPT !.udp = [port |-> 0, data |-> IF found /\ a.res = 0 THEN <<>> ELSE @.data]]
           ts == Head(net.udp.data)
           again == a.res = 0 /\ Waits(t, found /\ a.tries > 0, QUERY_POLLS)
<1>1. In(t, "query")
  BY DEF query_server
<1>2. /\ \A u \in Threads \ {t} : cs[u] = <<>>
      /\ t = "prog" => clock.booted
      /\ cs[t] # <<>> /\ cs[t][Len(cs[t])].f = "query" /\ Below(t) \in Seq(Act) /\ Plain(Below(t))
  BY <1>1, TurnAlone
<1>3. ~Busy(cs[t])
  BY <1>2, NotBusy
<1>4. net \in NetRec /\ NetSound(net) /\ clock \in ClockRec
  BY DEF TypeOK, NetSound
<1>5. /\ again => PollAgain(t)
      /\ ~again =>
           /\ \/ /\ \E r \in Rtc : clock' = show_boot_time(ts, r)
                 /\ net' = closed /\ cs' = [cs EXCEPT ![t] = Below(t)]
              \/ /\ a.n < Len(Servers) /\ Goes(t, lwip_udp_query(a.n + 1, Below(t))) /\ UNCHANGED clock
              \/ /\ \E r \in Rtc : clock' = [clock EXCEPT !.booted = TRUE, !.rtc = r]
                 /\ net' = closed /\ cs' = [cs EXCEPT ![t] = Below(t)]
           /\ UNCHANGED <<nic, g_next_pkt, g_sockets, History, calls>>
  BY Zenon DEF query_server
<1>6. closed.arp = net.arp
  BY <1>4 DEF NetRec
<1> HIDE DEF closed, ts
<1>7. StepsAside(t) /\ SamePackets
  <2>1. CASE PollAgain(t)
    BY <1>1, <2>1, PollsAgain
  <2>2. CASE ~again
    <3>1. UNCHANGED <<nic, g_next_pkt, due, once>>
      BY <1>5, <2>2 DEF History
    <3>2. CASE /\ \E r \in Rtc : clock' = show_boot_time(ts, r) \/ clock' = [clock EXCEPT !.booted = TRUE, !.rtc = r]
               /\ net' = closed /\ cs' = [cs EXCEPT ![t] = Below(t)]
      <4>1. clock'.booted
        <5>1. PICK r \in Rtc : clock' = show_boot_time(ts, r) \/ clock' = [clock EXCEPT !.booted = TRUE, !.rtc = r]
          BY <3>2
        <5>2. show_boot_time(ts, r).booted /\ [clock EXCEPT !.booted = TRUE, !.rtc = r].booted
          BY <1>4 DEF show_boot_time, ClockRec
        <5> QED
          BY <5>1, <5>2
      <4>2. Rests(Below(t))
        BY <1>2, PlainStacks
      <4> QED
        BY <1>6, <3>1, <3>2, <4>1, <4>2 DEF StepsAside, SamePackets
    <3>3. CASE a.n < Len(Servers) /\ Goes(t, lwip_udp_query(a.n + 1, Below(t))) /\ UNCHANGED clock
      <4>1. a.n + 1 \in 1 .. Len(Servers)
        <5>1. a.n \in 1 .. Len(Servers) /\ Len(Servers) \in Nat
          BY <1>1, TopOf, ActFields, NetAssumption
        <5> QED
          BY <3>3, <5>1
      <4>2. StepsAside(t) /\ net'.arp = net.arp
        BY <1>2, <1>4, <3>3, <4>1, AsksAside
      <4> QED
        BY <3>1, <3>3, <4>2 DEF SamePackets
    <3> QED
      BY <1>5, <2>2, <3>2, <3>3
  <2> QED
    BY <1>5, <2>1, <2>2
<1> QED
  BY <1>2, <1>3, <1>7, PlainStep

\* Calls of a program, and the idle loop's.
LEMMA CallOrder ==
  ASSUME Orderly, TypeOK, TypeOK', OrderInv,
         \/ sntp_query \/ IdlePoll \/ ksocket_create
         \/ \E i \in Socks : \/ ksocket_bind(i) \/ ksocket_listen(i) \/ ksocket_accept(i) \/ ksocket_send(i)
                             \/ ksocket_recv(i, 2) \/ ksocket_close(i)
                             \/ \E ip \in Hosts, port \in Ports : ksocket_connect(i, ip, port)
  PROVE  OrderInv'
<1>1. /\ "idle" \in Threads /\ "prog" \in Threads /\ Threads \ {"idle"} = {"prog"} /\ Threads \ {"prog"} = {"idle"}
      /\ <<>> \in Seq(Act) /\ Plain(<<>>)
  BY DEF Threads, Plain
<1>2. NetSound(net) /\ net \in NetRec /\ clock \in ClockRec
  BY DEF TypeOK, NetSound
<1>3. CASE sntp_query
  <2>1. cs["idle"] = <<>> /\ cs["prog"] = <<>> /\ UNCHANGED <<nic, g_next_pkt, due, once>>
        /\ clock' = [clock EXCEPT !.asked = 1] /\ Goes("idle", lwip_udp_query(1, <<>>))
    BY <1>3 DEF sntp_query, OrderInv, StacksInOrder, History
  <2>2. clock'.booted = clock.booted
    BY <1>2, <2>1 DEF ClockRec
  <2>3. StepsAside("idle") /\ net'.arp = net.arp
    <3>1. 1 \in 1 .. Len(Servers)
      BY NetAssumption
    <3> QED
      BY <1>1, <1>2, <2>1, <3>1, AsksAside
  <2>4. SamePackets
    BY <2>1, <2>2, <2>3 DEF SamePackets
  <2> QED
    BY <1>1, <2>1, <2>3, <2>4, PlainStep DEF Busy
<1>4. CASE IdlePoll
  <2>1. cs["idle"] = <<>> /\ cs["prog"] = <<>> /\ ne2000_poll("idle", <<>>)
        /\ UNCHANGED <<g_next_pkt, net, clock, due, once>>
    BY <1>1, <1>4 DEF IdlePoll, Turn, History
  <2>2. StepsAside("idle") /\ SamePackets
    BY <1>1, <2>1, PollsAside DEF SamePackets
  <2> QED
    BY <1>1, <2>1, <2>2, PlainStep DEF Busy
<1>5. ASSUME ProgCall, StepsAside("prog"), SamePackets PROVE OrderInv'
  <2>1. cs["prog"] = <<>> /\ cs["idle"] = <<>> /\ clock.booted
    BY <1>1, <1>5 DEF ProgCall, Turn
  <2> QED
    BY <1>1, <1>5, <2>1, PlainStep DEF Busy
<1>6. ASSUME NEW n, NetSound(n), n.arp = net.arp, NEW st \in Seq(Act), Plain(st), NEW to \in Nat,
             Goes("prog", ip_send([net |-> n, stack |-> st], to)), UNCHANGED <<nic, g_next_pkt, g_sockets, clock, History>>
      PROVE  StepsAside("prog") /\ SamePackets
  <2>1. StepsAside("prog") /\ net' = n
    BY <1>1, <1>6, SendsAside
  <2> QED
    BY <1>6, <2>1 DEF SamePackets, History
<1>7. ASSUME ProgCall, Quiet PROVE OrderInv'
  <2>1. UNCHANGED <<nic, g_next_pkt, net, clock, cs, due, once>>
    BY <1>7 DEF Quiet, History
  <2> QED
    BY <2>1, Untouched
<1>8. CASE ksocket_create
  BY <1>7, <1>8 DEF ksocket_create
<1>9. ASSUME NEW i \in Socks, ksocket_bind(i) \/ ksocket_listen(i) \/ ksocket_accept(i)
      PROVE  OrderInv'
  BY <1>7, <1>9 DEF ksocket_bind, ksocket_listen, ksocket_accept
<1>10. ASSUME NEW i \in Socks, ksocket_recv(i, 2)
       PROVE  OrderInv'
  <2> DEFINE a == [f |-> "recv", i |-> i, len |-> 2, res |-> 0]
  <2>1. <<a>> \in Seq(Act) /\ Plain(<<a>>)
    BY DEF Act, Calling, Plain
  <2>2. ProgCall /\ ne2000_poll("prog", <<a>>) /\ UNCHANGED <<g_next_pkt, net, clock, due, once>>
    BY <1>10 DEF ksocket_recv, History
  <2> HIDE DEF a
  <2>3. StepsAside("prog") /\ SamePackets
    BY <1>1, <2>1, <2>2, PollsAside DEF SamePackets
  <2> QED
    BY <1>5, <2>2, <2>3
<1>11. ASSUME NEW i \in Socks, ksocket_send(i) \/ ksocket_close(i)
       PROVE  OrderInv'
  <2> DEFINE a == [f |-> "close", i |-> i, res |-> 0]
             to == net.tcp[i].ip
             x(st) == [net |-> net, stack |-> st]
  <2>1. <<a>> \in Seq(Act) /\ Plain(<<a>>)
    BY DEF Act, Calling, Plain
  <2>2. to \in Nat
    BY <1>2, NetFields, SockFields DEF SockSound
  <2>3. \A st : tcp_send_flags(x(st), i) = ip_send(x(st), to)
    BY DEF tcp_send_flags
  <2>4. ProgCall /\ UNCHANGED <<nic, g_next_pkt, g_sockets, clock, History>>
    BY <1>11 DEF ksocket_send, ksocket_close
  <2>5. \/ Goes("prog", tcp_send_flags(x(<<>>), i)) \/ Goes("prog", tcp_send_flags(x(<<a>>), i))
        \/ Goes("prog", x(<<a>>))
    BY <1>11 DEF ksocket_send, ksocket_close
  <2> HIDE DEF a, to
  <2>6. StepsAside("prog") /\ SamePackets
    <3>1. CASE Goes("prog", x(<<>>)) \/ Goes("prog", x(<<a>>))
      <4>1. StepsAside("prog") /\ net' = net
        BY <1>1, <2>1, <3>1, GoesAside DEF Goes
      <4> QED
        BY <2>4, <4>1 DEF SamePackets, History
    <3>2. ASSUME NEW st \in Seq(Act), Plain(st), Goes("prog", tcp_send_flags(x(st), i))
          PROVE  StepsAside("prog") /\ SamePackets
      BY <1>2, <1>6, <2>2, <2>3, <2>4, <3>2
    <3> QED
      BY <1>1, <2>1, <2>5, <3>1, <3>2
  <2> QED
    BY <1>5, <2>4, <2>6
<1>12. ASSUME NEW i \in Socks, NEW ip \in Hosts, NEW port \in Ports, ksocket_connect(i, ip, port)
       PROVE  OrderInv'
  <2> DEFINE k == [NoSock EXCEPT !.connected = TRUE, !.ip = ip, !.rport = port, !.lport = LocalPort(i, port)]
             n == [net EXCEPT !.tcp[i] = k]
             a == [f |-> "connect", i |-> i, tries |-> 0, res |-> 0]
  <2>1. SockSound(k)
    BY NewSock
  <2>2. ProgCall /\ UNCHANGED <<nic, g_next_pkt, g_sockets, clock, History>>
        /\ Goes("prog", tcp_send_flags([net |-> n, stack |-> <<a>>], i))
    BY <1>12 DEF ksocket_connect
  <2>3. <<a>> \in Seq(Act) /\ Plain(<<a>>)
    BY DEF Act, Waiting, Plain
  <2> HIDE DEF k, a
  <2>4. NetSound(n) /\ n.arp = net.arp /\ n.tcp[i] = k
    BY <1>2, <2>1, SockSet
  <2> HIDE DEF n
  <2>5. tcp_send_flags([net |-> n, stack |-> <<a>>], i) = ip_send([net |-> n, stack |-> <<a>>], k.ip)
    BY <2>4 DEF tcp_send_flags
  <2>6. k.ip \in Nat
    BY <2>1, SockFields DEF SockSound
  <2>7. StepsAside("prog") /\ SamePackets
    BY <1>6, <2>2, <2>3, <2>4, <2>5, <2>6
  <2> QED
    BY <1>5, <2>2, <2>7
<1> QED
  BY <1>3, <1>4, <1>8, <1>9, <1>10, <1>11, <1>12


-----------------------------------------------------------------------------
(***************************************************************************)
(* The steps of ne2000_poll, and of the card.                              *)
(***************************************************************************)
LEMMA RingPages ==
  ASSUME NEW g \in Pages
  PROVE  /\ Next_(g) \in Pages /\ bnry(g) \in Pages /\ bnry(Next_(g)) = g
         /\ \A c \in Pages : Next_(c) = g <=> c = bnry(g)
<1>1. PAGES \in Nat \ {0, 1} /\ \A c \in Pages : Next_(c) = IF c + 1 < PAGES THEN c + 1 ELSE 0
  <2>1. PAGES \in Nat \ {0, 1}
    BY Constants
  <2>2. ASSUME NEW c \in Pages PROVE Next_(c) = IF c + 1 < PAGES THEN c + 1 ELSE 0
    BY <2>1, Wraps DEF Next_, Pages
  <2> QED
    BY <2>1, <2>2
<1> QED
  BY <1>1 DEF bnry, Pages

\* The first cell of a ring.
LEMMA QueuedFront ==
  ASSUME NEW N \in Nat \ {0}, NEW h \in 0 .. N - 1, NEW t \in 0 .. N - 1, h # t, NEW buf
  PROVE  1 \in 1 .. (t - h) % N /\ Queued(buf, N, h, t)[1] = buf[h] /\ (h + 1) % N \in 0 .. N - 1
<1>1. (t - h) % N = (IF h <= t THEN t - h ELSE t - h + N) /\ (h + 1) % N = IF h + 1 < N THEN h + 1 ELSE 0
  BY Wraps
<1>2. (h + 1 - 1) % N = h
  <2>1. h + 1 - 1 = h /\ h % N = h
    OBVIOUS
  <2> QED
    BY <2>1
<1>3. 1 \in 1 .. (t - h) % N
  BY <1>1
<1>4. Queued(buf, N, h, t)[1] = buf[(h + 1 - 1) % N]
  BY <1>3 DEF Queued
<1> QED
  BY <1>1, <1>2, <1>3, <1>4

\* What is due, and without its first.
LEMMA DueFront ==
  ASSUME TypeOK, due = Queued(nic.ring, PAGES, g_next_pkt, nic.curr), g_next_pkt # nic.curr
  PROVE  /\ due \in Seq(Packets) /\ due # <<>> /\ 1 \in 1 .. Len(due) /\ Head(due) = nic.ring[g_next_pkt]
         /\ due[1] = nic.ring[g_next_pkt] /\ nic.ring[g_next_pkt] \in Packets
         /\ SubSeq(due, 2, Len(due)) = Queued(nic.ring, PAGES, Next_(g_next_pkt), nic.curr)
<1> DEFINE N == PAGES
           h == g_next_pkt
           t == nic.curr
           b == nic.ring
           S == Packets \cup {Empty}
<1>1. N \in Nat \ {0} /\ h \in 0 .. N - 1 /\ t \in 0 .. N - 1 /\ b \in [0 .. N - 1 -> S] /\ h # t
  BY Constants, NicFields DEF TypeOK, Pages
<1>2. due = Queued(b, N, h, t) /\ due \in Seq(Packets)
  BY DEF TypeOK
<1>3. Next_(g_next_pkt) = (h + 1) % N
  BY DEF Next_
<1> HIDE DEF N, h, t, b, S
<1>4. Len(due) = (t - h) % N
  BY <1>1, <1>2, QueuedLen
<1>5. 1 \in 1 .. Len(due) /\ due[1] = b[h]
  BY <1>1, <1>2, <1>4, QueuedFront
<1>6. due # <<>> /\ Head(due) = b[h] /\ b[h] \in Packets
  BY <1>2, <1>5
<1>7. 1 \in 0 .. (t - h) % N
  BY <1>4, <1>5
<1>8. Queued(b, N, (h + 1) % N, t) = SubSeq(due, 1 + 1, Len(due))
  <2> DEFINE one == 1
  <2>1. one \in 0 .. (t - h) % N
    BY <1>7
  <2> HIDE DEF one
  <2>2. Queued(b, N, (h + one) % N, t) = SubSeq(Queued(b, N, h, t), one + 1, Len(Queued(b, N, h, t)))
    BY <1>1, <2>1, QueuedDrop
  <2> QED
    BY <1>2, <2>2 DEF one
<1>9. SubSeq(due, 2, Len(due)) = Queued(b, N, Next_(g_next_pkt), t)
  BY <1>3, <1>8
<1> QED
  BY <1>2, <1>5, <1>6, <1>9 DEF N, h, t, b

\* Another activation on top.
LEMMA SwapTop ==
  ASSUME NEW s \in Seq(Act), s # <<>>, OnTop(s), NEW a \in Act
  PROVE  /\ [s EXCEPT ![Len(s)] = a] # <<>> /\ OnTop([s EXCEPT ![Len(s)] = a])
         /\ [s EXCEPT ![Len(s)] = a][Len([s EXCEPT ![Len(s)] = a])] = a
<1> DEFINE r == [s EXCEPT ![Len(s)] = a]
<1>1. r # <<>> /\ Len(r) = Len(s) /\ r[Len(s)] = a /\ \A j \in 1 .. Len(s) - 1 : r[j] = s[j]
  BY StackTop
<1> HIDE DEF r
<1>2. OnTop(r)
  BY <1>1 DEF OnTop
<1> QED
  BY <1>1, <1>2 DEF r

\* ne2000_poll goes on: a is the activation of t before, b after the step.
GoesOn(t, b) ==
  \E s : s # <<>> /\ OnTop(s) /\ s[Len(s)] = b /\ cs' = [cs EXCEPT ![t] = s]

LEMMA GoesOnOrder ==
  ASSUME TypeOK, OrderInv, NEW t \in Threads, \A u \in Threads \ {t} : cs[u] = <<>>,
         t = "prog" => clock.booted, clock' = clock, NEW b \in PollRec, GoesOn(t, b),
         b.got => /\ g_next_pkt' # nic.curr' /\ b.next = Next_(g_next_pkt')
                  /\ (b.pkt # Empty => b.pkt = nic.ring[g_next_pkt'])
                  /\ nic'.ring = nic.ring
  PROVE  /\ StacksInOrder'
         /\ From' = IF b.got /\ b.pkt = Empty THEN Next_(g_next_pkt') ELSE g_next_pkt'
<1>1. PICK s : s # <<>> /\ OnTop(s) /\ s[Len(s)] = b /\ cs' = [cs EXCEPT ![t] = s]
  BY DEF GoesOn
<1>2. cs'[t] = s /\ \A u \in Threads \ {t} : cs'[u] = <<>>
  BY <1>1 DEF TypeOK
<1>3. b.f = "poll" /\ b.got \in BOOLEAN
  BY PollFields
<1>4. (Busy(s) <=> b.got) /\ (Given(s) <=> b.got /\ b.pkt = Empty)
  BY <1>1, <1>3 DEF Busy, Given
<1>5. \A u \in Threads \ {t} : ~Busy(cs'[u]) /\ ~Given(cs'[u]) /\ OnTop(cs'[u])
  BY <1>2 DEF Busy, Given, OnTop
<1>6. Reading(s, nic', g_next_pkt')
  BY <1>1, <1>4 DEF Reading
<1>7. \A u \in Threads : OnTop(cs'[u]) /\ Reading(cs'[u], nic', g_next_pkt')
  BY <1>1, <1>2, <1>5, <1>6 DEF Reading
<1>8. cs'["idle"] = <<>> \/ cs'["prog"] = <<>>
  BY <1>2 DEF Threads
<1>9. ~clock'.booted => cs'["prog"] = <<>>
  BY <1>2 DEF Threads
<1>10. From' = IF b.got /\ b.pkt = Empty THEN Next_(g_next_pkt') ELSE g_next_pkt'
  <2>1. (\E u \in Threads : Given(cs'[u])) <=> b.got /\ b.pkt = Empty
    BY <1>2, <1>4, <1>5
  <2> QED
    BY <2>1 DEF From
<1> QED
  BY <1>7, <1>8, <1>9, <1>10 DEF StacksInOrder

\* From before a step of ne2000_poll.
LEMMA FromNow ==
  ASSUME Orderly, TypeOK, OrderInv, NEW t \in Threads, In(t, "poll")
  PROVE  /\ top(t) \in PollRec /\ top(t) \in Act
         /\ From = IF top(t).got /\ top(t).pkt = Empty THEN Next_(g_next_pkt) ELSE g_next_pkt
         /\ top(t).got => /\ g_next_pkt # nic.curr /\ top(t).next = Next_(g_next_pkt)
                          /\ (top(t).pkt # Empty => top(t).pkt = nic.ring[g_next_pkt])
<1>1. /\ cs[t] # <<>> /\ top(t) = cs[t][Len(cs[t])] /\ top(t) \in Act /\ top(t).f = "poll"
      /\ \A u \in Threads \ {t} : cs[u] = <<>>
  BY TopOf, TurnAlone
<1>2. top(t) \in PollRec
  BY <1>1, PollByName
<1>3. (Busy(cs[t]) <=> top(t).got) /\ (Given(cs[t]) <=> top(t).got /\ top(t).pkt = Empty)
  BY <1>1, <1>2, PollFields DEF Busy, Given
<1>4. (\E u \in Threads : Given(cs[u])) <=> top(t).got /\ top(t).pkt = Empty
  BY <1>1, <1>3 DEF Given, Busy
<1>5. Reading(cs[t], nic, g_next_pkt)
  BY DEF OrderInv, StacksInOrder
<1> QED
  BY <1>1, <1>2, <1>3, <1>4, <1>5 DEF From, Reading

LEMMA ReadOrder ==
  ASSUME Orderly, TypeOK, OrderInv, NEW t \in Threads, PollRead(t)
  PROVE  OrderInv'
<1> DEFINE a == top(t)
           b == [a EXCEPT !.got = TRUE, !.pkt = nic.ring[g_next_pkt], !.next = Next_(g_next_pkt)]
           l == Len(cs[t])
           s == [cs[t] EXCEPT ![l] = b]
<1>1. /\ In(t, "poll") /\ ~a.got /\ g_next_pkt # nic.curr
      /\ UNCHANGED <<nic, g_next_pkt, net, clock, due, once>>
  BY DEF PollRead, History
<1>2. /\ \A u \in Threads \ {t} : cs[u] = <<>>
      /\ t = "prog" => clock.booted
      /\ cs[t] \in Seq(Act) /\ cs[t] # <<>> /\ OnTop(cs[t]) /\ a = cs[t][l]
  BY <1>1, TurnAlone, TopOf
<1>3. a \in PollRec /\ From = g_next_pkt
  BY <1>1, FromNow
<1>4. nic.ring[g_next_pkt] \in Packets /\ g_next_pkt \in Pages
  BY <1>1, <1>3, DueFront DEF OrderInv, RingInOrder, TypeOK
<1>5. Next_(g_next_pkt) \in Pages /\ nic.ring[g_next_pkt] # Empty
  BY <1>4, RingPages, Constants
<1>6. b \in PollRec /\ b.got /\ b.pkt = nic.ring[g_next_pkt] /\ b.next = Next_(g_next_pkt)
  BY <1>3, <1>4, <1>5 DEF PollRec
<1>7. cs' = [cs EXCEPT ![t] = s]
  BY <1>2 DEF PollRead, TypeOK
<1> HIDE DEF b, a
<1>8. s # <<>> /\ OnTop(s) /\ s[Len(s)] = b
  BY <1>2, <1>6, SwapTop DEF Act
<1> HIDE DEF s
<1>9. GoesOn(t, b)
  BY <1>7, <1>8 DEF GoesOn
<1>10. StacksInOrder' /\ From' = g_next_pkt
  BY <1>1, <1>2, <1>5, <1>6, <1>9, GoesOnOrder
<1>11. RingInOrder'
  BY <1>1, <1>3, <1>10 DEF OrderInv, RingInOrder
<1> QED
  BY <1>1, <1>10, <1>11 DEF OrderInv, KnownTo, arp_cache_lookup

LEMMA AdvanceOrder ==
  ASSUME Orderly, TypeOK, OrderInv, NEW t \in Threads, PollAdvance(t)
  PROVE  OrderInv'
<1> DEFINE a == top(t)
           b == [Poll EXCEPT !.ovw = a.ovw]
           l == Len(cs[t])
           s == [cs[t] EXCEPT ![l] = b]
           n == [net EXCEPT !.tcp[a.fin].connected = FALSE]
<1>1. /\ In(t, "poll") /\ a.got /\ a.pkt = Empty /\ g_next_pkt' = a.next
      /\ nic' = [nic EXCEPT !.bnry = bnry(a.next)] /\ (net' = net \/ net' = n)
      /\ UNCHANGED <<clock, due, once>>
  BY DEF PollAdvance, History
<1>2. /\ \A u \in Threads \ {t} : cs[u] = <<>>
      /\ t = "prog" => clock.booted
      /\ cs[t] \in Seq(Act) /\ cs[t] # <<>> /\ OnTop(cs[t]) /\ a = cs[t][l]
  BY <1>1, TurnAlone, TopOf
<1>3. a \in PollRec /\ a.next = Next_(g_next_pkt) /\ From = a.next /\ g_next_pkt # nic.curr
  BY <1>1, FromNow
<1>4. b \in PollRec /\ b \in Act /\ b.got = FALSE
  BY <1>3, PollFields, NewPoll
<1>5. cs' = [cs EXCEPT ![t] = s]
  BY <1>2 DEF PollAdvance, TypeOK
<1>6. net'.arp = net.arp
  BY <1>1 DEF TypeOK, NetSound, NetRec
<1> HIDE DEF b, a, n
<1>7. s # <<>> /\ OnTop(s) /\ s[Len(s)] = b
  BY <1>2, <1>4, SwapTop
<1> HIDE DEF s
<1>8. GoesOn(t, b)
  BY <1>5, <1>7 DEF GoesOn
<1>9. StacksInOrder' /\ From' = g_next_pkt'
  BY <1>1, <1>2, <1>4, <1>8, GoesOnOrder
<1>10. nic'.ring = nic.ring /\ nic'.curr = nic.curr /\ nic'.bnry = bnry(g_next_pkt')
  BY <1>1 DEF TypeOK, NicRec
<1>11. bnry(g_next_pkt') = g_next_pkt
  BY <1>1, <1>3, RingPages DEF TypeOK
<1>12. RingInOrder'
  BY <1>1, <1>3, <1>9, <1>10, <1>11 DEF OrderInv, RingInOrder
<1> QED
  BY <1>1, <1>6, <1>9, <1>12 DEF OrderInv, KnownTo, arp_cache_lookup

LEMMA EndOrder ==
  ASSUME Orderly, TypeOK, TypeOK', OrderInv, NEW t \in Threads, PollEnd(t)
  PROVE  OrderInv'
<1>1. In(t, "poll") /\ ~top(t).got /\ cs' = [cs EXCEPT ![t] = Below(t)]
      /\ nic' \in {nic, [nic EXCEPT !.ovw = FALSE]} /\ UNCHANGED <<g_next_pkt, net, clock, due, once>>
  BY DEF PollEnd, History
<1>2. /\ \A u \in Threads \ {t} : cs[u] = <<>>
      /\ t = "prog" => clock.booted
      /\ Below(t) \in Seq(Act) /\ Plain(Below(t)) /\ top(t) = cs[t][Len(cs[t])]
  BY <1>1, TurnAlone, TopOf
<1>3. ~Busy(cs[t])
  BY <1>1, <1>2 DEF Busy
<1>4. StepsAside(t)
  BY <1>1, <1>2, PlainStacks DEF StepsAside
<1>5. nic'.ring = nic.ring /\ nic'.curr = nic.curr /\ nic'.bnry = nic.bnry
  BY <1>1 DEF TypeOK, NicRec
<1>6. SamePackets
  BY <1>1, <1>5 DEF SamePackets
<1> QED
  BY <1>2, <1>3, <1>4, <1>6, PlainStep


LEMMA WithoutFirst ==
  ASSUME NEW S, NEW q \in Seq(S), q # <<>>
  PROVE  /\ Len(SubSeq(q, 2, Len(q))) = Len(q) - 1
         /\ \A j \in 1 .. Len(q) - 1 : SubSeq(q, 2, Len(q))[j] = q[j + 1]
<1> DEFINE r == SubSeq(q, 2, Len(q))
<1>1. Len(q) \in Nat \ {0}
  OBVIOUS
<1>2. r \in Seq(S) /\ Len(r) = Len(q) - 1
  <2> DEFINE n == 1
             u == SubSeq(q, n + 1, Len(q))
  <2>1. n \in Nat /\ n <= Len(q)
    BY <1>1
  <2> HIDE DEF n
  <2>2. u \in Seq(S) /\ Len(u) = Len(q) - n
    BY <2>1
  <2> QED
    BY <2>2 DEF n
<1>3. ASSUME NEW j \in 1 .. Len(q) - 1 PROVE r[j] = q[j + 1]
  <2>1. r[j] = q[2 + j - 1]
    BY <1>1
  <2>2. 2 + j - 1 = j + 1
    OBVIOUS
  <2> QED
    BY <2>1, <2>2
<1> QED
  BY <1>2, <1>3

\* The packet that ne2000_poll has read is the first that is due; its handler
\* sends to a host that is known, and so does not wait.
LEMMA DeliverOrder ==
  ASSUME Orderly, TypeOK, OrderInv, NEW t \in Threads, PollDeliver(t)
  PROVE  OrderInv'
<1> DEFINE a == top(t)
           l == Len(cs[t])
           p == a.pkt
           b == [a EXCEPT !.pkt = Empty]
           s == [Now(t) EXCEPT !.stack[l].pkt = Empty]
           r == lwip_rx_input(s, p)
<1>1. /\ In(t, "poll") /\ a.got /\ p # Empty /\ Goes(t, r)
      /\ once' = (once /\ due # <<>> /\ p = Head(due)) /\ due' = SubSeq(due, 2, Len(due))
      /\ UNCHANGED <<nic, g_next_pkt, clock>>
  BY DEF PollDeliver
<1>2. /\ \A u \in Threads \ {t} : cs[u] = <<>>
      /\ t = "prog" => clock.booted
      /\ cs[t] \in Seq(Act) /\ cs[t] # <<>> /\ OnTop(cs[t]) /\ a = cs[t][l]
  BY <1>1, TurnAlone, TopOf
<1>3. /\ a \in PollRec /\ From = g_next_pkt /\ g_next_pkt # nic.curr
      /\ a.next = Next_(g_next_pkt) /\ p = nic.ring[g_next_pkt]
  BY <1>1, FromNow
<1>4. /\ due \in Seq(Packets) /\ due # <<>> /\ 1 \in 1 .. Len(due) /\ Head(due) = p /\ due[1] = p /\ p \in Packets
      /\ due' = Queued(nic.ring, PAGES, Next_(g_next_pkt), nic.curr)
  BY <1>1, <1>3, DueFront DEF OrderInv, RingInOrder
<1>5. b \in PollRec /\ b \in Act /\ b.got /\ b.pkt = Empty /\ b.next = Next_(g_next_pkt)
  BY <1>1, <1>3 DEF PollRec, Act
<1> DEFINE st == [cs[t] EXCEPT ![l] = b]
<1>6. s = [net |-> net, stack |-> st]
  BY <1>2 DEF Now
<1> HIDE DEF s, a, b, p
<1>7. /\ st \in Seq(Act) /\ st # <<>> /\ st[Len(st)] = b /\ OnTop(st)
  BY <1>2, <1>5, StackTop, SwapTop
<1> HIDE DEF st
<1>8. StateSound(s) /\ s.net = net /\ s.stack = st
  BY <1>6, <1>7, StateOf DEF TypeOK
<1>9. s.stack # <<>> /\ s.stack[Len(s.stack)] \in PollRec
  BY <1>5, <1>7, <1>8
\* What the handler leaves: the stack but for a note in poll's activation, and
\* every known host.
<1>10. /\ \A h \in Addresses : arp_cache_lookup(net, h) => arp_cache_lookup(r.net, h)
       /\ ArpKept(r.net.arp)
       /\ \E b2 \in PollRec : /\ b2.got /\ b2.pkt = Empty /\ b2.next = Next_(g_next_pkt)
                              /\ r.stack # <<>> /\ OnTop(r.stack) /\ r.stack[Len(r.stack)] = b2
  <2>1. CASE p.k = "arp"
    <3> DEFINE n == arp_cache_insert(net, p.ip)
    <3>1. r = [s EXCEPT !.net = n]
      BY <1>4, <1>8, <1>9, <2>1, RxInput
    <3>2. p.ip \in Neighbours
      BY <1>4, <2>1, Hops
    <3>3. ArpKept(n.arp) /\ \A h \in Addresses : arp_cache_lookup(net, h) => arp_cache_lookup(n, h)
      BY <3>2, InsertKeeps DEF OrderInv, TypeOK
    <3> HIDE DEF n, r
    <3>4. r.net = n /\ r.stack = st
      BY <1>6, <3>1
    <3> QED
      BY <1>5, <1>7, <3>3, <3>4
  <2>2. CASE p.k # "arp"
    <3>1. PICK s1 : Moved(s, s1) /\ (r = s1 \/ r = ip_send(s1, p.ip))
      BY <1>4, <1>8, <1>9, <2>2, RxInput DEF Handled
    <3>2. StateSound(s1) /\ s1.net.arp = net.arp
      BY <1>8, <3>1 DEF Moved
    <3>3. r = s1
      <4>1. arp_cache_lookup(net, Hop(p.ip))
        BY <1>4, <2>2 DEF OrderInv, KnownTo
      <4>2. arp_cache_lookup(s1.net, Hop(p.ip))
        BY <3>2, <4>1 DEF arp_cache_lookup
      <4>3. p.ip \in Nat
        BY <1>4, Hops DEF Addresses
      <4> QED
        BY <3>1, <3>2, <4>2, <4>3, Sends
    <3>4. \/ s1.stack = st
          \/ \E i \in Socks : s1.stack = [st EXCEPT ![Len(st)].fin = i]
      BY <1>8, <3>1 DEF Moved
    <3> HIDE DEF r
    <3>5. CASE s1.stack = st
      BY <1>5, <1>7, <3>2, <3>3, <3>5 DEF OrderInv, arp_cache_lookup
    <3>6. ASSUME NEW i \in Socks, s1.stack = [st EXCEPT ![Len(st)].fin = i]
          PROVE  \E b2 \in PollRec : /\ b2.got /\ b2.pkt = Empty /\ b2.next = Next_(g_next_pkt)
                                     /\ r.stack # <<>> /\ OnTop(r.stack) /\ r.stack[Len(r.stack)] = b2
      <4> DEFINE b2 == [b EXCEPT !.fin = i]
      <4>1. b2 \in PollRec /\ b2.got /\ b2.pkt = Empty /\ b2.next = Next_(g_next_pkt)
        BY <1>5 DEF PollRec, Socks
      <4>2. s1.stack = [st EXCEPT ![Len(st)] = b2]
        BY <1>7, <3>6
      <4> HIDE DEF b2
      <4>3. b2 \in Act
        BY <4>1 DEF Act
      <4>4. r.stack # <<>> /\ OnTop(r.stack) /\ r.stack[Len(r.stack)] = b2
        BY <1>7, <3>3, <4>2, <4>3, SwapTop
      <4> QED
        BY <4>1, <4>4
    <3> QED
      BY <3>2, <3>3, <3>4, <3>5, <3>6 DEF OrderInv, arp_cache_lookup
  <2> QED
    BY <2>1, <2>2
<1> HIDE DEF r
<1>11. PICK b2 \in PollRec : /\ b2.got /\ b2.pkt = Empty /\ b2.next = Next_(g_next_pkt)
                             /\ r.stack # <<>> /\ OnTop(r.stack) /\ r.stack[Len(r.stack)] = b2
  BY <1>10
<1>12. net' = r.net /\ cs' = [cs EXCEPT ![t] = r.stack]
  BY <1>1 DEF Goes
<1>13. GoesOn(t, b2)
  BY <1>11, <1>12 DEF GoesOn
<1>14. StacksInOrder' /\ From' = Next_(g_next_pkt)
  BY <1>1, <1>2, <1>3, <1>11, <1>13, GoesOnOrder
<1>15. RingInOrder'
  BY <1>1, <1>4, <1>14 DEF OrderInv, RingInOrder
<1>16. KnownTo(net', due')
  <2>1. Len(due') = Len(due) - 1 /\ \A j \in 1 .. Len(due) - 1 : due'[j] = due[j + 1]
    BY <1>1, <1>4, WithoutFirst
  <2>2. ASSUME NEW j \in 1 .. Len(due'), due'[j].k # "arp" PROVE arp_cache_lookup(net', Hop(due'[j].ip))
    <3>1. j + 1 \in 1 .. Len(due) /\ due'[j] = due[j + 1] /\ due[j + 1] \in Packets
      BY <1>4, <2>1
    <3>2. arp_cache_lookup(net, Hop(due'[j].ip))
      BY <2>2, <3>1 DEF OrderInv, KnownTo
    <3> QED
      BY <1>10, <1>12, <3>1, <3>2, Hops
  <2> QED
    BY <2>2 DEF KnownTo
<1>17. once' /\ ArpKept(net'.arp)
  BY <1>1, <1>4, <1>10, <1>12 DEF OrderInv
<1> QED
  BY <1>14, <1>15, <1>16, <1>17 DEF OrderInv

\* The card writes to the page behind the last one that is due.
LEMMA ArriveOrder ==
  ASSUME Orderly, TypeOK, OrderInv, NEW p \in Packets, Arrive(p)
  PROVE  OrderInv'
<1>1. /\ UNCHANGED <<g_next_pkt, net, clock, cs, once>>
      /\ p.k # "arp" => arp_cache_lookup(net, Hop(p.ip))
  BY DEF Arrive
<1>2. From' = From
  BY <1>1 DEF From
<1>3. nic \in NicRec /\ g_next_pkt \in Pages /\ nic.curr \in Pages /\ due \in Seq(Packets)
      /\ nic.ring \in [Pages -> Packets \cup {Empty}]
  BY NicFields DEF TypeOK
<1>4. CASE nic' \in {nic, [nic EXCEPT !.ovw = TRUE]} /\ UNCHANGED due
  <2>1. nic'.ring = nic.ring /\ nic'.curr = nic.curr /\ nic'.bnry = nic.bnry
    BY <1>3, <1>4 DEF NicRec
  <2>2. StacksInOrder' /\ RingInOrder'
    BY <1>1, <1>2, <1>4, <2>1 DEF OrderInv, StacksInOrder, RingInOrder, Reading
  <2> QED
    BY <1>1, <1>4, <2>2 DEF OrderInv, KnownTo, arp_cache_lookup
<1>5. CASE /\ Next_(nic.curr) # nic.bnry
           /\ nic' = [nic EXCEPT !.ring[nic.curr] = p, !.curr = Next_(nic.curr), !.prx = TRUE]
           /\ due' = Append(due, p)
  <2> DEFINE ring == [nic.ring EXCEPT ![nic.curr] = p]
  <2>1. nic'.ring = ring /\ nic'.curr = Next_(nic.curr) /\ nic'.bnry = nic.bnry
    BY <1>3, <1>5 DEF NicRec
  <2>2. /\ nic.bnry = bnry(g_next_pkt) /\ nic.curr # nic.bnry /\ Next_(nic.curr) # g_next_pkt
        /\ Next_(nic.curr) \in Pages
    BY <1>3, RingPages DEF OrderInv, RingInOrder
  <2>3. ASSUME NEW u \in Threads, Busy(cs[u]) PROVE g_next_pkt # nic.curr /\ ring[g_next_pkt] = nic.ring[g_next_pkt]
    <3>1. g_next_pkt # nic.curr
      BY <2>3 DEF OrderInv, StacksInOrder, Reading
    <3> QED
      BY <1>3, <3>1
  <2> HIDE DEF ring
  <2>4. StacksInOrder'
    BY <1>1, <2>1, <2>2, <2>3 DEF OrderInv, StacksInOrder, Reading
  <2>5. From \in Pages /\ Next_(nic.curr) # From
    <3>1. CASE \E u \in Threads : Given(cs[u])
      <4>1. g_next_pkt # nic.curr /\ From = Next_(g_next_pkt)
        BY <2>3, <3>1 DEF Given, From
      <4>2. bnry(Next_(g_next_pkt)) = g_next_pkt /\ Next_(g_next_pkt) \in Pages
        BY <1>3, RingPages
      <4>3. Next_(nic.curr) = Next_(g_next_pkt) <=> nic.curr = bnry(Next_(g_next_pkt))
        BY <1>3, <4>2, RingPages
      <4> QED
        BY <4>1, <4>2, <4>3
    <3>2. CASE ~\E u \in Threads : Given(cs[u])
      BY <1>3, <2>2, <3>2 DEF From
    <3> QED
      BY <3>1, <3>2
  <2>6. due' = Queued(ring, PAGES, From, Next_(nic.curr))
    <3> DEFINE N == PAGES
               h == From
               t == nic.curr
               c == nic.ring
               S == Packets \cup {Empty}
    <3>1. N \in Nat \ {0} /\ h \in 0 .. N - 1 /\ t \in 0 .. N - 1 /\ c \in [0 .. N - 1 -> S] /\ p \in S
          /\ (t + 1) % N # h /\ due = Queued(c, N, h, t) /\ Next_(nic.curr) = (t + 1) % N /\ ring = [c EXCEPT ![t] = p]
      BY <1>3, <2>5, Constants DEF Pages, Next_, OrderInv, RingInOrder, ring
    <3> HIDE DEF N, h, t, c, S
    <3>2. AppendsAt(c, N, h, t, p)
      BY <3>1, QueuedAppend
    <3>3. due' = Queued(ring, N, h, Next_(nic.curr))
      BY <1>5, <3>1, <3>2 DEF AppendsAt
    <3> QED
      BY <3>3 DEF N, h
  <2>7. RingInOrder'
    BY <1>1, <1>2, <1>5, <2>1, <2>2, <2>6 DEF RingInOrder
  <2>8. KnownTo(net', due')
    <3>1. ASSUME NEW j \in 1 .. Len(due'), due'[j].k # "arp" PROVE arp_cache_lookup(net, Hop(due'[j].ip))
      <4>1. (j = Len(due) + 1 /\ due'[j] = p) \/ (j \in 1 .. Len(due) /\ due'[j] = due[j])
        BY <1>3, <1>5
      <4> QED
        BY <1>1, <3>1, <4>1 DEF OrderInv, KnownTo
    <3> QED
      BY <1>1, <3>1 DEF KnownTo
  <2> QED
    BY <1>1, <2>4, <2>7, <2>8 DEF OrderInv
<1> QED
  BY <1>4, <1>5 DEF Arrive

LEMMA OrderAtStart ==
  ASSUME Init
  PROVE  OrderInv
<1>1. PAGES \in Nat \ {0, 1} /\ 0 \in Pages /\ 1 \in Pages
  BY Constants DEF Pages
<1>2. nic.curr = 1 /\ nic.bnry = 0 /\ g_next_pkt = 1 /\ due = <<>> /\ once
  BY DEF Init, ne2000_init
<1>3. \A t \in Threads : cs[t] = <<>>
  BY DEF Init
<1>4. From = 1 /\ StacksInOrder
  BY <1>2, <1>3 DEF From, Given, Busy, StacksInOrder, OnTop, Reading, Threads
<1>5. (1 - 1) % PAGES = 0
  BY <1>1
<1>6. RingInOrder
  BY <1>2, <1>4, <1>5 DEF RingInOrder, Queued, bnry
<1>7. net.arp = [i \in 1 .. ARP_CACHE_SIZE |-> 0]
  BY DEF Init, lwip_init
<1>8. ArpKept(net.arp)
  BY <1>7 DEF ArpKept
<1> QED
  BY <1>2, <1>4, <1>6, <1>8 DEF OrderInv, KnownTo

LEMMA OrderKept ==
  ASSUME Orderly, TypeOK, TypeOK', OrderInv, [Next]_vars
  PROVE  OrderInv'
<1>1. CASE UNCHANGED vars
  BY <1>1, Untouched DEF vars
<1>2. CASE \E p \in Packets : Arrive(p)
  BY <1>2, ArriveOrder
<1>3. CASE \E t \in Threads : Inside(t)
  BY <1>3, ReadOrder, DeliverOrder, AdvanceOrder, EndOrder, WaitOrder, QueryOrder DEF Inside
<1> QED
  BY <1>1, <1>2, <1>3, CallOrder DEF Next

(***************************************************************************)
(* The stack is given each packet that the card stored once and in the     *)
(* order of arrival (ne2000_poll), provided that every host asks for our   *)
(* address before it sends anything else, that the ARP cache has room for  *)
(* all who do, and that threads are switched only between calls.           *)
(***************************************************************************)
THEOREM PacketsInOrder ==
  ASSUME Orderly
  PROVE  Spec => []PacketsOnce
<1>1. Init => TypeOK /\ OrderInv
  BY TypesAtStart, OrderAtStart
<1>2. TypeOK /\ OrderInv /\ [Next]_vars => (TypeOK /\ OrderInv)'
  BY TypesKept, OrderKept
<1>3. TypeOK /\ OrderInv => PacketsOnce
  BY DEF OrderInv, PacketsOnce
<1> QED
  BY <1>1, <1>2, <1>3, PTL DEF Spec


(***************************************************************************)
(* Under the same conditions ne2000_poll is not entered again from         *)
(* g_rx_cb, as its static buffer takes for granted.                        *)
(***************************************************************************)
THEOREM PollEnteredOnce ==
  ASSUME Orderly
  PROVE  Spec => []PollNotReentered
<1>1. Init => TypeOK /\ OrderInv
  BY TypesAtStart, OrderAtStart
<1>2. TypeOK /\ OrderInv /\ [Next]_vars => (TypeOK /\ OrderInv)'
  BY TypesKept, OrderKept
<1>3. TypeOK /\ OrderInv => PollNotReentered
  <2>1. SUFFICES ASSUME TypeOK, OrderInv, NEW t \in Threads
                 PROVE  Cardinality({n \in DOMAIN cs[t] : cs[t][n].f = "poll"}) <= 1
    BY DEF PollNotReentered
  <2> DEFINE P == {n \in DOMAIN cs[t] : cs[t][n].f = "poll"}
  <2>2. cs[t] \in Seq(Act) /\ OnTop(cs[t])
    BY <2>1 DEF TypeOK, OrderInv, StacksInOrder
  <2>3. P \subseteq {Len(cs[t])}
    <3>1. ASSUME NEW n \in P PROVE n = Len(cs[t])
      <4>1. n \in 1 .. Len(cs[t]) /\ Len(cs[t]) \in Nat /\ n \notin 1 .. Len(cs[t]) - 1
        BY <2>2 DEF OnTop
      <4> QED
        BY <4>1
    <3> QED
      BY <3>1
  <2> HIDE DEF P
  <2>4. IsFiniteSet({Len(cs[t])}) /\ Cardinality({Len(cs[t])}) = 1
    BY FS_Singleton
  <2>5. Cardinality(P) <= 1
    BY <2>3, <2>4, FS_Subset
  <2> QED
    BY <2>5 DEF P
<1> QED
  BY <1>1, <1>2, <1>3, PTL DEF Spec

=============================================================================

---------------------------- MODULE ConsoleProofs ----------------------------
(***************************************************************************)
(* Proofs about Console: a line is what its user typed and is delivered as *)
(* it was ended, the screen shows it, and the shell's paths name what its  *)
(* user means, for lines, screens, programs and paths of every size.       *)
(***************************************************************************)
EXTENDS Console, Numbers, SequenceTheorems

(***************************************************************************)
(* Texts.                                                                  *)
(***************************************************************************)

\* One byte after the other: the readings in between exist.
IsReading(f, s, n) == f = [m \in 0 .. n |-> IF m = 0 THEN NoText ELSE Shown(f[m - 1], s[m])]

LEMMA ReadingExists ==
  ASSUME NEW s, NEW n \in Nat
  PROVE  \E f : IsReading(f, s, n)
<1> DEFINE S == {i \in Nat : \E f : IsReading(f, s, i)}
<1>1. 0 \in S
  <2> DEFINE f == [m \in 0 .. 0 |-> NoText]
  <2>1. f = [m \in 0 .. 0 |-> IF m = 0 THEN NoText ELSE Shown(f[m - 1], s[m])]
    OBVIOUS
  <2> HIDE DEF f
  <2>2. IsReading(f, s, 0)
    BY <2>1 DEF IsReading
  <2> QED
    BY <2>2
<1>2. ASSUME NEW i \in S PROVE i + 1 \in S
  <2>1. PICK f : IsReading(f, s, i)
    BY <1>2
  <2> DEFINE g == [m \in 0 .. i + 1 |-> IF m = i + 1 THEN Shown(f[i], s[m]) ELSE f[m]]
  <2>2. ASSUME NEW m \in 0 .. i + 1
        PROVE  g[m] = IF m = 0 THEN NoText ELSE Shown(g[m - 1], s[m])
    <3>1. \A j \in 0 .. i : f[j] = IF j = 0 THEN NoText ELSE Shown(f[j - 1], s[j])
      BY <2>1 DEF IsReading
    <3>2. CASE m = i + 1
      <4>1. g[m] = Shown(f[i], s[m]) /\ g[i] = f[i] /\ m - 1 = i /\ m # 0
        BY <3>2
      <4> HIDE DEF g
      <4> QED
        BY <4>1
    <3>3. CASE m # i + 1 /\ m # 0
      <4>1. g[m] = f[m] /\ g[m - 1] = f[m - 1] /\ m \in 0 .. i
        BY <3>3
      <4> HIDE DEF g
      <4> QED
        BY <3>1, <3>3, <4>1
    <3>4. CASE m = 0
      <4>1. g[m] = f[m] /\ m \in 0 .. i
        BY <3>4
      <4> HIDE DEF g
      <4> QED
        BY <3>1, <3>4, <4>1
    <3> QED
      BY <3>2, <3>3, <3>4
  <2>3. g = [m \in 0 .. i + 1 |-> g[m]]
    OBVIOUS
  <2> HIDE DEF g
  <2>4. IsReading(g, s, i + 1)
    BY <2>2, <2>3 DEF IsReading
  <2> QED
    BY <2>4
<1> HIDE DEF S
<1>3. S = Nat
  <2>1. S \in SUBSET Nat
    BY DEF S
  <2> QED
    BY <1>1, <1>2, <2>1, Induct
<1> QED
  BY <1>3 DEF S

\* A reading up to n depends on the first n bytes only.
LEMMA ReadingUnique ==
  ASSUME NEW s, NEW t, NEW n \in Nat, NEW m \in 0 .. n, \A i \in 1 .. m : s[i] = t[i],
         NEW l \in Nat, m <= l,
         NEW f, IsReading(f, s, n), NEW g, IsReading(g, t, l)
  PROVE  f[m] = g[m]
<1> DEFINE S == {i \in Nat : i <= m => f[i] = g[i]}
<1>1. /\ \A i \in 0 .. n : f[i] = IF i = 0 THEN NoText ELSE Shown(f[i - 1], s[i])
      /\ \A i \in 0 .. l : g[i] = IF i = 0 THEN NoText ELSE Shown(g[i - 1], t[i])
  BY DEF IsReading
<1>2. 0 \in S
  BY <1>1
<1>3. ASSUME NEW i \in S PROVE i + 1 \in S
  <2> SUFFICES ASSUME i + 1 <= m PROVE f[i + 1] = g[i + 1]
    OBVIOUS
  <2>1. f[i] = g[i] /\ i + 1 \in 1 .. m /\ i + 1 \in 0 .. n /\ i + 1 \in 0 .. l /\ i + 1 # 0 /\ i + 1 - 1 = i
    BY <1>3
  <2> QED
    BY <1>1, <2>1
<1> HIDE DEF S
<1>4. S = Nat
  <2>1. S \in SUBSET Nat
    BY DEF S
  <2> QED
    BY <1>2, <1>3, <2>1, Induct
<1> QED
  BY <1>4 DEF S

\* The text up to byte n is the reading up to n.
LEMMA TextRead ==
  ASSUME NEW S, NEW s \in Seq(S)
  PROVE  /\ \E f : IsReading(f, s, Len(s))
         /\ \A f : IsReading(f, s, Len(s)) => Text(s) = f[Len(s)]
<1> DEFINE n == Len(s)
           r == CHOOSE f : IsReading(f, s, n)
<1>1. n \in Nat
  OBVIOUS
<1>2. \E f : IsReading(f, s, n)
  BY <1>1, ReadingExists
<1>3. Text(s) = r[n] /\ IsReading(r, s, n)
  <2>1. Text(s) = r[n]
    BY DEF Text, IsReading
  <2> QED
    BY <1>2, <2>1
<1> HIDE DEF r, n
<1>4. ASSUME NEW f, IsReading(f, s, n) PROVE f[n] = r[n]
  <2>1. n \in 0 .. n
    BY <1>1
  <2> QED
    BY <1>1, <1>3, <1>4, <2>1, ReadingUnique
<1> QED
  BY <1>2, <1>3, <1>4 DEF n

LEMMA TextAppend ==
  ASSUME NEW S, NEW s \in Seq(S), NEW b \in S
  PROVE  Text(Append(s, b)) = Shown(Text(s), b)
<1> DEFINE t == Append(s, b)
           n == Len(s)
<1>1. /\ n \in Nat /\ t \in Seq(S) /\ Len(t) = n + 1 /\ t[n + 1] = b
      /\ \A i \in 1 .. n : t[i] = s[i]
  OBVIOUS
<1> HIDE DEF t
<1>2. PICK f : IsReading(f, t, n + 1)
  <2>1. n + 1 \in Nat
    BY <1>1
  <2> DEFINE m == n + 1
  <2> HIDE DEF m
  <2>2. \E f : IsReading(f, t, m)
    BY <2>1, ReadingExists DEF m
  <2> QED
    BY <2>2 DEF m
<1>3. PICK g : IsReading(g, s, n)
  BY <1>1, ReadingExists
<1>4. Text(t) = f[n + 1] /\ Text(s) = g[n]
  <2>1. IsReading(f, t, Len(t)) /\ IsReading(g, s, Len(s))
    BY <1>1, <1>2, <1>3
  <2>2. Text(t) = f[Len(t)] /\ Text(s) = g[Len(s)]
    BY <1>1, <2>1, TextRead
  <2> QED
    BY <1>1, <2>2
<1>5. f[n] = g[n]
  <2>1. n \in 0 .. n + 1 /\ n <= n /\ n + 1 \in Nat
    BY <1>1
  <2> HIDE DEF n
  <2> QED
    BY <1>1, <1>2, <1>3, <2>1, ReadingUnique, SMTT(30)
<1>6. f[n + 1] = Shown(f[n], t[n + 1])
  <2>1. n + 1 \in 0 .. n + 1 /\ n + 1 # 0 /\ n + 1 - 1 = n
    BY <1>1
  <2> DEFINE m == n + 1
  <2>2. f = [i \in 0 .. m |-> IF i = 0 THEN NoText ELSE Shown(f[i - 1], t[i])]
    BY <1>2 DEF IsReading
  <2> HIDE DEF m
  <2>3. m \in 0 .. m /\ m # 0
    BY <2>1 DEF m
  <2>4. f[m] = Shown(f[m - 1], t[m])
    BY <2>2, <2>3
  <2> QED
    BY <2>1, <2>4 DEF m
<1> QED
  BY <1>1, <1>4, <1>5, <1>6 DEF t

LEMMA TextEmpty == Text(<<>>) = NoText
<1>1. <<>> \in Seq(Int) /\ Len(<<>>) = 0
  OBVIOUS
<1>2. PICK f : IsReading(f, <<>>, 0)
  BY ReadingExists
<1>3. f[0] = NoText
  BY <1>2 DEF IsReading
<1> QED
  BY <1>1, <1>2, <1>3, TextRead

-----------------------------------------------------------------------------
\* The texts that a line consists of: ASCII without control characters that the
\* line editor takes, and signs of the input method, which have three bytes.
Plain(b) == b \in 1 .. 127 \ {8, 10, 13}
Lead(b) == b \in 226 .. 239
Value(b1, b2, b3) == ((b1 - 224) * 64 + b2 - 128) * 64 + b3 - 128
Key == {Cho(i) : i \in 0 .. 18} \cup {Jung(i) : i \in 0 .. 20} \cup 1 .. 127
Signs == {cp \in Nat : cp >= 8192 /\ cp <= 65535 /\ Jamo(cp) \in Seq(Key)}
IsSign(b1, b2, b3) == Lead(b1) /\ Continues(b2) /\ Continues(b3) /\ Value(b1, b2, b3) \in Signs

Placed(s, n) ==
  \/ Plain(s[n])
  \/ n + 2 <= Len(s) /\ IsSign(s[n], s[n + 1], s[n + 2])
  \/ Continues(s[n]) /\ n > 1 /\ Lead(s[n - 1])
  \/ Continues(s[n]) /\ n > 2 /\ Continues(s[n - 1]) /\ Lead(s[n - 2])
IsText(s) == s \in Seq(Int) /\ \A n \in 1 .. Len(s) : Placed(s, n)

ThreeMore(s, b1, b2, b3) == Append(Append(Append(s, b1), b2), b3)

LEMMA TextGrows ==
  ASSUME NEW s, IsText(s)
  PROVE  /\ \A b \in Int : Plain(b) => IsText(Append(s, b))
         /\ \A b1, b2, b3 \in Int : IsSign(b1, b2, b3) => IsText(ThreeMore(s, b1, b2, b3))
<1>1. s \in Seq(Int) /\ Len(s) \in Nat
  BY DEF IsText
<1>2. ASSUME NEW t \in Seq(Int), Len(t) >= Len(s), \A i \in 1 .. Len(s) : t[i] = s[i],
             NEW n \in 1 .. Len(s)
      PROVE  Placed(t, n)
  <2>1. Placed(s, n)
    BY DEF IsText
  <2>2. /\ t[n] = s[n]
        /\ n + 2 <= Len(s) => t[n + 1] = s[n + 1] /\ t[n + 2] = s[n + 2] /\ n + 2 <= Len(t)
        /\ n > 1 => t[n - 1] = s[n - 1]
        /\ n > 2 => t[n - 2] = s[n - 2] /\ t[n - 1] = s[n - 1]
    <3> DEFINE l == Len(s)
               k == Len(t)
    <3>1. /\ l \in Nat /\ k \in Nat /\ k >= l /\ n \in 1 .. l /\ n \in Int
          /\ \A i \in 1 .. l : t[i] = s[i]
      BY <1>1, <1>2
    <3> HIDE DEF l, k
    <3>2. /\ t[n] = s[n]
          /\ n + 2 <= l => t[n + 1] = s[n + 1] /\ t[n + 2] = s[n + 2] /\ n + 2 <= k
          /\ n > 1 => t[n - 1] = s[n - 1]
          /\ n > 2 => t[n - 2] = s[n - 2] /\ t[n - 1] = s[n - 1]
      BY <3>1, SMTT(30)
    <3> QED
      BY <3>2 DEF l, k
  <2>3. CASE n + 2 <= Len(s) /\ IsSign(s[n], s[n + 1], s[n + 2])
    <3>1. t[n] = s[n] /\ t[n + 1] = s[n + 1] /\ t[n + 2] = s[n + 2] /\ n + 2 <= Len(t)
      BY <2>2, <2>3
    <3>2. IsSign(t[n], t[n + 1], t[n + 2])
      BY <2>3, <3>1, Zenon
    <3> QED
      BY <3>1, <3>2, Zenon DEF Placed
  <2>4. CASE Plain(s[n])
    BY <2>2, <2>4, Zenon DEF Placed
  <2>5. CASE Continues(s[n]) /\ n > 1 /\ Lead(s[n - 1])
    BY <2>2, <2>5, Zenon DEF Placed
  <2>6. CASE Continues(s[n]) /\ n > 2 /\ Continues(s[n - 1]) /\ Lead(s[n - 2])
    BY <2>2, <2>6, Zenon DEF Placed
  <2> QED
    BY <2>1, <2>3, <2>4, <2>5, <2>6, Zenon DEF Placed
<1>3. ASSUME NEW b \in Int, Plain(b) PROVE IsText(Append(s, b))
  <2> DEFINE t == Append(s, b)
  <2>1. t \in Seq(Int) /\ Len(t) = Len(s) + 1 /\ t[Len(s) + 1] = b /\ \A i \in 1 .. Len(s) : t[i] = s[i]
    BY <1>1
  <2> HIDE DEF t
  <2>2. ASSUME NEW n \in 1 .. Len(t) PROVE Placed(t, n)
    <3>1. CASE n \in 1 .. Len(s)
      <4>1. Len(t) >= Len(s)
        BY <1>1, <2>1
      <4> QED
        BY <1>2, <2>1, <3>1, <4>1, Zenon
    <3>2. CASE n = Len(s) + 1
      BY <1>3, <2>1, <3>2 DEF Placed
    <3> QED
      BY <1>1, <2>1, <3>1, <3>2
  <2> QED
    BY <2>1, <2>2 DEF t, IsText
<1>4. ASSUME NEW b1 \in Int, NEW b2 \in Int, NEW b3 \in Int, IsSign(b1, b2, b3)
      PROVE  IsText(ThreeMore(s, b1, b2, b3))
  <2> DEFINE t == ThreeMore(s, b1, b2, b3)
             l == Len(s)
  <2>1. /\ t \in Seq(Int) /\ Len(t) = l + 3 /\ t[l + 1] = b1 /\ t[l + 2] = b2 /\ t[l + 3] = b3
        /\ \A i \in 1 .. l : t[i] = s[i]
    BY <1>1 DEF ThreeMore
  <2> HIDE DEF t
  <2>2. ASSUME NEW n \in 1 .. Len(t) PROVE Placed(t, n)
    <3>1. CASE n \in 1 .. l
      <4>1. Len(t) >= Len(s)
        BY <1>1, <2>1
      <4> QED
        BY <1>2, <2>1, <3>1, <4>1
    <3>2. CASE n \notin 1 .. l
      <4>1. l \in Nat
        BY <1>1
      <4>2. Lead(b1) /\ Continues(b2) /\ Continues(b3)
        BY <1>4 DEF IsSign
      <4> HIDE DEF l
      <4>3. n = l + 1 \/ n = l + 2 \/ n = l + 3
        BY <2>1, <3>2, <4>1
      <4>4. CASE n = l + 1
        <5>1. t[n] = b1 /\ t[n + 1] = b2 /\ t[n + 2] = b3 /\ n + 2 <= Len(t)
          BY <2>1, <4>1, <4>4
        <5>2. IsSign(t[n], t[n + 1], t[n + 2])
          BY <1>4, <5>1, Zenon
        <5> QED
          BY <5>1, <5>2, Zenon DEF Placed
      <4>5. CASE n = l + 2
        <5>1. t[n] = b2 /\ t[n - 1] = b1 /\ n > 1
          BY <2>1, <4>1, <4>5
        <5> QED
          BY <4>2, <5>1 DEF Placed
      <4>6. CASE n = l + 3
        <5>1. t[n] = b3 /\ t[n - 1] = b2 /\ t[n - 2] = b1 /\ n > 2
          BY <2>1, <4>1, <4>6
        <5> QED
          BY <4>2, <5>1 DEF Placed
      <4> QED
        BY <4>3, <4>4, <4>5, <4>6
    <3> QED
      BY <3>1, <3>2
  <2> QED
    BY <2>1, <2>2 DEF t, IsText
<1> QED
  BY <1>3, <1>4

LEMMA EmptyText == IsText(<<>>)
  BY DEF IsText

\* A text ends before every byte that begins a character.
LEMMA TextPrefix ==
  ASSUME NEW s, IsText(s), NEW m \in 0 .. Len(s), m = Len(s) \/ ~Continues(s[m + 1])
  PROVE  IsText(SubSeq(s, 1, m)) /\ Len(SubSeq(s, 1, m)) = m
<1> DEFINE r == SubSeq(s, 1, m)
           l == Len(s)
<1>1. /\ s \in Seq(Int) /\ l \in Nat /\ m \in 0 .. l
      /\ \A n \in 1 .. l : Placed(s, n)
  BY DEF IsText
<1>2. r \in Seq(Int) /\ Len(r) = m /\ \A i \in 1 .. m : r[i] = s[i]
  BY <1>1
<1>3. m = l \/ ~Continues(s[m + 1])
  OBVIOUS
<1> HIDE DEF r
<1>4. ASSUME NEW n \in 1 .. m PROVE Placed(r, n)
  <2>1. /\ n \in Int /\ n \in 1 .. l /\ r[n] = s[n]
        /\ n + 2 <= m => r[n + 1] = s[n + 1] /\ r[n + 2] = s[n + 2]
        /\ n > 1 => r[n - 1] = s[n - 1]
        /\ n > 2 => r[n - 2] = s[n - 2] /\ r[n - 1] = s[n - 1]
    <3> HIDE DEF l
    <3>1. n \in Int /\ n >= 1 /\ n <= m /\ m \in Int /\ n \in 1 .. l
      BY <1>1
    <3>2. \A i \in Int : 1 <= i /\ i <= m => r[i] = s[i]
      BY <1>2, <3>1
    <3>3. n + 2 <= m => r[n + 1] = s[n + 1] /\ r[n + 2] = s[n + 2]
      BY <3>1, <3>2
    <3>4. n > 1 => r[n - 1] = s[n - 1]
      BY <3>1, <3>2
    <3>5. n > 2 => r[n - 2] = s[n - 2] /\ r[n - 1] = s[n - 1]
      BY <3>1, <3>2
    <3> QED
      BY <3>1, <3>2, <3>3, <3>4, <3>5
  <2>2. Placed(s, n)
    BY <1>1, <2>1
  <2>3. CASE n + 2 <= l /\ IsSign(s[n], s[n + 1], s[n + 2])
    <3>1. Continues(s[n + 1]) /\ Continues(s[n + 2])
      BY <2>3 DEF IsSign
    <3>2. n + 2 <= m
      <4> SUFFICES ASSUME ~(n + 2 <= m) PROVE FALSE
        BY <1>1, <2>1
      <4>1. m = n \/ m = n + 1
        BY <1>1, <2>1
      <4>2. m # l
        BY <1>1, <2>1, <2>3
      <4>3. m + 1 = n + 1 \/ m + 1 = n + 2
        BY <4>1, <1>1, <2>1
      <4>4. ~Continues(s[m + 1])
        BY <1>3, <4>2
      <4> HIDE DEF l
      <4>5. CASE m + 1 = n + 1
        BY <3>1, <4>4, <4>5, Zenon
      <4>6. CASE m + 1 = n + 2
        BY <3>1, <4>4, <4>6, Zenon
      <4> QED
        BY <4>3, <4>5, <4>6
    <3>3. r[n] = s[n] /\ r[n + 1] = s[n + 1] /\ r[n + 2] = s[n + 2] /\ n + 2 <= Len(r)
      BY <1>2, <2>1, <3>2
    <3>4. IsSign(r[n], r[n + 1], r[n + 2])
      BY <2>3, <3>3, Zenon
    <3> QED
      BY <3>3, <3>4, Zenon DEF Placed
  <2>4. CASE Plain(s[n])
    BY <2>1, <2>4, Zenon DEF Placed
  <2>5. CASE Continues(s[n]) /\ n > 1 /\ Lead(s[n - 1])
    BY <2>1, <2>5, Zenon DEF Placed
  <2>6. CASE Continues(s[n]) /\ n > 2 /\ Continues(s[n - 1]) /\ Lead(s[n - 2])
    BY <2>1, <2>6, Zenon DEF Placed
  <2> QED
    BY <2>2, <2>3, <2>4, <2>5, <2>6, Zenon DEF Placed
<1>5. IsText(r)
  BY <1>2, <1>4 DEF IsText
<1> QED
  BY <1>2, <1>5 DEF r

\* The last character starts at the last byte that does not continue one.
IsStart(s, i) ==
  /\ i \in 1 .. Len(s)
  /\ i = 1 \/ ~Continues(s[i])
  /\ \A j \in i + 1 .. Len(s) : Continues(s[j])

LEMMA StartUnique ==
  ASSUME NEW s \in Seq(Int), NEW i, IsStart(s, i)
  PROVE  CharStart(s) = i
<1> DEFINE l == Len(s)
<1>1. l \in Nat
  OBVIOUS
<1>2. ASSUME NEW a \in 1 .. l, NEW b \in 1 .. l,
             b = 1 \/ ~Continues(s[b]), \A j \in a + 1 .. l : Continues(s[j])
      PROVE  ~(a < b)
  BY <1>1, <1>2
<1>3. ASSUME NEW j, IsStart(s, j) PROVE j = i
  <2>1. i \in 1 .. l /\ j \in 1 .. l
    BY <1>3 DEF IsStart
  <2>2. ~(i < j) /\ ~(j < i)
    BY <1>2, <1>3, <2>1 DEF IsStart
  <2> QED
    BY <1>1, <2>1, <2>2
<1>4. CharStart(s) = CHOOSE j : IsStart(s, j)
  BY DEF CharStart, IsStart
<1>5. \E j : IsStart(s, j)
  OBVIOUS
<1> QED
  BY <1>3, <1>4, <1>5

LEMMA StartExists ==
  ASSUME NEW s \in Seq(Int), s # <<>>
  PROVE  IsStart(s, CharStart(s))
<1> DEFINE l == Len(s)
           S == {d \in 0 .. l - 1 : l - d = 1 \/ ~Continues(s[l - d])}
<1>1. l \in Nat /\ l > 0
  OBVIOUS
<1>2. S \in SUBSET Nat /\ l - 1 \in S
  BY <1>1
<1>3. PICK d \in S : \A e \in S : d <= e
  <2> HIDE DEF S
  <2> QED
    BY <1>2, LeastElement
<1>4. IsStart(s, l - d)
  <2>1. d \in 0 .. l - 1 /\ (l - d = 1 \/ ~Continues(s[l - d])) /\ l - d \in 1 .. l
    BY <1>1, <1>3
  <2>2. ASSUME NEW j \in l - d + 1 .. l PROVE Continues(s[j])
    <3>1. l - j \in 0 .. l - 1 /\ l - (l - j) = j /\ ~(d <= l - j)
      BY <1>1, <2>1
    <3>2. l - j \notin S
      BY <1>3, <3>1
    <3> QED
      BY <3>1, <3>2
  <2> QED
    BY <2>1, <2>2 DEF IsStart
<1> QED
  BY <1>4, StartUnique

\* Lead bytes, bytes that continue, and plain ones are different.
LEMMA Apart ==
  ASSUME NEW b
  PROVE  /\ Plain(b) => b \in Int /\ ~Continues(b) /\ ~Lead(b)
         /\ Lead(b) => b \in Int /\ ~Continues(b) /\ ~Plain(b)
         /\ Continues(b) => b \in Int
  BY DEF Plain, Lead, Continues

LEMMA LastOne ==
  ASSUME NEW S, NEW s \in Seq(S), NEW n, n = Len(s), n > 0
  PROVE  /\ s = Append(SubSeq(s, 1, n - 1), s[n]) /\ SubSeq(s, n, n) = <<s[n]>> /\ s[n] \in S
<1> DEFINE r == SubSeq(s, 1, n - 1)
           u == SubSeq(s, n, n)
<1>1. n \in Nat /\ n \in Int /\ n - 1 \in Int /\ 1 \in Int /\ \A i \in 1 .. n : s[i] \in S
  OBVIOUS
<1>2. r \in Seq(S) /\ Len(r) = n - 1 /\ \A i \in 1 .. n - 1 : r[i] = s[i]
  <2>1. \A i \in 1 .. n - 1 : s[i] \in S
    BY <1>1
  <2> DEFINE m == n - 1
  <2>2. m \in Int /\ m - 1 + 1 = m /\ \A i \in 1 .. m : s[i] \in S /\ 1 + i - 1 = i
    BY <1>1, <2>1
  <2>3. 1 <= m \/ m = 0
    BY <1>1
  <2> HIDE DEF m
  <2>4. /\ SubSeq(s, 1, m) \in Seq(S)
        /\ Len(SubSeq(s, 1, m)) = IF 1 <= m THEN m - 1 + 1 ELSE 0
        /\ \A i \in 1 .. m - 1 + 1 : SubSeq(s, 1, m)[i] = s[1 + i - 1]
    BY <1>1, <2>2, SubSeqProperties
  <2>5. /\ SubSeq(s, 1, m) \in Seq(S) /\ Len(SubSeq(s, 1, m)) = m
        /\ \A i \in 1 .. m : SubSeq(s, 1, m)[i] = s[i]
    BY <2>2, <2>3, <2>4
  <2> QED
    BY <2>5 DEF m
<1>3. u = <<s[n]>>
  <2>1. \A i \in n .. n : s[i] \in S
    BY <1>1
  <2>2. /\ u \in Seq(S) /\ Len(u) = IF n <= n THEN n - n + 1 ELSE 0
        /\ \A i \in 1 .. n - n + 1 : u[i] = s[n + i - 1]
    BY <1>1, <2>1, SubSeqProperties
  <2>3. n - n + 1 = 1 /\ n + 1 - 1 = n
    BY <1>1
  <2>4. Len(u) = 1 /\ u[1] = s[n]
    BY <1>1, <2>2, <2>3
  <2> HIDE DEF u
  <2>5. <<s[n]>> \in Seq(S)
    BY <1>1
  <2> QED
    BY <2>2, <2>4, <2>5, SeqEqual
<1> HIDE DEF r, u
<1> DEFINE t == Append(r, s[n])
<1>4. t \in Seq(S) /\ Len(t) = n /\ t[n] = s[n] /\ \A i \in 1 .. n - 1 : t[i] = s[i]
  BY <1>1, <1>2
<1> HIDE DEF t
<1>5. \A i \in 1 .. n : t[i] = s[i]
  BY <1>1, <1>4
<1>6. t = s
  BY <1>4, <1>5, SeqEqual
<1> QED
  BY <1>1, <1>3, <1>6 DEF r, u, t

LEMMA LastThree ==
  ASSUME NEW S, NEW s \in Seq(S), NEW n, n = Len(s), n > 2
  PROVE  /\ s = ThreeMore(SubSeq(s, 1, n - 3), s[n - 2], s[n - 1], s[n])
         /\ SubSeq(s, n - 2, n) = <<s[n - 2], s[n - 1], s[n]>>
         /\ s[n - 2] \in S /\ s[n - 1] \in S /\ s[n] \in S
<1> DEFINE b1 == s[n - 2]
           b2 == s[n - 1]
           b3 == s[n]
<1>1. n \in Nat /\ n \in Int /\ \A i \in 1 .. n : s[i] \in S
  OBVIOUS
<1>2. b1 \in S /\ b2 \in S /\ b3 \in S
  <2>1. n - 2 \in 1 .. n /\ n - 1 \in 1 .. n /\ n \in 1 .. n
    BY <1>1
  <2> QED
    BY <1>1, <2>1
<1>3. /\ SubSeq(s, 1, n - 3) \in Seq(S) /\ Len(SubSeq(s, 1, n - 3)) = n - 3
      /\ \A i \in 1 .. n - 3 : SubSeq(s, 1, n - 3)[i] = s[i]
  <2> DEFINE m == n - 3
  <2>1. /\ m \in Int /\ m - 1 + 1 = m /\ 1 \in Int /\ (1 <= m \/ m = 0)
        /\ \A i \in 1 .. m : s[i] \in S /\ 1 + i - 1 = i
    BY <1>1
  <2> HIDE DEF m
  <2>2. /\ SubSeq(s, 1, m) \in Seq(S)
        /\ Len(SubSeq(s, 1, m)) = IF 1 <= m THEN m - 1 + 1 ELSE 0
        /\ \A i \in 1 .. m - 1 + 1 : SubSeq(s, 1, m)[i] = s[1 + i - 1]
    BY <2>1, SubSeqProperties
  <2>3. /\ SubSeq(s, 1, m) \in Seq(S) /\ Len(SubSeq(s, 1, m)) = m
        /\ \A i \in 1 .. m : SubSeq(s, 1, m)[i] = s[i]
    BY <2>1, <2>2
  <2> QED
    BY <2>3 DEF m
<1>4. SubSeq(s, n - 2, n) = <<b1, b2, b3>>
  <2> DEFINE m == n - 2
             u == SubSeq(s, m, n)
             v == <<b1, b2, b3>>
  <2>1. /\ m \in Int /\ m <= n /\ n - m + 1 = 3 /\ m + 1 - 1 = n - 2 /\ m + 2 - 1 = n - 1 /\ m + 3 - 1 = n
        /\ \A i \in m .. n : s[i] \in S
    BY <1>1
  <2>2. v \in Seq(S) /\ Len(v) = 3 /\ v[1] = b1 /\ v[2] = b2 /\ v[3] = b3
    <3> HIDE DEF b1, b2, b3
    <3> QED
      BY <1>2
  <2> HIDE DEF m, b1, b2, b3, v
  <2>3. /\ u \in Seq(S) /\ Len(u) = IF m <= n THEN n - m + 1 ELSE 0
        /\ \A i \in 1 .. n - m + 1 : u[i] = s[m + i - 1]
    BY <1>1, <2>1, SubSeqProperties
  <2> HIDE DEF u
  <2>4. Len(u) = 3 /\ \A i \in 1 .. 3 : u[i] = s[m + i - 1]
    BY <2>1, <2>3
  <2>5. u[1] = s[m + 1 - 1] /\ u[2] = s[m + 2 - 1] /\ u[3] = s[m + 3 - 1]
    BY <2>4
  <2>6. u[1] = b1 /\ u[2] = b2 /\ u[3] = b3
    BY <2>1, <2>5 DEF b1, b2, b3
  <2>7. \A i \in 1 .. 3 : u[i] = v[i]
    <3> SUFFICES ASSUME NEW i \in 1 .. 3 PROVE u[i] = v[i]
      OBVIOUS
    <3>1. i = 1 \/ i = 2 \/ i = 3
      OBVIOUS
    <3> QED
      BY <2>2, <2>6, <3>1
  <2>8. Len(u) = Len(v) /\ \A i \in 1 .. Len(u) : u[i] = v[i]
    BY <2>2, <2>4, <2>7
  <2>9. u = v
    BY <2>2, <2>3, <2>8, SeqEqual
  <2> QED
    BY <2>9 DEF u, v, m, b1, b2, b3
<1>5. s = ThreeMore(SubSeq(s, 1, n - 3), b1, b2, b3)
  <2> DEFINE r == SubSeq(s, 1, n - 3)
             t == ThreeMore(r, b1, b2, b3)
  <2> HIDE DEF r, b1, b2, b3
  <2>1. /\ t \in Seq(S) /\ Len(t) = n /\ \A i \in 1 .. n - 3 : t[i] = r[i]
        /\ t[n - 2] = b1 /\ t[n - 1] = b2 /\ t[n] = b3
    BY <1>1, <1>2, <1>3 DEF ThreeMore, r
  <2> HIDE DEF t
  <2>2. ASSUME NEW i \in 1 .. n PROVE t[i] = s[i]
    <3>1. i \in 1 .. n - 3 \/ i = n - 2 \/ i = n - 1 \/ i = n
      BY <1>1
    <3>2. CASE i \in 1 .. n - 3
      BY <1>3, <2>1, <3>2 DEF r
    <3>3. CASE i = n - 2 \/ i = n - 1 \/ i = n
      BY <2>1, <3>3 DEF b1, b2, b3
    <3> QED
      BY <3>1, <3>2, <3>3
  <2>3. t = s
    BY <1>1, <2>1, <2>2, SeqEqual
  <2> QED
    BY <2>3 DEF t, r
<1> QED
  BY <1>2, <1>4, <1>5

\* A text without its last character is a text.
LEMMA LastChar ==
  ASSUME NEW s, IsText(s), s # <<>>
  PROVE  /\ IsText(Shorter(s)) /\ Len(Shorter(s)) < Len(s)
         /\ \/ \E b \in Int : /\ Plain(b) /\ s = Append(Shorter(s), b)
                              /\ SubSeq(s, CharStart(s), Len(s)) = <<b>> /\ s[CharStart(s)] = b
            \/ \E b1, b2, b3 \in Int : /\ IsSign(b1, b2, b3) /\ s = ThreeMore(Shorter(s), b1, b2, b3)
                                       /\ SubSeq(s, CharStart(s), Len(s)) = <<b1, b2, b3>> /\ s[CharStart(s)] = b1
<1> DEFINE n == Len(s)
<1>1. s \in Seq(Int) /\ n \in Nat /\ n > 0 /\ n \in 1 .. n
  BY DEF IsText
<1>2. /\ Placed(s, n)
      /\ n > 1 => Placed(s, n - 1)
      /\ n > 2 => Placed(s, n - 2)
  BY <1>1 DEF IsText
<1>3. ASSUME NEW i, IsStart(s, i), ~Continues(s[i])
      PROVE  /\ CharStart(s) = i /\ IsText(Shorter(s)) /\ Shorter(s) = SubSeq(s, 1, i - 1)
             /\ Len(Shorter(s)) = i - 1 /\ i \in 1 .. n
  <2>1. CharStart(s) = i /\ i \in 1 .. n
    BY <1>1, <1>3, StartUnique DEF IsStart
  <2>2. i - 1 \in 0 .. n /\ i - 1 + 1 = i
    BY <1>1, <2>1
  <2> DEFINE m == i - 1
  <2> HIDE DEF m, n
  <2>3. m \in 0 .. Len(s) /\ ~Continues(s[m + 1])
    BY <1>3, <2>2 DEF m, n
  <2>4. IsText(SubSeq(s, 1, m)) /\ Len(SubSeq(s, 1, m)) = m
    BY <2>3, TextPrefix
  <2> QED
    BY <2>1, <2>4 DEF m, Shorter
<1>4. CASE Plain(s[n])
  <2>1. ~Continues(s[n])
    BY <1>4, Apart
  <2>2. IsStart(s, n)
    BY <1>1, <2>1 DEF IsStart
  <2>3. CharStart(s) = n /\ IsText(Shorter(s)) /\ Shorter(s) = SubSeq(s, 1, n - 1) /\ Len(Shorter(s)) = n - 1
    BY <1>3, <2>1, <2>2
  <2>4. s = Append(SubSeq(s, 1, n - 1), s[n]) /\ SubSeq(s, n, n) = <<s[n]>> /\ s[n] \in Int
    BY <1>1, LastOne, SMTT(30)
  <2>5. \E b \in Int : /\ Plain(b) /\ s = Append(Shorter(s), b)
                       /\ SubSeq(s, CharStart(s), Len(s)) = <<b>> /\ s[CharStart(s)] = b
    BY <1>4, <2>3, <2>4, Zenon
  <2> QED
    BY <1>1, <2>3, <2>5
<1>5. CASE n > 2 /\ IsSign(s[n - 2], s[n - 1], s[n])
  <2> DEFINE b1 == s[n - 2]
             b2 == s[n - 1]
             b3 == s[n]
             r == SubSeq(s, 1, n - 3)
  <2>1. Lead(b1) /\ Continues(b2) /\ Continues(b3)
    BY <1>5 DEF IsSign
  <2>2. ~Continues(b1)
    BY <2>1, Apart
  <2>3. IsStart(s, n - 2)
    <3>1. n - 2 \in 1 .. n
      BY <1>1, <1>5
    <3>2. ASSUME NEW j \in n - 2 + 1 .. n PROVE Continues(s[j])
      <4>1. j = n - 1 \/ j = n
        BY <1>1, <1>5
      <4> QED
        BY <2>1, <4>1
    <3> QED
      BY <2>2, <3>1, <3>2 DEF IsStart
  <2>4. /\ CharStart(s) = n - 2 /\ IsText(Shorter(s)) /\ Shorter(s) = SubSeq(s, 1, n - 2 - 1)
        /\ Len(Shorter(s)) = n - 2 - 1
    BY <1>3, <2>2, <2>3
  <2>5. n - 2 - 1 = n - 3 /\ n - 3 < n
    BY <1>1
  <2>6. /\ s = ThreeMore(r, b1, b2, b3) /\ SubSeq(s, n - 2, n) = <<b1, b2, b3>>
        /\ b1 \in Int /\ b2 \in Int /\ b3 \in Int
    BY <1>1, <1>5, LastThree
  <2> HIDE DEF n, b1, b2, b3, r
  <2>7. /\ Shorter(s) = r /\ s[CharStart(s)] = b1
        /\ SubSeq(s, CharStart(s), Len(s)) = <<b1, b2, b3>>
    BY <2>4, <2>5, <2>6 DEF r, b1, n
  <2>8. IsSign(b1, b2, b3)
    BY <1>5, Zenon DEF b1, b2, b3
  <2>9. \E c1, c2, c3 \in Int : /\ IsSign(c1, c2, c3) /\ s = ThreeMore(Shorter(s), c1, c2, c3)
                                /\ SubSeq(s, CharStart(s), Len(s)) = <<c1, c2, c3>> /\ s[CharStart(s)] = c1
    <3>1. s = ThreeMore(Shorter(s), b1, b2, b3)
      BY <2>6, <2>7, Zenon
    <3> QED
      BY <2>6, <2>7, <2>8, <3>1, Zenon
  <2> QED
    BY <2>4, <2>5, <2>9 DEF n
<1>6. Plain(s[n]) \/ (n > 2 /\ IsSign(s[n - 2], s[n - 1], s[n]))
  <2> SUFFICES ASSUME ~Plain(s[n]) PROVE n > 2 /\ IsSign(s[n - 2], s[n - 1], s[n])
    OBVIOUS
  <2>1. ASSUME n > 1, Lead(s[n - 1]) PROVE FALSE
    <3>1. ~Plain(s[n - 1]) /\ ~Continues(s[n - 1])
      BY <2>1, Apart
    <3>2. ~(n - 1 + 2 <= n)
      BY <1>1
    <3>3. Placed(s, n - 1)
      BY <1>2, <2>1
    <3> QED
      BY <3>1, <3>2, <3>3 DEF Placed
  <2>2. ~(n + 2 <= n)
    BY <1>1
  <2>3. Continues(s[n]) /\ n > 2 /\ Continues(s[n - 1]) /\ Lead(s[n - 2])
    BY <1>2, <2>1, <2>2 DEF Placed
  <2>4. ~Plain(s[n - 2]) /\ ~Continues(s[n - 2]) /\ Placed(s, n - 2)
    BY <1>2, <2>3, Apart
  <2>5. IsSign(s[n - 2], s[n - 2 + 1], s[n - 2 + 2])
    BY <2>4, Zenon DEF Placed
  <2>6. n - 2 + 1 = n - 1 /\ n - 2 + 2 = n
    BY <1>1
  <2> HIDE DEF n
  <2>7. IsSign(s[n - 2], s[n - 1], s[n])
    BY <2>5, <2>6, Zenon
  <2> QED
    BY <2>3, <2>7
<1> QED
  BY <1>4, <1>5, <1>6

\* Texts grow character by character.
LEMMA TextInduction ==
  ASSUME NEW P, <<>> \in P,
         ASSUME NEW s \in P, NEW b \in Int, IsText(s), Plain(b) PROVE Append(s, b) \in P,
         ASSUME NEW s \in P, NEW b1 \in Int, NEW b2 \in Int, NEW b3 \in Int, IsText(s), IsSign(b1, b2, b3)
         PROVE  ThreeMore(s, b1, b2, b3) \in P
  PROVE  \A s : IsText(s) => s \in P
<1> DEFINE S == {n \in Nat : \A s : IsText(s) /\ Len(s) <= n => s \in P}
<1>1. 0 \in S
  <2>1. ASSUME NEW s, IsText(s), Len(s) <= 0 PROVE s = <<>>
    BY <2>1 DEF IsText
  <2> QED
    BY <2>1
<1>2. ASSUME NEW n \in S PROVE n + 1 \in S
  <2>1. ASSUME NEW s, IsText(s), Len(s) <= n + 1 PROVE s \in P
    <3>1. CASE s = <<>>
      BY <3>1
    <3>2. CASE s # <<>>
      <4> DEFINE r == Shorter(s)
      <4>1. IsText(r) /\ Len(r) < Len(s)
        BY <2>1, <3>2, LastChar
      <4>2. Len(r) \in Nat /\ Len(s) \in Nat
        BY <2>1, <4>1 DEF IsText
      <4>3. r \in P
        BY <1>2, <2>1, <4>1, <4>2
      <4>4. \/ \E b \in Int : Plain(b) /\ s = Append(r, b)
            \/ \E b1, b2, b3 \in Int : IsSign(b1, b2, b3) /\ s = ThreeMore(r, b1, b2, b3)
        BY <2>1, <3>2, LastChar
      <4> HIDE DEF r
      <4>5. CASE \E b \in Int : Plain(b) /\ s = Append(r, b)
        BY <4>1, <4>3, <4>5
      <4>6. CASE \E b1, b2, b3 \in Int : IsSign(b1, b2, b3) /\ s = ThreeMore(r, b1, b2, b3)
        BY <4>1, <4>3, <4>6
      <4> QED
        BY <4>4, <4>5, <4>6
    <3> QED
      BY <3>1, <3>2
  <2> QED
    BY <1>2, <2>1
<1>3. S = Nat
  <2> HIDE DEF S
  <2>1. S \in SUBSET Nat
    BY DEF S
  <2> QED
    BY <1>1, <1>2, <2>1, Induct
<1>4. ASSUME NEW s, IsText(s) PROVE s \in P
  <2>1. Len(s) \in Nat
    BY <1>4 DEF IsText
  <2>2. Len(s) \in S /\ Len(s) <= Len(s)
    BY <1>3, <2>1
  <2> QED
    BY <1>4, <2>2
<1> QED
  BY <1>4

-----------------------------------------------------------------------------
\* What a text stands for after one more character.
Said(a, cp) ==
  [d |-> [st |-> 0, cp |-> cp], chars |-> Append(a.chars, cp), cols |-> Append(a.cols, a.width),
   keys |-> a.keys \o Jamo(cp), width |-> a.width + (IF Wide(cp) THEN 2 ELSE 1)]
Readings == [d : [st : {0}, cp : Int], chars : Seq(Int), cols : Seq(Nat), keys : Seq(Key), width : Nat]

LEMMA SaidKeys ==
  ASSUME NEW a, NEW cp
  PROVE  Said(a, cp).keys = a.keys \o Jamo(cp)
  BY DEF Said

LEMMA JamoPlain ==
  ASSUME NEW b \in 1 .. 127
  PROVE  Jamo(b) = <<b>>
<1>1. ~(b >= 44032) /\ b \notin 12593 .. 12611 /\ b \notin 12641 .. 12661
  OBVIOUS
<1> QED
  BY <1>1 DEF Jamo

LEMMA ShownPlain ==
  ASSUME NEW a \in Readings, NEW b, Plain(b)
  PROVE  Shown(a, b) = Said(a, b) /\ Said(a, b) \in Readings /\ Jamo(b) = <<b>> /\ ~Wide(b)
<1>1. b \in Int /\ b < 128 /\ b > 0 /\ a.d.st = 0
  BY DEF Plain, Readings
<1>2. Decode(a.d, b) = [st |-> 0, cp |-> b]
  BY <1>1 DEF Decode
<1>3. Shown(a, b) = Said(a, b)
  BY <1>2 DEF Shown, Said
<1>4. Jamo(b) = <<b>> /\ ~Wide(b)
  <2>1. b \in 1 .. 127
    BY <1>1
  <2> QED
    BY <2>1, JamoPlain DEF Wide
<1>5. b \in Key
  BY <1>1 DEF Key
<1>6. a.keys \in Seq(Key) /\ <<b>> \in Seq(Key)
  BY <1>5 DEF Readings
<1>7. a.keys \o Jamo(b) \in Seq(Key)
  BY <1>4, <1>6, ConcatProperties
<1>8. Append(a.chars, b) \in Seq(Int) /\ Append(a.cols, a.width) \in Seq(Nat) /\ a.width + 1 \in Nat
  BY <1>1 DEF Readings
<1>9. Said(a, b) \in Readings
  BY <1>1, <1>4, <1>7, <1>8 DEF Said, Readings
<1> QED
  BY <1>3, <1>4, <1>9

LEMMA DecodeSign ==
  ASSUME NEW d, d.st = 0, NEW b1 \in Int, NEW b2 \in Int, NEW b3 \in Int, Lead(b1), Continues(b2), Continues(b3)
  PROVE  /\ Decode(d, b1) = [st |-> 2, cp |-> b1 - 224]
         /\ Decode([st |-> 2, cp |-> b1 - 224], b2) = [st |-> 1, cp |-> (b1 - 224) * 64 + b2 - 128]
         /\ Decode([st |-> 1, cp |-> (b1 - 224) * 64 + b2 - 128], b3) = [st |-> 0, cp |-> Value(b1, b2, b3)]
<1>1. Decode(d, b1) = [st |-> 2, cp |-> b1 - 224]
  <2>1. ~(b1 < 128) /\ b1 \notin 192 .. 223 /\ b1 \in 224 .. 239
    BY DEF Lead
  <2> QED
    BY <2>1 DEF Decode
<1>2. ASSUME NEW e \in Int
      PROVE  Decode([st |-> 2, cp |-> e], b2) = [st |-> 1, cp |-> e * 64 + b2 - 128]
  BY DEF Decode
<1>3. ASSUME NEW e \in Int
      PROVE  Decode([st |-> 1, cp |-> e], b3) = [st |-> 0, cp |-> e * 64 + b3 - 128]
  BY DEF Decode
<1>4. b1 - 224 \in Int /\ (b1 - 224) * 64 + b2 - 128 \in Int
  OBVIOUS
<1>5. Decode([st |-> 2, cp |-> b1 - 224], b2) = [st |-> 1, cp |-> (b1 - 224) * 64 + b2 - 128]
  BY <1>2, <1>4
<1>6. Decode([st |-> 1, cp |-> (b1 - 224) * 64 + b2 - 128], b3) = [st |-> 0, cp |-> Value(b1, b2, b3)]
  BY <1>3, <1>4 DEF Value
<1> QED
  BY <1>1, <1>5, <1>6

LEMMA ShownSign ==
  ASSUME NEW a \in Readings, NEW b1 \in Int, NEW b2 \in Int, NEW b3 \in Int, IsSign(b1, b2, b3)
  PROVE  /\ Shown(Shown(Shown(a, b1), b2), b3) = Said(a, Value(b1, b2, b3))
         /\ Said(a, Value(b1, b2, b3)) \in Readings
<1> DEFINE cp == Value(b1, b2, b3)
           d1 == [st |-> 2, cp |-> b1 - 224]
           d2 == [st |-> 1, cp |-> (b1 - 224) * 64 + b2 - 128]
           d3 == [st |-> 0, cp |-> cp]
           a1 == [a EXCEPT !.d = d1]
           a2 == [a EXCEPT !.d = d2]
<1>1. Lead(b1) /\ Continues(b2) /\ Continues(b3) /\ cp \in Signs
  BY DEF IsSign
<1>2. a.d.st = 0
  BY DEF Readings
<1>3. Decode(a.d, b1) = d1 /\ Decode(d1, b2) = d2 /\ Decode(d2, b3) = d3
  BY <1>1, <1>2, DecodeSign
<1>4. d1.st = 2 /\ d2.st = 1 /\ d3.st = 0 /\ d3.cp = cp
  OBVIOUS
<1> HIDE DEF d1, d2, d3, cp
<1>5. /\ a1.d = d1 /\ [a1 EXCEPT !.d = d2] = a2
      /\ a2.d = d2 /\ a2.chars = a.chars /\ a2.cols = a.cols /\ a2.keys = a.keys /\ a2.width = a.width
  BY DEF Readings
<1> HIDE DEF a1, a2
<1>6. Shown(a, b1) = a1
  BY <1>3, <1>4 DEF Shown, a1
<1>7. Shown(a1, b2) = a2
  <2>1. Decode(a1.d, b2) = d2 /\ d2.st > 0
    BY <1>3, <1>4, <1>5
  <2> DEFINE d == Decode(a1.d, b2)
  <2>2. d = d2
    BY <2>1
  <2> HIDE DEF d
  <2>3. Shown(a1, b2) = [a1 EXCEPT !.d = d2]
    BY <2>1, <2>2 DEF Shown, d
  <2> QED
    BY <1>5, <2>3
<1>8. Shown(a2, b3) = Said(a, cp)
  <2>1. d3 = [st |-> 0, cp |-> cp]
    BY DEF d3
  <2>2. Decode(a2.d, b3) = d3 /\ ~(d3.st > 0)
    BY <1>3, <1>4, <1>5
  <2> QED
    BY <1>4, <1>5, <2>1, <2>2 DEF Shown, Said
<1>9. Said(a, cp) \in Readings
  <2>1. cp \in Int /\ Jamo(cp) \in Seq(Key)
    BY <1>1 DEF Signs
  <2>2. a.keys \o Jamo(cp) \in Seq(Key)
    BY <2>1, ConcatProperties DEF Readings
  <2>3. Append(a.chars, cp) \in Seq(Int) /\ Append(a.cols, a.width) \in Seq(Nat)
        /\ a.width + (IF Wide(cp) THEN 2 ELSE 1) \in Nat
    BY <2>1 DEF Readings
  <2> QED
    BY <2>1, <2>2, <2>3 DEF Said, Readings
<1> QED
  BY <1>6, <1>7, <1>8, <1>9 DEF cp

LEMMA TextSound ==
  ASSUME NEW s, IsText(s)
  PROVE  /\ Text(s) \in Readings
         /\ \A b \in Int : Plain(b) => Text(Append(s, b)) = Said(Text(s), b)
         /\ \A b1, b2, b3 \in Int :
              IsSign(b1, b2, b3) => Text(ThreeMore(s, b1, b2, b3)) = Said(Text(s), Value(b1, b2, b3))
<1> DEFINE P == {t \in Seq(Int) : Text(t) \in Readings}
<1>1. ASSUME NEW t \in P, NEW b \in Int, Plain(b)
      PROVE  Append(t, b) \in P /\ Text(Append(t, b)) = Said(Text(t), b)
  <2>1. Text(Append(t, b)) = Shown(Text(t), b) /\ Append(t, b) \in Seq(Int)
    BY TextAppend
  <2>2. Shown(Text(t), b) = Said(Text(t), b) /\ Said(Text(t), b) \in Readings
    BY <1>1, ShownPlain
  <2> QED
    BY <2>1, <2>2
<1>2. ASSUME NEW t \in P, NEW b1 \in Int, NEW b2 \in Int, NEW b3 \in Int, IsSign(b1, b2, b3)
      PROVE  ThreeMore(t, b1, b2, b3) \in P /\ Text(ThreeMore(t, b1, b2, b3)) = Said(Text(t), Value(b1, b2, b3))
  <2> DEFINE t1 == Append(t, b1)
             t2 == Append(t1, b2)
  <2>1. t1 \in Seq(Int) /\ t2 \in Seq(Int) /\ Append(t2, b3) \in Seq(Int)
    OBVIOUS
  <2>2. Text(t1) = Shown(Text(t), b1)
    BY TextAppend
  <2> HIDE DEF t1
  <2>3. Text(t2) = Shown(Text(t1), b2)
    BY <2>1, TextAppend
  <2> HIDE DEF t2
  <2>4. Text(Append(t2, b3)) = Shown(Text(t2), b3)
    BY <2>1, TextAppend
  <2>5. /\ Shown(Shown(Shown(Text(t), b1), b2), b3) = Said(Text(t), Value(b1, b2, b3))
        /\ Said(Text(t), Value(b1, b2, b3)) \in Readings
    BY <1>2, ShownSign
  <2>6. ThreeMore(t, b1, b2, b3) = Append(t2, b3)
    BY DEF ThreeMore, t1, t2
  <2> QED
    BY <2>1, <2>2, <2>3, <2>4, <2>5, <2>6
<1>3. <<>> \in P
  <2>1. NoText \in Readings
    BY DEF NoText, Rest, Readings
  <2> QED
    BY <2>1, TextEmpty
<1> HIDE DEF P
<1>4. s \in P
  BY <1>1, <1>2, <1>3, TextInduction
<1> QED
  BY <1>1, <1>2, <1>4 DEF P

-----------------------------------------------------------------------------
\* The bytes of a sign, and what their decoder makes of them.

LEMMA ValueOf ==
  ASSUME NEW p \in Int, NEW u \in Int, NEW r \in Int
  PROVE  Value(224 + p, 128 + u, 128 + r) = (p * 64 + u) * 64 + r
  BY DEF Value

LEMMA BytesSound ==
  ASSUME NEW cp \in Signs
  PROVE  \E b1, b2, b3 \in Int : unicode_to_utf8(cp) = <<b1, b2, b3>> /\ IsSign(b1, b2, b3) /\ Value(b1, b2, b3) = cp
<1> DEFINE q == cp \div 64
           r == cp % 64
           p == q \div 64
           u == q % 64
<1>1. cp >= 8192 /\ cp <= 65535 /\ cp \in Nat /\ 64 \in Nat \ {0} /\ 4096 \in Nat \ {0}
  BY DEF Signs
<1>2. q \in Nat /\ r \in 0 .. 63 /\ cp = 64 * q + r
  <2> DEFINE k == 64
  <2>1. k \in Nat \ {0} /\ k - 1 = 63 /\ cp \in Nat
    BY <1>1
  <2> HIDE DEF k
  <2>2. cp \div k \in Nat /\ cp % k \in 0 .. k - 1 /\ cp = k * (cp \div k) + (cp % k)
    BY <2>1, DivisionWithRest
  <2> QED
    BY <2>1, <2>2 DEF k
<1>3. p \in Nat /\ u \in 0 .. 63 /\ q = 64 * p + u
  <2> DEFINE k == 64
  <2>1. k \in Nat \ {0} /\ k - 1 = 63 /\ q \in Nat
    BY <1>2
  <2> HIDE DEF k, q
  <2>2. q \div k \in Nat /\ q % k \in 0 .. k - 1 /\ q = k * (q \div k) + (q % k)
    BY <2>1, DivisionWithRest
  <2> QED
    BY <2>1, <2>2 DEF k
<1>4. cp \div 4096 = p
  <2> HIDE DEF p, q, r, u
  <2> DEFINE rest == 64 * u + r
             k == 4096
  <2>1. rest \in 0 .. k - 1 /\ cp = k * p + rest /\ k \in Nat \ {0}
    BY <1>2, <1>3
  <2> HIDE DEF rest, k
  <2>2. (k * p + rest) \div k = p
    BY <1>3, <2>1, RestUnique
  <2> QED
    BY <2>1, <2>2 DEF k
<1>5. unicode_to_utf8(cp) = <<224 + p, 128 + u, 128 + r>>
  <2>1. ~(cp < 128) /\ cp \notin 128 .. 2047
    BY <1>1
  <2> QED
    BY <1>4, <2>1 DEF unicode_to_utf8
<1> HIDE DEF p, q, r, u
<1>11. /\ p \in Int /\ u \in Int /\ r \in Int /\ u >= 0 /\ u <= 63 /\ r >= 0 /\ r <= 63
       /\ cp = (p * 64 + u) * 64 + r /\ 8192 <= cp /\ cp <= 65535
  <2>1. p \in Int /\ u \in Int /\ r \in Int /\ u >= 0 /\ u <= 63 /\ r >= 0 /\ r <= 63
    BY <1>2, <1>3
  <2>2. cp \in Int /\ 8192 <= cp /\ cp <= 65535
    BY <1>1
  <2>3. cp = (p * 64 + u) * 64 + r
    BY <1>2, <1>3, <2>1, <2>2
  <2> QED
    BY <2>1, <2>2, <2>3
<1>6. Lead(224 + p) /\ Continues(128 + u) /\ Continues(128 + r)
  <2>1. p >= 2 /\ p <= 15
    BY <1>11
  <2> QED
    BY <1>2, <1>3, <2>1 DEF Lead, Continues
<1>7. Value(224 + p, 128 + u, 128 + r) = cp
  <2>1. Value(224 + p, 128 + u, 128 + r) = (p * 64 + u) * 64 + r
    BY <1>11, ValueOf
  <2> QED
    BY <1>11, <2>1
<1>8. IsSign(224 + p, 128 + u, 128 + r)
  BY <1>6, <1>7 DEF IsSign
<1>9. 224 + p \in Int /\ 128 + u \in Int /\ 128 + r \in Int
  BY <1>2, <1>3
<1> DEFINE b1 == 224 + p
           b2 == 128 + u
           b3 == 128 + r
<1> HIDE DEF b1, b2, b3
<1>10. b1 \in Int /\ b2 \in Int /\ b3 \in Int /\ unicode_to_utf8(cp) = <<b1, b2, b3>> /\ IsSign(b1, b2, b3)
       /\ Value(b1, b2, b3) = cp
  BY <1>5, <1>7, <1>8, <1>9 DEF b1, b2, b3
<1> QED
  BY <1>10

-----------------------------------------------------------------------------
\* The input method: the syllables that may be open, and what they stand for.
Finals == {f \in 1 .. 27 : \E i \in 0 .. 18 : cho_to_jong[i + 1] = f}
Compositions ==
  {m \in [cho : -1 .. 18, jung : -1 .. 20, jong : {-1} \cup Finals] : m.jong >= 0 => m.cho >= 0 /\ m.jung >= 0}

\* No two consonants have the same final.
LEMMA FinalsSound ==
  /\ \A i \in 0 .. 18 : cho_to_jong[i + 1] = -1 \/ cho_to_jong[i + 1] \in Finals
  /\ \A i \in 0 .. 18 : cho_to_jong[i + 1] # -1 => jong_to_cho(cho_to_jong[i + 1]) = i
  /\ \A f \in Finals : jong_to_cho(f) \in 0 .. 18
<1> DEFINE t == cho_to_jong
<1>1. /\ t[1] = 1 /\ t[2] = 2 /\ t[3] = 4 /\ t[4] = 7 /\ t[5] = -1 /\ t[6] = 8 /\ t[7] = 16 /\ t[8] = 17
      /\ t[9] = -1 /\ t[10] = 19 /\ t[11] = 20 /\ t[12] = 21 /\ t[13] = 22 /\ t[14] = -1 /\ t[15] = 23
      /\ t[16] = 24 /\ t[17] = 25 /\ t[18] = 26 /\ t[19] = 27
  BY DEF cho_to_jong
<1> HIDE DEF t
<1>2. ASSUME NEW c \in 1 .. 19
      PROVE  /\ t[c] \in -1 .. 27 /\ t[c] # 0
             /\ \A e \in 1 .. 19 : t[c] = t[e] /\ t[c] # -1 => c = e
  <2>1. ASSUME NEW e \in 1 .. 19, t[c] = t[e], t[c] # -1 PROVE c = e
    BY <1>1, <2>1
  <2>2. t[c] \in -1 .. 27 /\ t[c] # 0
    BY <1>1
  <2> QED
    BY <2>1, <2>2
<1>3. ASSUME NEW i \in 0 .. 18, t[i + 1] # -1
      PROVE  t[i + 1] \in Finals /\ jong_to_cho(t[i + 1]) = i
  <2> DEFINE c == i + 1
             f == t[c]
  <2>1. c \in 1 .. 19 /\ c - 1 = i
    OBVIOUS
  <2> HIDE DEF c
  <2>2. f \in 1 .. 27 /\ \A e \in 1 .. 19 : t[e] = f => e = c
    BY <1>2, <1>3, <2>1 DEF c
  <2>3. (CHOOSE e \in 1 .. 19 : t[e] = f) = c
    BY <2>1, <2>2
  <2>4. jong_to_cho(f) = i
    BY <2>1, <2>3 DEF jong_to_cho, t
  <2>5. f \in Finals
    BY <2>2 DEF Finals, c, t
  <2> QED
    BY <2>4, <2>5 DEF c
<1>4. ASSUME NEW f \in Finals PROVE jong_to_cho(f) \in 0 .. 18
  <2>1. PICK i \in 0 .. 18 : t[i + 1] = f
    BY DEF Finals, t
  <2>2. f # -1
    BY DEF Finals
  <2> QED
    BY <1>3, <2>1, <2>2
<1> QED
  BY <1>3, <1>4 DEF t

LEMMA JamoHigh ==
  ASSUME NEW cp \in Int, cp >= 44032,
         NEW c, NEW j, NEW f,
         (cp - 44032) % 28 = f, (cp - 44032) \div 588 = c, ((cp - 44032) \div 28) % 21 = j
  PROVE  Jamo(cp) = Syllable(c, j, f)
  BY DEF Jamo

LEMMA JoinThree ==
  ASSUME NEW S, NEW x \in S, NEW y \in S, NEW z \in S
  PROVE  <<x, y>> \o <<z>> = <<x, y, z>>
<1> DEFINE a == <<x, y>>
           b == <<z>>
           c == <<x, y, z>>
<1>1. /\ a \in Seq(S) /\ Len(a) = 2 /\ a[1] = x /\ a[2] = y
      /\ b \in Seq(S) /\ Len(b) = 1 /\ b[1] = z
      /\ c \in Seq(S) /\ Len(c) = 3 /\ c[1] = x /\ c[2] = y /\ c[3] = z
  OBVIOUS
<1> HIDE DEF a, b, c
<1> DEFINE d == a \o b
<1>2. /\ d \in Seq(S) /\ Len(d) = Len(a) + Len(b)
      /\ \A i \in 1 .. Len(a) + Len(b) : d[i] = IF i <= Len(a) THEN a[i] ELSE b[i - Len(a)]
  <2>1. a \in Seq(S) /\ b \in Seq(S)
    BY <1>1
  <2> QED
    BY <2>1, ConcatProperties, Zenon
<1> HIDE DEF d
<1>3. ASSUME NEW i \in 1 .. 3 PROVE d[i] = c[i]
  BY <1>1, <1>2
<1>4. d = c
  BY <1>1, <1>2, <1>3, SeqEqual
<1> QED
  BY <1>4 DEF a, b, c, d

LEMMA JamoSyllable ==
  ASSUME NEW c \in 0 .. 18, NEW j \in 0 .. 20, NEW f \in 0 .. 27
  PROVE  \A cp \in Int : cp = 44032 + (c * 21 + j) * 28 + f => cp >= 44032 /\ cp <= 65535 /\ Jamo(cp) = Syllable(c, j, f)
<1>0. SUFFICES ASSUME NEW cp \in Int, cp = 44032 + (c * 21 + j) * 28 + f
               PROVE  cp >= 44032 /\ cp <= 65535 /\ Jamo(cp) = Syllable(c, j, f)
  OBVIOUS
<1> DEFINE n == c * 21 + j
           s == n * 28 + f
<1>1. n \in Nat /\ s \in Nat /\ cp = 44032 + s /\ cp - 44032 = s /\ cp >= 44032 /\ cp <= 65535
  BY <1>0
<1>2. s % 28 = f /\ s \div 28 = n
  <2> DEFINE k == 28
  <2>1. k \in Nat \ {0} /\ f \in 0 .. k - 1 /\ s = k * n + f
    OBVIOUS
  <2> HIDE DEF k, s, n
  <2>2. (k * n + f) % k = f /\ (k * n + f) \div k = n
    BY <1>1, <2>1, RestUnique
  <2> QED
    BY <2>1, <2>2 DEF k
<1>3. n % 21 = j
  <2> DEFINE k == 21
  <2>1. k \in Nat \ {0} /\ j \in 0 .. k - 1 /\ n = k * c + j /\ c \in Nat
    OBVIOUS
  <2> HIDE DEF k, n
  <2>2. (k * c + j) % k = j
    BY <2>1, RestUnique
  <2> QED
    BY <2>1, <2>2 DEF k
<1>4. s \div 588 = c
  <2> DEFINE k == 588
             r == j * 28 + f
  <2>1. k \in Nat \ {0} /\ r \in 0 .. k - 1 /\ s = k * c + r /\ c \in Nat
    OBVIOUS
  <2> HIDE DEF k, s, r
  <2>2. (k * c + r) \div k = c
    BY <2>1, RestUnique
  <2> QED
    BY <2>1, <2>2 DEF k
<1>7. (cp - 44032) % 28 = f /\ (cp - 44032) \div 588 = c /\ ((cp - 44032) \div 28) % 21 = j
  <2>1. cp - 44032 = s
    BY <1>1
  <2> HIDE DEF s, n
  <2> QED
    BY <1>2, <1>3, <1>4, <2>1
<1> HIDE DEF s, n
<1>5. Jamo(cp) = Syllable(c, j, f)
  BY <1>1, <1>7, JamoHigh
<1>6. cp >= 44032 /\ cp <= 65535
  BY <1>1
<1> QED
  BY <1>5, <1>6

\* What a composition stands for, and its code point.
LEMMA Composition ==
  ASSUME NEW m \in Compositions
  PROVE  /\ m.cho \in -1 .. 18 /\ m.jung \in -1 .. 20 /\ m = [cho |-> m.cho, jung |-> m.jung, jong |-> m.jong]
         /\ m.jong < 0 => m.jong = -1
         /\ m.jong >= 0 => m.cho >= 0 /\ m.jung >= 0 /\ m.jong \in Finals /\ m.jong \in 1 .. 27
         /\ m.cho < 0 /\ m.jung < 0 => m = Nothing
         /\ m.cho < 0 => Codepoint(m) = 0
         /\ m.jung < 0 => Codepoint(m) = 0
<1>1. /\ m.cho \in -1 .. 18 /\ m.jung \in -1 .. 20 /\ m.jong \in {-1} \cup Finals
      /\ m = [cho |-> m.cho, jung |-> m.jung, jong |-> m.jong]
      /\ m.jong >= 0 => m.cho >= 0 /\ m.jung >= 0
  BY DEF Compositions
<1>2. Finals \subseteq 1 .. 27
  BY DEF Finals
<1>3. m.jong < 0 => m.jong = -1
  BY <1>1, <1>2
<1>4. m.jong >= 0 => m.jong \in Finals /\ m.jong \in 1 .. 27
  BY <1>1, <1>2
<1>5. ASSUME m.cho < 0, m.jung < 0 PROVE m = Nothing
  <2>1. m.jong < 0
    <3>1. ~(m.jong >= 0)
      BY <1>1, <1>5
    <3>2. m.jong \in Int
      BY <1>1, <1>2
    <3> QED
      BY <3>1, <3>2
  <2>2. m.cho = -1 /\ m.jung = -1
    BY <1>1, <1>5
  <2>3. m.jong = -1
    BY <1>3, <2>1
  <2> QED
    BY <1>1, <2>2, <2>3 DEF Nothing
<1>6. m.cho < 0 \/ m.jung < 0 => Codepoint(m) = 0
  BY DEF Codepoint, make_codepoint
<1> QED
  BY <1>1, <1>3, <1>4, <1>5, <1>6

\* Code points of syllables and of single jamo are signs.
LEMMA SyllableSound ==
  ASSUME NEW c \in 0 .. 18, NEW j \in 0 .. 20, NEW f \in {-1} \cup Finals
  PROVE  /\ make_codepoint(c, j, f) \in Signs /\ make_codepoint(c, j, f) # 0
         /\ Jamo(make_codepoint(c, j, f)) =
              IF f < 0 THEN <<Cho(c), Jung(j)>> ELSE <<Cho(c), Jung(j), Cho(jong_to_cho(f))>>
<1> DEFINE e == IF f < 0 THEN 0 ELSE f
           cp == make_codepoint(c, j, f)
<1>1. f \in -1 .. 27 /\ f # 0 /\ (f >= 0 => f \in Finals)
  BY DEF Finals
<1>2. e \in 0 .. 27 /\ (f < 0 => e = 0) /\ (f >= 0 => e = f /\ e # 0)
  BY <1>1
<1>3. cp = 44032 + (c * 21 + j) * 28 + e
  BY DEF make_codepoint
<1>4. cp \in Int
  BY <1>2, <1>3
<1> HIDE DEF cp, e
<1>5. cp >= 44032 /\ cp <= 65535 /\ Jamo(cp) = Syllable(c, j, e)
  <2>1. \A x \in Int : x = 44032 + (c * 21 + j) * 28 + e => x >= 44032 /\ x <= 65535 /\ Jamo(x) = Syllable(c, j, e)
    BY <1>2, JamoSyllable, SMTT(30)
  <2> QED
    BY <1>3, <1>4, <2>1
<1>10. cp \in Nat /\ cp >= 8192 /\ cp <= 65535 /\ cp # 0
  BY <1>4, <1>5
<1>6. Cho(c) \in Key /\ Jung(j) \in Key
  BY DEF Key
<1>7. CASE f < 0
  <2>1. Final(e) = <<>>
    BY <1>2, <1>7 DEF Final
  <2>2. Jamo(cp) = <<Cho(c), Jung(j)>>
    BY <1>5, <2>1 DEF Syllable
  <2>3. Jamo(cp) \in Seq(Key)
    BY <1>6, <2>2
  <2>4. cp \in Signs /\ cp # 0
    BY <1>10, <2>3 DEF Signs
  <2>5. Jamo(cp) = IF f < 0 THEN <<Cho(c), Jung(j)>> ELSE <<Cho(c), Jung(j), Cho(jong_to_cho(f))>>
    BY <1>7, <2>2
  <2> QED
    BY <2>4, <2>5 DEF cp
<1>8. CASE f >= 0
  <2> DEFINE i == jong_to_cho(f)
  <2>1. i \in 0 .. 18
    BY <1>1, <1>8, FinalsSound
  <2> HIDE DEF i
  <2>2. Cho(i) \in Key
    BY <2>1 DEF Key
  <2>3. Final(e) = <<Cho(i)>>
    BY <1>2, <1>8 DEF Final, i
  <2>4. Jamo(cp) = <<Cho(c), Jung(j), Cho(i)>>
    <3> DEFINE x == Cho(c)
               y == Jung(j)
               z == Cho(i)
    <3>1. x \in Key /\ y \in Key /\ z \in Key
      BY <1>6, <2>2
    <3> HIDE DEF x, y, z
    <3>2. <<x, y>> \o <<z>> = <<x, y, z>>
      BY <3>1, JoinThree
    <3> QED
      BY <1>5, <2>3, <3>2 DEF Syllable, x, y, z
  <2>5. Jamo(cp) \in Seq(Key)
    BY <1>6, <2>2, <2>4
  <2>6. cp \in Signs /\ cp # 0
    BY <1>10, <2>5 DEF Signs
  <2>7. ~(f < 0)
    BY <1>1, <1>8
  <2>8. Jamo(cp) = IF f < 0 THEN <<Cho(c), Jung(j)>> ELSE <<Cho(c), Jung(j), Cho(jong_to_cho(f))>>
    BY <2>4, <2>7 DEF i
  <2> QED
    BY <2>6, <2>8 DEF cp
<1> QED
  BY <1>1, <1>7, <1>8

LEMMA SingleSound ==
  /\ \A c \in 0 .. 18 : 12593 + c \in Signs /\ Jamo(12593 + c) = <<Cho(c)>>
  /\ \A j \in 0 .. 20 : 12641 + j \in Signs /\ Jamo(12641 + j) = <<Jung(j)>>
<1>1. ASSUME NEW c \in 0 .. 18 PROVE 12593 + c \in Signs /\ Jamo(12593 + c) = <<Cho(c)>>
  <2> DEFINE cp == 12593 + c
  <2>1. cp \in Int /\ ~(cp >= 44032) /\ cp \in 12593 .. 12611 /\ cp - 12593 = c
        /\ cp \notin 12641 .. 12661
    OBVIOUS
  <2>6. cp \in Nat /\ cp >= 8192 /\ cp <= 65535
    OBVIOUS
  <2> HIDE DEF cp
  <2>2. Jamo(cp) = <<Cho(cp - 12593)>>
    BY <2>1 DEF Jamo
  <2>3. Cho(c) \in Key
    BY DEF Key
  <2>4. Jamo(cp) = <<Cho(c)>> /\ <<Cho(c)>> \in Seq(Key)
    BY <2>1, <2>2, <2>3
  <2>7. Jamo(cp) \in Seq(Key)
    BY <2>4
  <2>5. cp \in Signs
    BY <2>6, <2>7 DEF Signs
  <2> QED
    BY <2>4, <2>5 DEF cp
<1>2. ASSUME NEW j \in 0 .. 20 PROVE 12641 + j \in Signs /\ Jamo(12641 + j) = <<Jung(j)>>
  <2> DEFINE cp == 12641 + j
  <2>1. cp \in Int /\ ~(cp >= 44032) /\ cp \in 12641 .. 12661 /\ cp - 12641 = j
        /\ cp \notin 12593 .. 12611
    OBVIOUS
  <2>6. cp \in Nat /\ cp >= 8192 /\ cp <= 65535
    OBVIOUS
  <2> HIDE DEF cp
  <2>2. Jamo(cp) = <<Jung(cp - 12641)>>
    BY <2>1 DEF Jamo
  <2>3. Jung(j) \in Key
    BY DEF Key
  <2>4. Jamo(cp) = <<Jung(j)>> /\ <<Jung(j)>> \in Seq(Key)
    BY <2>1, <2>2, <2>3
  <2>7. Jamo(cp) \in Seq(Key)
    BY <2>4
  <2>5. cp \in Signs
    BY <2>6, <2>7 DEF Signs
  <2> QED
    BY <2>4, <2>5 DEF cp
<1> QED
  BY <1>1, <1>2

LEMMA ComposedSound ==
  ASSUME NEW m \in Compositions
  PROVE  /\ Composed(m) \in Seq(Key)
         /\ Composed(Nothing) = <<>>
         /\ m.cho < 0 /\ m.jung >= 0 => Composed(m) = <<Jung(m.jung)>>
         /\ m.cho >= 0 /\ m.jung < 0 => Composed(m) = <<Cho(m.cho)>>
         /\ m.cho >= 0 /\ m.jung >= 0 =>
              /\ Codepoint(m) \in Signs /\ Codepoint(m) # 0 /\ Composed(m) = Jamo(Codepoint(m))
              /\ m.jong < 0 => Composed(m) = <<Cho(m.cho), Jung(m.jung)>>
              /\ m.jong >= 0 => Composed(m) = <<Cho(m.cho), Jung(m.jung), Cho(jong_to_cho(m.jong))>>
<1>1. Composed(Nothing) = <<>>
  BY DEF Composed, Nothing
<1>2. ASSUME m.cho < 0, m.jung < 0 PROVE Composed(m) \in Seq(Key)
  <2>1. Composed(m) = <<>>
    BY <1>1, <1>2, Composition
  <2> QED
    BY <2>1
<1>3. ASSUME m.cho < 0, m.jung >= 0 PROVE Composed(m) = <<Jung(m.jung)>> /\ Composed(m) \in Seq(Key)
  <2>1. Composed(m) = <<Jung(m.jung)>>
    BY <1>3, Composition DEF Composed
  <2>2. Jung(m.jung) \in Key
    BY <1>3, Composition DEF Key
  <2> QED
    BY <2>1, <2>2
<1>4. ASSUME m.cho >= 0, m.jung < 0 PROVE Composed(m) = <<Cho(m.cho)>> /\ Composed(m) \in Seq(Key)
  <2>1. Composed(m) = <<Cho(m.cho)>>
    BY <1>4, Composition DEF Composed
  <2>2. Cho(m.cho) \in Key
    BY <1>4, Composition DEF Key
  <2> QED
    BY <2>1, <2>2
<1>5. ASSUME m.cho >= 0, m.jung >= 0
      PROVE  /\ Codepoint(m) \in Signs /\ Codepoint(m) # 0 /\ Composed(m) = Jamo(Codepoint(m))
             /\ m.jong < 0 => Composed(m) = <<Cho(m.cho), Jung(m.jung)>>
             /\ m.jong >= 0 => Composed(m) = <<Cho(m.cho), Jung(m.jung), Cho(jong_to_cho(m.jong))>>
  <2> DEFINE c == m.cho
             j == m.jung
             f == m.jong
  <2>1. c \in 0 .. 18 /\ j \in 0 .. 20 /\ f \in {-1} \cup Finals
    BY <1>5, Composition DEF Compositions
  <2>2. Composed(m) = Jamo(Codepoint(m))
    BY <1>5, <2>1, SMTT(30) DEF Composed
  <2>3. Codepoint(m) = make_codepoint(c, j, f)
    BY DEF Codepoint
  <2>4. f < 0 \/ f >= 0
    BY <2>1 DEF Finals
  <2> HIDE DEF c, j, f
  <2>5. /\ make_codepoint(c, j, f) \in Signs /\ make_codepoint(c, j, f) # 0
        /\ Jamo(make_codepoint(c, j, f)) =
             IF f < 0 THEN <<Cho(c), Jung(j)>> ELSE <<Cho(c), Jung(j), Cho(jong_to_cho(f))>>
    BY <2>1, SyllableSound
  <2>6. f >= 0 => ~(f < 0)
    BY <2>1 DEF Finals
  <2>7. /\ f < 0 => Composed(m) = <<Cho(c), Jung(j)>>
        /\ f >= 0 => Composed(m) = <<Cho(c), Jung(j), Cho(jong_to_cho(f))>>
    BY <2>2, <2>3, <2>5, <2>6
  <2> QED
    BY <2>2, <2>3, <2>5, <2>7 DEF c, j, f
<1>6. ASSUME m.cho >= 0, m.jung >= 0 PROVE Composed(m) \in Seq(Key)
  BY <1>5, <1>6 DEF Signs
<1>7. (m.cho < 0 \/ m.cho >= 0) /\ (m.jung < 0 \/ m.jung >= 0)
  BY Composition
<1> QED
  BY <1>1, <1>2, <1>3, <1>4, <1>5, <1>6, <1>7

-----------------------------------------------------------------------------
\* What a call of the input method gives out and keeps is what was open and the
\* key; a code point is a sign, or 0.
Good(cp) == cp = 0 \/ cp \in Signs
Given(cp) == IF cp = 0 THEN <<>> ELSE Jamo(cp)

LEMMA SignsSound == \A cp \in Signs : cp # 0 /\ cp \in Int /\ Given(cp) = Jamo(cp) /\ Jamo(cp) \in Seq(Key)
  BY DEF Signs, Given

LEMMA Concatenated ==
  ASSUME NEW S, NEW x \in S, NEW y \in S, NEW s \in Seq(S)
  PROVE  /\ <<>> \o s = s /\ s \o <<>> = s
         /\ <<x>> \in Seq(S) /\ <<x>> \o <<y>> = <<x, y>> /\ <<x, y>> \in Seq(S)
<1>1. <<>> \o s = s /\ s \o <<>> = s
  BY ConcatEmptySeq
<1> DEFINE a == <<x>>
           b == <<y>>
           c == <<x, y>>
<1>2. /\ a \in Seq(S) /\ Len(a) = 1 /\ a[1] = x
      /\ b \in Seq(S) /\ Len(b) = 1 /\ b[1] = y
      /\ c \in Seq(S) /\ Len(c) = 2 /\ c[1] = x /\ c[2] = y
  OBVIOUS
<1> HIDE DEF a, b, c
<1> DEFINE ab == a \o b
<1>3. /\ ab \in Seq(S) /\ Len(ab) = Len(a) + Len(b)
      /\ \A i \in 1 .. Len(a) + Len(b) : ab[i] = IF i <= Len(a) THEN a[i] ELSE b[i - Len(a)]
  BY <1>2, ConcatProperties
<1> HIDE DEF ab
<1>4. Len(ab) = 2 /\ ab[1] = x /\ ab[2] = y
  BY <1>2, <1>3
<1>5. ab = c
  <2>1. \A i \in 1 .. Len(ab) : ab[i] = c[i]
    <3> SUFFICES ASSUME NEW i \in 1 .. Len(ab) PROVE ab[i] = c[i]
      OBVIOUS
    <3>1. i = 1 \/ i = 2
      BY <1>4
    <3> QED
      BY <1>2, <1>4, <3>1
  <2> QED
    BY <1>2, <1>3, <1>4, <2>1, SeqEqual
<1> QED
  BY <1>1, <1>2, <1>5 DEF a, b, c, ab

LEMMA FlushSound ==
  ASSUME NEW m \in Compositions
  PROVE  LET f == hangul_ime_flush(m)
         IN  /\ f.m = Nothing /\ Good(f.cp) /\ Nothing \in Compositions
             /\ m = Nothing => f.cp = 0
             /\ ~Unfinished(m) => Composed(m) = Given(f.cp)
             /\ ~Unfinished(m) /\ m # Nothing => f.cp # 0
<1> DEFINE f == hangul_ime_flush(m)
<1>1. /\ m.cho < 0 /\ m.jung < 0 => m = Nothing
      /\ m.cho \in -1 .. 18 /\ m.jung \in -1 .. 20
      /\ (m.cho < 0 \/ m.cho >= 0) /\ (m.jung < 0 \/ m.jung >= 0)
  BY Composition
<1>2. Nothing \in Compositions /\ Nothing.cho < 0 /\ Nothing.jung < 0
  BY DEF Nothing, Compositions
<1>3. ASSUME m.cho < 0, m.jung < 0
      PROVE  f.m = Nothing /\ f.cp = 0 /\ m = Nothing /\ Composed(m) = Given(f.cp)
  <2>1. f = Give(m, 0) /\ m = Nothing
    BY <1>1, <1>3 DEF hangul_ime_flush
  <2> HIDE DEF f
  <2>2. f.m = m /\ f.cp = 0
    BY <2>1 DEF Give
  <2>3. Composed(Nothing) = <<>>
    BY ComposedSound
  <2> QED
    BY <2>1, <2>2, <2>3 DEF Given
<1>4. ASSUME ~(m.cho < 0 /\ m.jung < 0)
      PROVE  f.m = Nothing /\ f.cp = Codepoint(m) /\ m # Nothing
  <2>1. f = Give(Nothing, Codepoint(m))
    BY <1>4 DEF hangul_ime_flush
  <2>2. m # Nothing
    BY <1>2, <1>4
  <2> HIDE DEF f
  <2> QED
    BY <2>1, <2>2 DEF Give
<1>5. ASSUME ~(m.cho < 0 /\ m.jung < 0), ~Unfinished(m) PROVE m.cho >= 0 /\ m.jung >= 0
  BY <1>1, <1>5 DEF Unfinished, Stray
<1>6. m.cho < 0 \/ m.jung < 0 => Codepoint(m) = 0
  BY Composition
<1>7. m.cho >= 0 /\ m.jung >= 0 => Codepoint(m) \in Signs /\ Codepoint(m) # 0 /\ Composed(m) = Jamo(Codepoint(m))
  BY ComposedSound
<1> HIDE DEF f
<1>8. Good(f.cp)
  BY <1>1, <1>3, <1>4, <1>6, <1>7 DEF Good
<1>9. ~Unfinished(m) => Composed(m) = Given(f.cp)
  BY <1>3, <1>4, <1>5, <1>7, SignsSound
<1>10. ~Unfinished(m) /\ m # Nothing => f.cp # 0
  BY <1>3, <1>4, <1>5, <1>7
<1>11. f.m = Nothing /\ (m = Nothing => f.cp = 0)
  BY <1>3, <1>4
<1> QED
  BY <1>2, <1>8, <1>9, <1>10, <1>11 DEF f

LEMMA OnlySound ==
  ASSUME NEW i \in 0 .. 18
  PROVE  Only(i) \in Compositions /\ Composed(Only(i)) = <<Cho(i)>> /\ Cho(i) \in Key
<1> DEFINE m == Only(i)
<1>1. m = [cho |-> i, jung |-> -1, jong |-> -1]
  BY DEF Only, Nothing
<1>2. m \in Compositions /\ m.cho = i /\ m.jung < 0
  BY <1>1 DEF Compositions
<1> HIDE DEF m
<1>3. Composed(m) = <<Cho(m.cho)>>
  BY <1>2, ComposedSound
<1> QED
  BY <1>2, <1>3 DEF m, Key

LEMMA ConsonantSound ==
  ASSUME NEW m \in Compositions, NEW i \in 0 .. 18
  PROVE  LET r == Consonant(m, i)
         IN  /\ r.m \in Compositions /\ Good(r.cp)
             /\ ~Stray(m) => Composed(m) \o <<Cho(i)>> = Given(r.cp) \o Composed(r.m)
<1> DEFINE r == Consonant(m, i)
           o == Only(i)
           x == Cho(i)
<1>1. /\ m.cho < 0 /\ m.jung < 0 => m = Nothing
      /\ m.cho \in -1 .. 18 /\ m.jung \in -1 .. 20
      /\ (m.cho < 0 \/ m.cho >= 0) /\ (m.jung < 0 \/ m.jung >= 0) /\ (m.jong < 0 \/ m.jong >= 0)
  BY Composition DEF Compositions, Finals
<1>2. o \in Compositions /\ Composed(o) = <<x>> /\ x \in Key
  BY OnlySound
<1>3. Composed(m) \in Seq(Key)
  BY ComposedSound
<1> HIDE DEF o, x
<1>4. CASE m.cho < 0
  <2>1. r = Give(o, 0)
    <3>1. ~(m.cho >= 0)
      BY <1>1, <1>4
    <3> QED
      BY <1>4, <3>1 DEF Consonant, o
  <2> HIDE DEF r
  <2>2. r.m = o /\ r.cp = 0 /\ Given(r.cp) = <<>>
    BY <2>1 DEF Give, Given
  <2>3. ~Stray(m) => Composed(m) = <<>>
    BY <1>1, <1>4, ComposedSound DEF Stray
  <2> QED
    BY <1>2, <2>2, <2>3 DEF r, x, Good
<1>5. CASE m.cho >= 0 /\ m.jung < 0
  <2> DEFINE cp == 12593 + m.cho
  <2>1. r = Give(o, cp)
    BY <1>1, <1>5 DEF Consonant, o
  <2>2. cp \in Signs /\ Jamo(cp) = <<Cho(m.cho)>>
    BY <1>1, <1>5, SingleSound
  <2> HIDE DEF r, cp
  <2>3. r.m = o /\ r.cp = cp /\ Given(cp) = Jamo(cp)
    BY <2>1, <2>2, SignsSound DEF Give
  <2>4. Composed(m) = <<Cho(m.cho)>>
    BY <1>5, ComposedSound
  <2>5. Composed(m) \o <<x>> = Given(r.cp) \o Composed(r.m)
    BY <1>2, <2>2, <2>3, <2>4
  <2> QED
    BY <1>2, <2>2, <2>3, <2>5 DEF r, x, Good
<1>6. CASE m.cho >= 0 /\ m.jung >= 0 /\ m.jong < 0 /\ cho_to_jong[i + 1] >= 0
  <2> DEFINE g == cho_to_jong[i + 1]
             n == [m EXCEPT !.jong = g]
  <2>1. r = Give(n, 0)
    <3>1. ~(m.cho < 0) /\ ~(m.jung < 0)
      BY <1>1, <1>6
    <3> QED
      BY <1>6, <3>1 DEF Consonant
  <2>2. g \in Finals /\ jong_to_cho(g) = i /\ g >= 0
    <3>1. g # -1
      BY <1>6
    <3> QED
      BY <1>6, <3>1, FinalsSound
  <2> HIDE DEF g
  <2>3. n \in Compositions /\ n.cho = m.cho /\ n.jung = m.jung /\ n.jong = g
    BY <1>6, <2>2 DEF Compositions
  <2> HIDE DEF r, n
  <2>4. r.m = n /\ r.cp = 0 /\ Given(r.cp) = <<>>
    BY <2>1 DEF Give, Given
  <2>5. Composed(m) = <<Cho(m.cho), Jung(m.jung)>>
    BY <1>6, ComposedSound
  <2>6. Composed(n) = <<Cho(m.cho), Jung(m.jung), x>> /\ Composed(n) \in Seq(Key)
    <3>1. Composed(n) = <<Cho(n.cho), Jung(n.jung), Cho(jong_to_cho(n.jong))>>
      BY <1>6, <2>2, <2>3, ComposedSound
    <3> QED
      BY <2>2, <2>3, <3>1, ComposedSound DEF x
  <2>7. Cho(m.cho) \in Key /\ Jung(m.jung) \in Key
    BY <1>1, <1>6 DEF Key
  <2>8. Composed(m) \o <<x>> = Composed(n)
    BY <1>2, <2>5, <2>6, <2>7, JoinThree
  <2>9. <<>> \o Composed(n) = Composed(n)
    BY <2>6, ConcatEmptySeq
  <2> QED
    BY <2>3, <2>4, <2>8, <2>9 DEF r, x, Good
<1>7. CASE m.cho >= 0 /\ m.jung >= 0 /\ ~(m.jong < 0 /\ cho_to_jong[i + 1] >= 0)
  <2>1. r = Give(o, Codepoint(m))
    <3>1. ~(m.cho < 0) /\ ~(m.jung < 0)
      BY <1>1, <1>7
    <3> QED
      BY <1>7, <3>1 DEF Consonant, o
  <2> HIDE DEF r
  <2>2. r.m = o /\ r.cp = Codepoint(m)
    BY <2>1 DEF Give
  <2>3. Codepoint(m) \in Signs /\ Composed(m) = Jamo(Codepoint(m))
    BY <1>7, ComposedSound
  <2>4. Given(r.cp) = Composed(m)
    BY <2>2, <2>3, SignsSound
  <2> QED
    BY <1>2, <2>2, <2>3, <2>4 DEF r, x, Good
<1> QED
  BY <1>1, <1>4, <1>5, <1>6, <1>7

LEMMA VowelSound ==
  ASSUME NEW m \in Compositions, NEW i \in 0 .. 20
  PROVE  LET r == Vowel(m, i)
         IN  /\ r.m \in Compositions /\ Good(r.cp)
             /\ ~Stray(m) => Composed(m) \o <<Jung(i)>> = Given(r.cp) \o Composed(r.m)
<1> DEFINE r == Vowel(m, i)
           x == Jung(i)
<1>1. /\ m.cho < 0 /\ m.jung < 0 => m = Nothing
      /\ m.cho \in -1 .. 18 /\ m.jung \in -1 .. 20
      /\ (m.cho < 0 \/ m.cho >= 0) /\ (m.jung < 0 \/ m.jung >= 0) /\ (m.jong < 0 \/ m.jong >= 0)
      /\ m.jong < 0 => m.jong = -1
  BY Composition DEF Compositions, Finals
<1>2. x \in Key /\ <<x>> \in Seq(Key) /\ <<>> \o <<x>> = <<x>>
  <2>1. x \in Key
    BY DEF Key
  <2> HIDE DEF x
  <2> QED
    BY <2>1, Concatenated
<1>3. Composed(m) \in Seq(Key)
  BY ComposedSound
<1>4. CASE m.cho < 0
  <2> DEFINE cp == 12641 + i
  <2>1. r = Give(m, cp)
    <3>1. ~(m.cho >= 0)
      BY <1>1, <1>4
    <3> QED
      BY <1>4, <3>1 DEF Vowel
  <2>2. cp \in Signs /\ Jamo(cp) = <<x>>
    BY SingleSound
  <2> HIDE DEF r, cp, x
  <2>3. r.m = m /\ r.cp = cp /\ Given(cp) = Jamo(cp)
    BY <2>1, <2>2, SignsSound DEF Give
  <2>4. ~Stray(m) => Composed(m) = <<>>
    BY <1>1, <1>4, ComposedSound DEF Stray
  <2>5. <<x>> \o <<>> = <<x>>
    BY <1>2, ConcatEmptySeq
  <2> QED
    BY <1>2, <2>2, <2>3, <2>4, <2>5 DEF r, x, Good
<1>5. CASE m.cho >= 0 /\ m.jung < 0
  <2> DEFINE n == [m EXCEPT !.jung = i]
             c == Cho(m.cho)
  <2>1. r = Give(n, 0)
    <3>1. ~(m.cho < 0) /\ ~(m.jung >= 0)
      BY <1>1, <1>5
    <3> QED
      BY <1>5, <3>1 DEF Vowel
  <2>2. m.jong < 0
    BY <1>1, <1>5 DEF Compositions
  <2>3. n \in Compositions /\ n.cho = m.cho /\ n.jung = i /\ n.jong = m.jong
    BY <1>5, <2>2 DEF Compositions
  <2>4. c \in Key
    BY <1>1, <1>5 DEF Key
  <2> HIDE DEF r, n
  <2>5. r.m = n /\ r.cp = 0 /\ Given(r.cp) = <<>>
    BY <2>1 DEF Give, Given
  <2>6. Composed(n) = <<c, x>> /\ Composed(n) \in Seq(Key)
    <3>1. n.cho >= 0 /\ n.jung >= 0 /\ n.jong < 0
      BY <1>5, <2>2, <2>3
    <3>2. Composed(n) = <<Cho(n.cho), Jung(n.jung)>> /\ Composed(n) \in Seq(Key)
      BY <2>3, <3>1, ComposedSound
    <3> QED
      BY <2>3, <3>2
  <2>7. Composed(m) = <<c>>
    BY <1>5, ComposedSound
  <2> HIDE DEF c, x
  <2>8. Composed(m) \o <<x>> = Composed(n) /\ <<>> \o Composed(n) = Composed(n)
    BY <1>2, <2>4, <2>6, <2>7, Concatenated
  <2> QED
    BY <2>3, <2>5, <2>8 DEF r, x, Good
<1>6. CASE m.cho >= 0 /\ m.jung >= 0 /\ m.jong >= 0
  <2> DEFINE d == jong_to_cho(m.jong)
             n == [cho |-> d, jung |-> i, jong |-> -1]
             cp == make_codepoint(m.cho, m.jung, -1)
             a == Cho(m.cho)
             b == Jung(m.jung)
             c == Cho(d)
  <2>1. r = Give(n, cp)
    <3>1. ~(m.cho < 0) /\ ~(m.jung < 0)
      BY <1>1, <1>6
    <3> QED
      BY <1>6, <3>1 DEF Vowel
  <2>2. d \in 0 .. 18
    BY <1>6, Composition, FinalsSound
  <2>3. cp \in Signs /\ Jamo(cp) = <<a, b>>
    <3>1. m.cho \in 0 .. 18 /\ m.jung \in 0 .. 20 /\ -1 \in {-1} \cup Finals /\ -1 < 0
      BY <1>1, <1>6
    <3> QED
      BY <3>1, SyllableSound
  <2> HIDE DEF d, cp
  <2>4. n \in Compositions /\ n.cho = d /\ n.jung = i /\ n.jong = -1
    BY <2>2 DEF Compositions
  <2>5. a \in Key /\ b \in Key /\ c \in Key
    BY <1>1, <1>6, <2>2 DEF Key
  <2> HIDE DEF r, n
  <2>6. r.m = n /\ r.cp = cp /\ Given(r.cp) = <<a, b>>
    BY <2>1, <2>3, SignsSound DEF Give
  <2>7. Composed(n) = <<c, x>>
    <3>1. n.cho >= 0 /\ n.jung >= 0 /\ n.jong < 0
      BY <2>2, <2>4
    <3>2. Composed(n) = <<Cho(n.cho), Jung(n.jung)>>
      BY <2>4, <3>1, ComposedSound
    <3> QED
      BY <2>4, <3>2
  <2>8. Composed(m) = <<a, b, c>>
    BY <1>6, ComposedSound DEF d
  <2> HIDE DEF a, b, c, x
  <2>9. <<a, b, c>> \o <<x>> = <<a, b>> \o <<c, x>>
    <3>1. <<a, b>> \o <<c>> = <<a, b, c>>
      BY <2>5, JoinThree
    <3>4. <<c>> \o <<x>> = <<c, x>>
      <4>1. <<>> \in Seq(Key)
        OBVIOUS
      <4> QED
        BY <1>2, <2>5, <4>1, Concatenated
    <3>2. <<a, b>> \in Seq(Key) /\ <<c>> \in Seq(Key) /\ <<x>> \in Seq(Key)
      BY <1>2, <2>5, Concatenated
    <3>3. (<<a, b>> \o <<c>>) \o <<x>> = <<a, b>> \o (<<c>> \o <<x>>)
      BY <3>2, ConcatAssociative
    <3> QED
      BY <3>1, <3>3, <3>4
  <2> QED
    BY <2>3, <2>4, <2>6, <2>7, <2>8, <2>9 DEF r, x, Good
<1>7. CASE m.cho >= 0 /\ m.jung >= 0 /\ m.jong < 0
  <2> DEFINE n == [Nothing EXCEPT !.jung = i]
             cp == make_codepoint(m.cho, m.jung, -1)
  <2>1. r = Give(n, cp)
    <3>1. ~(m.cho < 0) /\ ~(m.jung < 0) /\ ~(m.jong >= 0)
      BY <1>1, <1>7
    <3> QED
      BY <1>7, <3>1 DEF Vowel
  <2>2. n = [cho |-> -1, jung |-> i, jong |-> -1]
    BY DEF Nothing
  <2>3. n \in Compositions /\ n.cho < 0 /\ n.jung = i
    BY <2>2 DEF Compositions
  <2>4. cp = Codepoint(m)
    BY <1>1, <1>7 DEF Codepoint
  <2> HIDE DEF r, n, cp
  <2>5. r.m = n /\ r.cp = cp
    BY <2>1 DEF Give
  <2>6. cp \in Signs /\ Composed(m) = Jamo(cp) /\ Given(cp) = Jamo(cp)
    BY <1>7, <2>4, ComposedSound, SignsSound
  <2>7. Composed(n) = <<x>>
    BY <2>3, ComposedSound
  <2> QED
    BY <2>3, <2>5, <2>6, <2>7 DEF r, x, Good
<1> QED
  BY <1>1, <1>4, <1>5, <1>6, <1>7

-----------------------------------------------------------------------------
\* The keys of the letters.
LetterKey(key) == key \in 16 .. 25 \/ key \in 30 .. 38 \/ key \in 44 .. 50

LEMMA LettersSound ==
  /\ DOMAIN Letters = {key \in Nat : LetterKey(key)}
  /\ \A key : LetterKey(key) => Letters[key] \in 97 .. 122
<1>1. \A key : key \in 16 .. 25 \cup 30 .. 38 \cup 44 .. 50 <=> LetterKey(key)
  BY DEF LetterKey
<1>2. DOMAIN Letters = 16 .. 25 \cup 30 .. 38 \cup 44 .. 50
  BY DEF Letters
<1>3. \A key : LetterKey(key) => key \in Nat
  BY DEF LetterKey
<1>4. ASSUME NEW key, LetterKey(key) PROVE Letters[key] \in 97 .. 122
  <2> DEFINE u == <<113, 119, 101, 114, 116, 121, 117, 105, 111, 112>>
             m == <<97, 115, 100, 102, 103, 104, 106, 107, 108>>
             l == <<122, 120, 99, 118, 98, 110, 109>>
             B == 97 .. 122
  <2>1. u \in Seq(B) /\ Len(u) = 10 /\ m \in Seq(B) /\ Len(m) = 9 /\ l \in Seq(B) /\ Len(l) = 7
    OBVIOUS
  <2>2. key \in Nat /\ key \in 16 .. 25 \cup 30 .. 38 \cup 44 .. 50
    BY <1>1, <1>3, <1>4
  <2>3. Letters[key] = CASE key <= 25 -> u[key - 15] [] key \in 30 .. 38 -> m[key - 29] [] OTHER -> l[key - 43]
    BY <2>2 DEF Letters
  <2> HIDE DEF u, m, l, B
  <2>4. CASE key \in 16 .. 25
    <3>1. key <= 25 /\ key \notin 30 .. 38 /\ key - 15 \in 1 .. 10
      BY <2>4
    <3>2. Letters[key] = u[key - 15]
      BY <2>3, <3>1
    <3> DEFINE n == key - 15
    <3> HIDE DEF n
    <3>3. n \in 1 .. Len(u)
      BY <2>1, <3>1 DEF n
    <3>4. u[n] \in B
      BY <2>1, <3>3, ElementOfSeq
    <3> QED
      BY <3>2, <3>4 DEF n, B
  <2>5. CASE key \in 30 .. 38
    <3>1. ~(key <= 25) /\ key \in 30 .. 38 /\ key - 29 \in 1 .. 9
      BY <2>5
    <3>2. Letters[key] = m[key - 29]
      BY <2>3, <3>1
    <3> DEFINE n == key - 29
    <3> HIDE DEF n
    <3>3. n \in 1 .. Len(m)
      BY <2>1, <3>1 DEF n
    <3>4. m[n] \in B
      BY <2>1, <3>3, ElementOfSeq
    <3> QED
      BY <3>2, <3>4 DEF n, B
  <2>6. CASE key \in 44 .. 50
    <3>1. ~(key <= 25) /\ key \notin 30 .. 38 /\ key - 43 \in 1 .. 7
      BY <2>6
    <3>2. Letters[key] = l[key - 43]
      BY <2>3, <3>1
    <3> DEFINE n == key - 43
    <3> HIDE DEF n
    <3>3. n \in 1 .. Len(l)
      BY <2>1, <3>1 DEF n
    <3>4. l[n] \in B
      BY <2>1, <3>3, ElementOfSeq
    <3> QED
      BY <3>2, <3>4 DEF n, B
  <2> QED
    BY <1>4, <2>4, <2>5, <2>6 DEF LetterKey
<1>5. DOMAIN Letters = {key \in Nat : LetterKey(key)}
  BY <1>1, <1>2, <1>3
<1> QED
  BY <1>4, <1>5

Jamos == {Cho(i) : i \in 0 .. 18} \cup {Jung(i) : i \in 0 .. 20}

LEMMA ScancodeSound ==
  ASSUME NEW key, LetterKey(key), NEW shifted \in BOOLEAN
  PROVE  scancode_hangul(key, shifted) \in Jamos
<1> DEFINE u == <<Cho(7), Cho(12), Cho(3), Cho(0), Cho(9), Jung(12), Jung(6), Jung(2), Jung(1), Jung(5)>>
           m == <<Cho(6), Cho(2), Cho(11), Cho(5), Cho(18), Jung(8), Jung(4), Jung(0), Jung(20)>>
           l == <<Cho(15), Cho(16), Cho(14), Cho(17), Jung(17), Jung(13), Jung(18)>>
<1>1. /\ \A i \in 0 .. 18 : Cho(i) \in Jamos
      /\ \A i \in 0 .. 20 : Jung(i) \in Jamos
  BY DEF Jamos
<1>2. u \in Seq(Jamos) /\ Len(u) = 10
  <2>1. /\ Cho(7) \in Jamos /\ Cho(12) \in Jamos /\ Cho(3) \in Jamos /\ Cho(0) \in Jamos /\ Cho(9) \in Jamos
        /\ Jung(12) \in Jamos /\ Jung(6) \in Jamos /\ Jung(2) \in Jamos /\ Jung(1) \in Jamos /\ Jung(5) \in Jamos
    BY <1>1
  <2> QED
    BY <2>1
<1>3. m \in Seq(Jamos) /\ Len(m) = 9
  <2>1. /\ Cho(6) \in Jamos /\ Cho(2) \in Jamos /\ Cho(11) \in Jamos /\ Cho(5) \in Jamos /\ Cho(18) \in Jamos
        /\ Jung(8) \in Jamos /\ Jung(4) \in Jamos /\ Jung(0) \in Jamos /\ Jung(20) \in Jamos
    BY <1>1
  <2> QED
    BY <2>1
<1>4. l \in Seq(Jamos) /\ Len(l) = 7
  <2>1. /\ Cho(15) \in Jamos /\ Cho(16) \in Jamos /\ Cho(14) \in Jamos /\ Cho(17) \in Jamos
        /\ Jung(17) \in Jamos /\ Jung(13) \in Jamos /\ Jung(18) \in Jamos
    BY <1>1
  <2> QED
    BY <2>1
<1>5. /\ DOMAIN Upper = 16 .. 25 /\ \A k \in 16 .. 25 : Upper[k] = u[k - 15]
      /\ DOMAIN Middle = 30 .. 38 /\ \A k \in 30 .. 38 : Middle[k] = m[k - 29]
      /\ DOMAIN Lower = 44 .. 50 /\ \A k \in 44 .. 50 : Lower[k] = l[k - 43]
  BY DEF Upper, Middle, Lower
<1>6. u[1] = Cho(7) /\ u[2] = Cho(12) /\ u[3] = Cho(3) /\ u[4] = Cho(0) /\ u[5] = Cho(9)
  OBVIOUS
<1> HIDE DEF u, m, l
<1>7. ASSUME key \in 16 .. 25 PROVE Upper[key] \in Jamos
  <2> DEFINE n == key - 15
  <2>1. n \in 1 .. Len(u) /\ Upper[key] = u[n]
    BY <1>2, <1>5, <1>7, SMTT(30)
  <2> HIDE DEF n
  <2> QED
    BY <1>2, <2>1, ElementOfSeq
<1>8. ASSUME key \in 30 .. 38 PROVE Middle[key] \in Jamos
  <2> DEFINE n == key - 29
  <2>1. n \in 1 .. Len(m) /\ Middle[key] = m[n]
    BY <1>3, <1>5, <1>8, SMTT(30)
  <2> HIDE DEF n
  <2> QED
    BY <1>3, <2>1, ElementOfSeq
<1>9. ASSUME key \in 44 .. 50 PROVE Lower[key] \in Jamos
  <2> DEFINE n == key - 43
  <2>1. n \in 1 .. Len(l) /\ Lower[key] = l[n]
    BY <1>4, <1>5, <1>9
  <2> HIDE DEF n
  <2> QED
    BY <1>4, <2>1, ElementOfSeq
<1>10. /\ DOMAIN Shifted = {16, 17, 18, 19, 20, 24, 25}
       /\ \A k \in {16, 17, 18, 19, 20, 24, 25} :
            Shifted[k] = CASE k = 24 -> Jung(3) [] k = 25 -> Jung(7) [] OTHER -> Cho(Upper[k].i + 1)
  BY DEF Shifted
<1>11. ASSUME key \in DOMAIN Shifted PROVE Shifted[key] \in Jamos
  <2>1. CASE key = 24
    BY <1>1, <1>10, <2>1
  <2>2. CASE key = 25
    BY <1>1, <1>10, <2>2
  <2>3. CASE key \in {16, 17, 18, 19, 20}
    <3>1. Upper[16] = u[1] /\ Upper[17] = u[2] /\ Upper[18] = u[3] /\ Upper[19] = u[4] /\ Upper[20] = u[5]
      BY <1>5
    <3>2. Upper[key].i + 1 \in 0 .. 18
      BY <1>6, <2>3, <3>1 DEF Cho
    <3>3. Shifted[key] = Cho(Upper[key].i + 1)
      BY <1>10, <2>3
    <3> QED
      BY <1>1, <3>2, <3>3
  <2> QED
    BY <1>10, <1>11, <2>1, <2>2, <2>3
<1>12. CASE shifted /\ key \in DOMAIN Shifted
  <2>1. key \in 16 .. 25 /\ key \notin 30 .. 38 /\ key \notin 44 .. 50
    BY <1>10, <1>12
  <2>2. scancode_hangul(key, shifted) \in {Shifted[key], Upper[key]}
    BY <1>5, <1>12, <2>1 DEF scancode_hangul
  <2> QED
    BY <1>7, <1>11, <1>12, <2>1, <2>2
<1>13. CASE ~(shifted /\ key \in DOMAIN Shifted)
  <2>1. CASE key \in 16 .. 25
    <3>1. key \notin 30 .. 38 /\ key \notin 44 .. 50
      BY <2>1
    <3>2. scancode_hangul(key, shifted) = Upper[key]
      BY <1>5, <1>13, <2>1, <3>1 DEF scancode_hangul
    <3> QED
      BY <1>7, <2>1, <3>2
  <2>2. CASE key \in 30 .. 38
    <3>1. key \notin 16 .. 25 /\ key \notin 44 .. 50
      BY <2>2
    <3>2. scancode_hangul(key, shifted) = Middle[key]
      BY <1>5, <1>13, <2>2, <3>1 DEF scancode_hangul
    <3> QED
      BY <1>8, <2>2, <3>2
  <2>3. CASE key \in 44 .. 50
    <3>1. key \notin 16 .. 25 /\ key \notin 30 .. 38
      BY <2>3
    <3>2. scancode_hangul(key, shifted) = Lower[key]
      BY <1>5, <1>13, <2>3, <3>1 DEF scancode_hangul
    <3> QED
      BY <1>9, <2>3, <3>2
  <2> QED
    BY <2>1, <2>2, <2>3 DEF LetterKey
<1> QED
  BY <1>12, <1>13

\* What a letter gives out and keeps in Korean mode.
LEMMA InputSound ==
  ASSUME NEW m \in Compositions, NEW key, LetterKey(key), NEW shifted \in BOOLEAN
  PROVE  LET r == hangul_ime_input(m, key, shifted)
             x == scancode_hangul(key, shifted)
         IN  /\ r.m \in Compositions /\ Good(r.cp) /\ x.t # "none" /\ x \in Key
             /\ ~Stray(m) => Composed(m) \o <<x>> = Given(r.cp) \o Composed(r.m)
<1> DEFINE r == hangul_ime_input(m, key, shifted)
           x == scancode_hangul(key, shifted)
<1>1. x \in Jamos
  BY ScancodeSound
<1>2. key \in Nat /\ key < 64
  BY DEF LetterKey
<1>3. r = CASE key >= 64 -> Give(m, 0)
            [] key < 64 /\ x.t = "none" -> hangul_ime_flush(m)
            [] key < 64 /\ x.t = "cho" -> Consonant(m, x.i)
            [] key < 64 /\ x.t = "jung" -> Vowel(m, x.i)
  BY DEF hangul_ime_input
<1> HIDE DEF x, r
<1>4. CASE \E i \in 0 .. 18 : x = Cho(i)
  <2>1. PICK i \in 0 .. 18 : x = Cho(i)
    BY <1>4
  <2>2. x.t = "cho" /\ x.i = i
    BY <2>1 DEF Cho
  <2>3. r = Consonant(m, i)
    <3>1. ~(key >= 64) /\ x.t # "none" /\ x.t # "jung"
      BY <1>2, <2>2
    <3> QED
      BY <1>2, <1>3, <2>2, <3>1
  <2>4. LET c == Consonant(m, i)
        IN  /\ c.m \in Compositions /\ Good(c.cp)
            /\ ~Stray(m) => Composed(m) \o <<Cho(i)>> = Given(c.cp) \o Composed(c.m)
    BY ConsonantSound
  <2>5. x.t # "none" /\ x \in Key
    BY <2>1, <2>2 DEF Key
  <2> QED
    BY <2>1, <2>3, <2>4, <2>5 DEF x, r
<1>5. CASE \E i \in 0 .. 20 : x = Jung(i)
  <2>1. PICK i \in 0 .. 20 : x = Jung(i)
    BY <1>5
  <2>2. x.t = "jung" /\ x.i = i
    BY <2>1 DEF Jung
  <2>3. r = Vowel(m, i)
    <3>1. ~(key >= 64) /\ x.t # "none" /\ x.t # "cho"
      BY <1>2, <2>2
    <3> QED
      BY <1>2, <1>3, <2>2, <3>1
  <2>4. LET c == Vowel(m, i)
        IN  /\ c.m \in Compositions /\ Good(c.cp)
            /\ ~Stray(m) => Composed(m) \o <<Jung(i)>> = Given(c.cp) \o Composed(c.m)
    BY VowelSound
  <2>5. x.t # "none" /\ x \in Key
    BY <2>1, <2>2 DEF Key
  <2> QED
    BY <2>1, <2>3, <2>4, <2>5 DEF x, r
<1> QED
  BY <1>1, <1>4, <1>5 DEF Jamos

-----------------------------------------------------------------------------
\* Bytes that are fed to the line.
Boxes(k) ==
  /\ DOMAIN k = {"ime", "lbuf", "line", "screen"}
  /\ k.lbuf \in Seq(Int) /\ Len(k.lbuf) <= LBUF_MAX
  /\ k.line.ready \in BOOLEAN

\* A byte that is not a command of the editor.
LEMMA FeedByte ==
  ASSUME NEW k, Boxes(k), NEW c \in Int, c \notin {8, 10, 13}
  PROVE  LET n == keyboard_readline_feed(k, c)
         IN  /\ Boxes(n) /\ n.ime = k.ime /\ n.line = k.line
             /\ k.line.ready => n = k
             /\ ~k.line.ready /\ Len(k.lbuf) < LBUF_MAX =>
                  n.lbuf = Append(k.lbuf, c) /\ n.screen = lkputchar(k.screen, c)
             /\ Len(k.lbuf) = LBUF_MAX => n = k
<1> DEFINE n == keyboard_readline_feed(k, c)
           e == [k EXCEPT !.lbuf = Append(@, c), !.screen = lkputchar(@, c)]
<1>1. /\ DOMAIN k = {"ime", "lbuf", "line", "screen"} /\ k.lbuf \in Seq(Int) /\ Len(k.lbuf) <= LBUF_MAX
      /\ k.line.ready \in BOOLEAN /\ Len(k.lbuf) \in Nat /\ LBUF_MAX \in Nat
  BY ConsoleAssumption DEF Boxes
<1>2. CASE k.line.ready
  <2>1. n = k
    BY <1>2 DEF keyboard_readline_feed
  <2> HIDE DEF n
  <2> QED
    BY <1>2, <2>1 DEF n
<1>3. CASE ~k.line.ready
  <2>1. n = IF Len(k.lbuf) < LBUF_MAX THEN e ELSE k
    <3>1. c \notin {10, 13} /\ c # 8
      OBVIOUS
    <3> QED
      BY <1>3, <3>1 DEF keyboard_readline_feed
  <2>2. /\ DOMAIN e = {"ime", "lbuf", "line", "screen"} /\ e.ime = k.ime /\ e.line = k.line
        /\ e.lbuf = Append(k.lbuf, c) /\ e.screen = lkputchar(k.screen, c)
    BY <1>1
  <2> HIDE DEF n, e
  <2>3. CASE Len(k.lbuf) < LBUF_MAX
    <3>1. n = e
      BY <2>1, <2>3
    <3>2. Append(k.lbuf, c) \in Seq(Int) /\ Len(Append(k.lbuf, c)) <= LBUF_MAX
      BY <1>1, <2>3
    <3>3. Boxes(n)
      BY <1>1, <2>2, <3>1, <3>2 DEF Boxes
    <3>4. Len(k.lbuf) # LBUF_MAX
      BY <1>1, <2>3
    <3> QED
      BY <1>3, <2>2, <3>1, <3>3, <3>4 DEF n
  <2>4. CASE ~(Len(k.lbuf) < LBUF_MAX)
    <3>1. n = k
      BY <2>1, <2>4
    <3> QED
      BY <2>4, <3>1 DEF n
  <2> QED
    BY <2>3, <2>4
<1> QED
  BY <1>1, <1>2, <1>3

\* Three bytes are fed one after the other.
LEMMA ThreeFed ==
  ASSUME NEW k, NEW b1, NEW b2, NEW b3
  PROVE  FeedBytes(k, <<b1, b2, b3>>) =
           keyboard_readline_feed(keyboard_readline_feed(keyboard_readline_feed(k, b1), b2), b3)
<1> DEFINE s == <<b1, b2, b3>>
           k1 == keyboard_readline_feed(k, b1)
           k2 == keyboard_readline_feed(k1, b2)
           k3 == keyboard_readline_feed(k2, b3)
           IsFed(f) == f = [n \in 0 .. Len(s) |-> IF n = 0 THEN k ELSE keyboard_readline_feed(f[n - 1], s[n])]
           g == [n \in 0 .. 3 |-> CASE n = 0 -> k [] n = 1 -> k1 [] n = 2 -> k2 [] OTHER -> k3]
           c == CHOOSE f : IsFed(f)
<1>1. Len(s) = 3 /\ s[1] = b1 /\ s[2] = b2 /\ s[3] = b3
  OBVIOUS
<1>2. FeedBytes(k, s) = c[Len(s)]
  BY DEF FeedBytes
<1> HIDE DEF s, k1, k2, k3
<1>3. DOMAIN g = 0 .. 3 /\ g[0] = k /\ g[1] = k1 /\ g[2] = k2 /\ g[3] = k3
  OBVIOUS
<1>4. g = [n \in 0 .. 3 |-> g[n]]
  OBVIOUS
<1> HIDE DEF g
<1>5. ASSUME NEW n \in 0 .. 3 PROVE g[n] = IF n = 0 THEN k ELSE keyboard_readline_feed(g[n - 1], s[n])
  <2>1. n = 0 \/ n = 1 \/ n = 2 \/ n = 3
    OBVIOUS
  <2>2. CASE n = 0
    BY <1>3, <2>2
  <2>3. CASE n = 1
    <3>1. n # 0 /\ n - 1 = 0 /\ g[n] = k1 /\ s[n] = b1
      BY <1>1, <1>3, <2>3
    <3> QED
      BY <1>3, <3>1 DEF k1
  <2>4. CASE n = 2
    <3>1. n # 0 /\ n - 1 = 1 /\ g[n] = k2 /\ s[n] = b2
      BY <1>1, <1>3, <2>4
    <3> QED
      BY <1>3, <3>1 DEF k2
  <2>5. CASE n = 3
    <3>1. n # 0 /\ n - 1 = 2 /\ g[n] = k3 /\ s[n] = b3
      BY <1>1, <1>3, <2>5
    <3> QED
      BY <1>3, <3>1 DEF k3
  <2> QED
    BY <2>1, <2>2, <2>3, <2>4, <2>5
<1>6. IsFed(g)
  BY <1>1, <1>4, <1>5
<1>7. IsFed(c)
  <2> HIDE DEF IsFed
  <2> QED
    BY <1>6
<1> HIDE DEF c
<1>8. \A n \in 0 .. 3 : c[n] = IF n = 0 THEN k ELSE keyboard_readline_feed(c[n - 1], s[n])
  BY <1>1, <1>7
<1>9. c[3] = k3
  <2>1. 0 \in 0 .. 3 /\ 1 \in 0 .. 3 /\ 2 \in 0 .. 3 /\ 3 \in 0 .. 3 /\ 1 - 1 = 0 /\ 2 - 1 = 1 /\ 3 - 1 = 2
        /\ 1 # 0 /\ 2 # 0 /\ 3 # 0
    OBVIOUS
  <2>2. c[0] = k
    BY <1>8, <2>1
  <2>3. c[1] = k1
    BY <1>1, <1>8, <2>1, <2>2 DEF k1
  <2>4. c[2] = k2
    BY <1>1, <1>8, <2>1, <2>3 DEF k2
  <2> QED
    BY <1>1, <1>8, <2>1, <2>4 DEF k3
<1> QED
  BY <1>1, <1>2, <1>9 DEF s, k1, k2, k3

LEMMA FeedSign ==
  ASSUME NEW k, Boxes(k), NEW b1 \in Int, NEW b2 \in Int, NEW b3 \in Int, IsSign(b1, b2, b3)
  PROVE  LET n == FeedBytes(k, <<b1, b2, b3>>)
         IN  /\ Boxes(n) /\ n.ime = k.ime /\ n.line = k.line
             /\ k.line.ready => n = k
             /\ ~k.line.ready /\ Len(n.lbuf) < LBUF_MAX =>
                  /\ n.lbuf = ThreeMore(k.lbuf, b1, b2, b3)
                  /\ n.screen = lkputchar(lkputchar(lkputchar(k.screen, b1), b2), b3)
<1> DEFINE k1 == keyboard_readline_feed(k, b1)
           k2 == keyboard_readline_feed(k1, b2)
           k3 == keyboard_readline_feed(k2, b3)
<1>1. b1 \notin {8, 10, 13} /\ b2 \notin {8, 10, 13} /\ b3 \notin {8, 10, 13}
  BY DEF IsSign, Lead, Continues
<1>2. FeedBytes(k, <<b1, b2, b3>>) = k3
  BY ThreeFed
<1>3. /\ Boxes(k1) /\ k1.ime = k.ime /\ k1.line = k.line
      /\ k.line.ready => k1 = k
      /\ ~k.line.ready /\ Len(k.lbuf) < LBUF_MAX =>
           k1.lbuf = Append(k.lbuf, b1) /\ k1.screen = lkputchar(k.screen, b1)
      /\ Len(k.lbuf) = LBUF_MAX => k1 = k
  BY <1>1, FeedByte
<1> HIDE DEF k1
<1>4. /\ Boxes(k2) /\ k2.ime = k1.ime /\ k2.line = k1.line
      /\ k1.line.ready => k2 = k1
      /\ ~k1.line.ready /\ Len(k1.lbuf) < LBUF_MAX =>
           k2.lbuf = Append(k1.lbuf, b2) /\ k2.screen = lkputchar(k1.screen, b2)
      /\ Len(k1.lbuf) = LBUF_MAX => k2 = k1
  BY <1>1, <1>3, FeedByte
<1> HIDE DEF k2
<1>5. /\ Boxes(k3) /\ k3.ime = k2.ime /\ k3.line = k2.line
      /\ k2.line.ready => k3 = k2
      /\ ~k2.line.ready /\ Len(k2.lbuf) < LBUF_MAX =>
           k3.lbuf = Append(k2.lbuf, b3) /\ k3.screen = lkputchar(k2.screen, b3)
      /\ Len(k2.lbuf) = LBUF_MAX => k3 = k2
  BY <1>1, <1>4, FeedByte
<1> HIDE DEF k3
<1>6. /\ Len(k.lbuf) \in Nat /\ Len(k.lbuf) <= LBUF_MAX
      /\ Len(k1.lbuf) \in Nat /\ Len(k1.lbuf) <= LBUF_MAX
      /\ Len(k2.lbuf) \in Nat /\ Len(k2.lbuf) <= LBUF_MAX
      /\ LBUF_MAX \in Nat
  BY <1>3, <1>4, ConsoleAssumption, SMTT(30) DEF Boxes
<1>7. Boxes(k3) /\ k3.ime = k.ime /\ k3.line = k.line /\ (k.line.ready => k3 = k)
  BY <1>3, <1>4, <1>5
<1>8. ASSUME ~k.line.ready, Len(k3.lbuf) < LBUF_MAX
      PROVE  /\ k3.lbuf = ThreeMore(k.lbuf, b1, b2, b3)
             /\ k3.screen = lkputchar(lkputchar(lkputchar(k.screen, b1), b2), b3)
  <2>1. ~k1.line.ready /\ ~k2.line.ready
    BY <1>3, <1>4, <1>8
  <2>2. Len(k2.lbuf) # LBUF_MAX
    BY <1>5, <1>6, <1>8
  <2>3. Len(k1.lbuf) # LBUF_MAX
    BY <1>4, <1>6, <2>2
  <2>4. Len(k.lbuf) # LBUF_MAX
    BY <1>3, <1>6, <2>3
  <2>5. Len(k.lbuf) < LBUF_MAX /\ Len(k1.lbuf) < LBUF_MAX /\ Len(k2.lbuf) < LBUF_MAX
    BY <1>6, <2>2, <2>3, <2>4
  <2>6. /\ k1.lbuf = Append(k.lbuf, b1) /\ k2.lbuf = Append(k1.lbuf, b2) /\ k3.lbuf = Append(k2.lbuf, b3)
        /\ k1.screen = lkputchar(k.screen, b1) /\ k2.screen = lkputchar(k1.screen, b2)
        /\ k3.screen = lkputchar(k2.screen, b3)
    BY <1>3, <1>4, <1>5, <1>8, <2>1, <2>5
  <2> QED
    BY <2>6 DEF ThreeMore
<1> QED
  BY <1>2, <1>7, <1>8

\* A code point that is fed while the line has room is added to what it stands for.
LEMMA FeedCharSound ==
  ASSUME NEW k, Boxes(k), NEW cp, Good(cp)
  PROVE  LET n == FeedChar(k, cp)
         IN  /\ Boxes(n) /\ n.ime = k.ime /\ n.line = k.line
             /\ k.line.ready \/ cp = 0 => n = k
             /\ ~k.line.ready /\ Len(n.lbuf) < LBUF_MAX /\ IsText(k.lbuf) =>
                  IsText(n.lbuf) /\ Keys(n.lbuf) = Keys(k.lbuf) \o Given(cp)
<1> DEFINE n == FeedChar(k, cp)
<1>1. CASE cp = 0
  <2>1. n = k
    BY <1>1 DEF FeedChar
  <2>2. Given(cp) = <<>>
    BY <1>1 DEF Given
  <2>3. IsText(k.lbuf) => Keys(k.lbuf) \o <<>> = Keys(k.lbuf)
    <3> SUFFICES ASSUME IsText(k.lbuf) PROVE Keys(k.lbuf) \o <<>> = Keys(k.lbuf)
      OBVIOUS
    <3>1. Text(k.lbuf) \in Readings
      BY TextSound
    <3>2. Keys(k.lbuf) \in Seq(Key)
      BY <3>1 DEF Keys, Readings
    <3> QED
      BY <3>2, ConcatEmptySeq
  <2> HIDE DEF n
  <2> QED
    BY <2>1, <2>2, <2>3 DEF n
<1>2. CASE cp # 0
  <2>1. cp \in Signs /\ Given(cp) = Jamo(cp)
    BY <1>2, SignsSound DEF Good
  <2>2. PICK b1, b2, b3 \in Int : unicode_to_utf8(cp) = <<b1, b2, b3>> /\ IsSign(b1, b2, b3) /\ Value(b1, b2, b3) = cp
    BY <2>1, BytesSound
  <2>3. n = FeedBytes(k, <<b1, b2, b3>>)
    BY <1>2, <2>2 DEF FeedChar
  <2> HIDE DEF n
  <2>4. /\ Boxes(n) /\ n.ime = k.ime /\ n.line = k.line
        /\ k.line.ready => n = k
        /\ ~k.line.ready /\ Len(n.lbuf) < LBUF_MAX => n.lbuf = ThreeMore(k.lbuf, b1, b2, b3)
    BY <2>2, <2>3, FeedSign
  <2>5. ASSUME IsText(k.lbuf), n.lbuf = ThreeMore(k.lbuf, b1, b2, b3)
        PROVE  IsText(n.lbuf) /\ Keys(n.lbuf) = Keys(k.lbuf) \o Given(cp)
    <3> DEFINE s == k.lbuf
    <3>1. IsText(ThreeMore(s, b1, b2, b3))
      BY <2>2, <2>5, TextGrows
    <3>2. Text(ThreeMore(s, b1, b2, b3)) = Said(Text(s), cp)
      BY <2>2, <2>5, TextSound
    <3>3. Keys(ThreeMore(s, b1, b2, b3)) = Keys(s) \o Jamo(cp)
      BY <3>2 DEF Keys, Said
    <3> QED
      BY <2>1, <2>5, <3>1, <3>3
  <2> QED
    BY <1>2, <2>4, <2>5 DEF n
<1> QED
  BY <1>1, <1>2

\* A plain byte that is fed while the line has room is added.
LEMMA FeedPlainSound ==
  ASSUME NEW k, Boxes(k), NEW c, Plain(c)
  PROVE  LET n == keyboard_readline_feed(k, c)
         IN  /\ Boxes(n) /\ n.ime = k.ime /\ n.line = k.line
             /\ k.line.ready => n = k
             /\ ~k.line.ready /\ Len(n.lbuf) < LBUF_MAX /\ IsText(k.lbuf) =>
                  IsText(n.lbuf) /\ Keys(n.lbuf) = Append(Keys(k.lbuf), c) /\ Keys(k.lbuf) \in Seq(Key)
<1> DEFINE n == keyboard_readline_feed(k, c)
<1>1. c \in Int /\ c \notin {8, 10, 13} /\ c \in 1 .. 127
  BY DEF Plain
<1>2. /\ Boxes(n) /\ n.ime = k.ime /\ n.line = k.line
      /\ k.line.ready => n = k
      /\ ~k.line.ready /\ Len(k.lbuf) < LBUF_MAX => n.lbuf = Append(k.lbuf, c)
      /\ Len(k.lbuf) = LBUF_MAX => n = k
  BY <1>1, FeedByte
<1> HIDE DEF n
<1>3. ASSUME ~k.line.ready, Len(n.lbuf) < LBUF_MAX, IsText(k.lbuf)
      PROVE  IsText(n.lbuf) /\ Keys(n.lbuf) = Append(Keys(k.lbuf), c) /\ Keys(k.lbuf) \in Seq(Key)
  <2>1. Len(k.lbuf) \in Nat /\ Len(k.lbuf) <= LBUF_MAX /\ LBUF_MAX \in Nat
    BY ConsoleAssumption DEF Boxes
  <2>2. Len(k.lbuf) # LBUF_MAX
    BY <1>2, <1>3, <2>1
  <2>3. n.lbuf = Append(k.lbuf, c)
    BY <1>2, <1>3, <2>1, <2>2
  <2>4. IsText(Append(k.lbuf, c))
    BY <1>1, <1>3, TextGrows
  <2>5. Text(k.lbuf) \in Readings /\ Text(Append(k.lbuf, c)) = Said(Text(k.lbuf), c)
    BY <1>1, <1>3, TextSound
  <2>6. Jamo(c) = <<c>> /\ c \in Key
    BY <1>1, JamoPlain DEF Key
  <2>7. Keys(Append(k.lbuf, c)) = Keys(k.lbuf) \o <<c>> /\ Keys(k.lbuf) \in Seq(Key)
    BY <2>5, <2>6, SMTT(30) DEF Keys, Said, Readings
  <2>8. Append(Keys(k.lbuf), c) = Keys(k.lbuf) \o <<c>>
    BY <2>6, <2>7, AppendIsConcat
  <2> QED
    BY <2>3, <2>4, <2>7, <2>8
<1> QED
  BY <1>2, <1>3 DEF n

\* Backspace takes the last character, with the keys that it stands for.
LEMMA FeedBackspace ==
  ASSUME NEW k, Boxes(k)
  PROVE  LET n == keyboard_readline_feed(k, 8)
             s == k.lbuf
             last == SubSeq(s, CharStart(s), Len(s))
         IN  /\ Boxes(n) /\ n.ime = k.ime /\ n.line = k.line
             /\ k.line.ready \/ s = <<>> => n = k
             /\ ~k.line.ready /\ s # <<>> /\ IsText(s) =>
                  /\ IsText(n.lbuf) /\ Keys(n.lbuf) \in Seq(Key) /\ Keys(last) \in Seq(Key)
                  /\ Keys(s) = Keys(n.lbuf) \o Keys(last)
<1> DEFINE n == keyboard_readline_feed(k, 8)
           s == k.lbuf
           last == SubSeq(s, CharStart(s), Len(s))
           e == [k EXCEPT !.lbuf = Shorter(@), !.screen = EraseChar(@, k.lbuf[CharStart(k.lbuf)])]
<1>1. /\ DOMAIN k = {"ime", "lbuf", "line", "screen"} /\ s \in Seq(Int) /\ Len(s) <= LBUF_MAX
      /\ k.line.ready \in BOOLEAN /\ Len(s) \in Nat /\ LBUF_MAX \in Nat
  BY ConsoleAssumption DEF Boxes
<1>2. CASE k.line.ready
  <2>1. n = k
    BY <1>2 DEF keyboard_readline_feed
  <2> HIDE DEF n
  <2> QED
    BY <1>2, <2>1 DEF n
<1>3. CASE ~k.line.ready /\ s = <<>>
  <2>1. n = k
    BY <1>3 DEF keyboard_readline_feed
  <2> HIDE DEF n
  <2> QED
    BY <1>3, <2>1 DEF n
<1>4. CASE ~k.line.ready /\ s # <<>>
  <2>1. n = e
    BY <1>4 DEF keyboard_readline_feed
  <2>2. DOMAIN e = {"ime", "lbuf", "line", "screen"} /\ e.ime = k.ime /\ e.line = k.line /\ e.lbuf = Shorter(s)
    BY <1>1
  <2> HIDE DEF n, e
  <2>3. Shorter(s) \in Seq(Int) /\ Len(Shorter(s)) <= Len(s)
    <3> DEFINE m == CharStart(s) - 1
    <3>1. CharStart(s) \in 1 .. Len(s)
      BY <1>1, <1>4, StartExists DEF IsStart
    <3>2. m \in 0 .. Len(s)
      BY <1>1, <3>1
    <3> HIDE DEF m
    <3>3. SubSeq(s, 1, m) \in Seq(Int) /\ Len(SubSeq(s, 1, m)) = m
      BY <1>1, <3>2
    <3> QED
      BY <1>1, <3>2, <3>3 DEF Shorter, m
  <2>4. Boxes(n)
    <3>1. Len(Shorter(s)) \in Nat
      BY <2>3
    <3>2. Len(Shorter(s)) <= LBUF_MAX
      BY <1>1, <2>3, <3>1
    <3> QED
      BY <1>1, <2>1, <2>2, <2>3, <3>2 DEF Boxes
  <2>5. ASSUME IsText(s)
        PROVE  /\ IsText(n.lbuf) /\ Keys(n.lbuf) \in Seq(Key) /\ Keys(last) \in Seq(Key)
               /\ Keys(s) = Keys(n.lbuf) \o Keys(last)
    <3> DEFINE r == Shorter(s)
    <3>1. n.lbuf = r
      BY <2>1, <2>2
    <3>2. IsText(r)
      BY <1>4, <2>5, LastChar
    <3>3. \/ \E b \in Int : Plain(b) /\ s = Append(r, b) /\ last = <<b>>
          \/ \E b1, b2, b3 \in Int : IsSign(b1, b2, b3) /\ s = ThreeMore(r, b1, b2, b3) /\ last = <<b1, b2, b3>>
      <4> HIDE DEF s
      <4> QED
        BY <1>4, <2>5, LastChar, Zenon
    <3> HIDE DEF r, last, s
    <3>4. Text(r) \in Readings /\ Keys(r) \in Seq(Key)
      BY <3>2, TextSound DEF Keys, Readings
    <3>5. IsText(<<>>) /\ Text(<<>>) \in Readings /\ Text(<<>>).keys = <<>>
      BY EmptyText, TextEmpty, TextSound DEF NoText
    <3>6. ASSUME NEW b \in Int, Plain(b), s = Append(r, b), last = <<b>>
          PROVE  Keys(last) \in Seq(Key) /\ Keys(s) = Keys(r) \o Keys(last)
      <4>1. Jamo(b) = <<b>> /\ b \in Key /\ <<b>> \in Seq(Key)
        <5>1. b \in 1 .. 127
          BY <3>6 DEF Plain
        <5>2. Jamo(b) = <<b>> /\ b \in Key
          BY <5>1, JamoPlain DEF Key
        <5> QED
          BY <5>2
      <4> DEFINE a == Text(r)
      <4>7. Text(s) = Said(a, b)
        BY <3>2, <3>6, TextSound
      <4> HIDE DEF a
      <4>8. Said(a, b).keys = a.keys \o <<b>>
        BY <4>1, SaidKeys
      <4>2. Keys(s) = Keys(r) \o <<b>>
        BY <4>7, <4>8 DEF Keys, a
      <4>3. <<b>> = Append(<<>>, b)
        OBVIOUS
      <4>4. Text(last) = Said(Text(<<>>), b)
        BY <3>5, <3>6, <4>3, TextSound
      <4> DEFINE e0 == Text(<<>>)
      <4>9. e0.keys = <<>> /\ Text(last) = Said(e0, b)
        BY <3>5, <4>4
      <4> HIDE DEF e0
      <4>10. Said(e0, b).keys = e0.keys \o <<b>>
        BY <4>1, SaidKeys
      <4>5. Keys(last) = <<>> \o <<b>>
        BY <4>9, <4>10 DEF Keys
      <4>6. <<>> \o <<b>> = <<b>>
        BY <4>1, ConcatEmptySeq
      <4> QED
        BY <4>1, <4>2, <4>5, <4>6
    <3>7. ASSUME NEW b1 \in Int, NEW b2 \in Int, NEW b3 \in Int, IsSign(b1, b2, b3),
                 s = ThreeMore(r, b1, b2, b3), last = <<b1, b2, b3>>
          PROVE  Keys(last) \in Seq(Key) /\ Keys(s) = Keys(r) \o Keys(last)
      <4> DEFINE cp == Value(b1, b2, b3)
      <4>1. Jamo(cp) \in Seq(Key)
        BY <3>7, SignsSound DEF IsSign
      <4> DEFINE a == Text(r)
      <4>7. Text(s) = Said(a, cp)
        BY <3>2, <3>7, TextSound
      <4> HIDE DEF a, cp
      <4>8. Said(a, cp).keys = a.keys \o Jamo(cp)
        BY SaidKeys
      <4>2. Keys(s) = Keys(r) \o Jamo(cp)
        BY <4>7, <4>8 DEF Keys, a
      <4>3. <<b1, b2, b3>> = ThreeMore(<<>>, b1, b2, b3)
        BY DEF ThreeMore
      <4>4. Text(last) = Said(Text(<<>>), cp)
        BY <3>5, <3>7, <4>3, TextSound DEF cp
      <4> DEFINE e0 == Text(<<>>)
      <4>9. e0.keys = <<>> /\ Text(last) = Said(e0, cp)
        BY <3>5, <4>4
      <4> HIDE DEF e0
      <4>10. Said(e0, cp).keys = e0.keys \o Jamo(cp)
        BY SaidKeys
      <4>5. Keys(last) = <<>> \o Jamo(cp)
        BY <4>9, <4>10 DEF Keys
      <4>6. <<>> \o Jamo(cp) = Jamo(cp)
        BY <4>1, ConcatEmptySeq
      <4> QED
        BY <4>1, <4>2, <4>5, <4>6
    <3>8. Keys(last) \in Seq(Key) /\ Keys(s) = Keys(r) \o Keys(last)
      BY <3>3, <3>6, <3>7
    <3> QED
      BY <3>1, <3>2, <3>4, <3>8
  <2> QED
    BY <1>4, <2>1, <2>2, <2>4, <2>5 DEF n
<1> QED
  BY <1>1, <1>2, <1>3, <1>4

\* Enter hands over the line.
LEMMA FeedEnter ==
  ASSUME NEW k, Boxes(k)
  PROVE  LET n == keyboard_readline_feed(k, 10)
         IN  /\ Boxes(n) /\ n.ime = k.ime
             /\ k.line.ready => n = k
             /\ ~k.line.ready => n.lbuf = <<>> /\ n.line = [buf |-> k.lbuf, ready |-> TRUE]
<1> DEFINE n == keyboard_readline_feed(k, 10)
           e == [k EXCEPT !.line = [buf |-> k.lbuf, ready |-> TRUE], !.lbuf = <<>>, !.screen = lkputchar(@, 10)]
<1>1. DOMAIN k = {"ime", "lbuf", "line", "screen"} /\ k.line.ready \in BOOLEAN /\ LBUF_MAX \in Nat
  BY ConsoleAssumption DEF Boxes
<1>2. CASE k.line.ready
  <2>1. n = k
    BY <1>2 DEF keyboard_readline_feed
  <2> HIDE DEF n
  <2> QED
    BY <1>2, <2>1 DEF n
<1>3. CASE ~k.line.ready
  <2>1. n = e
    BY <1>3 DEF keyboard_readline_feed
  <2>2. /\ DOMAIN e = {"ime", "lbuf", "line", "screen"} /\ e.ime = k.ime /\ e.lbuf = <<>>
        /\ e.line = [buf |-> k.lbuf, ready |-> TRUE]
    BY <1>1
  <2> HIDE DEF n, e
  <2>3. Boxes(e)
    BY <1>1, <2>2 DEF Boxes
  <2> QED
    BY <1>3, <2>1, <2>2, <2>3 DEF n
<1> QED
  BY <1>1, <1>2, <1>3

-----------------------------------------------------------------------------
\* The input method of the keyboard: no syllable in English mode.
Ime == {i \in [m : Compositions, active : BOOLEAN] : i.active \/ i.m = Nothing}

\* The boxes as a record.
IsBoxes(k) == k = [ime |-> k.ime, lbuf |-> k.lbuf, line |-> k.line, screen |-> k.screen]

\* The boxes with another composition.
LEMMA WithComposition ==
  ASSUME NEW k, Boxes(k), k.ime \in Ime, NEW m \in Compositions
  PROVE  LET n == [k EXCEPT !.ime.m = m]
         IN  /\ Boxes(n) /\ n.ime = [m |-> m, active |-> k.ime.active] /\ n.lbuf = k.lbuf /\ n.line = k.line
             /\ m = Nothing \/ k.ime.active => n.ime \in Ime
             /\ m = k.ime.m /\ IsBoxes(k) => n = k
<1> DEFINE n == [k EXCEPT !.ime.m = m]
<1>1. DOMAIN k = {"ime", "lbuf", "line", "screen"} /\ DOMAIN k.ime = {"m", "active"} /\ k.ime.active \in BOOLEAN
  BY DEF Boxes, Ime
<1>2. DOMAIN n = DOMAIN k /\ n.lbuf = k.lbuf /\ n.line = k.line /\ n.screen = k.screen
  BY <1>1
<1>3. n.ime = [k.ime EXCEPT !.m = m]
  BY <1>1
<1>4. [k.ime EXCEPT !.m = m] = [m |-> m, active |-> k.ime.active]
  BY <1>1
<1>5. Boxes(n)
  BY <1>2 DEF Boxes
<1>6. m = Nothing \/ k.ime.active => n.ime \in Ime
  BY <1>1, <1>3, <1>4 DEF Ime
<1>7. ASSUME m = k.ime.m, IsBoxes(k)
      PROVE  n = k
  <2>1. k.ime = [m |-> k.ime.m, active |-> k.ime.active]
    BY DEF Ime
  <2>2. n = [ime |-> [k.ime EXCEPT !.m = m], lbuf |-> k.lbuf, line |-> k.line, screen |-> k.screen]
    BY <1>7 DEF IsBoxes
  <2>3. [k.ime EXCEPT !.m = m] = k.ime
    BY <1>4, <1>7, <2>1
  <2> QED
    BY <1>7, <2>2, <2>3 DEF IsBoxes
<1> QED
  BY <1>2, <1>3, <1>4, <1>5, <1>6, <1>7

\* A flush puts what is being composed at the end of the line.
LEMMA FeedFlushSound ==
  ASSUME NEW k, Boxes(k), k.ime \in Ime
  PROVE  LET n == FeedFlush(k)
         IN  /\ Boxes(n) /\ n.ime = [m |-> Nothing, active |-> k.ime.active] /\ n.line = k.line /\ n.ime \in Ime
             /\ k.line.ready => n.lbuf = k.lbuf
             /\ k.ime.m = Nothing /\ IsBoxes(k) => n = k
             /\ ~k.line.ready /\ Len(n.lbuf) < LBUF_MAX /\ IsText(k.lbuf) /\ ~Unfinished(k.ime.m) =>
                  IsText(n.lbuf) /\ Keys(n.lbuf) = Keys(k.lbuf) \o Composed(k.ime.m)
<1> DEFINE f == hangul_ime_flush(k.ime.m)
           k1 == [k EXCEPT !.ime.m = f.m]
           n == FeedChar(k1, f.cp)
<1>1. k.ime.m \in Compositions
  BY DEF Ime
<1>2. /\ f.m = Nothing /\ Good(f.cp) /\ Nothing \in Compositions
      /\ k.ime.m = Nothing => f.cp = 0
      /\ ~Unfinished(k.ime.m) => Composed(k.ime.m) = Given(f.cp)
  BY <1>1, FlushSound
<1>3. FeedFlush(k) = n
  BY DEF FeedFlush
<1> HIDE DEF f
<1>4. /\ Boxes(k1) /\ k1.ime = [m |-> Nothing, active |-> k.ime.active] /\ k1.lbuf = k.lbuf /\ k1.line = k.line
      /\ k1.ime \in Ime
      /\ k.ime.m = Nothing /\ IsBoxes(k) => k1 = k
  BY <1>2, WithComposition
<1> HIDE DEF k1
<1>5. /\ Boxes(n) /\ n.ime = k1.ime /\ n.line = k1.line
      /\ k1.line.ready \/ f.cp = 0 => n = k1
      /\ ~k1.line.ready /\ Len(n.lbuf) < LBUF_MAX /\ IsText(k1.lbuf) =>
           IsText(n.lbuf) /\ Keys(n.lbuf) = Keys(k1.lbuf) \o Given(f.cp)
  BY <1>2, <1>4, FeedCharSound
<1> HIDE DEF n
<1> QED
  BY <1>2, <1>3, <1>4, <1>5

\* The line and the composition, as the keys that they stand for.
Kept(k) == Keys(k.lbuf) \o Composed(k.ime.m)

\* A flush and a plain byte: the space bar and the arrows, and every letter in English mode.
LEMMA FlushedByte ==
  ASSUME NEW k, Boxes(k), k.ime \in Ime, NEW c, Plain(c)
  PROVE  LET n == keyboard_readline_feed(FeedFlush(k), c)
         IN  /\ Boxes(n) /\ n.ime \in Ime /\ n.line = k.line
             /\ k.line.ready /\ k.ime.m = Nothing /\ IsBoxes(k) => n = k
             /\ ~k.line.ready /\ Len(n.lbuf) < LBUF_MAX /\ IsText(k.lbuf) /\ ~Unfinished(k.ime.m) =>
                  IsText(n.lbuf) /\ Kept(n) = Append(Kept(k), c)
<1> DEFINE f == FeedFlush(k)
           n == keyboard_readline_feed(f, c)
<1>1. /\ Boxes(f) /\ f.ime = [m |-> Nothing, active |-> k.ime.active] /\ f.line = k.line /\ f.ime \in Ime
      /\ k.ime.m = Nothing /\ IsBoxes(k) => f = k
      /\ ~k.line.ready /\ Len(f.lbuf) < LBUF_MAX /\ IsText(k.lbuf) /\ ~Unfinished(k.ime.m) =>
           IsText(f.lbuf) /\ Keys(f.lbuf) = Keys(k.lbuf) \o Composed(k.ime.m)
  BY FeedFlushSound
<1> HIDE DEF f
<1>2. /\ Boxes(n) /\ n.ime = f.ime /\ n.line = f.line
      /\ f.line.ready => n = f
      /\ ~f.line.ready /\ Len(n.lbuf) < LBUF_MAX /\ IsText(f.lbuf) =>
           IsText(n.lbuf) /\ Keys(n.lbuf) = Append(Keys(f.lbuf), c) /\ Keys(f.lbuf) \in Seq(Key)
  BY <1>1, FeedPlainSound
<1>3. c \in Int /\ c \notin {8, 10, 13} /\ c \in Key
  BY DEF Plain, Key
<1>4. Len(f.lbuf) = LBUF_MAX => n = f
  BY <1>1, <1>3, FeedByte
<1> HIDE DEF n
<1>5. ASSUME ~k.line.ready, Len(n.lbuf) < LBUF_MAX, IsText(k.lbuf), ~Unfinished(k.ime.m)
      PROVE  IsText(n.lbuf) /\ Kept(n) = Append(Kept(k), c)
  <2>1. Len(f.lbuf) < LBUF_MAX
    <3>1. f.lbuf \in Seq(Int) /\ Len(f.lbuf) <= LBUF_MAX /\ LBUF_MAX \in Nat
      BY <1>1, ConsoleAssumption DEF Boxes
    <3>2. Len(f.lbuf) # LBUF_MAX
      BY <1>4, <1>5, <3>1
    <3>3. Len(f.lbuf) \in Nat
      BY <3>1
    <3> QED
      BY <3>1, <3>2, <3>3
  <2>2. IsText(f.lbuf) /\ Keys(f.lbuf) = Kept(k)
    BY <1>1, <1>5, <2>1 DEF Kept
  <2>3. IsText(n.lbuf) /\ Keys(n.lbuf) = Append(Kept(k), c) /\ Kept(k) \in Seq(Key)
    BY <1>1, <1>2, <1>5, <2>2
  <2>4. n.ime.m = Nothing
    BY <1>1, <1>2
  <2>5. Composed(n.ime.m) = <<>>
    BY <1>1, <1>2, <2>4, ComposedSound DEF Ime
  <2>6. Append(Kept(k), c) \in Seq(Key)
    BY <1>3, <2>3
  <2>7. Append(Kept(k), c) \o <<>> = Append(Kept(k), c)
    BY <2>6, ConcatEmptySeq
  <2> QED
    BY <2>3, <2>5, <2>7 DEF Kept
<1> QED
  BY <1>1, <1>2, <1>5 DEF f, n

\* Enter ends the syllable and the line.
LEMMA FlushedEnter ==
  ASSUME NEW k, Boxes(k), k.ime \in Ime
  PROVE  LET f == FeedFlush(k)
             n == keyboard_readline_feed(f, 10)
         IN  /\ Boxes(n) /\ n.ime \in Ime
             /\ k.line.ready => n.line = k.line /\ n.lbuf = k.lbuf
             /\ k.line.ready /\ k.ime.m = Nothing /\ IsBoxes(k) => n = k
             /\ ~k.line.ready => /\ n.line \in [buf : Seq(Int), ready : BOOLEAN] /\ n.line.ready
                                 /\ n.lbuf = <<>> /\ n.ime.m = Nothing
             /\ ~k.line.ready /\ Len(n.line.buf) < LBUF_MAX /\ IsText(k.lbuf) /\ ~Unfinished(k.ime.m) =>
                  Keys(n.line.buf) = Kept(k)
<1> DEFINE f == FeedFlush(k)
           n == keyboard_readline_feed(f, 10)
<1>1. /\ Boxes(f) /\ f.ime = [m |-> Nothing, active |-> k.ime.active] /\ f.line = k.line /\ f.ime \in Ime
      /\ k.line.ready => f.lbuf = k.lbuf
      /\ k.ime.m = Nothing /\ IsBoxes(k) => f = k
      /\ ~k.line.ready /\ Len(f.lbuf) < LBUF_MAX /\ IsText(k.lbuf) /\ ~Unfinished(k.ime.m) =>
           IsText(f.lbuf) /\ Keys(f.lbuf) = Keys(k.lbuf) \o Composed(k.ime.m)
  BY FeedFlushSound
<1> HIDE DEF f
<1>2. /\ Boxes(n) /\ n.ime = f.ime
      /\ f.line.ready => n = f
      /\ ~f.line.ready => n.lbuf = <<>> /\ n.line = [buf |-> f.lbuf, ready |-> TRUE]
  BY <1>1, FeedEnter
<1> HIDE DEF n
<1>3. f.lbuf \in Seq(Int)
  BY <1>1 DEF Boxes
<1>4. ASSUME ~k.line.ready
      PROVE  /\ n.line \in [buf : Seq(Int), ready : BOOLEAN] /\ n.line.ready /\ n.line.buf = f.lbuf
             /\ n.lbuf = <<>> /\ n.ime.m = Nothing
  <2>1. n.lbuf = <<>> /\ n.line = [buf |-> f.lbuf, ready |-> TRUE]
    BY <1>1, <1>2, <1>4
  <2>2. n.ime = [m |-> Nothing, active |-> k.ime.active]
    BY <1>1, <1>2
  <2>3. [buf |-> f.lbuf, ready |-> TRUE] \in [buf : Seq(Int), ready : BOOLEAN]
    BY <1>3
  <2> QED
    BY <2>1, <2>2, <2>3
<1>5. ASSUME ~k.line.ready, Len(n.line.buf) < LBUF_MAX, IsText(k.lbuf), ~Unfinished(k.ime.m)
      PROVE  Keys(n.line.buf) = Kept(k)
  BY <1>1, <1>4, <1>5 DEF Kept
<1> QED
  BY <1>1, <1>2, <1>4, <1>5 DEF f, n

\* Backspace: the syllable that is being composed, or the last character.
Erased(k) ==
  LET f == hangul_ime_flush(k.ime.m)
      e == [k EXCEPT !.ime.m = f.m]
  IN  IF f.cp = 0 THEN keyboard_readline_feed(e, 8) ELSE e
LastSign(s) == SubSeq(s, CharStart(s), Len(s))

LEMMA FlushedBackspace ==
  ASSUME NEW k, Boxes(k), k.ime \in Ime
  PROVE  LET n == Erased(k)
         IN  /\ Boxes(n) /\ n.ime \in Ime /\ n.ime.m = Nothing /\ n.line = k.line
             /\ k.line.ready => n.lbuf = k.lbuf
             /\ k.line.ready /\ k.ime.m = Nothing /\ IsBoxes(k) => n = k
             /\ ~k.line.ready /\ IsText(k.lbuf) /\ ~Unfinished(k.ime.m) =>
                  /\ IsText(n.lbuf)
                  /\ k.ime.m # Nothing => n.lbuf = k.lbuf
                  /\ k.ime.m = Nothing /\ k.lbuf = <<>> => n.lbuf = <<>>
                  /\ k.ime.m = Nothing /\ k.lbuf # <<>> =>
                       /\ Keys(n.lbuf) \in Seq(Key) /\ Keys(LastSign(k.lbuf)) \in Seq(Key)
                       /\ Keys(k.lbuf) = Keys(n.lbuf) \o Keys(LastSign(k.lbuf))
<1> DEFINE f == hangul_ime_flush(k.ime.m)
           e == [k EXCEPT !.ime.m = f.m]
           b == keyboard_readline_feed(e, 8)
           n == Erased(k)
<1>1. k.ime.m \in Compositions
  BY DEF Ime
<1>2. /\ f.m = Nothing /\ Nothing \in Compositions
      /\ k.ime.m = Nothing => f.cp = 0
      /\ ~Unfinished(k.ime.m) /\ k.ime.m # Nothing => f.cp # 0
  BY <1>1, FlushSound
<1>3. n = IF f.cp = 0 THEN b ELSE e
  BY DEF Erased
<1> HIDE DEF f
<1>4. /\ Boxes(e) /\ e.ime = [m |-> Nothing, active |-> k.ime.active] /\ e.lbuf = k.lbuf /\ e.line = k.line
      /\ e.ime \in Ime
      /\ k.ime.m = Nothing /\ IsBoxes(k) => e = k
  BY <1>2, WithComposition
<1> HIDE DEF e
<1>5. /\ Boxes(b) /\ b.ime = e.ime /\ b.line = e.line
      /\ e.line.ready \/ e.lbuf = <<>> => b = e
      /\ ~e.line.ready /\ e.lbuf # <<>> /\ IsText(e.lbuf) =>
           /\ IsText(b.lbuf) /\ Keys(b.lbuf) \in Seq(Key) /\ Keys(LastSign(e.lbuf)) \in Seq(Key)
           /\ Keys(e.lbuf) = Keys(b.lbuf) \o Keys(LastSign(e.lbuf))
  BY <1>4, FeedBackspace DEF LastSign
<1> HIDE DEF b, n
<1>6. Boxes(n) /\ n.ime \in Ime /\ n.ime.m = Nothing /\ n.line = k.line
  BY <1>3, <1>4, <1>5
<1>7. k.line.ready => n.lbuf = k.lbuf
  BY <1>3, <1>4, <1>5
<1>8. k.line.ready /\ k.ime.m = Nothing /\ IsBoxes(k) => n = k
  BY <1>3, <1>4, <1>5
<1>9. ASSUME ~k.line.ready, IsText(k.lbuf), ~Unfinished(k.ime.m), k.ime.m # Nothing
      PROVE  IsText(n.lbuf) /\ n.lbuf = k.lbuf
  BY <1>2, <1>3, <1>4, <1>9
<1>10. ASSUME ~k.line.ready, IsText(k.lbuf), k.ime.m = Nothing, k.lbuf = <<>>
       PROVE  IsText(n.lbuf) /\ n.lbuf = <<>>
  BY <1>2, <1>3, <1>4, <1>5, <1>10
<1>11. ASSUME ~k.line.ready, IsText(k.lbuf), k.ime.m = Nothing, k.lbuf # <<>>
       PROVE  /\ IsText(n.lbuf) /\ Keys(n.lbuf) \in Seq(Key) /\ Keys(LastSign(k.lbuf)) \in Seq(Key)
              /\ Keys(k.lbuf) = Keys(n.lbuf) \o Keys(LastSign(k.lbuf))
  BY <1>2, <1>3, <1>4, <1>5, <1>11
<1> QED
  BY <1>6, <1>7, <1>8, <1>9, <1>10, <1>11 DEF n

\* A jamo in Korean mode.
Composing(k, key, shifted) ==
  LET r == hangul_ime_input(k.ime.m, key, shifted) IN FeedChar([k EXCEPT !.ime.m = r.m], r.cp)

LEMMA JamoTyped ==
  ASSUME NEW k, Boxes(k), k.ime \in Ime, k.ime.active, NEW key, LetterKey(key), NEW shifted \in BOOLEAN
  PROVE  LET n == Composing(k, key, shifted)
             x == scancode_hangul(key, shifted)
         IN  /\ Boxes(n) /\ n.ime \in Ime /\ n.line = k.line /\ x.t # "none"
             /\ k.line.ready => n.lbuf = k.lbuf
             /\ ~k.line.ready /\ Len(n.lbuf) < LBUF_MAX /\ IsText(k.lbuf) /\ ~Stray(k.ime.m) =>
                  IsText(n.lbuf) /\ Kept(n) = Append(Kept(k), x)
<1> DEFINE r == hangul_ime_input(k.ime.m, key, shifted)
           x == scancode_hangul(key, shifted)
           e == [k EXCEPT !.ime.m = r.m]
           n == FeedChar(e, r.cp)
<1>1. k.ime.m \in Compositions
  BY DEF Ime
<1>2. /\ r.m \in Compositions /\ Good(r.cp) /\ x.t # "none" /\ x \in Key
      /\ ~Stray(k.ime.m) => Composed(k.ime.m) \o <<x>> = Given(r.cp) \o Composed(r.m)
  BY <1>1, InputSound
<1>3. Composing(k, key, shifted) = n
  BY DEF Composing
<1> HIDE DEF r, x
<1>4. /\ Boxes(e) /\ e.ime = [m |-> r.m, active |-> k.ime.active] /\ e.lbuf = k.lbuf /\ e.line = k.line
      /\ e.ime \in Ime
  BY <1>2, WithComposition
<1> HIDE DEF e
<1>5. /\ Boxes(n) /\ n.ime = e.ime /\ n.line = e.line
      /\ e.line.ready => n = e
      /\ ~e.line.ready /\ Len(n.lbuf) < LBUF_MAX /\ IsText(e.lbuf) =>
           IsText(n.lbuf) /\ Keys(n.lbuf) = Keys(e.lbuf) \o Given(r.cp)
  BY <1>2, <1>4, FeedCharSound
<1> HIDE DEF n
<1>6. ASSUME ~k.line.ready, Len(n.lbuf) < LBUF_MAX, IsText(k.lbuf), ~Stray(k.ime.m)
      PROVE  IsText(n.lbuf) /\ Kept(n) = Append(Kept(k), x)
  <2> DEFINE a == Keys(k.lbuf)
             g == Given(r.cp)
             c == Composed(k.ime.m)
             d == Composed(r.m)
  <2>1. IsText(n.lbuf) /\ Keys(n.lbuf) = a \o g /\ n.ime.m = r.m
    BY <1>4, <1>5, <1>6
  <2>2. a \in Seq(Key)
    <3>1. Text(k.lbuf) \in Readings
      BY <1>6, TextSound
    <3> QED
      BY <3>1 DEF Keys, Readings
  <2>3. g \in Seq(Key)
    <3>1. CASE r.cp = 0
      BY <3>1 DEF Given
    <3>2. CASE r.cp \in Signs
      BY <3>2, SignsSound, Zenon
    <3> QED
      BY <1>2, <3>1, <3>2 DEF Good
  <2>4. c \in Seq(Key) /\ d \in Seq(Key)
    BY <1>1, <1>2, ComposedSound
  <2>5. c \o <<x>> = g \o d
    BY <1>2, <1>6
  <2>6. Kept(n) = (a \o g) \o d /\ Kept(k) = a \o c
    BY <2>1 DEF Kept
  <2> HIDE DEF a, g, c, d
  <2>7. <<x>> \in Seq(Key)
    BY <1>2
  <2>8. (a \o g) \o d = a \o (g \o d)
    BY <2>2, <2>3, <2>4, ConcatAssociative, SMTT(30)
  <2>9. (a \o c) \o <<x>> = a \o (c \o <<x>>)
    BY <2>2, <2>4, <2>7, ConcatAssociative, SMTT(30)
  <2>10. a \o c \in Seq(Key)
    BY <2>2, <2>4
  <2>11. (a \o c) \o <<x>> = Append(a \o c, x)
    BY <1>2, <2>10, AppendIsConcat
  <2> QED
    BY <2>1, <2>5, <2>6, <2>8, <2>9, <2>11
<1> QED
  BY <1>2, <1>3, <1>4, <1>5, <1>6 DEF n, x

-----------------------------------------------------------------------------
\* What a key does.
Others == {Backspace, Enter, Space} \cup HANGUL_KEYS \cup Arrows

LEMMA OtherKeys ==
  \A key \in Others : /\ ~LetterKey(key) /\ key \notin DOMAIN Letters
                      /\ \A shifted \in BOOLEAN : scancode_hangul(key, shifted).t = "none"
<1>1. Others = {14, 28, 57, 114, 88, 56, 75, 77}
  BY DEF Others, Backspace, Enter, Space, HANGUL_KEYS, Arrows
<1>2. \A key \in Others : ~LetterKey(key) /\ key \in Nat
  BY <1>1 DEF LetterKey
<1>3. \A key \in Others : key \notin DOMAIN Letters
  BY <1>2, LettersSound
<1>4. ASSUME NEW key \in Others, NEW shifted \in BOOLEAN
      PROVE  scancode_hangul(key, shifted).t = "none"
  <2>1. DOMAIN Upper = 16 .. 25 /\ DOMAIN Middle = 30 .. 38 /\ DOMAIN Lower = 44 .. 50
        /\ DOMAIN Shifted = {16, 17, 18, 19, 20, 24, 25}
    BY DEF Upper, Middle, Lower, Shifted
  <2>2. key \notin DOMAIN Upper /\ key \notin DOMAIN Middle /\ key \notin DOMAIN Lower /\ key \notin DOMAIN Shifted
    BY <1>1, <2>1
  <2>3. scancode_hangul(key, shifted) = None
    BY <2>2 DEF scancode_hangul
  <2> QED
    BY <2>3 DEF None
<1> QED
  BY <1>2, <1>3, <1>4

\* Every key of the model is a letter or one of the others.
LEMMA TheKeys == \A key \in KeySet : LetterKey(key) \/ key \in Others
  BY LettersSound DEF KeySet, Others

LEMMA English ==
  ASSUME NEW key, LetterKey(key), NEW shifted \in BOOLEAN
  PROVE  /\ kbd_us(key, shifted) = Letters[key] - (IF shifted THEN 32 ELSE 0)
         /\ Plain(kbd_us(key, shifted)) /\ kbd_us(key, shifted) # 0
<1>1. key \in DOMAIN Letters /\ Letters[key] \in 97 .. 122
  BY LettersSound DEF LetterKey
<1>2. key \notin {Backspace, Enter, Space}
  BY OtherKeys DEF Others
<1>3. kbd_us(key, shifted) = Letters[key] - (IF shifted THEN 32 ELSE 0)
  BY <1>1, <1>2 DEF kbd_us
<1> QED
  BY <1>1, <1>3 DEF Plain

LEMMA Handled ==
  ASSUME NEW k, Boxes(k), IsBoxes(k), k.ime \in Ime, NEW key \in KeySet, NEW shifted \in BOOLEAN
  PROVE  LET n == keyboard_handler_main(k, key, shifted)
         IN  /\ key \in HANGUL_KEYS => n = [k EXCEPT !.ime = hangul_ime_toggle(@)]
             /\ key = Backspace => n = Erased(k)
             /\ key = Enter => n = keyboard_readline_feed(FeedFlush(k), 10)
             /\ key = Space => n = keyboard_readline_feed(FeedFlush(k), 32)
             /\ key \in Arrows => n = keyboard_readline_feed(FeedFlush(k), IF key = 75 THEN 17 ELSE 18)
             /\ LetterKey(key) /\ ~k.ime.active =>
                  n = keyboard_readline_feed(FeedFlush(k), kbd_us(key, shifted))
             /\ LetterKey(key) /\ k.ime.active => n = Composing(k, key, shifted)
<1> DEFINE n == keyboard_handler_main(k, key, shifted)
<1>1. /\ LetterKey(key) => key \notin Others
      /\ key \in Others => ~LetterKey(key) /\ key \notin DOMAIN Letters
  BY OtherKeys
<1>2. k.ime.active \in BOOLEAN /\ k.ime.m \in Compositions /\ (~k.ime.active => k.ime.m = Nothing)
  BY DEF Ime
<1>3. k.ime.m = Nothing => FeedFlush(k) = k
  BY FeedFlushSound
<1>4. CASE key \in HANGUL_KEYS
  <2>1. n = [k EXCEPT !.ime = hangul_ime_toggle(@)]
    BY <1>4 DEF keyboard_handler_main, HANGUL_KEYS, Arrows
  <2>2. key \in Others /\ key \notin {Backspace, Enter, Space} /\ key \notin Arrows
    BY <1>4 DEF Others, HANGUL_KEYS, Arrows, Backspace, Enter, Space
  <2> HIDE DEF n
  <2> QED
    BY <1>1, <2>1, <2>2 DEF n
<1>5. CASE key \in Arrows
  <2>1. n = keyboard_readline_feed(FeedFlush(k), IF key = 75 THEN 17 ELSE 18)
    BY <1>5 DEF keyboard_handler_main, HANGUL_KEYS, Arrows
  <2>2. key \in Others /\ key \notin {Backspace, Enter, Space} /\ key \notin HANGUL_KEYS
    BY <1>5 DEF Others, HANGUL_KEYS, Arrows, Backspace, Enter, Space
  <2> HIDE DEF n
  <2> QED
    BY <1>1, <2>1, <2>2 DEF n
<1>6. CASE key \notin HANGUL_KEYS /\ key \notin Arrows
  <2>1. n = IF k.ime.active THEN InKorean(k, key, shifted)
            ELSE LET c == kbd_us(key, shifted) IN IF c = 0 THEN k ELSE keyboard_readline_feed(k, c)
    BY <1>2, <1>6 DEF keyboard_handler_main
  <2> HIDE DEF n
  <2>2. CASE LetterKey(key)
    <3>1. key \notin {Backspace, Enter, Space}
      BY <1>1, <2>2 DEF Others
    <3>2. ASSUME k.ime.active
          PROVE  n = Composing(k, key, shifted)
      <4>1. InKorean(k, key, shifted) = Composing(k, key, shifted)
        BY <3>1 DEF InKorean, Composing
      <4> QED
        BY <2>1, <3>2, <4>1
    <3>3. ASSUME ~k.ime.active
          PROVE  n = keyboard_readline_feed(FeedFlush(k), kbd_us(key, shifted))
      <4>1. kbd_us(key, shifted) # 0
        BY <2>2, English
      <4> QED
        BY <1>2, <1>3, <2>1, <3>3, <4>1
    <3> QED
      BY <1>6, <2>2, <3>1, <3>2, <3>3 DEF n
  <2>3. CASE key \in {Backspace, Enter, Space}
    <3>1. ~LetterKey(key) /\ key \notin DOMAIN Letters
      BY <1>1, <2>3 DEF Others
    <3>2. key \in {14, 28, 57}
      BY <2>3 DEF Backspace, Enter, Space
    <3> DEFINE f == hangul_ime_flush(k.ime.m)
    <3>3. f.m = Nothing /\ (k.ime.m = Nothing => f.cp = 0) /\ Nothing \in Compositions
      BY <1>2, FlushSound
    <3>4. k.ime.m = Nothing => [k EXCEPT !.ime.m = Nothing] = k
      BY <3>3, WithComposition
    <3>5. key = Backspace => n = Erased(k)
      <4>1. ASSUME key = Backspace, k.ime.active
            PROVE  n = Erased(k)
        <5>1. InKorean(k, key, shifted) = Erased(k)
          BY <4>1 DEF InKorean, Erased, Backspace, Enter, Space
        <5> QED
          BY <2>1, <4>1, <5>1
      <4>2. ASSUME key = Backspace, ~k.ime.active
            PROVE  n = Erased(k)
        <5>1. kbd_us(key, shifted) = 8
          BY <3>1, <4>2 DEF kbd_us, Backspace, Enter, Space
        <5>2. n = keyboard_readline_feed(k, 8)
          BY <2>1, <4>2, <5>1
        <5>3. Erased(k) = keyboard_readline_feed([k EXCEPT !.ime.m = Nothing], 8)
          BY <1>2, <3>3, <4>2 DEF Erased
        <5> QED
          BY <1>2, <3>4, <4>2, <5>2, <5>3
      <4> QED
        BY <1>2, <4>1, <4>2
    <3>6. key = Enter => n = keyboard_readline_feed(FeedFlush(k), 10)
      <4>1. ASSUME key = Enter, k.ime.active
            PROVE  n = keyboard_readline_feed(FeedFlush(k), 10)
        <5>1. InKorean(k, key, shifted) = keyboard_readline_feed(FeedFlush(k), 10)
          BY <4>1 DEF InKorean, Backspace, Enter, Space
        <5> QED
          BY <2>1, <4>1, <5>1
      <4>2. ASSUME key = Enter, ~k.ime.active
            PROVE  n = keyboard_readline_feed(FeedFlush(k), 10)
        <5>1. kbd_us(key, shifted) = 10
          BY <3>1, <4>2 DEF kbd_us, Backspace, Enter, Space
        <5> QED
          BY <1>2, <1>3, <2>1, <4>2, <5>1
      <4> QED
        BY <1>2, <4>1, <4>2
    <3>7. key = Space => n = keyboard_readline_feed(FeedFlush(k), 32)
      <4>1. ASSUME key = Space, k.ime.active
            PROVE  n = keyboard_readline_feed(FeedFlush(k), 32)
        <5>1. InKorean(k, key, shifted) = keyboard_readline_feed(FeedFlush(k), 32)
          BY <4>1 DEF InKorean, Backspace, Enter, Space
        <5> QED
          BY <2>1, <4>1, <5>1
      <4>2. ASSUME key = Space, ~k.ime.active
            PROVE  n = keyboard_readline_feed(FeedFlush(k), 32)
        <5>1. kbd_us(key, shifted) = 32
          BY <3>1, <4>2 DEF kbd_us, Backspace, Enter, Space
        <5> QED
          BY <1>2, <1>3, <2>1, <4>2, <5>1
      <4> QED
        BY <1>2, <4>1, <4>2
    <3> QED
      BY <1>6, <3>1, <3>5, <3>6, <3>7 DEF n
  <2> QED
    BY <1>6, <2>2, <2>3, TheKeys DEF Others
<1> QED
  BY <1>4, <1>5, <1>6

\* What every key keeps, and what Enter does to the line.
LEMMA Moved ==
  ASSUME NEW k, Boxes(k), IsBoxes(k), k.ime \in Ime, NEW key \in KeySet, NEW shifted \in BOOLEAN
  PROVE  LET n == keyboard_handler_main(k, key, shifted)
         IN  /\ Boxes(n) /\ n.ime \in Ime
             /\ k.line.ready \/ key # Enter => n.line = k.line
             /\ k.line.ready /\ key \notin HANGUL_KEYS /\ ~k.ime.active => n = k
             /\ key \in HANGUL_KEYS => n.lbuf = k.lbuf /\ n.ime.m = Nothing
             /\ key = Enter /\ ~k.line.ready =>
                  /\ n.line \in [buf : Seq(Int), ready : BOOLEAN] /\ n.line.ready
                  /\ n.lbuf = <<>> /\ n.ime.m = Nothing
                  /\ Len(n.line.buf) < LBUF_MAX /\ IsText(k.lbuf) /\ ~Unfinished(k.ime.m) =>
                       Keys(n.line.buf) = Kept(k)
<1> DEFINE n == keyboard_handler_main(k, key, shifted)
           h == [k EXCEPT !.ime = hangul_ime_toggle(@)]
           byte == keyboard_readline_feed(FeedFlush(k), 32)
           up == keyboard_readline_feed(FeedFlush(k), IF key = 75 THEN 17 ELSE 18)
           enter == keyboard_readline_feed(FeedFlush(k), 10)
           letter == keyboard_readline_feed(FeedFlush(k), kbd_us(key, shifted))
<1>1. /\ key \in HANGUL_KEYS => n = h
      /\ key = Backspace => n = Erased(k)
      /\ key = Enter => n = enter
      /\ key = Space => n = byte
      /\ key \in Arrows => n = up
      /\ LetterKey(key) /\ ~k.ime.active => n = letter
      /\ LetterKey(key) /\ k.ime.active => n = Composing(k, key, shifted)
  BY Handled
<1>2. k.ime.active \in BOOLEAN /\ k.ime.m \in Compositions /\ (~k.ime.active => k.ime.m = Nothing)
  BY DEF Ime
<1>3. Enter \notin HANGUL_KEYS /\ Enter # Space /\ Enter # Backspace /\ Enter \notin Arrows /\ ~LetterKey(Enter)
  BY OtherKeys DEF Enter, Space, Backspace, HANGUL_KEYS, Arrows, Others
<1>4. key \in HANGUL_KEYS => key \in Others
  BY DEF Others
<1>5. LetterKey(key) => key \notin HANGUL_KEYS /\ key # Enter
  BY <1>4, OtherKeys DEF Others
<1> HIDE DEF n
<1>6. CASE key \in HANGUL_KEYS
  <2>1. /\ DOMAIN k = {"ime", "lbuf", "line", "screen"}
        /\ k.lbuf \in Seq(Int) /\ Len(k.lbuf) <= LBUF_MAX /\ k.line.ready \in BOOLEAN
    BY DEF Boxes
  <2>2. /\ DOMAIN h = {"ime", "lbuf", "line", "screen"} /\ h.ime = hangul_ime_toggle(k.ime)
        /\ h.lbuf = k.lbuf /\ h.line = k.line
    BY <2>1
  <2> HIDE DEF h
  <2>3. Nothing \in Compositions
    BY <1>2, FlushSound
  <2>4. hangul_ime_toggle(k.ime) \in Ime /\ hangul_ime_toggle(k.ime).m = Nothing
    BY <1>2, <2>3 DEF hangul_ime_toggle, Ime
  <2>5. Boxes(h)
    BY <2>1, <2>2 DEF Boxes
  <2> QED
    BY <1>1, <1>3, <1>6, <2>2, <2>4, <2>5 DEF n
<1>7. CASE key = Backspace
  <2>1. Boxes(n) /\ n.ime \in Ime /\ n.line = k.line /\ (k.line.ready /\ k.ime.m = Nothing => n = k)
    BY <1>1, <1>7, FlushedBackspace
  <2>2. key # Enter /\ key \notin HANGUL_KEYS
    BY <1>7 DEF Enter, Backspace, HANGUL_KEYS
  <2> QED
    BY <1>2, <2>1, <2>2 DEF n
<1>8. CASE key = Enter
  <2>1. /\ Boxes(n) /\ n.ime \in Ime
        /\ k.line.ready => n.line = k.line /\ n.lbuf = k.lbuf
        /\ k.line.ready /\ k.ime.m = Nothing /\ IsBoxes(k) => n = k
        /\ ~k.line.ready => /\ n.line \in [buf : Seq(Int), ready : BOOLEAN] /\ n.line.ready
                            /\ n.lbuf = <<>> /\ n.ime.m = Nothing
        /\ ~k.line.ready /\ Len(n.line.buf) < LBUF_MAX /\ IsText(k.lbuf) /\ ~Unfinished(k.ime.m) =>
             Keys(n.line.buf) = Kept(k)
    BY <1>1, <1>8, FlushedEnter
  <2> QED
    BY <1>2, <1>3, <1>8, <2>1 DEF n
<1>9. CASE \/ key = Space \/ key \in Arrows
           \/ LetterKey(key) /\ ~k.ime.active
  <2>1. PICK c : Plain(c) /\ n = keyboard_readline_feed(FeedFlush(k), c)
    <3>1. Plain(32) /\ Plain(17) /\ Plain(18)
      BY DEF Plain
    <3>2. Plain(IF key = 75 THEN 17 ELSE 18)
      BY <3>1
    <3>3. LetterKey(key) => Plain(kbd_us(key, shifted))
      BY English
    <3> QED
      BY <1>1, <1>9, <3>1, <3>2, <3>3
  <2>2. Boxes(n) /\ n.ime \in Ime /\ n.line = k.line /\ (k.line.ready /\ k.ime.m = Nothing => n = k)
    BY <2>1, FlushedByte
  <2>3. key # Enter /\ key \notin HANGUL_KEYS
    BY <1>5, <1>9 DEF Enter, Space, HANGUL_KEYS, Arrows
  <2> QED
    BY <1>2, <2>2, <2>3 DEF n
<1>10. CASE LetterKey(key) /\ k.ime.active
  <2>1. Boxes(n) /\ n.ime \in Ime /\ n.line = k.line
    BY <1>1, <1>10, JamoTyped
  <2> QED
    BY <1>5, <1>10, <2>1 DEF n
<1> QED
  BY <1>2, <1>6, <1>7, <1>8, <1>9, <1>10, TheKeys DEF Others

\* The front of a text is what is left when its end is taken off.
LEMMA TakenOff ==
  ASSUME NEW S, NEW s \in Seq(S), NEW t \in Seq(S)
  PROVE  SubSeq(s \o t, 1, Len(s \o t) - Len(t)) = s
<1> DEFINE a == s \o t
           m == Len(a) - Len(t)
           f == SubSeq(a, 1, m)
<1>1. a \in Seq(S) /\ Len(a) = Len(s) + Len(t) /\ \A i \in 1 .. Len(s) : a[i] = s[i]
  BY ConcatProperties
<1>2. Len(s) \in Nat /\ Len(t) \in Nat
  OBVIOUS
<1>3. m = Len(s) /\ m \in Nat /\ m <= Len(a)
  BY <1>1, <1>2
<1> HIDE DEF a, m
<1>4. f \in Seq(S) /\ Len(f) = m /\ \A i \in 1 .. m : f[i] = a[i]
  <2>1. m \in 0 .. Len(a)
    BY <1>1, <1>3
  <2> QED
    BY <1>1, <2>1
<1> HIDE DEF f
<1>5. f = s
  <2>1. \A i \in 1 .. Len(f) : f[i] = s[i]
    BY <1>1, <1>3, <1>4
  <2> QED
    BY <1>3, <1>4, <2>1, SeqEqual
<1> QED
  BY <1>5 DEF f, a, m

-----------------------------------------------------------------------------
\* The state.
Box == [ime |-> ime, lbuf |-> lbuf, line |-> g_readline, screen |-> screen]

\* The shape of the keyboard's state.
KeyTypes ==
  /\ user \in Users /\ shift \in BOOLEAN /\ ime \in Ime
  /\ lbuf \in Seq(Int) /\ Len(lbuf) <= LBUF_MAX
  /\ g_readline \in [buf : Seq(Int), ready : BOOLEAN]
  /\ typed \in [keys : Seq(Key), sure : BOOLEAN]
  /\ line \in [keys : Seq(Key), sure : BOOLEAN]

\* The line is made of whole characters while it is sure.
TextInv == typed.sure => IsText(lbuf) /\ TextKept

\* So is the line that waits to be read.
LineInv == g_readline.ready /\ line.sure => Keys(g_readline.buf) = line.keys

\* What a read has of it.
ReadInv ==
  /\ DOMAIN read = {"size", "len", "buf", "want"} /\ read.size \in Int
  /\ next \notin {"copy", "clear"}
  /\ pc \in {"copy", "clear"} =>
       /\ g_readline.ready /\ read.want = line
       /\ read.len = IF Len(g_readline.buf) >= read.size THEN read.size - 1 ELSE Len(g_readline.buf)
  /\ pc = "clear" =>
       read.buf = [i \in 1 .. read.len |-> IF i <= Len(g_readline.buf) THEN g_readline.buf[i] ELSE 0]

ConsoleIInv == KeyTypes /\ TextInv /\ LineInv /\ ReadInv

LEMMA BoxSound ==
  ASSUME KeyTypes
  PROVE  Boxes(Box) /\ IsBoxes(Box) /\ Box.ime = ime /\ Box.lbuf = lbuf /\ Box.line = g_readline
  BY DEF KeyTypes, Box, Boxes, IsBoxes

\* A key that counts changes the line as its user expects.
LEMMA CountedKey ==
  ASSUME KeyTypes, IsText(lbuf), ~g_readline.ready, NEW key \in KeySet, key # Enter,
         Counts(key, shift, keyboard_handler_main(Box, key, shift))
  PROVE  LET n == keyboard_handler_main(Box, key, shift)
         IN  IsText(n.lbuf) /\ Kept(n) = Typed(Kept(Box), key, shift)
<1> DEFINE n == keyboard_handler_main(Box, key, shift)
           x == scancode_hangul(key, shift)
<1>1. /\ Boxes(Box) /\ IsBoxes(Box) /\ Box.ime = ime /\ Box.lbuf = lbuf /\ Box.line = g_readline
      /\ ime \in Ime /\ shift \in BOOLEAN /\ lbuf \in Seq(Int)
  BY BoxSound DEF KeyTypes
<1>2. ime.active \in BOOLEAN /\ ime.m \in Compositions /\ (~ime.active => ime.m = Nothing)
  BY <1>1 DEF Ime
<1>3. /\ key \in HANGUL_KEYS => n.lbuf = lbuf /\ n.ime.m = Nothing
      /\ key = Backspace => n = Erased(Box)
      /\ key = Space => n = keyboard_readline_feed(FeedFlush(Box), 32)
      /\ key \in Arrows => n = keyboard_readline_feed(FeedFlush(Box), IF key = 75 THEN 17 ELSE 18)
      /\ LetterKey(key) /\ ~ime.active => n = keyboard_readline_feed(FeedFlush(Box), kbd_us(key, shift))
      /\ LetterKey(key) /\ ime.active => n = Composing(Box, key, shift)
  BY <1>1, Handled, Moved
<1>4. Counts(key, shift, n)
  OBVIOUS
<1>5. key \in Others => ~LetterKey(key) /\ x.t = "none"
  BY <1>1, OtherKeys
<1>6. Kept(Box) = Keys(lbuf) \o Composed(ime.m) /\ Keys(lbuf) \in Seq(Key) /\ Composed(ime.m) \in Seq(Key)
  BY <1>1, <1>2, TextSound, ComposedSound DEF Kept, Keys, Readings
<1>7. Composed(Nothing) = <<>>
  BY <1>2, ComposedSound
<1> HIDE DEF n, x
<1>8. /\ key \in HANGUL_KEYS => ime.m = Nothing
      /\ key \notin HANGUL_KEYS /\ ime.active /\ x.t # "none" => ~Stray(ime.m) /\ Len(n.lbuf) < LBUF_MAX
      /\ key \notin HANGUL_KEYS /\ ~(ime.active /\ x.t # "none") => ~Unfinished(ime.m) /\ Len(n.lbuf) < LBUF_MAX
  <2>1. key \in HANGUL_KEYS => x.t = "none"
    BY <1>5 DEF Others
  <2> DEFINE full == Len(n.lbuf) < LBUF_MAX
             jamo == ime.active /\ x.t # "none"
  <2>2. /\ IsJamo(key, shift) <=> jamo
        /\ full <=> Len(IF key = Enter THEN n.line.buf ELSE n.lbuf) < LBUF_MAX
    BY DEF IsJamo, x
  <2>3. Counts(key, shift, n) =
          CASE g_readline.ready -> key \notin HANGUL_KEYS /\ ~ime.active
            [] ~g_readline.ready /\ key \in HANGUL_KEYS -> ime.m = Nothing
            [] ~g_readline.ready /\ IsJamo(key, shift) -> ~Stray(ime.m) /\ full
            [] OTHER -> ~Unfinished(ime.m) /\ Len(IF key = Enter THEN n.line.buf ELSE n.lbuf) < LBUF_MAX
    BY DEF Counts
  <2> HIDE DEF full, jamo
  <2>4. ASSUME key \in HANGUL_KEYS
        PROVE  ime.m = Nothing
    <3>1. ~IsJamo(key, shift)
      BY <2>1, <2>2, <2>4 DEF jamo
    <3> QED
      BY <1>4, <2>3, <2>4, <3>1
  <2>5. ASSUME key \notin HANGUL_KEYS, jamo
        PROVE  ~Stray(ime.m) /\ full
    BY <1>4, <2>2, <2>3, <2>5
  <2>6. ASSUME key \notin HANGUL_KEYS, ~jamo
        PROVE  ~Unfinished(ime.m) /\ full
    BY <1>4, <2>2, <2>3, <2>6
  <2> QED
    BY <2>4, <2>5, <2>6 DEF full, jamo
<1>9. CASE key \in HANGUL_KEYS
  <2>1. ime.m = Nothing /\ n.lbuf = lbuf /\ n.ime.m = Nothing
    BY <1>3, <1>8, <1>9
  <2>2. Typed(Kept(Box), key, shift) = Kept(Box)
    BY <1>9 DEF Typed, HANGUL_KEYS, Backspace, Arrows, Space
  <2>3. Kept(n) = Kept(Box)
    BY <1>1, <2>1 DEF Kept
  <2> QED
    BY <2>1, <2>2, <2>3 DEF n
<1>10. CASE LetterKey(key) /\ ime.active
  <2>1. key \notin Others
    BY <1>10, OtherKeys
  <2>2. key \notin HANGUL_KEYS /\ key # Backspace /\ key \notin Arrows /\ key # Space
    BY <2>1 DEF Others
  <2>3. x.t # "none"
    BY <1>1, <1>10, JamoTyped DEF x
  <2>4. ~Stray(ime.m) /\ Len(n.lbuf) < LBUF_MAX
    BY <1>8, <1>10, <2>2, <2>3
  <2>5. IsText(n.lbuf) /\ Kept(n) = Append(Kept(Box), x)
    BY <1>1, <1>3, <1>10, <2>4, JamoTyped DEF x
  <2>6. Typed(Kept(Box), key, shift) = Append(Kept(Box), x)
    BY <1>10, <2>2 DEF Typed, x
  <2> QED
    BY <2>5, <2>6 DEF n
<1>11. CASE \/ key = Space \/ key \in Arrows
            \/ LetterKey(key) /\ ~ime.active
  <2>1. PICK c : /\ Plain(c) /\ n = keyboard_readline_feed(FeedFlush(Box), c)
                 /\ Typed(Kept(Box), key, shift) = Append(Kept(Box), c)
    <3>1. Plain(32) /\ Plain(17) /\ Plain(18)
      BY DEF Plain
    <3>2. Plain(IF key = 75 THEN 17 ELSE 18)
      BY <3>1
    <3>3. LetterKey(key) => Plain(kbd_us(key, shift)) /\ key \notin Others
      BY <1>1, English, OtherKeys
    <3>4. CASE key = Space
      <4>1. Typed(Kept(Box), key, shift) = Append(Kept(Box), 32)
        BY <3>4 DEF Typed, HANGUL_KEYS, Backspace, Arrows, Space
      <4> QED
        BY <1>3, <3>1, <3>4, <4>1
    <3>5. CASE key \in Arrows
      <4>1. Typed(Kept(Box), key, shift) = Append(Kept(Box), IF key = 75 THEN 17 ELSE 18)
        BY <3>5 DEF Typed, HANGUL_KEYS, Backspace, Arrows, Space
      <4> QED
        BY <1>3, <3>2, <3>5, <4>1
    <3>6. CASE LetterKey(key) /\ ~ime.active
      <4>1. key \notin HANGUL_KEYS /\ key # Backspace /\ key \notin Arrows /\ key # Space
        BY <3>3, <3>6 DEF Others
      <4>2. Typed(Kept(Box), key, shift) = Append(Kept(Box), kbd_us(key, shift))
        BY <3>6, <4>1 DEF Typed
      <4> QED
        BY <1>3, <3>3, <3>6, <4>2
    <3> QED
      BY <1>11, <3>4, <3>5, <3>6
  <2>2. key \notin HANGUL_KEYS
    BY <1>11, OtherKeys DEF Others, Space, HANGUL_KEYS, Arrows
  <2>3. ~(ime.active /\ x.t # "none")
    <3>1. key \in Arrows \cup {Space} => key \in Others
      BY DEF Others
    <3> QED
      BY <1>5, <1>11, <3>1
  <2>4. ~Unfinished(ime.m) /\ Len(n.lbuf) < LBUF_MAX
    BY <1>8, <2>2, <2>3
  <2>5. IsText(n.lbuf) /\ Kept(n) = Append(Kept(Box), c)
    BY <1>1, <2>1, <2>4, FlushedByte
  <2> QED
    BY <2>1, <2>5 DEF n
<1>12. CASE key = Backspace
  <2> DEFINE a == Keys(lbuf)
             m == ime.m
             keys == Kept(Box)
             cut == IF m # Nothing THEN Len(Composed(m))
                    ELSE IF lbuf = <<>> THEN 0 ELSE Len(Keys(LastSign(lbuf)))
  <2>1. key \in Others /\ key \notin HANGUL_KEYS
    BY <1>12 DEF Others, Backspace, HANGUL_KEYS
  <2>2. ~Unfinished(m)
    BY <1>5, <1>8, <2>1
  <2>3. Typed(keys, key, shift) = SubSeq(keys, 1, Len(keys) - cut)
    <3>1. Typed(keys, key, shift) = TakenBack(keys)
      <4>1. key \notin Arrows /\ key # Space
        BY <1>12 DEF Backspace, Arrows, Space
      <4> QED
        BY <1>12, <2>1, <4>1 DEF Typed
    <3> QED
      BY <3>1 DEF TakenBack, LastSign
  <2>4. /\ IsText(n.lbuf) /\ n.ime.m = Nothing
        /\ m # Nothing => n.lbuf = lbuf
        /\ m = Nothing /\ lbuf = <<>> => n.lbuf = <<>>
        /\ m = Nothing /\ lbuf # <<>> =>
             /\ Keys(n.lbuf) \in Seq(Key) /\ Keys(LastSign(lbuf)) \in Seq(Key)
             /\ Keys(lbuf) = Keys(n.lbuf) \o Keys(LastSign(lbuf))
    BY <1>1, <1>3, <1>12, <2>2, FlushedBackspace
  <2>5. Keys(n.lbuf) \in Seq(Key)
    BY <2>4, TextSound DEF Keys, Readings
  <2>6. Kept(n) = Keys(n.lbuf)
    <3>1. Keys(n.lbuf) \o <<>> = Keys(n.lbuf)
      BY <2>5, ConcatEmptySeq
    <3> QED
      BY <1>7, <2>4, <3>1, Zenon DEF Kept
  <2>7. keys = a \o Composed(m) /\ a \in Seq(Key) /\ Composed(m) \in Seq(Key)
    BY <1>6
  <2>8. m = Nothing => keys = a
    <3>1. a \o <<>> = a
      BY <2>7, ConcatEmptySeq
    <3> HIDE DEF a
    <3> QED
      BY <1>7, <2>7, <3>1, Zenon
  <2> HIDE DEF keys, m
  <2>9. Keys(n.lbuf) = SubSeq(keys, 1, Len(keys) - cut)
    <3>1. CASE m # Nothing
      <4>1. cut = Len(Composed(m)) /\ Keys(n.lbuf) = a
        BY <2>4, <3>1
      <4> QED
        BY <2>7, <4>1, TakenOff, Zenon
    <3>2. CASE m = Nothing /\ lbuf = <<>>
      <4>1. cut = 0 /\ Keys(n.lbuf) = a /\ keys = a
        BY <2>4, <2>8, <3>2
      <4>2. a \o <<>> = a /\ <<>> \in Seq(Key) /\ Len(<<>>) = 0
        BY <2>7, ConcatEmptySeq
      <4>3. SubSeq(a \o <<>>, 1, Len(a \o <<>>) - Len(<<>>)) = a
        BY <2>7, <4>2, TakenOff
      <4> QED
        BY <4>1, <4>2, <4>3, Zenon
    <3>3. CASE m = Nothing /\ lbuf # <<>>
      <4>1. /\ cut = Len(Keys(LastSign(lbuf))) /\ keys = Keys(n.lbuf) \o Keys(LastSign(lbuf))
            /\ Keys(LastSign(lbuf)) \in Seq(Key)
        BY <2>4, <2>8, <3>3
      <4> QED
        BY <2>5, <4>1, TakenOff
    <3> QED
      BY <3>1, <3>2, <3>3
  <2> QED
    BY <2>3, <2>4, <2>6, <2>9 DEF n, keys
<1> QED
  BY <1>2, <1>9, <1>10, <1>11, <1>12, TheKeys DEF Others

-----------------------------------------------------------------------------
\* The keyboard interrupt keeps the invariant.
LEMMA KeyStep ==
  ASSUME ConsoleIInv, NEW key \in KeySet, KeyInterrupt(key)
  PROVE  ConsoleIInv'
<1> DEFINE n == keyboard_handler_main(Box, key, shift)
           c == Counts(key, shift, n)
           closed == key = Enter /\ ~g_readline.ready
<1>1. /\ ime' = n.ime /\ lbuf' = n.lbuf /\ g_readline' = n.line
      /\ KeyHistory(key, shift, n)
      /\ user' = user /\ shift' = shift /\ pc' = pc /\ next' = next /\ read' = read
  BY DEF KeyInterrupt, Box
<1>2. /\ Boxes(Box) /\ IsBoxes(Box) /\ Box.ime = ime /\ Box.lbuf = lbuf /\ Box.line = g_readline
      /\ ime \in Ime /\ shift \in BOOLEAN /\ lbuf \in Seq(Int)
  BY BoxSound DEF ConsoleIInv, KeyTypes
<1>3. /\ user \in Users /\ Len(lbuf) <= LBUF_MAX
      /\ g_readline \in [buf : Seq(Int), ready : BOOLEAN] /\ g_readline.ready \in BOOLEAN
      /\ typed \in [keys : Seq(Key), sure : BOOLEAN] /\ typed.sure \in BOOLEAN
      /\ line \in [keys : Seq(Key), sure : BOOLEAN]
  BY DEF ConsoleIInv, KeyTypes
<1>4. /\ Boxes(n) /\ n.ime \in Ime
      /\ g_readline.ready \/ key # Enter => n.line = g_readline
      /\ g_readline.ready /\ key \notin HANGUL_KEYS /\ ~ime.active => n = Box
      /\ closed =>
           /\ n.line \in [buf : Seq(Int), ready : BOOLEAN] /\ n.line.ready
           /\ n.lbuf = <<>> /\ n.ime.m = Nothing
           /\ Len(n.line.buf) < LBUF_MAX /\ IsText(lbuf) /\ ~Unfinished(ime.m) =>
                Keys(n.line.buf) = Kept(Box)
  BY <1>2, Moved
<1>5. typed.sure => IsText(lbuf) /\ Kept(Box) = typed.keys
  BY <1>2 DEF ConsoleIInv, TextInv, TextKept, Kept
<1>6. n.lbuf \in Seq(Int) /\ Len(n.lbuf) <= LBUF_MAX /\ n.ime.m \in Compositions
  BY <1>4 DEF Boxes, Ime
<1>7. ASSUME closed
      PROVE  /\ line' = IF typed.sure /\ c THEN typed ELSE Unsure
             /\ typed' = NoKeys
  BY <1>1, <1>7 DEF KeyHistory
<1>8. ASSUME ~closed
      PROVE  /\ typed' = CASE ~typed.sure \/ ~c -> Unsure
                           [] typed.sure /\ c /\ g_readline.ready -> typed
                           [] OTHER -> [typed EXCEPT !.keys = Typed(@, key, shift)]
             /\ line' = line
  BY <1>1, <1>8 DEF KeyHistory
<1>9. Unsure \in [keys : Seq(Key), sure : BOOLEAN] /\ ~Unsure.sure
  BY DEF Unsure
<1>10. /\ NoKeys \in [keys : Seq(Key), sure : BOOLEAN] /\ NoKeys.keys = <<>>
  BY DEF NoKeys
<1>11. ASSUME ~g_readline.ready, key # Enter, typed.sure, c
       PROVE  IsText(n.lbuf) /\ Kept(n) = Typed(typed.keys, key, shift)
  <2>1. IsText(n.lbuf) /\ Kept(n) = Typed(Kept(Box), key, shift)
    BY <1>5, <1>11, CountedKey DEF ConsoleIInv
  <2> QED
    BY <1>5, <1>11, <2>1
<1>12. ASSUME closed, typed.sure, c
       PROVE  Keys(n.line.buf) = typed.keys
  <2>1. ~Unfinished(ime.m) /\ Len(n.line.buf) < LBUF_MAX
    <3>1. key = Enter /\ key \notin HANGUL_KEYS /\ ~IsJamo(key, shift)
      <4>1. Enter \in Others /\ Enter \notin HANGUL_KEYS
        BY DEF Others, Enter, HANGUL_KEYS
      <4>2. scancode_hangul(Enter, shift).t = "none"
        BY <1>2, <4>1, OtherKeys
      <4> QED
        BY <1>12, <4>1, <4>2 DEF IsJamo
    <3> HIDE DEF n
    <3> QED
      BY <1>12, <3>1 DEF Counts
  <2> QED
    BY <1>4, <1>5, <1>12, <2>1
<1> HIDE DEF n, c
<1>13. /\ typed' \in [keys : Seq(Key), sure : BOOLEAN]
       /\ typed'.sure => IsText(n.lbuf) /\ Kept(n) = typed'.keys
  <2>1. CASE closed
    <3>1. typed' = NoKeys /\ n.lbuf = <<>> /\ n.ime.m = Nothing
      BY <1>4, <1>7, <2>1
    <3>2. Keys(<<>>) = <<>> /\ Composed(Nothing) = <<>> /\ <<>> \o <<>> = <<>>
      BY <1>6, <3>1, TextEmpty, ComposedSound, ConcatEmptySeq DEF Keys, NoText
    <3>3. IsText(<<>>)
      BY EmptyText
    <3> QED
      BY <1>10, <3>1, <3>2, <3>3 DEF Kept
  <2>2. CASE ~closed /\ (~typed.sure \/ ~c)
    <3>1. typed' = Unsure
      BY <1>8, <2>2
    <3> QED
      BY <1>9, <3>1
  <2>3. CASE ~closed /\ typed.sure /\ c /\ g_readline.ready
    <3>1. typed' = typed
      BY <1>8, <2>3
    <3>2. key \notin HANGUL_KEYS /\ ~ime.active
      BY <2>3 DEF c, Counts
    <3>3. n = Box
      BY <1>4, <2>3, <3>2
    <3> QED
      BY <1>2, <1>3, <1>5, <2>3, <3>1, <3>3
  <2>4. CASE ~closed /\ typed.sure /\ c /\ ~g_readline.ready
    <3>1. typed' = [typed EXCEPT !.keys = Typed(typed.keys, key, shift)]
      BY <1>8, <2>4
    <3>2. IsText(n.lbuf) /\ Kept(n) = Typed(typed.keys, key, shift)
      BY <1>11, <2>4
    <3>3. Kept(n) \in Seq(Key)
      <4>1. Keys(n.lbuf) \in Seq(Key)
        BY <3>2, TextSound DEF Keys, Readings
      <4>2. Composed(n.ime.m) \in Seq(Key)
        BY <1>6, ComposedSound
      <4> QED
        BY <4>1, <4>2 DEF Kept
    <3>4. typed' = [typed EXCEPT !.keys = Kept(n)]
      BY <3>1, <3>2
    <3>5. typed' \in [keys : Seq(Key), sure : BOOLEAN] /\ typed'.keys = Kept(n)
      BY <1>3, <3>3, <3>4
    <3> QED
      BY <3>2, <3>5
  <2> QED
    BY <1>3, <2>1, <2>2, <2>3, <2>4
<1>14. /\ line' \in [keys : Seq(Key), sure : BOOLEAN]
       /\ n.line \in [buf : Seq(Int), ready : BOOLEAN]
       /\ n.line.ready /\ line'.sure => Keys(n.line.buf) = line'.keys
       /\ g_readline.ready => n.line = g_readline /\ line' = line
  <2>1. CASE closed /\ typed.sure /\ c
    <3>1. line' = typed /\ n.line \in [buf : Seq(Int), ready : BOOLEAN]
      BY <1>4, <1>7, <2>1
    <3> QED
      BY <1>3, <1>12, <2>1, <3>1
  <2>2. CASE closed /\ ~(typed.sure /\ c)
    <3>1. line' = Unsure /\ n.line \in [buf : Seq(Int), ready : BOOLEAN]
      BY <1>4, <1>7, <2>2
    <3> QED
      BY <1>9, <2>2, <3>1
  <2>3. CASE ~closed
    <3>1. line' = line /\ n.line = g_readline
      BY <1>3, <1>4, <1>8, <2>3
    <3>2. g_readline.ready /\ line.sure => Keys(g_readline.buf) = line.keys
      BY DEF ConsoleIInv, LineInv
    <3> QED
      BY <1>3, <3>1, <3>2
  <2> QED
    BY <2>1, <2>2, <2>3
<1>15. KeyTypes'
  BY <1>1, <1>2, <1>3, <1>4, <1>6, <1>13, <1>14 DEF KeyTypes
<1>16. TextInv'
  BY <1>1, <1>13 DEF TextInv, TextKept, Kept
<1>17. LineInv'
  BY <1>1, <1>14 DEF LineInv
<1>18. ReadInv'
  <2>1. CASE pc \in {"copy", "clear"}
    <3>1. g_readline' = g_readline /\ line' = line
      BY <1>1, <1>14, <2>1 DEF ConsoleIInv, ReadInv
    <3> QED
      BY <1>1, <3>1 DEF ConsoleIInv, ReadInv
  <2>2. CASE pc \notin {"copy", "clear"}
    BY <1>1, <2>2 DEF ConsoleIInv, ReadInv
  <2> QED
    BY <2>1, <2>2
<1> QED
  BY <1>15, <1>16, <1>17, <1>18 DEF ConsoleIInv

\* A step that leaves the keyboard and the line alone, or only forgets the line.
LEMMA KeyboardKept ==
  ASSUME KeyTypes, TextInv, LineInv, UNCHANGED <<keyboard, line>>,
         g_readline' = g_readline \/ g_readline' = [g_readline EXCEPT !.ready = FALSE]
  PROVE  KeyTypes' /\ TextInv' /\ LineInv'
<1>1. user' = user /\ ime' = ime /\ shift' = shift /\ lbuf' = lbuf /\ typed' = typed /\ line' = line
  BY DEF keyboard
<1>2. g_readline \in [buf : Seq(Int), ready : BOOLEAN]
  BY DEF KeyTypes
<1>3. /\ g_readline' \in [buf : Seq(Int), ready : BOOLEAN]
      /\ g_readline'.ready => g_readline' = g_readline
  <2> DEFINE f == [g_readline EXCEPT !.ready = FALSE]
  <2>1. f \in [buf : Seq(Int), ready : BOOLEAN] /\ ~f.ready
    BY <1>2
  <2> HIDE DEF f
  <2> QED
    BY <1>2, <2>1 DEF f
<1>4. KeyTypes'
  BY <1>1, <1>3 DEF KeyTypes
<1>5. TextInv'
  BY <1>1 DEF TextInv, TextKept
<1>6. LineInv'
  <2>1. CASE g_readline'.ready
    BY <1>1, <1>3, <2>1 DEF LineInv
  <2>2. CASE ~g_readline'.ready
    BY <2>2 DEF LineInv
  <2> QED
    BY <2>1, <2>2
<1> QED
  BY <1>4, <1>5, <1>6

\* A call that is not a read.
LEMMA NotReading ==
  ASSUME ReadInv, UNCHANGED read, next' \notin {"copy", "clear"}, pc' \notin {"copy", "clear"}
  PROVE  ReadInv'
  BY DEF ReadInv

LEMMA WriteStep ==
  ASSUME ReadInv, NEW text, NEW then \in {"read", "prompt", "child"}, Write(text, then)
  PROVE  ReadInv' /\ g_readline' = g_readline /\ line' = line
<1>1. pc' = "write" /\ next' = then /\ g_readline' = g_readline /\ line' = line /\ read' = read
  BY DEF Write
<1>2. next' \notin {"copy", "clear"} /\ pc' \notin {"copy", "clear"}
  BY <1>1
<1> QED
  BY <1>1, <1>2, NotReading

LEMMA StartReadStep ==
  ASSUME ReadInv, NEW size \in Int, NEW then \in {"command", "child"}, StartRead(size, then)
  PROVE  /\ ReadInv' /\ UNCHANGED <<keyboard, line>>
         /\ g_readline' = [g_readline EXCEPT !.ready = FALSE]
<1>1. /\ pc' = "wait" /\ next' = then /\ read' = [NoRead EXCEPT !.size = size]
      /\ UNCHANGED <<keyboard, line>>
      /\ g_readline' = [g_readline EXCEPT !.ready = FALSE]
  BY DEF StartRead
<1>2. DOMAIN read' = {"size", "len", "buf", "want"} /\ read'.size = size
  BY <1>1 DEF NoRead
<1>3. next' \notin {"copy", "clear"} /\ pc' \notin {"copy", "clear"}
  BY <1>1
<1>4. ReadInv'
  BY <1>2, <1>3 DEF ReadInv
<1> QED
  BY <1>1, <1>4

\* Every step keeps the invariant.
LEMMA ConsoleStep ==
  ASSUME ConsoleIInv, [Next]_vars
  PROVE  ConsoleIInv'
<1>1. KeyTypes /\ TextInv /\ LineInv /\ ReadInv
  BY DEF ConsoleIInv
<1>2. ASSUME ReadInv', UNCHANGED <<keyboard, line>>,
             g_readline' = g_readline \/ g_readline' = [g_readline EXCEPT !.ready = FALSE]
      PROVE  ConsoleIInv'
  BY <1>1, <1>2, KeyboardKept DEF ConsoleIInv
<1>3. ASSUME NEW key \in Pressed, KeyInterrupt(key)
      PROVE  ConsoleIInv'
  <2>1. key \in KeySet
    BY <1>1, <1>3, ConsoleAssumption DEF KeyTypes, Pressed
  <2> QED
    BY <1>3, <2>1, KeyStep
<1>4. CASE ShiftKey
  <2>1. /\ shift' = ~shift
        /\ UNCHANGED <<user, ime, lbuf, g_readline, pc, next, read, typed, line>>
    BY <1>4 DEF ShiftKey
  <2>2. shift' \in BOOLEAN
    BY <1>1, <2>1 DEF KeyTypes
  <2>3. KeyTypes'
    BY <1>1, <2>1, <2>2 DEF KeyTypes
  <2>4. TextInv' /\ LineInv'
    BY <1>1, <2>1 DEF TextInv, TextKept, LineInv
  <2>5. ReadInv'
    BY <1>1, <2>1 DEF ReadInv
  <2> QED
    BY <2>3, <2>4, <2>5 DEF ConsoleIInv
<1>5. CASE sys_write
  <2>1. /\ pc = "write" /\ pc' \in {pc, next} /\ next' \in {"none", next}
        /\ UNCHANGED <<keyboard, g_readline, read, line>>
    BY <1>5 DEF sys_write
  <2>2. next' \notin {"copy", "clear"} /\ pc' \notin {"copy", "clear"}
    BY <1>1, <2>1 DEF ReadInv
  <2>3. ReadInv'
    BY <1>1, <2>1, <2>2, NotReading
  <2> QED
    BY <1>2, <2>1, <2>3
<1>6. CASE keyboard_readline_wait
  <2> DEFINE len == IF Len(g_readline.buf) >= read.size THEN read.size - 1 ELSE Len(g_readline.buf)
  <2>1. /\ g_readline.ready /\ read' = [read EXCEPT !.len = len, !.want = line]
        /\ g_readline' = g_readline /\ pc' = "copy" /\ next' = next
        /\ UNCHANGED <<keyboard, line>>
    BY <1>6 DEF keyboard_readline_wait, EndWait
  <2>2. DOMAIN read = {"size", "len", "buf", "want"}
    BY <1>1 DEF ReadInv
  <2> HIDE DEF len
  <2>3. DOMAIN read' = {"size", "len", "buf", "want"} /\ read'.size = read.size /\ read'.want = line /\ read'.len = len
    BY <2>1, <2>2
  <2>4. ReadInv'
    BY <1>1, <2>1, <2>3 DEF ReadInv, len
  <2> QED
    BY <1>2, <2>1, <2>4
<1>7. CASE keyboard_readline_copy
  <2> DEFINE buf == [i \in 1 .. read.len |-> IF i <= Len(g_readline.buf) THEN g_readline.buf[i] ELSE 0]
  <2>1. /\ pc = "copy" /\ read' = [read EXCEPT !.buf = buf]
        /\ g_readline' = g_readline /\ pc' = "clear" /\ next' = next
        /\ UNCHANGED <<keyboard, line>>
    BY <1>7 DEF keyboard_readline_copy
  <2>2. DOMAIN read = {"size", "len", "buf", "want"}
    BY <1>1 DEF ReadInv
  <2> HIDE DEF buf
  <2>3. DOMAIN read' = {"size", "len", "buf", "want"} /\ read'.size = read.size /\ read'.want = read.want /\ read'.len = read.len /\ read'.buf = buf
    BY <2>1, <2>2
  <2>4. ReadInv'
    BY <1>1, <2>1, <2>3 DEF ReadInv, buf
  <2> QED
    BY <1>2, <2>1, <2>4
<1>8. CASE keyboard_readline_clear
  <2>1. /\ g_readline' = [g_readline EXCEPT !.ready = FALSE] /\ pc' \in {"prompt", next}
        /\ next' = "none" /\ read' = NoRead /\ UNCHANGED <<keyboard, line>>
    BY <1>8 DEF keyboard_readline_clear
  <2>2. next' \notin {"copy", "clear"} /\ pc' \notin {"copy", "clear"}
    BY <1>1, <2>1 DEF ReadInv
  <2>3. DOMAIN read' = {"size", "len", "buf", "want"} /\ read'.size \in Int
    BY <2>1 DEF NoRead
  <2>4. ReadInv'
    BY <2>2, <2>3 DEF ReadInv
  <2> QED
    BY <1>2, <2>1, <2>4
<1>9. CASE Prompt
  <2>1. Write(<<36>>, "read") /\ UNCHANGED keyboard
    BY <1>9 DEF Prompt
  <2> QED
    BY <1>1, <1>2, <2>1, WriteStep
<1>10. CASE ReadCommand
  <2>1. StartRead(LBUF_MAX + 1, "command") /\ LBUF_MAX + 1 \in Int
    BY <1>10, ConsoleAssumption DEF ReadCommand
  <2> QED
    BY <1>1, <1>2, <2>1, StartReadStep
<1>11. ASSUME NEW words, Answer(words)
       PROVE  ConsoleIInv'
  <2>1. PICK text \in Outputs : Write(text, "prompt")
    BY <1>11 DEF Answer
  <2>2. UNCHANGED keyboard
    BY <1>11 DEF Answer
  <2> QED
    BY <1>1, <1>2, <2>1, <2>2, WriteStep
<1>12. ASSUME NEW words, Obey(words)
       PROVE  ConsoleIInv'
  <2>1. UNCHANGED <<keyboard, g_readline, next, read, line>>
    BY <1>12 DEF Obey
  <2>2. exit \/ cd(words) \/ clear \/ run(words)
    BY <1>12 DEF Obey
  <2>3. exit => pc' = "done"
    BY DEF exit
  <2>4. cd(words) => pc' = "prompt"
    BY DEF cd
  <2>5. clear => pc' = "prompt"
    BY DEF clear
  <2>6. run(words) => pc' \in {"prompt", "child"}
    BY DEF run
  <2>7. next' \notin {"copy", "clear"} /\ pc' \notin {"copy", "clear"}
    BY <1>1, <2>1, <2>2, <2>3, <2>4, <2>5, <2>6 DEF ReadInv
  <2>8. ReadInv'
    BY <1>1, <2>1, <2>7, NotReading
  <2> QED
    BY <1>2, <2>1, <2>8
<1>13. CASE ShellStep
  <2>1. PICK words \in user.commands : Answer(words) \/ Obey(words)
    BY <1>13 DEF ShellStep
  <2> QED
    BY <1>11, <1>12, <2>1
<1>14. CASE ChildWrite
  <2>1. PICK text \in Outputs : Write(text, "child")
    BY <1>14 DEF ChildWrite
  <2>2. UNCHANGED keyboard
    BY <1>14 DEF ChildWrite
  <2> QED
    BY <1>1, <1>2, <2>1, <2>2, WriteStep
<1>15. CASE ChildRead
  <2>1. PICK size \in ReadSizes : StartRead(size, "child")
    BY <1>15 DEF ChildRead
  <2>2. size \in Int
    BY <2>1, ConsoleAssumption
  <2> QED
    BY <1>1, <1>2, <2>1, <2>2, StartReadStep
<1>16. CASE ChildEnds
  <2>1. pc' = "prompt" /\ UNCHANGED <<keyboard, g_readline, next, read, line>>
    BY <1>16 DEF ChildEnds
  <2>2. next' \notin {"copy", "clear"} /\ pc' \notin {"copy", "clear"}
    BY <1>1, <2>1 DEF ReadInv
  <2>3. ReadInv'
    BY <1>1, <2>1, <2>2, NotReading
  <2> QED
    BY <1>2, <2>1, <2>3
<1>17. CASE UNCHANGED vars
  <2>1. UNCHANGED <<user, ime, shift, lbuf, g_readline, pc, next, read, typed, line>>
    BY <1>17 DEF vars
  <2>2. KeyTypes' /\ TextInv' /\ LineInv'
    BY <1>1, <2>1 DEF KeyTypes, TextInv, TextKept, LineInv
  <2>3. ReadInv'
    BY <1>1, <2>1 DEF ReadInv
  <2> QED
    BY <2>2, <2>3 DEF ConsoleIInv
<1> QED
  BY <1>3, <1>4, <1>5, <1>6, <1>7, <1>8, <1>9, <1>10, <1>13, <1>14, <1>15, <1>16, <1>17 DEF Next

LEMMA ConsoleInit ==
  ASSUME Init
  PROVE  ConsoleIInv
<1>1. Nothing \in Compositions
  BY DEF Nothing, Compositions
<1>2. /\ user \in Users /\ ime = [m |-> Nothing, active |-> FALSE] /\ shift = FALSE /\ lbuf = <<>>
      /\ g_readline = [buf |-> <<>>, ready |-> FALSE] /\ pc = "prompt" /\ next = "none" /\ read = NoRead
      /\ typed = NoKeys /\ line = NoKeys
  BY DEF Init
<1>3. NoKeys \in [keys : Seq(Key), sure : BOOLEAN] /\ NoKeys.keys = <<>>
  BY DEF NoKeys
<1>4. ime \in Ime /\ Len(lbuf) <= LBUF_MAX /\ lbuf \in Seq(Int)
  BY <1>1, <1>2, ConsoleAssumption DEF Ime
<1>5. g_readline \in [buf : Seq(Int), ready : BOOLEAN] /\ ~g_readline.ready
  BY <1>2
<1>6. KeyTypes
  BY <1>2, <1>3, <1>4, <1>5 DEF KeyTypes
<1>7. Keys(<<>>) = <<>> /\ Composed(Nothing) = <<>> /\ IsText(<<>>)
  BY <1>1, TextEmpty, EmptyText, ComposedSound DEF Keys, NoText
<1>8. <<>> \o <<>> = <<>>
  OBVIOUS
<1>9. TextInv
  BY <1>2, <1>3, <1>7, <1>8 DEF TextInv, TextKept
<1>10. LineInv
  BY <1>5 DEF LineInv
<1>11. ReadInv
  BY <1>2 DEF ReadInv, NoRead
<1> QED
  BY <1>6, <1>9, <1>10, <1>11 DEF ConsoleIInv

\* A read that has room for the line has all of it.
LEMMA Delivered ==
  ASSUME ConsoleIInv
  PROVE  LineDelivered
<1> SUFFICES ASSUME pc = "clear", read.want.sure, read.len < read.size - 1
             PROVE  Keys(read.buf) = read.want.keys
  BY DEF LineDelivered
<1> DEFINE s == g_readline.buf
<1>1. /\ read.size \in Int /\ g_readline.ready /\ read.want = line
      /\ read.len = IF Len(s) >= read.size THEN read.size - 1 ELSE Len(s)
      /\ read.buf = [i \in 1 .. read.len |-> IF i <= Len(s) THEN s[i] ELSE 0]
  BY DEF ConsoleIInv, ReadInv
<1>2. s \in Seq(Int) /\ Keys(s) = read.want.keys
  BY <1>1 DEF ConsoleIInv, KeyTypes, LineInv
<1> HIDE DEF s
<1>3. Len(s) \in Nat /\ s = [i \in 1 .. Len(s) |-> s[i]]
  BY <1>2
<1>4. read.len = Len(s)
  BY <1>1, <1>3
<1>5. read.buf = [i \in 1 .. Len(s) |-> s[i]]
  BY <1>1, <1>3, <1>4
<1> QED
  BY <1>2, <1>3, <1>5

-----------------------------------------------------------------------------
\* Whatever keys a user presses, and whenever: while every key counts, the line
\* and the syllable being composed stand for the keys typed.
THEOREM LineKept == Spec => []TextKept
<1>1. ConsoleIInv => (typed.sure => TextKept)
  BY DEF ConsoleIInv, TextInv
<1>2. ConsoleIInv => TextKept
  BY <1>1 DEF TextKept
<1> QED
  BY <1>2, ConsoleInit, ConsoleStep, PTL DEF Spec

\* A read that has room for the line that ended it returns that line, however
\* many keys arrive before the program has copied it.
THEOREM LinesDelivered == Spec => []LineDelivered
  BY Delivered, ConsoleInit, ConsoleStep, PTL DEF Spec

-----------------------------------------------------------------------------
\* The screen.  A decoder that is inside a character will not end it below 128.
DecoderOK(d) == d \in [st : 0 .. 2, cp : Int] /\ (d.st = 1 => d.cp >= 2) /\ (d.st = 2 => d.cp >= 0)
\* A screen with any decoder, and any row left of the cursor and at it.
Framed(s) == DOMAIN s = {"d", "x", "y", "row"} /\ s.x \in 0 .. Columns - 1 /\ DOMAIN s.row = 0 .. Columns - 1
BlankAfter(s, x) == \A y \in 0 .. Columns - 1 : y > x => s.row[y] = 0
KeptBefore(s, n, x) == \A y \in 0 .. Columns - 1 : y < x => n.row[y] = s.row[y]
Canvas(s) == Framed(s) /\ BlankAfter(s, s.x)
ScreenOK(s) == Canvas(s) /\ DecoderOK(s.d)
WidthOf(cp) == IF Wide(cp) THEN 2 ELSE 1

LEMMA SetCell ==
  ASSUME NEW s, Framed(s), NEW x \in 0 .. Columns - 1, NEW v
  PROVE  LET n == [s EXCEPT !.row[x] = v]
         IN  /\ Framed(n) /\ n.d = s.d /\ n.x = s.x /\ n.row[x] = v
             /\ \A y \in 0 .. Columns - 1 : y # x => n.row[y] = s.row[y]
<1> DEFINE n == [s EXCEPT !.row[x] = v]
<1>1. DOMAIN s = {"d", "x", "y", "row"} /\ s.x \in 0 .. Columns - 1 /\ DOMAIN s.row = 0 .. Columns - 1
  BY DEF Framed
<1>2. DOMAIN n = DOMAIN s /\ n.d = s.d /\ n.x = s.x /\ n.row = [s.row EXCEPT ![x] = v]
  BY <1>1
<1> HIDE DEF n
<1>3. DOMAIN n.row = 0 .. Columns - 1 /\ n.row[x] = v /\ \A y \in 0 .. Columns - 1 : y # x => n.row[y] = s.row[y]
  BY <1>1, <1>2
<1>4. Framed(n)
  BY <1>1, <1>2, <1>3 DEF Framed
<1> QED
  BY <1>2, <1>3, <1>4 DEF n

LEMMA SetColumn ==
  ASSUME NEW s, Framed(s), NEW x \in 0 .. Columns - 1
  PROVE  LET n == [s EXCEPT !.x = x] IN Framed(n) /\ n.d = s.d /\ n.x = x /\ n.row = s.row
<1> DEFINE n == [s EXCEPT !.x = x]
<1>1. DOMAIN s = {"d", "x", "y", "row"} /\ DOMAIN s.row = 0 .. Columns - 1
  BY DEF Framed
<1>2. DOMAIN n = DOMAIN s /\ n.d = s.d /\ n.x = x /\ n.row = s.row
  BY <1>1
<1> HIDE DEF n
<1>3. Framed(n)
  BY <1>1, <1>2 DEF Framed
<1> QED
  BY <1>2, <1>3 DEF n

\* Columns are numbers, and a row has four at least.
LEMMA FourColumns == Columns \in Nat /\ Columns > 3
  BY ConsoleAssumption

LEMMA NewLineSound ==
  ASSUME NEW s, Framed(s)
  PROVE  Canvas(NewLine(s)) /\ NewLine(s).d = s.d /\ NewLine(s).x = 0
<1> DEFINE y == IF s.y + 1 = Rows THEN s.y ELSE s.y + 1
           n == [s EXCEPT !.x = 0, !.y = y, !.row = BlankRow]
<1>1. DOMAIN s = {"d", "x", "y", "row"}
  BY DEF Framed
<1>2. NewLine(s) = n
  BY <1>1 DEF NewLine
<1>3. DOMAIN n = DOMAIN s /\ n.d = s.d /\ n.x = 0 /\ n.row = BlankRow
  BY <1>1
<1> HIDE DEF n, y
<1>4. DOMAIN BlankRow = 0 .. Columns - 1 /\ \A c \in 0 .. Columns - 1 : BlankRow[c] = 0
  BY DEF BlankRow
<1>5. 0 \in 0 .. Columns - 1
  BY FourColumns
<1> QED
  BY <1>1, <1>2, <1>3, <1>4, <1>5 DEF Canvas, Framed, BlankAfter

\* A glyph on a blank cell.
LEMMA GlyphSound ==
  ASSUME NEW s, Canvas(s), NEW cp \in Int
  PROVE  LET n == DrawGlyph(s, cp)
             w == WidthOf(cp)
         IN  /\ Canvas(n) /\ n.d = s.d
             /\ s.x + w >= Columns => n.x = 0
             /\ s.x + w < Columns => n.x = s.x + w /\ n.row[s.x] = cp /\ KeptBefore(s, n, s.x)
<1> DEFINE x == s.x
           w == WidthOf(cp)
           g == [s EXCEPT !.row[x] = cp]
           h == [g EXCEPT !.row[x + 1] = Half]
           f == font_draw_char(s, cp)
           m == [f EXCEPT !.x = x + w]
           n == DrawGlyph(s, cp)
<1>1. Framed(s) /\ BlankAfter(s, x) /\ x \in 0 .. Columns - 1
  BY DEF Canvas, Framed
<1>2. Columns \in Nat /\ x \in Int /\ x >= 0 /\ x < Columns /\ w \in {1, 2}
  BY <1>1, FourColumns DEF WidthOf
<1>3. f = IF Wide(cp) /\ x + 1 < Columns THEN h ELSE g
  BY DEF font_draw_char
<1>4. n = IF x + w + 1 > Columns THEN NewLine(f) ELSE m
  BY DEF DrawGlyph, WidthOf
<1>5. Framed(g) /\ g.d = s.d /\ g.x = x /\ g.row[x] = cp /\ \A y \in 0 .. Columns - 1 : y # x => g.row[y] = s.row[y]
  BY <1>1, SetCell
<1>6. CASE Wide(cp) /\ x + 1 < Columns
  <2>1. x + 1 \in 0 .. Columns - 1 /\ w = 2
    BY <1>2, <1>6 DEF WidthOf
  <2> HIDE DEF g, w
  <2>2. Framed(h) /\ h.d = g.d /\ h.x = g.x /\ \A y \in 0 .. Columns - 1 : y # x + 1 => h.row[y] = g.row[y]
    BY <1>5, <2>1, SetCell
  <2>3. f = h
    BY <1>3, <1>6
  <2> HIDE DEF f, h, x
  <2>4. Framed(f) /\ f.d = s.d /\ f.x = x /\ f.row[x] = cp
        /\ \A y \in 0 .. Columns - 1 : y # x /\ y # x + 1 => f.row[y] = s.row[y]
    <3>1. x # x + 1 /\ x \in 0 .. Columns - 1
      BY <1>1, <1>2
    <3> QED
      BY <1>5, <2>2, <2>3, <3>1
  <2>5. CASE x + w >= Columns
    <3>1. x + w + 1 > Columns
      BY <1>2, <2>5
    <3>2. n = NewLine(f)
      BY <1>4, <3>1
    <3> HIDE DEF n
    <3>3. Canvas(n) /\ n.d = s.d /\ n.x = 0 /\ ~(x + w < Columns)
      BY <1>2, <2>4, <2>5, <3>2, NewLineSound
    <3> QED
      BY <2>5, <3>3 DEF n, w, x
  <2>6. CASE x + w < Columns
    <3>1. ~(x + w + 1 > Columns) /\ x + w \in 0 .. Columns - 1 /\ ~(x + w >= Columns)
      BY <1>2, <2>6
    <3>2. Framed(m) /\ m.d = f.d /\ m.x = x + w /\ m.row = f.row
      BY <2>4, <3>1, SetColumn
    <3>3. n = m
      BY <1>4, <3>1
    <3> HIDE DEF n, m
    <3>4. n.row[x] = cp /\ KeptBefore(s, n, x)
      BY <1>2, <2>4, <3>2, <3>3 DEF KeptBefore
    <3>5. ASSUME NEW y \in 0 .. Columns - 1, y > x + w PROVE n.row[y] = 0
      <4>1. y # x /\ y # x + 1 /\ y > x
        BY <1>2, <2>1, <3>5
      <4>2. n.row[y] = s.row[y]
        BY <2>4, <3>2, <3>3, <4>1
      <4> QED
        BY <1>1, <4>1, <4>2 DEF BlankAfter
    <3>6. Canvas(n)
      BY <3>2, <3>3, <3>5 DEF Canvas, BlankAfter
    <3> QED
      BY <2>4, <3>1, <3>2, <3>3, <3>4, <3>6 DEF n, w, x
  <2> QED
    BY <1>2, <2>1, <2>5, <2>6
<1>7. CASE ~(Wide(cp) /\ x + 1 < Columns)
  <2>1. f = g
    BY <1>3, <1>7
  <2>2. w = 1 \/ x + w >= Columns
    BY <1>2, <1>7 DEF WidthOf
  <2> HIDE DEF f, g, w, x
  <2>3. CASE x + w >= Columns
    <3>1. x + w + 1 > Columns
      BY <1>2, <2>3
    <3>2. n = NewLine(f)
      BY <1>4, <3>1
    <3> HIDE DEF n
    <3>3. Canvas(n) /\ n.d = s.d /\ n.x = 0 /\ ~(x + w < Columns)
      BY <1>2, <1>5, <2>1, <2>3, <3>2, NewLineSound
    <3> QED
      BY <2>3, <3>3 DEF n, w, x
  <2>4. CASE w = 1 /\ x + w < Columns
    <3>1. ~(x + w + 1 > Columns) /\ x + w \in 0 .. Columns - 1 /\ ~(x + w >= Columns)
      BY <1>2, <2>4
    <3>2. Framed(m) /\ m.d = f.d /\ m.x = x + w /\ m.row = f.row
      BY <1>5, <2>1, <3>1, SetColumn
    <3>3. n = m
      BY <1>4, <3>1
    <3> HIDE DEF n, m
    <3>4. n.row[x] = cp /\ KeptBefore(s, n, x)
      BY <1>2, <1>5, <2>1, <3>2, <3>3 DEF KeptBefore
    <3>5. ASSUME NEW y \in 0 .. Columns - 1, y > x + w PROVE n.row[y] = 0
      <4>1. y # x /\ y > x
        BY <1>2, <2>4, <3>5
      <4>2. n.row[y] = s.row[y]
        BY <1>5, <2>1, <3>2, <3>3, <4>1
      <4> QED
        BY <1>1, <4>1, <4>2 DEF BlankAfter
    <3>6. Canvas(n)
      BY <3>2, <3>3, <3>5 DEF Canvas, BlankAfter
    <3> QED
      BY <1>5, <2>1, <3>1, <3>2, <3>3, <3>4, <3>6 DEF n, w, x
  <2> QED
    BY <1>2, <2>2, <2>3, <2>4
<1> QED
  BY <1>6, <1>7

\* What a character does to the screen.  13 is not given.
LEMMA DrawSound ==
  ASSUME NEW s, Canvas(s), NEW cp \in Int, cp # 13
  PROVE  LET n == Draw(s, cp)
             w == WidthOf(cp)
         IN  /\ Canvas(n) /\ n.d = s.d
             /\ cp = 8 /\ s.x > 0 => n.x = s.x - 1 /\ KeptBefore(s, n, s.x - 1)
             /\ cp \notin {8, 10} /\ s.x + w >= Columns => n.x = 0
             /\ cp \notin {8, 10} /\ s.x + w < Columns => n.x = s.x + w /\ n.row[s.x] = cp /\ KeptBefore(s, n, s.x)
<1> DEFINE x == s.x
           w == WidthOf(cp)
           c == [s EXCEPT !.row[x] = 0]
           back == [c EXCEPT !.x = x - 1, !.row[x - 1] = 0]
           m == CASE cp = 10 -> NewLine(c)
                  [] cp = 13 -> [c EXCEPT !.x = 0]
                  [] cp = 8 -> IF x > 0 THEN [c EXCEPT !.x = @ - 1, !.row[x - 1] = 0] ELSE c
                  [] OTHER -> DrawGlyph(c, cp)
           at == m.x
           n == [m EXCEPT !.row[at] = Cursor]
<1>1. Framed(s) /\ BlankAfter(s, x) /\ x \in 0 .. Columns - 1
  BY DEF Canvas, Framed
<1>2. Columns \in Nat /\ x \in Int /\ x >= 0 /\ x < Columns /\ w \in {1, 2}
  BY <1>1, FourColumns DEF WidthOf
<1>3. Draw(s, cp) = n
  BY DEF Draw
<1>4. Framed(c) /\ c.d = s.d /\ c.x = x /\ c.row[x] = 0 /\ \A y \in 0 .. Columns - 1 : y # x => c.row[y] = s.row[y]
  BY <1>1, SetCell
<1> HIDE DEF c
<1>5. Canvas(c) /\ KeptBefore(s, c, x)
  <2>1. \A y \in 0 .. Columns - 1 : (y > x \/ y < x) => y # x
    BY <1>2
  <2> QED
    BY <1>1, <1>4, <2>1 DEF Canvas, BlankAfter, KeptBefore
<1>6. /\ Canvas(m) /\ m.d = s.d
      /\ cp = 8 /\ x > 0 => m.x = x - 1 /\ KeptBefore(s, m, x - 1)
      /\ cp \notin {8, 10} /\ x + w >= Columns => m.x = 0
      /\ cp \notin {8, 10} /\ x + w < Columns => m.x = x + w /\ m.row[x] = cp /\ KeptBefore(s, m, x)
  <2>1. CASE cp = 10
    <3>1. m = NewLine(c)
      BY <2>1
    <3> HIDE DEF m
    <3> QED
      BY <1>4, <2>1, <3>1, NewLineSound
  <2>2. CASE cp = 8 /\ x > 0
    <3> DEFINE l == [c EXCEPT !.x = x - 1]
               r == [l EXCEPT !.row[x - 1] = 0]
    <3>1. x - 1 \in 0 .. Columns - 1
      BY <1>2, <2>2
    <3>2. m = [c EXCEPT !.x = c.x - 1, !.row[x - 1] = 0]
      BY <2>2
    <3>3. DOMAIN c = {"d", "x", "y", "row"}
      BY <1>4 DEF Framed
    <3>4. m = r
      BY <1>4, <3>2, <3>3
    <3>5. Framed(l) /\ l.d = c.d /\ l.x = x - 1 /\ l.row = c.row
      BY <1>4, <3>1, SetColumn
    <3> HIDE DEF m, l
    <3>6. Framed(r) /\ r.d = l.d /\ r.x = l.x /\ r.row[x - 1] = 0
          /\ \A y \in 0 .. Columns - 1 : y # x - 1 => r.row[y] = l.row[y]
      BY <3>1, <3>5, SetCell
    <3> HIDE DEF r
    <3>7. KeptBefore(s, r, x - 1)
      <4>1. ASSUME NEW y \in 0 .. Columns - 1, y < x - 1 PROVE r.row[y] = s.row[y]
        <5>1. y < x /\ y # x - 1
          BY <1>2, <4>1
        <5> QED
          BY <1>5, <3>5, <3>6, <5>1 DEF KeptBefore
      <4> QED
        BY <4>1 DEF KeptBefore
    <3>8. ASSUME NEW y \in 0 .. Columns - 1, y > x - 1 PROVE r.row[y] = 0
      <4>1. y # x - 1 /\ (y = x \/ y > x)
        BY <1>2, <3>8
      <4>2. r.row[y] = c.row[y]
        BY <3>5, <3>6, <4>1
      <4> QED
        BY <1>4, <1>5, <4>1, <4>2 DEF Canvas, BlankAfter
    <3>9. Canvas(r)
      BY <3>5, <3>6, <3>8 DEF Canvas, BlankAfter
    <3> QED
      BY <1>4, <2>2, <3>4, <3>5, <3>6, <3>7, <3>9
  <2>3. CASE cp = 8 /\ ~(x > 0)
    <3>1. m = c
      BY <2>3
    <3> HIDE DEF m
    <3> QED
      BY <1>4, <1>5, <2>3, <3>1
  <2>4. CASE cp \notin {8, 10}
    <3>1. m = DrawGlyph(c, cp)
      BY <2>4
    <3> HIDE DEF m, w
    <3>2. /\ Canvas(m) /\ m.d = c.d
          /\ x + w >= Columns => m.x = 0
          /\ x + w < Columns => m.x = x + w /\ m.row[x] = cp /\ KeptBefore(c, m, x)
      BY <1>4, <1>5, <3>1, GlyphSound DEF w
    <3>3. KeptBefore(c, m, x) => KeptBefore(s, m, x)
      BY <1>5 DEF KeptBefore
    <3> QED
      BY <1>4, <2>4, <3>2, <3>3
  <2> QED
    BY <2>1, <2>2, <2>3, <2>4
<1> HIDE DEF m
<1>7. Framed(m) /\ m.x \in 0 .. Columns - 1
  BY <1>6 DEF Canvas, Framed
<1>8. Framed(n) /\ n.d = m.d /\ n.x = m.x /\ \A y \in 0 .. Columns - 1 : y # m.x => n.row[y] = m.row[y]
  <2>1. at \in 0 .. Columns - 1 /\ at = m.x
    BY <1>7
  <2> HIDE DEF at
  <2>2. DOMAIN m = {"d", "x", "y", "row"} /\ DOMAIN m.row = 0 .. Columns - 1 /\ m.x \in 0 .. Columns - 1
    BY <1>7 DEF Framed
  <2>3. DOMAIN n = DOMAIN m /\ n.d = m.d /\ n.x = m.x /\ n.row = [m.row EXCEPT ![at] = Cursor]
    BY <2>2
  <2> HIDE DEF n
  <2>4. DOMAIN n.row = 0 .. Columns - 1 /\ \A y \in 0 .. Columns - 1 : y # at => n.row[y] = m.row[y]
    BY <2>1, <2>2, <2>3
  <2> QED
    BY <2>1, <2>2, <2>3, <2>4 DEF Framed
<1> HIDE DEF n
<1>9. Canvas(n)
  <2>1. ASSUME NEW y \in 0 .. Columns - 1, y > m.x PROVE n.row[y] = 0
    <3>1. y # m.x
      BY <1>7, <2>1
    <3> QED
      BY <1>6, <1>8, <2>1, <3>1 DEF Canvas, BlankAfter
  <2> QED
    BY <1>8, <2>1 DEF Canvas, BlankAfter
<1>10. ASSUME NEW z \in Int, z <= m.x, KeptBefore(s, m, z) PROVE KeptBefore(s, n, z)
  <2>1. \A y \in 0 .. Columns - 1 : y < z => y # m.x
    BY <1>7, <1>10
  <2> QED
    BY <1>8, <1>10, <2>1 DEF KeptBefore
<1>11. cp = 8 /\ x > 0 => n.x = x - 1 /\ KeptBefore(s, n, x - 1)
  BY <1>2, <1>6, <1>8, <1>10
<1>12. ASSUME cp \notin {8, 10}, x + w < Columns
       PROVE  n.x = x + w /\ n.row[x] = cp /\ KeptBefore(s, n, x)
  <2>1. m.x = x + w /\ m.row[x] = cp /\ KeptBefore(s, m, x) /\ x # m.x /\ x <= m.x
    BY <1>2, <1>6, <1>12
  <2> QED
    BY <1>1, <1>2, <1>8, <1>10, <2>1
<1> QED
  BY <1>3, <1>6, <1>8, <1>9, <1>11, <1>12 DEF x, w

\* Bytes that never start an overlong character, after which the decoder is sound.
Follows(d, b) ==
  /\ b \in Int /\ b >= 0 /\ b <= 239 /\ b \notin {13, 192, 193}
  /\ d.st = 2 /\ d.cp = 0 /\ Continues(b) => b >= 160
Overlong(d) == d.st = 2 /\ d.cp = 0

LEMMA DecodeSound ==
  ASSUME NEW d, DecoderOK(d), NEW b, Follows(d, b)
  PROVE  LET e == Decode(d, b)
         IN  /\ DecoderOK(e) /\ (e.st = 0 => e.cp # 13) /\ (b # 224 => ~Overlong(e))
             /\ e.st = CASE d.st > 0 -> IF Continues(b) THEN d.st - 1 ELSE 0
                         [] d.st = 0 /\ b \in 194 .. 223 -> 1
                         [] d.st = 0 /\ b \in 224 .. 239 -> 2
                         [] OTHER -> 0
             /\ d.st = 0 /\ b < 128 => e.cp = b
<1> DEFINE e == Decode(d, b)
<1>1. /\ d.st \in Int /\ d.st >= 0 /\ d.st <= 2 /\ d.cp \in Int /\ (d.st = 1 => d.cp >= 2) /\ (d.st = 2 => d.cp >= 0)
      /\ b \in Int /\ b >= 0 /\ b <= 239 /\ b # 13 /\ b # 192 /\ b # 193
      /\ d.st = 2 /\ d.cp = 0 /\ Continues(b) => b >= 160
  BY DEF DecoderOK, Follows
<1>2. Continues(b) <=> b >= 128 /\ b <= 191
  BY <1>1 DEF Continues
<1>3. CASE d.st = 0 /\ b < 128
  <2>1. e = [st |-> 0, cp |-> b]
    BY <1>3 DEF Decode
  <2> HIDE DEF e
  <2>2. e.st = 0 /\ e.cp = b
    BY <2>1
  <2>3. b \notin 194 .. 223 /\ b \notin 224 .. 239
    BY <1>1, <1>3
  <2> QED
    BY <1>1, <1>3, <2>1, <2>2, <2>3 DEF e, DecoderOK, Overlong
<1>4. CASE d.st = 0 /\ b >= 194 /\ b <= 223
  <2>1. ~(b < 128) /\ b \in 192 .. 223 /\ b \in 194 .. 223 /\ b - 192 \in Int /\ b - 192 >= 2
    BY <1>1, <1>4
  <2>2. e = [st |-> 1, cp |-> b - 192]
    BY <1>4, <2>1 DEF Decode
  <2> HIDE DEF e
  <2>3. e.st = 1 /\ e.cp = b - 192
    BY <2>2
  <2> QED
    BY <1>4, <2>1, <2>2, <2>3 DEF e, DecoderOK, Overlong
<1>5. CASE d.st = 0 /\ b >= 224
  <2>1. /\ ~(b < 128) /\ b \notin 192 .. 223 /\ b \notin 194 .. 223 /\ b \in 224 .. 239
        /\ b - 224 \in Int /\ b - 224 >= 0 /\ (b # 224 => b - 224 # 0)
    BY <1>1, <1>5
  <2>2. e = [st |-> 2, cp |-> b - 224]
    BY <1>5, <2>1 DEF Decode
  <2> HIDE DEF e
  <2>3. e.st = 2 /\ e.cp = b - 224
    BY <2>2
  <2> QED
    BY <1>5, <2>1, <2>2, <2>3 DEF e, DecoderOK, Overlong
<1>6. CASE d.st > 0 /\ Continues(b)
  <2>1. e = [st |-> d.st - 1, cp |-> d.cp * 64 + b - 128]
    BY <1>1, <1>6 DEF Decode
  <2> HIDE DEF e
  <2>2. e.st = d.st - 1 /\ e.cp = d.cp * 64 + b - 128
    BY <2>1
  <2>3. d.st = 1 \/ d.st = 2
    BY <1>1, <1>6
  <2>4. d.st = 1 => d.cp * 64 + b - 128 >= 128
    BY <1>1, <1>2, <1>6
  <2>5. d.st = 2 => d.cp * 64 + b - 128 >= 2
    BY <1>1, <1>2, <1>6
  <2>6. d.st - 1 \in 0 .. 2 /\ d.st - 1 # 2 /\ d.cp * 64 + b - 128 \in Int
    BY <1>1, <2>3
  <2>7. DecoderOK(e)
    BY <1>1, <2>1, <2>2, <2>3, <2>5, <2>6 DEF DecoderOK
  <2>8. e.st = 0 => e.cp # 13
    BY <1>1, <2>2, <2>3, <2>4
  <2>9. ~Overlong(e)
    BY <2>2, <2>6 DEF Overlong
  <2> QED
    BY <1>1, <1>6, <2>2, <2>7, <2>8, <2>9 DEF e
<1>7. CASE (d.st > 0 /\ ~Continues(b)) \/ (d.st = 0 /\ Continues(b))
  <2>1. /\ ~(d.st = 0 /\ b < 128) /\ ~(d.st = 0 /\ b \in 192 .. 223) /\ ~(d.st = 0 /\ b \in 224 .. 239)
        /\ ~(d.st = 0 /\ b \in 240 .. 247) /\ ~(d.st > 0 /\ Continues(b)) /\ ~(d.st = 0 /\ b \in 194 .. 223)
    BY <1>1, <1>2, <1>7
  <2>2. e = [st |-> 0, cp |-> 63]
    BY <2>1 DEF Decode
  <2> HIDE DEF e
  <2>3. e.st = 0 /\ e.cp = 63
    BY <2>2
  <2> QED
    BY <1>1, <1>7, <2>1, <2>2, <2>3 DEF e, DecoderOK, Overlong
<1> QED
  BY <1>1, <1>2, <1>3, <1>4, <1>5, <1>6, <1>7

\* A character drawn where the cursor is, or at the end of the row.
Drawn(s, n, cp) ==
  \/ s.x + WidthOf(cp) >= Columns /\ n.x = 0
  \/ n.x = s.x + WidthOf(cp) /\ n.row[s.x] = cp /\ KeptBefore(s, n, s.x)

LEMMA PutSound ==
  ASSUME NEW s, ScreenOK(s), NEW b, Follows(s.d, b)
  PROVE  LET n == lkputchar(s, b)
             d == Decode(s.d, b)
         IN  /\ ScreenOK(n) /\ n.d = d
             /\ d.st > 0 => n.x = s.x /\ n.row = s.row
             /\ d.st = 0 /\ d.cp \notin {8, 10} => Drawn(s, n, d.cp)
             /\ d.st = 0 /\ d.cp = 8 /\ s.x > 0 => n.x = s.x - 1 /\ KeptBefore(s, n, s.x - 1)
<1> DEFINE d == Decode(s.d, b)
           e == [s EXCEPT !.d = d]
           n == lkputchar(s, b)
<1>1. DecoderOK(d) /\ (d.st = 0 => d.cp # 13)
  BY DecodeSound DEF ScreenOK
<1>2. Canvas(s) /\ DOMAIN s = {"d", "x", "y", "row"} /\ s.x \in 0 .. Columns - 1
  BY DEF ScreenOK, Canvas, Framed
<1>3. n = IF d.st > 0 THEN e ELSE Draw(e, d.cp)
  BY DEF lkputchar
<1> HIDE DEF d, n
<1>4. DOMAIN e = DOMAIN s /\ e.d = d /\ e.x = s.x /\ e.row = s.row
  BY <1>2
<1> HIDE DEF e
<1>5. Canvas(e)
  BY <1>2, <1>4 DEF Canvas, Framed, BlankAfter
<1>6. d.st \in Int /\ d.st >= 0 /\ d.cp \in Int
  BY <1>1 DEF DecoderOK
<1>7. CASE d.st > 0
  <2>1. n = e /\ ~(d.st = 0)
    BY <1>3, <1>6, <1>7
  <2>2. ScreenOK(n)
    BY <1>1, <1>4, <1>5, <2>1 DEF ScreenOK
  <2> QED
    BY <1>4, <2>1, <2>2 DEF n, d
<1>8. CASE d.st = 0
  <2>1. n = Draw(e, d.cp) /\ ~(d.st > 0)
    BY <1>3, <1>8
  <2> DEFINE cp == d.cp
             w == WidthOf(cp)
  <2>2. cp \in Int /\ cp # 13
    BY <1>1, <1>6, <1>8
  <2> HIDE DEF cp
  <2>3. /\ Canvas(n) /\ n.d = e.d
        /\ cp = 8 /\ e.x > 0 => n.x = e.x - 1 /\ KeptBefore(e, n, e.x - 1)
        /\ cp \notin {8, 10} /\ e.x + w >= Columns => n.x = 0
        /\ cp \notin {8, 10} /\ e.x + w < Columns => n.x = e.x + w /\ n.row[e.x] = cp /\ KeptBefore(e, n, e.x)
    <3>1. n = Draw(e, cp)
      BY <2>1 DEF cp
    <3> QED
      BY <1>5, <2>2, <3>1, DrawSound
  <2>4. \A z : KeptBefore(e, n, z) => KeptBefore(s, n, z)
    BY <1>4 DEF KeptBefore
  <2>5. ScreenOK(n)
    BY <1>1, <1>4, <2>3 DEF ScreenOK
  <2>6. s.x + w >= Columns \/ s.x + w < Columns
    BY <1>2, FourColumns DEF WidthOf
  <2>7. cp \notin {8, 10} => Drawn(s, n, cp)
    BY <1>4, <2>3, <2>4, <2>6 DEF Drawn
  <2> QED
    BY <1>4, <2>1, <2>3, <2>4, <2>5, <2>7 DEF n, d, cp
<1> QED
  BY <1>6, <1>7, <1>8

\* Any byte of the keyboard or of a program.
LEMMA LkSound ==
  ASSUME NEW s, ScreenOK(s), NEW b, Follows(s.d, b)
  PROVE  LET n == lkputchar(s, b)
         IN  /\ ScreenOK(n) /\ (b # 224 => ~Overlong(n.d))
             /\ n.d.st = CASE s.d.st > 0 -> IF Continues(b) THEN s.d.st - 1 ELSE 0
                           [] s.d.st = 0 /\ b \in 194 .. 223 -> 1
                           [] s.d.st = 0 /\ b \in 224 .. 239 -> 2
                           [] OTHER -> 0
<1> DEFINE n == lkputchar(s, b)
<1>1. ScreenOK(n) /\ n.d = Decode(s.d, b)
  BY PutSound
<1> HIDE DEF n
<1>2. DecoderOK(s.d)
  BY DEF ScreenOK
<1>3. /\ b # 224 => ~Overlong(n.d)
      /\ n.d.st = CASE s.d.st > 0 -> IF Continues(b) THEN s.d.st - 1 ELSE 0
                    [] s.d.st = 0 /\ b \in 194 .. 223 -> 1
                    [] s.d.st = 0 /\ b \in 224 .. 239 -> 2
                    [] OTHER -> 0
  BY <1>1, <1>2, DecodeSound
<1> QED
  BY <1>1, <1>3 DEF n

\* A character of one byte: 8 and 10 move the cursor.
LEMMA PlainPut ==
  ASSUME NEW s, ScreenOK(s), NEW b, Plain(b) \/ b \in {8, 10}
  PROVE  LET n == lkputchar(s, b)
         IN  /\ ScreenOK(n) /\ n.d.st = 0
             /\ Plain(b) /\ s.d.st = 0 => Drawn(s, n, b)
             /\ b = 8 /\ s.d.st = 0 /\ s.x > 0 => n.x = s.x - 1 /\ KeptBefore(s, n, s.x - 1)
<1> DEFINE n == lkputchar(s, b)
           d == Decode(s.d, b)
<1>1. b \in Int /\ b >= 0 /\ b < 128 /\ b # 13 /\ (Plain(b) => b # 8 /\ b # 10)
  BY DEF Plain
<1>2. ~Continues(b) /\ b \notin 194 .. 223 /\ b \notin 224 .. 239
  BY <1>1 DEF Continues
<1>3. Follows(s.d, b)
  BY <1>1, <1>2 DEF Follows
<1>4. DecoderOK(s.d)
  BY DEF ScreenOK
<1>5. /\ d.st = CASE s.d.st > 0 -> IF Continues(b) THEN s.d.st - 1 ELSE 0
                  [] s.d.st = 0 /\ b \in 194 .. 223 -> 1
                  [] s.d.st = 0 /\ b \in 224 .. 239 -> 2
                  [] OTHER -> 0
      /\ s.d.st = 0 => d.cp = b
  BY <1>1, <1>3, <1>4, DecodeSound
<1>6. /\ ScreenOK(n) /\ n.d = d
      /\ d.st = 0 /\ d.cp \notin {8, 10} => Drawn(s, n, d.cp)
      /\ d.st = 0 /\ d.cp = 8 /\ s.x > 0 => n.x = s.x - 1 /\ KeptBefore(s, n, s.x - 1)
  BY <1>3, PutSound
<1> HIDE DEF n, d
<1>7. d.st = 0
  BY <1>2, <1>5
<1> QED
  BY <1>1, <1>5, <1>6, <1>7 DEF n

\* A sign of three bytes takes two columns.
LEMMA SignPut ==
  ASSUME NEW s, ScreenOK(s), NEW b1 \in Int, NEW b2 \in Int, NEW b3 \in Int, IsSign(b1, b2, b3)
  PROVE  LET n1 == lkputchar(s, b1)
             n2 == lkputchar(n1, b2)
             n3 == lkputchar(n2, b3)
         IN  /\ ScreenOK(n1) /\ ScreenOK(n2) /\ ScreenOK(n3)
             /\ ~Overlong(n1.d) /\ ~Overlong(n2.d) /\ ~Overlong(n3.d) /\ n3.d.st = 0
             /\ s.d.st = 0 => n1.d.st > 0 /\ n2.d.st > 0 /\ Drawn(s, n3, Value(b1, b2, b3))
             /\ WidthOf(Value(b1, b2, b3)) = 2
<1> DEFINE n1 == lkputchar(s, b1)
           n2 == lkputchar(n1, b2)
           n3 == lkputchar(n2, b3)
           cp == Value(b1, b2, b3)
           d1 == [st |-> 2, cp |-> b1 - 224]
           d2 == [st |-> 1, cp |-> (b1 - 224) * 64 + b2 - 128]
           d3 == [st |-> 0, cp |-> cp]
<1>1. Lead(b1) /\ Continues(b2) /\ Continues(b3) /\ cp \in Int /\ cp >= 8192
  BY DEF IsSign, Signs
<1>2. /\ b1 >= 226 /\ b1 <= 239 /\ b2 >= 128 /\ b2 <= 191 /\ b3 >= 128 /\ b3 <= 191
      /\ ~Continues(b1) /\ b1 \notin 194 .. 223 /\ b1 \in 224 .. 239
      /\ b2 \notin 194 .. 223 /\ b2 \notin 224 .. 239 /\ b3 \notin 194 .. 223 /\ b3 \notin 224 .. 239
  BY <1>1 DEF Lead, Continues
<1>3. WidthOf(cp) = 2 /\ cp \notin {8, 10}
  BY <1>1 DEF WidthOf, Wide
<1> HIDE DEF cp
<1>4. s.d.st \in Int /\ s.d.st >= 0
  BY DEF ScreenOK, DecoderOK
<1>5. Follows(s.d, b1)
  BY <1>2 DEF Follows
<1>6. ScreenOK(n1) /\ ~Overlong(n1.d) /\ n1.d.st = IF s.d.st > 0 THEN 0 ELSE 2
  BY <1>2, <1>4, <1>5, LkSound
<1>7. s.d.st = 0 => n1.d = Decode(s.d, b1) /\ (n1.d.st > 0 => n1.x = s.x /\ n1.row = s.row)
  BY <1>5, PutSound
<1> HIDE DEF n1
<1>8. Follows(n1.d, b2)
  BY <1>2, <1>6 DEF Follows, Overlong
<1>9. ScreenOK(n2) /\ ~Overlong(n2.d) /\ n2.d.st = IF n1.d.st > 0 THEN n1.d.st - 1 ELSE 0
  <2>1. n1.d.st \in {0, 2}
    BY <1>6
  <2>2. /\ ScreenOK(n2) /\ (b2 # 224 => ~Overlong(n2.d))
        /\ n2.d.st = CASE n1.d.st > 0 -> IF Continues(b2) THEN n1.d.st - 1 ELSE 0
                       [] n1.d.st = 0 /\ b2 \in 194 .. 223 -> 1
                       [] n1.d.st = 0 /\ b2 \in 224 .. 239 -> 2
                       [] OTHER -> 0
    BY <1>6, <1>8, LkSound
  <2> HIDE DEF n2
  <2> QED
    BY <1>1, <1>2, <2>1, <2>2
<1>10. n2.d = Decode(n1.d, b2) /\ (n2.d.st > 0 => n2.x = n1.x /\ n2.row = n1.row)
  BY <1>6, <1>8, PutSound
<1> HIDE DEF n2
<1>11. Follows(n2.d, b3)
  BY <1>2, <1>9 DEF Follows, Overlong
<1>12. ScreenOK(n3) /\ ~Overlong(n3.d) /\ n3.d.st = 0
  <2>1. n2.d.st \in {0, 1}
    BY <1>6, <1>9
  <2>2. /\ ScreenOK(n3) /\ (b3 # 224 => ~Overlong(n3.d))
        /\ n3.d.st = CASE n2.d.st > 0 -> IF Continues(b3) THEN n2.d.st - 1 ELSE 0
                       [] n2.d.st = 0 /\ b3 \in 194 .. 223 -> 1
                       [] n2.d.st = 0 /\ b3 \in 224 .. 239 -> 2
                       [] OTHER -> 0
    BY <1>9, <1>11, LkSound
  <2> HIDE DEF n3
  <2> QED
    BY <1>1, <1>2, <2>1, <2>2
<1>13. LET d == Decode(n2.d, b3) IN d.st = 0 /\ d.cp \notin {8, 10} => Drawn(n2, n3, d.cp)
  BY <1>9, <1>11, PutSound
<1> HIDE DEF n3
<1>14. ASSUME s.d.st = 0 PROVE n1.d.st > 0 /\ n2.d.st > 0 /\ Drawn(s, n3, cp)
  <2>1. Decode(s.d, b1) = d1 /\ Decode(d1, b2) = d2 /\ Decode(d2, b3) = d3
    BY <1>1, <1>14, DecodeSign DEF cp
  <2>2. d1.st > 0 /\ d2.st > 0 /\ d3.st = 0 /\ d3.cp = cp
    OBVIOUS
  <2> HIDE DEF d1, d2, d3
  <2>3. n1.d = d1 /\ n2.d = d2 /\ Decode(n2.d, b3) = d3
    BY <1>7, <1>10, <1>14, <2>1
  <2>4. n1.d.st > 0 /\ n2.d.st > 0 /\ n2.x = s.x /\ n2.row = s.row
    BY <1>7, <1>10, <1>14, <2>2, <2>3
  <2>5. Drawn(n2, n3, cp)
    BY <1>3, <1>13, <2>2, <2>3
  <2> QED
    BY <2>4, <2>5 DEF Drawn, KeptBefore
<1> QED
  BY <1>3, <1>6, <1>9, <1>12, <1>14 DEF n1, n2, n3, cp

-----------------------------------------------------------------------------
\* The line on the screen.  Its characters have their columns, one behind the other.
Laid(a) == Len(a.cols) = Len(a.chars) /\ \A i \in 1 .. Len(a.cols) : a.cols[i] < a.width
Shows(h, s, a) == s.x = h + a.width /\ \A i \in DOMAIN a.chars : s.row[h + a.cols[i]] = a.chars[i]
\* The line starts at column h.
At(h, k) == IsText(k.lbuf) /\ Shows(h, k.screen, Text(k.lbuf))

LEMMA AppendedAt ==
  ASSUME NEW S, NEW s \in Seq(S), NEW v \in S, NEW i \in 1 .. Len(s)
  PROVE  Append(s, v)[i] = s[i] /\ s[i] \in S
  OBVIOUS

\* A character leaves those before it where they are.
LEMMA SaidCells ==
  ASSUME NEW a \in Readings, Laid(a), NEW cp \in Int, NEW i \in 1 .. Len(a.chars)
  PROVE  LET b == Said(a, cp)
         IN  /\ b.cols[i] = a.cols[i] /\ b.chars[i] = a.chars[i]
             /\ a.cols[i] \in Nat /\ a.cols[i] < a.width /\ i \in 1 .. Len(a.chars) + 1
<1> DEFINE b == Said(a, cp)
           x == a.cols
           y == a.chars
           w == a.width
<1>1. x \in Seq(Nat) /\ y \in Seq(Int) /\ w \in Nat /\ Len(x) = Len(y) /\ \A j \in 1 .. Len(x) : x[j] < w
  BY DEF Readings, Laid
<1>2. b.cols = Append(x, w) /\ b.chars = Append(y, cp)
  BY DEF Said
<1> HIDE DEF b, x, y, w
<1>3. Len(y) \in Nat
  BY <1>1
<1>4. i \in 1 .. Len(y) /\ i \in 1 .. Len(x)
  BY <1>1 DEF y
<1>5. Append(x, w)[i] = x[i] /\ x[i] \in Nat
  BY <1>1, <1>4, AppendedAt
<1>6. Append(y, cp)[i] = y[i]
  BY <1>1, <1>4, AppendedAt
<1>7. i \in 1 .. Len(y) + 1
  BY <1>3, <1>4
<1> QED
  BY <1>1, <1>2, <1>4, <1>5, <1>6, <1>7 DEF b, x, y, w

LEMMA SaidLaid ==
  ASSUME NEW a \in Readings, Laid(a), NEW cp \in Int
  PROVE  Laid(Said(a, cp))
<1> DEFINE b == Said(a, cp)
           m == Len(a.cols)
<1>1. a.cols \in Seq(Nat) /\ a.chars \in Seq(Int) /\ a.width \in Nat /\ m = Len(a.chars)
      /\ \A i \in 1 .. m : a.cols[i] < a.width
  BY DEF Readings, Laid
<1>2. /\ b.cols = Append(a.cols, a.width) /\ b.chars = Append(a.chars, cp)
      /\ b.width = a.width + (IF Wide(cp) THEN 2 ELSE 1)
  BY DEF Said
<1> HIDE DEF b
<1>3. b.width > a.width
  BY <1>1, <1>2
<1>4. Len(b.cols) = m + 1 /\ Len(b.chars) = m + 1
  BY <1>1, <1>2, SMTT(30)
<1>5. ASSUME NEW i \in 1 .. m + 1 PROVE b.cols[i] < b.width
  <2>1. m \in Nat
    BY <1>1
  <2>2. CASE i = m + 1
    <3>1. b.cols[i] = a.width
      BY <1>1, <1>2, <2>2
    <3> QED
      BY <1>3, <3>1
  <2>3. CASE i \in 1 .. m
    <3>1. b.cols[i] = a.cols[i] /\ a.cols[i] \in Nat /\ a.cols[i] < a.width
      BY <1>1, <2>3, SaidCells DEF b
    <3>2. a.width \in Nat /\ b.width \in Nat
      BY <1>1, <1>2
    <3> QED
      BY <1>3, <3>1, <3>2
  <2> QED
    BY <2>1, <2>2, <2>3
<1> QED
  BY <1>4, <1>5 DEF Laid, b

LEMMA TextLaid ==
  ASSUME NEW s, IsText(s)
  PROVE  Laid(Text(s))
<1> DEFINE P == {t \in Seq(Int) : IsText(t) /\ Laid(Text(t))}
<1>1. <<>> \in P
  <2>1. NoText.cols = <<>> /\ NoText.chars = <<>>
    BY DEF NoText
  <2>2. Laid(NoText)
    BY <2>1 DEF Laid
  <2> QED
    BY <2>2, TextEmpty, EmptyText
<1>2. ASSUME NEW t \in P, NEW b \in Int, IsText(t), Plain(b) PROVE Append(t, b) \in P
  <2>1. Text(t) \in Readings /\ Text(Append(t, b)) = Said(Text(t), b)
    BY <1>2, TextSound
  <2>2. Laid(Said(Text(t), b)) /\ IsText(Append(t, b)) /\ Append(t, b) \in Seq(Int)
    BY <1>2, <2>1, SaidLaid, TextGrows
  <2> QED
    BY <2>1, <2>2
<1>3. ASSUME NEW t \in P, NEW b1 \in Int, NEW b2 \in Int, NEW b3 \in Int, IsText(t), IsSign(b1, b2, b3)
      PROVE  ThreeMore(t, b1, b2, b3) \in P
  <2>1. Text(t) \in Readings /\ Text(ThreeMore(t, b1, b2, b3)) = Said(Text(t), Value(b1, b2, b3))
    BY <1>3, TextSound
  <2>2. IsText(ThreeMore(t, b1, b2, b3))
    BY <1>3, TextGrows
  <2>3. Value(b1, b2, b3) \in Int
    BY DEF Value
  <2>4. Laid(Said(Text(t), Value(b1, b2, b3)))
    BY <1>3, <2>1, <2>3, SaidLaid
  <2>5. ThreeMore(t, b1, b2, b3) \in Seq(Int)
    BY <2>2 DEF IsText
  <2> QED
    BY <2>1, <2>2, <2>4, <2>5
<1> HIDE DEF P
<1>4. s \in P
  BY <1>1, <1>2, <1>3, TextInduction
<1> QED
  BY <1>4 DEF P

\* One more character is drawn behind the line.
LEMMA ShowsSaid ==
  ASSUME NEW h \in Nat, NEW a \in Readings, Laid(a), NEW cp \in Int,
         NEW s, ScreenOK(s), Shows(h, s, a),
         NEW n, n.x = s.x + WidthOf(cp), n.row[s.x] = cp, KeptBefore(s, n, s.x)
  PROVE  Shows(h, n, Said(a, cp))
<1> DEFINE b == Said(a, cp)
           m == Len(a.chars)
<1>1. a.cols \in Seq(Nat) /\ a.chars \in Seq(Int) /\ a.width \in Nat /\ m = Len(a.cols) /\ m \in Nat
      /\ \A i \in 1 .. m : a.cols[i] < a.width
  BY DEF Readings, Laid
<1>2. /\ b.cols = Append(a.cols, a.width) /\ b.chars = Append(a.chars, cp)
      /\ b.width = a.width + WidthOf(cp)
  BY DEF Said, WidthOf
<1> HIDE DEF b
<1>3. s.x = h + a.width /\ (\A i \in DOMAIN a.chars : s.row[h + a.cols[i]] = a.chars[i]) /\ s.x \in 0 .. Columns - 1
  BY DEF Shows, ScreenOK, Canvas, Framed
<1>4. n.x = h + b.width
  BY <1>1, <1>2, <1>3 DEF WidthOf
<1>5. DOMAIN b.chars = 1 .. m + 1 /\ DOMAIN a.chars = 1 .. m
  BY <1>1, <1>2
<1>6. ASSUME NEW i \in 1 .. m + 1 PROVE n.row[h + b.cols[i]] = b.chars[i]
  <2>1. CASE i = m + 1
    <3>1. b.cols[i] = a.width /\ b.chars[i] = cp
      BY <1>1, <1>2, <2>1
    <3> QED
      BY <1>3, <3>1
  <2>2. CASE i \in 1 .. m
    <3> DEFINE c == a.cols[i]
               y == h + c
    <3>1. b.cols[i] = c /\ b.chars[i] = a.chars[i] /\ c \in Nat /\ c < a.width
      BY <1>1, <2>2, SaidCells DEF b
    <3>5. a.width \in Nat /\ s.x = h + a.width /\ s.x \in 0 .. Columns - 1
      BY <1>1, <1>3
    <3>2. y \in 0 .. Columns - 1 /\ y < s.x
      <4> HIDE DEF c
      <4> QED
        BY <3>1, <3>5, FourColumns
    <3>3. s.row[y] = a.chars[i]
      BY <1>3, <1>5, <2>2
    <3> HIDE DEF y
    <3>4. n.row[y] = a.chars[i]
      BY <3>2, <3>3 DEF KeptBefore
    <3> QED
      BY <3>1, <3>4 DEF y
  <2> QED
    BY <1>1, <2>1, <2>2
<1> QED
  BY <1>4, <1>5, <1>6 DEF Shows, b

\* The last character is taken away.
LEMMA ShowsErased ==
  ASSUME NEW h \in Nat, NEW a \in Readings, Laid(a), NEW cp \in Int,
         NEW s, ScreenOK(s), Shows(h, s, Said(a, cp)),
         NEW n, n.x = s.x - WidthOf(cp), KeptBefore(s, n, s.x - WidthOf(cp))
  PROVE  Shows(h, n, a)
<1> DEFINE b == Said(a, cp)
           m == Len(a.chars)
<1>1. a.cols \in Seq(Nat) /\ a.chars \in Seq(Int) /\ a.width \in Nat /\ m = Len(a.cols) /\ m \in Nat
      /\ \A i \in 1 .. m : a.cols[i] < a.width
  BY DEF Readings, Laid
<1>2. /\ b.cols = Append(a.cols, a.width) /\ b.chars = Append(a.chars, cp)
      /\ b.width = a.width + WidthOf(cp)
  BY DEF Said, WidthOf
<1>3. s.x = h + b.width /\ (\A i \in DOMAIN b.chars : s.row[h + b.cols[i]] = b.chars[i]) /\ s.x \in 0 .. Columns - 1
  BY DEF Shows, ScreenOK, Canvas, Framed
<1> HIDE DEF b
<1>4. n.x = h + a.width
  BY <1>1, <1>2, <1>3 DEF WidthOf
<1>5. DOMAIN b.chars = 1 .. m + 1 /\ DOMAIN a.chars = 1 .. m
  BY <1>1, <1>2
<1>6. ASSUME NEW i \in 1 .. m PROVE n.row[h + a.cols[i]] = a.chars[i]
  <2> DEFINE c == a.cols[i]
             y == h + c
             w == WidthOf(cp)
  <2>1. b.cols[i] = c /\ b.chars[i] = a.chars[i] /\ c \in Nat /\ c < a.width /\ i \in 1 .. m + 1
    BY SaidCells DEF b
  <2>6. w \in {1, 2}
    BY DEF WidthOf
  <2>5. a.width \in Nat /\ s.x = h + a.width + w /\ s.x \in 0 .. Columns - 1
    <3> HIDE DEF w, c, y, m
    <3>1. a.width \in Nat /\ b.width = a.width + w /\ s.x = h + b.width /\ s.x \in 0 .. Columns - 1
      BY <1>1, <1>2, <1>3 DEF w
    <3> QED
      BY <2>6, <3>1
  <2>2. s.row[y] = a.chars[i]
    BY <1>3, <1>5, <2>1
  <2>3. y \in 0 .. Columns - 1 /\ y < s.x - w
    <3> HIDE DEF c, w
    <3>1. c \in Nat /\ c < a.width
      BY <2>1
    <3> QED
      BY <2>5, <2>6, <3>1, FourColumns, SMTT(30)
  <2> HIDE DEF y
  <2>4. n.row[y] = a.chars[i]
    BY <2>2, <2>3 DEF KeptBefore
  <2> QED
    BY <2>4 DEF y
<1> QED
  BY <1>4, <1>5, <1>6 DEF Shows

-----------------------------------------------------------------------------
\* The echo of what is fed to the line.
\* Nothing happened, or no character is left unfinished unless the line is full.
Rests(k, n) ==
  \/ n.screen = k.screen /\ n.lbuf = k.lbuf
  \/ ~Overlong(n.screen.d) /\ (n.screen.d.st > 0 => Len(n.lbuf) = LBUF_MAX)
\* One character of w columns: dropped, cut, on the next row, or drawn behind the line.
Grown(k, n, w) ==
  \/ n.screen = k.screen /\ n.lbuf = k.lbuf
  \/ n.screen.d.st > 0 /\ Len(n.lbuf) = LBUF_MAX
  \/ k.screen.x + w >= Columns /\ n.screen.x = 0 /\ n.screen.d.st = 0
  \/ n.screen.x = k.screen.x + w /\ n.screen.d.st = 0 /\ \A h \in Nat : At(h, k) => At(h, n)
Echoed(k, n, w) ==
  /\ ScreenOK(n.screen) /\ Rests(k, n)
  /\ k.line.ready => n.screen = k.screen /\ n.lbuf = k.lbuf
  /\ k.screen.d.st = 0 => Grown(k, n, w)

LEMMA SameEcho ==
  ASSUME NEW k, ScreenOK(k.screen), NEW n, n.screen = k.screen, n.lbuf = k.lbuf, NEW w
  PROVE  Echoed(k, n, w)
  BY DEF Echoed, Rests, Grown

LEMMA BoxesSound ==
  ASSUME NEW k, Boxes(k)
  PROVE  k.lbuf \in Seq(Int) /\ Len(k.lbuf) \in Nat /\ Len(k.lbuf) <= LBUF_MAX /\ LBUF_MAX \in Nat /\ k.line.ready \in BOOLEAN
  BY ConsoleAssumption DEF Boxes

LEMMA PlainEcho ==
  ASSUME NEW k, Boxes(k), ScreenOK(k.screen), NEW c, Plain(c)
  PROVE  Echoed(k, keyboard_readline_feed(k, c), 1)
<1> DEFINE n == keyboard_readline_feed(k, c)
           s == k.screen
<1>1. c \in Int /\ c \notin {8, 10, 13}
  BY DEF Plain
<1>2. /\ k.line.ready => n = k
      /\ ~k.line.ready /\ Len(k.lbuf) < LBUF_MAX => n.lbuf = Append(k.lbuf, c) /\ n.screen = lkputchar(s, c)
      /\ Len(k.lbuf) = LBUF_MAX => n = k
  BY <1>1, FeedByte
<1> HIDE DEF n
<1>3. k.lbuf \in Seq(Int) /\ Len(k.lbuf) \in Nat /\ Len(k.lbuf) <= LBUF_MAX /\ LBUF_MAX \in Nat
  BY BoxesSound
<1>4. CASE k.line.ready \/ Len(k.lbuf) = LBUF_MAX
  <2>1. n = k
    BY <1>2, <1>4
  <2> QED
    BY <2>1, SameEcho DEF n
<1>5. CASE ~k.line.ready /\ Len(k.lbuf) # LBUF_MAX
  <2>1. n.lbuf = Append(k.lbuf, c) /\ n.screen = lkputchar(s, c)
    BY <1>2, <1>3, <1>5
  <2>2. ScreenOK(n.screen) /\ n.screen.d.st = 0 /\ (s.d.st = 0 => Drawn(s, n.screen, c))
    BY <2>1, PlainPut
  <2>3. ~Wide(c) /\ WidthOf(c) = 1
    BY <1>1 DEF Plain, Wide, WidthOf
  <2>4. ~Overlong(n.screen.d)
    BY <2>2 DEF Overlong
  <2>5. ASSUME s.d.st = 0 PROVE Grown(k, n, 1)
    <3>1. CASE s.x + WidthOf(c) >= Columns /\ n.screen.x = 0
      BY <2>2, <2>3, <3>1 DEF Grown
    <3>2. CASE n.screen.x = s.x + WidthOf(c) /\ n.screen.row[s.x] = c /\ KeptBefore(s, n.screen, s.x)
      <4>1. ASSUME NEW h \in Nat, At(h, k) PROVE At(h, n)
        <5> DEFINE a == Text(k.lbuf)
        <5>1. IsText(k.lbuf) /\ Shows(h, s, a)
          BY <4>1 DEF At
        <5>2. a \in Readings /\ Laid(a) /\ Text(n.lbuf) = Said(a, c) /\ IsText(n.lbuf)
          BY <1>1, <2>1, <5>1, TextSound, TextLaid, TextGrows
        <5> HIDE DEF a, s
        <5>3. ScreenOK(s)
          BY DEF s
        <5>4. Shows(h, n.screen, Said(a, c))
          BY <1>1, <3>2, <5>1, <5>2, <5>3, ShowsSaid
        <5> QED
          BY <5>2, <5>4 DEF At
      <4> QED
        BY <2>2, <2>3, <3>2, <4>1 DEF Grown
    <3> QED
      BY <2>2, <2>5, <3>1, <3>2 DEF Drawn
  <2> QED
    BY <1>5, <2>2, <2>4, <2>5 DEF Echoed, Rests, n
<1> QED
  BY <1>4, <1>5

LEMMA SignEcho ==
  ASSUME NEW k, Boxes(k), ScreenOK(k.screen),
         NEW b1 \in Int, NEW b2 \in Int, NEW b3 \in Int, IsSign(b1, b2, b3)
  PROVE  Echoed(k, FeedBytes(k, <<b1, b2, b3>>), 2)
<1> DEFINE k1 == keyboard_readline_feed(k, b1)
           k2 == keyboard_readline_feed(k1, b2)
           k3 == keyboard_readline_feed(k2, b3)
           s == k.screen
           s1 == lkputchar(s, b1)
           s2 == lkputchar(s1, b2)
           s3 == lkputchar(s2, b3)
           cp == Value(b1, b2, b3)
<1>1. b1 \notin {8, 10, 13} /\ b2 \notin {8, 10, 13} /\ b3 \notin {8, 10, 13} /\ cp \in Int
  <2>1. cp \in Int
    BY DEF Value
  <2> HIDE DEF cp
  <2> QED
    BY <2>1 DEF IsSign, Lead, Continues
<1>2. FeedBytes(k, <<b1, b2, b3>>) = k3
  BY ThreeFed
<1>3. /\ Boxes(k1) /\ k1.line = k.line
      /\ k.line.ready => k1 = k
      /\ ~k.line.ready /\ Len(k.lbuf) < LBUF_MAX => k1.lbuf = Append(k.lbuf, b1) /\ k1.screen = lkputchar(k.screen, b1)
      /\ Len(k.lbuf) = LBUF_MAX => k1 = k
  BY <1>1, FeedByte
<1> HIDE DEF k1
<1>4. /\ Boxes(k2) /\ k2.line = k1.line
      /\ k1.line.ready => k2 = k1
      /\ ~k1.line.ready /\ Len(k1.lbuf) < LBUF_MAX =>
           k2.lbuf = Append(k1.lbuf, b2) /\ k2.screen = lkputchar(k1.screen, b2)
      /\ Len(k1.lbuf) = LBUF_MAX => k2 = k1
  BY <1>1, <1>3, FeedByte
<1> HIDE DEF k2
<1>5. /\ k2.line.ready => k3 = k2
      /\ ~k2.line.ready /\ Len(k2.lbuf) < LBUF_MAX =>
           k3.lbuf = Append(k2.lbuf, b3) /\ k3.screen = lkputchar(k2.screen, b3)
      /\ Len(k2.lbuf) = LBUF_MAX => k3 = k2
  BY <1>1, <1>4, FeedByte
<1> HIDE DEF k3
<1>6. /\ ScreenOK(s1) /\ ScreenOK(s2) /\ ScreenOK(s3)
      /\ ~Overlong(s1.d) /\ ~Overlong(s2.d) /\ ~Overlong(s3.d) /\ s3.d.st = 0
      /\ s.d.st = 0 => s1.d.st > 0 /\ s2.d.st > 0 /\ Drawn(s, s3, cp)
      /\ WidthOf(cp) = 2
  <2> HIDE DEF s
  <2>1. ScreenOK(s)
    BY DEF s
  <2> QED
    BY <2>1, SignPut
<1> HIDE DEF s1, s2, s3, cp
<1>7. /\ Len(k.lbuf) \in Nat /\ Len(k.lbuf) <= LBUF_MAX /\ k.lbuf \in Seq(Int)
      /\ Len(k1.lbuf) \in Nat /\ Len(k1.lbuf) <= LBUF_MAX
      /\ Len(k2.lbuf) \in Nat /\ Len(k2.lbuf) <= LBUF_MAX
      /\ LBUF_MAX \in Nat
  BY <1>3, <1>4, BoxesSound
<1>8. CASE k.line.ready \/ Len(k.lbuf) = LBUF_MAX
  <2>1. k1 = k
    BY <1>3, <1>8
  <2>2. k2 = k1
    BY <1>4, <1>8, <2>1
  <2>3. k3 = k
    BY <1>5, <1>8, <2>1, <2>2
  <2> QED
    BY <1>2, <2>3, SameEcho
<1>9. CASE ~k.line.ready /\ Len(k.lbuf) # LBUF_MAX
  <2>1. k1.lbuf = Append(k.lbuf, b1) /\ k1.screen = s1 /\ ~k1.line.ready /\ ~k2.line.ready
    BY <1>3, <1>4, <1>7, <1>9 DEF s1
  <2>2. CASE Len(k1.lbuf) = LBUF_MAX
    <3>1. k2 = k1
      BY <1>4, <2>2
    <3>2. k3 = k1
      BY <1>5, <2>2, <3>1
    <3> QED
      BY <1>2, <1>6, <1>9, <2>1, <2>2, <3>2 DEF Echoed, Rests, Grown
  <2>3. CASE Len(k1.lbuf) # LBUF_MAX
    <3>1. k2.lbuf = Append(k1.lbuf, b2) /\ k2.screen = s2
      BY <1>4, <1>7, <2>1, <2>3 DEF s2
    <3>2. CASE Len(k2.lbuf) = LBUF_MAX
      <4>1. k3 = k2
        BY <1>5, <3>2
      <4> QED
        BY <1>2, <1>6, <1>9, <3>1, <3>2, <4>1 DEF Echoed, Rests, Grown
    <3>3. CASE Len(k2.lbuf) # LBUF_MAX
      <4>1. k3.lbuf = ThreeMore(k.lbuf, b1, b2, b3) /\ k3.screen = s3
        BY <1>5, <1>7, <2>1, <3>1, <3>3 DEF s3, ThreeMore
      <4>2. ASSUME s.d.st = 0 PROVE Grown(k, k3, 2)
        <5>1. CASE s.x + WidthOf(cp) >= Columns /\ s3.x = 0
          BY <1>6, <4>1, <5>1 DEF Grown
        <5>2. CASE s3.x = s.x + WidthOf(cp) /\ s3.row[s.x] = cp /\ KeptBefore(s, s3, s.x)
          <6>1. ASSUME NEW h \in Nat, At(h, k) PROVE At(h, k3)
            <7> DEFINE a == Text(k.lbuf)
            <7>1. IsText(k.lbuf) /\ Shows(h, s, a)
              BY <6>1 DEF At
            <7>2. a \in Readings /\ Laid(a) /\ Text(k3.lbuf) = Said(a, cp) /\ IsText(k3.lbuf)
              BY <4>1, <7>1, TextSound, TextLaid, TextGrows DEF cp
            <7> HIDE DEF a, s
            <7>3. ScreenOK(s)
              BY DEF s
            <7>4. Shows(h, s3, Said(a, cp))
              BY <1>1, <5>2, <7>1, <7>2, <7>3, ShowsSaid DEF cp
            <7> QED
              BY <4>1, <7>2, <7>4 DEF At
          <6> QED
            BY <1>6, <4>1, <5>2, <6>1 DEF Grown
        <5> QED
          BY <1>6, <4>2, <5>1, <5>2 DEF Drawn
      <4> QED
        BY <1>2, <1>6, <1>9, <4>1, <4>2 DEF Echoed, Rests
    <3> QED
      BY <3>2, <3>3
  <2> QED
    BY <2>2, <2>3
<1> QED
  BY <1>8, <1>9

LEMMA CharEcho ==
  ASSUME NEW k, Boxes(k), ScreenOK(k.screen), NEW cp, Good(cp)
  PROVE  Echoed(k, FeedChar(k, cp), 2)
<1>1. CASE cp = 0
  <2>1. FeedChar(k, cp) = k
    BY <1>1 DEF FeedChar
  <2> QED
    BY <2>1, SameEcho
<1>2. CASE cp # 0
  <2>1. cp \in Signs
    BY <1>2 DEF Good
  <2>2. PICK b1, b2, b3 \in Int : unicode_to_utf8(cp) = <<b1, b2, b3>> /\ IsSign(b1, b2, b3)
    BY <2>1, BytesSound
  <2>3. FeedChar(k, cp) = FeedBytes(k, <<b1, b2, b3>>)
    BY <1>2, <2>2 DEF FeedChar
  <2> QED
    BY <2>2, <2>3, SignEcho
<1> QED
  BY <1>1, <1>2

\* Only the composition changes.
LEMMA Recomposed ==
  ASSUME NEW k, Boxes(k), k.ime \in Ime, NEW m \in Compositions
  PROVE  LET n == [k EXCEPT !.ime.m = m] IN n.screen = k.screen /\ n.lbuf = k.lbuf /\ n.line = k.line /\ Boxes(n)
<1> DEFINE n == [k EXCEPT !.ime.m = m]
<1>1. Boxes(n)
  BY WithComposition
<1>2. DOMAIN k = {"ime", "lbuf", "line", "screen"}
  BY DEF Boxes
<1>3. n.screen = k.screen /\ n.lbuf = k.lbuf /\ n.line = k.line
  BY <1>2
<1> QED
  BY <1>1, <1>3

\* A character of a recomposed box.
LEMMA SignedEcho ==
  ASSUME NEW k, Boxes(k), k.ime \in Ime, ScreenOK(k.screen), NEW m \in Compositions, NEW cp, Good(cp)
  PROVE  Echoed(k, FeedChar([k EXCEPT !.ime.m = m], cp), 2)
<1> DEFINE k1 == [k EXCEPT !.ime.m = m]
           n == FeedChar(k1, cp)
<1>1. k1.screen = k.screen /\ k1.lbuf = k.lbuf /\ k1.line = k.line /\ Boxes(k1)
  BY Recomposed
<1> HIDE DEF k1
<1>2. Echoed(k1, n, 2)
  BY <1>1, CharEcho
<1> HIDE DEF n
<1>3. Echoed(k, n, 2)
  BY <1>1, <1>2 DEF Echoed, Rests, Grown, At
<1> QED
  BY <1>3 DEF n, k1

LEMMA FlushEcho ==
  ASSUME NEW k, Boxes(k), k.ime \in Ime, ScreenOK(k.screen)
  PROVE  Echoed(k, FeedFlush(k), 2) /\ Boxes(FeedFlush(k)) /\ FeedFlush(k).line = k.line
<1> DEFINE f == hangul_ime_flush(k.ime.m)
<1>1. k.ime.m \in Compositions
  BY DEF Ime
<1>2. f.m = Nothing /\ Good(f.cp) /\ Nothing \in Compositions
  BY <1>1, FlushSound
<1>3. FeedFlush(k) = FeedChar([k EXCEPT !.ime.m = f.m], f.cp)
  BY DEF FeedFlush
<1> HIDE DEF f
<1>4. Echoed(k, FeedFlush(k), 2)
  BY <1>2, <1>3, SignedEcho
<1> QED
  BY <1>4, FeedFlushSound

\* A key that is no backspace and ends no line: the characters it feeds stay on
\* the row, or the cursor goes back to its start.
Stays(k, n) ==
  /\ ScreenOK(n.screen) /\ Rests(k, n)
  /\ k.screen.d.st = 0 /\ n.screen.d.st = 0 /\ n.screen.x >= k.screen.x => \A h \in Nat : At(h, k) => At(h, n)

LEMMA OneStays ==
  ASSUME NEW k, ScreenOK(k.screen), NEW n, NEW w \in {1, 2}, Echoed(k, n, w)
  PROVE  Stays(k, n)
<1>1. k.screen.x \in 0 .. Columns - 1
  BY DEF ScreenOK, Canvas, Framed
<1>2. ScreenOK(n.screen) /\ Rests(k, n) /\ (k.screen.d.st = 0 => Grown(k, n, w))
  BY DEF Echoed
<1>3. ASSUME k.screen.d.st = 0, n.screen.d.st = 0, n.screen.x >= k.screen.x, NEW h \in Nat, At(h, k)
      PROVE  At(h, n)
  <2>1. CASE n.screen = k.screen /\ n.lbuf = k.lbuf
    BY <1>3, <2>1 DEF At
  <2>2. ~(n.screen.d.st > 0 /\ Len(n.lbuf) = LBUF_MAX)
    BY <1>3
  <2>3. ~(k.screen.x + w >= Columns /\ n.screen.x = 0)
    BY <1>1, <1>3, FourColumns
  <2>4. CASE \A g \in Nat : At(g, k) => At(g, n)
    BY <1>3, <2>4
  <2> QED
    BY <1>2, <1>3, <2>1, <2>2, <2>3, <2>4 DEF Grown
<1> QED
  BY <1>2, <1>3 DEF Stays

LEMMA TwoStay ==
  ASSUME NEW k, Boxes(k), k.ime \in Ime, ScreenOK(k.screen), NEW c, Plain(c)
  PROVE  Stays(k, keyboard_readline_feed(FeedFlush(k), c))
<1> DEFINE f == FeedFlush(k)
           n == keyboard_readline_feed(f, c)
<1>1. Echoed(k, f, 2) /\ Boxes(f) /\ f.line = k.line
  BY FlushEcho
<1> HIDE DEF f
<1>2. ScreenOK(f.screen) /\ Rests(k, f) /\ (k.screen.d.st = 0 => Grown(k, f, 2))
  BY <1>1 DEF Echoed
<1>3. Echoed(f, n, 1)
  BY <1>1, <1>2, PlainEcho
<1>4. Len(f.lbuf) = LBUF_MAX => n = f
  <2>1. c \in Int /\ c \notin {8, 10, 13}
    BY DEF Plain
  <2> QED
    BY <1>1, <2>1, FeedByte
<1> HIDE DEF n
<1>5. ScreenOK(n.screen) /\ Rests(f, n) /\ (f.screen.d.st = 0 => Grown(f, n, 1))
  BY <1>3 DEF Echoed
<1>6. Rests(k, n)
  BY <1>2, <1>5 DEF Rests
<1>7. k.screen.x \in 0 .. Columns - 1
  BY DEF ScreenOK, Canvas, Framed
<1>8. ASSUME k.screen.d.st = 0, n.screen.d.st = 0, n.screen.x >= k.screen.x, NEW h \in Nat, At(h, k)
      PROVE  At(h, n)
  <2>1. CASE f.screen = k.screen /\ f.lbuf = k.lbuf
    <3>1. At(h, f)
      BY <1>8, <2>1 DEF At
    <3>2. Stays(f, n)
      BY <1>2, <1>3, OneStays
    <3> QED
      BY <1>8, <2>1, <3>1, <3>2 DEF Stays
  <2>2. CASE f.screen.d.st > 0 /\ Len(f.lbuf) = LBUF_MAX
    BY <1>4, <1>8, <2>2
  <2>3. CASE k.screen.x + 2 >= Columns /\ f.screen.x = 0 /\ f.screen.d.st = 0
    <3>1. Grown(f, n, 1)
      BY <1>5, <2>3
    <3>2. n.screen.x = 0 \/ n.screen.x = 1
      BY <1>8, <2>3, <3>1 DEF Grown
    <3> QED
      BY <1>7, <1>8, <2>3, <3>2, FourColumns
  <2>4. CASE f.screen.x = k.screen.x + 2 /\ f.screen.d.st = 0 /\ \A g \in Nat : At(g, k) => At(g, f)
    <3>1. Grown(f, n, 1) /\ At(h, f)
      BY <1>5, <1>8, <2>4
    <3>2. CASE n.screen = f.screen /\ n.lbuf = f.lbuf
      BY <3>1, <3>2 DEF At
    <3>3. ~(n.screen.d.st > 0 /\ Len(n.lbuf) = LBUF_MAX)
      BY <1>8
    <3>4. ~(f.screen.x + 1 >= Columns /\ n.screen.x = 0)
      BY <1>7, <1>8, <2>4, FourColumns
    <3>5. CASE \A g \in Nat : At(g, f) => At(g, n)
      BY <3>1, <3>5
    <3> QED
      BY <3>1, <3>2, <3>3, <3>4, <3>5 DEF Grown
  <2> QED
    BY <1>2, <1>8, <2>1, <2>2, <2>3, <2>4 DEF Grown
<1> QED
  BY <1>5, <1>6, <1>8 DEF Stays, n, f

\* Backspace takes the last character from the line and from the screen.
Backs(k, n) ==
  /\ ScreenOK(n.screen) /\ Rests(k, n)
  /\ k.screen.d.st = 0 => \A h \in Nat : At(h, k) => At(h, n)

LEMMA SameBack ==
  ASSUME NEW k, ScreenOK(k.screen), NEW n, n.screen = k.screen, n.lbuf = k.lbuf
  PROVE  Backs(k, n)
  BY DEF Backs, Rests, At

LEMMA FeedErase ==
  ASSUME NEW k, Boxes(k), ScreenOK(k.screen)
  PROVE  Backs(k, keyboard_readline_feed(k, 8))
<1> DEFINE n == keyboard_readline_feed(k, 8)
           s == k.screen
           t == k.lbuf
           lead == t[CharStart(t)]
           s1 == lkputchar(s, 8)
           s2 == lkputchar(s1, 8)
<1>1. CASE k.line.ready \/ t = <<>>
  <2>1. n = k
    BY <1>1, FeedBackspace
  <2> QED
    BY <2>1, SameBack
<1>2. CASE ~k.line.ready /\ t # <<>>
  <2>1. n = [k EXCEPT !.lbuf = Shorter(t), !.screen = EraseChar(s, lead)]
    BY <1>2 DEF keyboard_readline_feed
  <2>2. DOMAIN k = {"ime", "lbuf", "line", "screen"}
    BY DEF Boxes
  <2> HIDE DEF n
  <2>3. n.lbuf = Shorter(t) /\ n.screen = EraseChar(s, lead)
    BY <2>1, <2>2
  <2>4. n.screen = IF lead >= 224 THEN s2 ELSE s1
    BY <2>3 DEF EraseChar
  <2>5. ScreenOK(s)
    OBVIOUS
  <2> HIDE DEF s
  <2>6. /\ ScreenOK(s1) /\ s1.d.st = 0
        /\ s.d.st = 0 /\ s.x > 0 => s1.x = s.x - 1 /\ KeptBefore(s, s1, s.x - 1)
    BY <2>5, PlainPut
  <2> HIDE DEF s1
  <2>7. /\ ScreenOK(s2) /\ s2.d.st = 0
        /\ s1.d.st = 0 /\ s1.x > 0 => s2.x = s1.x - 1 /\ KeptBefore(s1, s2, s1.x - 1)
    BY <2>6, PlainPut
  <2> HIDE DEF s2
  <2>8. ScreenOK(n.screen) /\ n.screen.d.st = 0
    BY <2>4, <2>6, <2>7
  <2>9. Rests(k, n)
    BY <2>8 DEF Rests, Overlong
  <2>10. ASSUME s.d.st = 0, NEW h \in Nat, At(h, k) PROVE At(h, n)
    <3> DEFINE r == Shorter(t)
               a == Text(r)
    <3>1. IsText(t) /\ Shows(h, s, Text(t))
      BY <2>10 DEF At, s
    <3>2. /\ IsText(r)
          /\ \/ \E b \in Int : Plain(b) /\ t = Append(r, b) /\ lead = b
             \/ \E b1, b2, b3 \in Int : IsSign(b1, b2, b3) /\ t = ThreeMore(r, b1, b2, b3) /\ lead = b1
      <4> HIDE DEF t
      <4> QED
        BY <1>2, <3>1, LastChar, Zenon
    <3> HIDE DEF t, lead, r
    <3>3. a \in Readings /\ Laid(a)
      BY <3>2, TextSound, TextLaid
    <3>4. s.x \in Int /\ a.width \in Nat
      BY <2>5, <3>3 DEF ScreenOK, Canvas, Framed, Readings
    <3>5. ASSUME NEW b \in Int, Plain(b), t = Append(r, b), lead = b
          PROVE  Shows(h, n.screen, a)
      <4>1. Text(t) = Said(a, b)
        BY <3>2, <3>5, TextSound
      <4> HIDE DEF a
      <4>2. WidthOf(b) = 1 /\ ~(lead >= 224)
        BY <3>5 DEF Plain, WidthOf, Wide
      <4>3. s.x = h + a.width + 1
        <5>1. s.x = h + Said(a, b).width
          BY <3>1, <4>1 DEF Shows
        <5> QED
          BY <3>4, <4>2, <5>1 DEF Said, WidthOf
      <4>4. s.x > 0 /\ n.screen = s1
        BY <2>4, <3>4, <4>2, <4>3
      <4>5. n.screen.x = s.x - WidthOf(b) /\ KeptBefore(s, n.screen, s.x - WidthOf(b))
        BY <2>6, <2>10, <4>2, <4>4
      <4>6. Shows(h, s, Said(a, b))
        BY <3>1, <4>1
      <4> QED
        BY <2>5, <3>3, <4>5, <4>6, ShowsErased
    <3>6. ASSUME NEW b1 \in Int, NEW b2 \in Int, NEW b3 \in Int, IsSign(b1, b2, b3),
                 t = ThreeMore(r, b1, b2, b3), lead = b1
          PROVE  Shows(h, n.screen, a)
      <4> DEFINE cp == Value(b1, b2, b3)
      <4>1. Text(t) = Said(a, cp)
        BY <3>2, <3>6, TextSound
      <4>2. cp \in Int /\ WidthOf(cp) = 2
        <5>1. cp \in Signs
          BY <3>6 DEF IsSign
        <5> HIDE DEF cp
        <5>2. cp \in Int /\ cp >= 8192
          BY <5>1 DEF Signs
        <5> QED
          BY <5>2 DEF WidthOf, Wide
      <4> HIDE DEF a, cp
      <4>3. lead >= 224
        BY <3>6 DEF IsSign, Lead
      <4>4. s.x = h + a.width + 2
        <5>1. s.x = h + Said(a, cp).width
          BY <3>1, <4>1 DEF Shows
        <5> QED
          BY <3>4, <4>2, <5>1 DEF Said, WidthOf
      <4>5. n.screen = s2 /\ s.x > 0 /\ s.x - 1 > 0
        BY <2>4, <3>4, <4>3, <4>4
      <4>6. s1.x = s.x - 1 /\ KeptBefore(s, s1, s.x - 1)
        BY <2>6, <2>10, <4>5
      <4>7. s2.x = s.x - 2 /\ KeptBefore(s1, s2, s.x - 2)
        <5>1. s1.x > 0 /\ s1.x - 1 = s.x - 2
          BY <3>4, <4>5, <4>6
        <5> QED
          BY <2>6, <2>7, <5>1
      <4>8. KeptBefore(s, s2, s.x - 2)
        <5>1. \A y \in 0 .. Columns - 1 : y < s.x - 2 => y < s.x - 1
          BY <3>4, FourColumns
        <5> QED
          BY <4>6, <4>7, <5>1 DEF KeptBefore
      <4>9. Shows(h, s, Said(a, cp))
        BY <3>1, <4>1
      <4>10. n.screen.x = s.x - WidthOf(cp) /\ KeptBefore(s, n.screen, s.x - WidthOf(cp))
        BY <4>2, <4>5, <4>7, <4>8
      <4> QED
        BY <2>5, <3>3, <4>2, <4>9, <4>10, ShowsErased
    <3>7. Shows(h, n.screen, a)
      BY <3>2, <3>5, <3>6
    <3> QED
      BY <2>3, <3>2, <3>7 DEF At, r
  <2> QED
    BY <2>8, <2>9, <2>10 DEF Backs, n, s
<1> QED
  BY <1>1, <1>2

LEMMA ErasedEcho ==
  ASSUME NEW k, Boxes(k), k.ime \in Ime, ScreenOK(k.screen)
  PROVE  Backs(k, Erased(k))
<1> DEFINE f == hangul_ime_flush(k.ime.m)
           e == [k EXCEPT !.ime.m = f.m]
<1>1. k.ime.m \in Compositions
  BY DEF Ime
<1>2. f.m \in Compositions
  BY <1>1, FlushSound
<1>3. Erased(k) = IF f.cp = 0 THEN keyboard_readline_feed(e, 8) ELSE e
  BY DEF Erased
<1> HIDE DEF f
<1>4. e.screen = k.screen /\ e.lbuf = k.lbuf /\ Boxes(e)
  BY <1>2, Recomposed
<1> HIDE DEF e
<1>5. Backs(e, keyboard_readline_feed(e, 8)) /\ Backs(e, e)
  BY <1>4, FeedErase, SameBack
<1>6. Backs(e, Erased(k))
  BY <1>3, <1>5
<1> QED
  BY <1>4, <1>6 DEF Backs, Rests, At

\* Enter leaves the cursor on a new row, and no character open.
LEMMA EnterEcho ==
  ASSUME NEW k, Boxes(k), k.ime \in Ime, ScreenOK(k.screen)
  PROVE  LET n == keyboard_readline_feed(FeedFlush(k), 10)
         IN  /\ ScreenOK(n.screen)
             /\ k.line.ready => n.screen = k.screen /\ n.lbuf = k.lbuf
             /\ ~k.line.ready => n.screen.d.st = 0 /\ n.lbuf = <<>>
<1> DEFINE f == FeedFlush(k)
           n == keyboard_readline_feed(f, 10)
<1>1. Echoed(k, f, 2) /\ Boxes(f) /\ f.line = k.line
  BY FlushEcho
<1> HIDE DEF f
<1>2. ScreenOK(f.screen) /\ (k.line.ready => f.screen = k.screen /\ f.lbuf = k.lbuf)
  BY <1>1 DEF Echoed
<1>3. f.line.ready => n = f
  BY <1>1, FeedEnter
<1>4. ~f.line.ready => n.screen = lkputchar(f.screen, 10) /\ n.lbuf = <<>>
  <2> SUFFICES ASSUME ~f.line.ready PROVE n.screen = lkputchar(f.screen, 10) /\ n.lbuf = <<>>
    OBVIOUS
  <2>1. n = [f EXCEPT !.line = [buf |-> f.lbuf, ready |-> TRUE], !.lbuf = <<>>, !.screen = lkputchar(f.screen, 10)]
    BY DEF keyboard_readline_feed
  <2>2. DOMAIN f = {"ime", "lbuf", "line", "screen"}
    BY <1>1 DEF Boxes
  <2> HIDE DEF n
  <2> QED
    BY <2>1, <2>2
<1> HIDE DEF n
<1>5. ScreenOK(lkputchar(f.screen, 10)) /\ lkputchar(f.screen, 10).d.st = 0
  BY <1>2, PlainPut
<1>6. f.line.ready \in BOOLEAN
  BY <1>1, BoxesSound
<1> QED
  BY <1>1, <1>2, <1>3, <1>4, <1>5, <1>6 DEF n, f

\* Every key.
KeyEchoed(k, n, key) ==
  /\ ScreenOK(n.screen) /\ Rests(k, n)
  /\ key = Enter /\ ~k.line.ready => n.screen.d.st = 0 /\ n.lbuf = <<>>
  /\ (key # Enter \/ k.line.ready) /\ k.screen.d.st = 0 /\ n.screen.d.st = 0
     /\ (key = Backspace \/ n.screen.x >= k.screen.x) => \A h \in Nat : At(h, k) => At(h, n)

LEMMA KeyEcho ==
  ASSUME NEW k, Boxes(k), IsBoxes(k), k.ime \in Ime, ScreenOK(k.screen), NEW key \in KeySet, NEW shifted \in BOOLEAN
  PROVE  KeyEchoed(k, keyboard_handler_main(k, key, shifted), key)
<1> DEFINE n == keyboard_handler_main(k, key, shifted)
<1> SUFFICES KeyEchoed(k, n, key)
  OBVIOUS
<1>1. /\ key \in HANGUL_KEYS => n = [k EXCEPT !.ime = hangul_ime_toggle(@)]
      /\ key = Backspace => n = Erased(k)
      /\ key = Enter => n = keyboard_readline_feed(FeedFlush(k), 10)
      /\ key = Space => n = keyboard_readline_feed(FeedFlush(k), 32)
      /\ key \in Arrows => n = keyboard_readline_feed(FeedFlush(k), IF key = 75 THEN 17 ELSE 18)
      /\ LetterKey(key) /\ ~k.ime.active => n = keyboard_readline_feed(FeedFlush(k), kbd_us(key, shifted))
      /\ LetterKey(key) /\ k.ime.active => n = Composing(k, key, shifted)
  BY Handled
<1> HIDE DEF n
<1>2. Enter # Backspace /\ (LetterKey(key) => key # Enter /\ key # Backspace)
  BY DEF Enter, Backspace, LetterKey
<1>3. ASSUME Stays(k, n), key # Enter, key # Backspace PROVE KeyEchoed(k, n, key)
  BY <1>3 DEF Stays, KeyEchoed
<1>4. CASE key \in HANGUL_KEYS
  <2>1. DOMAIN k = {"ime", "lbuf", "line", "screen"}
    BY DEF Boxes
  <2>2. n.screen = k.screen /\ n.lbuf = k.lbuf
    BY <1>1, <1>4, <2>1
  <2>3. Stays(k, n)
    BY <2>2 DEF Stays, Rests, At
  <2>4. key # Enter /\ key # Backspace
    BY <1>4 DEF HANGUL_KEYS, Enter, Backspace
  <2> QED
    BY <1>3, <2>3, <2>4
<1>5. CASE key = Backspace
  <2>1. Backs(k, n)
    BY <1>1, <1>5, ErasedEcho
  <2> QED
    BY <1>2, <1>5, <2>1 DEF Backs, KeyEchoed
<1>6. CASE key = Enter
  <2>1. /\ ScreenOK(n.screen)
        /\ k.line.ready => n.screen = k.screen /\ n.lbuf = k.lbuf
        /\ ~k.line.ready => n.screen.d.st = 0 /\ n.lbuf = <<>>
    BY <1>1, <1>6, EnterEcho
  <2>2. Rests(k, n)
    BY <2>1 DEF Rests, Overlong
  <2> QED
    BY <1>6, <2>1, <2>2 DEF KeyEchoed, At
<1>7. CASE key = Space \/ key \in Arrows
  <2>1. Plain(32) /\ Plain(17) /\ Plain(18)
    BY DEF Plain
  <2>2. Stays(k, n)
    BY <1>1, <1>7, <2>1, TwoStay
  <2>3. key # Enter /\ key # Backspace
    BY <1>7 DEF Space, Arrows, Enter, Backspace
  <2> QED
    BY <1>3, <2>2, <2>3
<1>8. CASE LetterKey(key) /\ ~k.ime.active
  <2>1. Plain(kbd_us(key, shifted))
    BY <1>8, English
  <2>2. Stays(k, n)
    BY <1>1, <1>8, <2>1, TwoStay
  <2> QED
    BY <1>2, <1>3, <1>8, <2>2
<1>9. CASE LetterKey(key) /\ k.ime.active
  <2> DEFINE r == hangul_ime_input(k.ime.m, key, shifted)
  <2>1. k.ime.m \in Compositions
    BY DEF Ime
  <2>2. r.m \in Compositions /\ Good(r.cp)
    BY <1>9, <2>1, InputSound
  <2>3. n = FeedChar([k EXCEPT !.ime.m = r.m], r.cp)
    BY <1>1, <1>9 DEF Composing
  <2> HIDE DEF r
  <2>4. Echoed(k, n, 2)
    BY <2>2, <2>3, SignedEcho
  <2>5. Stays(k, n)
    BY <2>4, OneStays
  <2> QED
    BY <1>2, <1>3, <1>9, <2>5
<1>10. LetterKey(key) \/ key \in Others
  BY TheKeys
<1> QED
  BY <1>4, <1>5, <1>6, <1>7, <1>8, <1>9, <1>10 DEF Others

-----------------------------------------------------------------------------
\* The invariant of the screen.  Bytes that a program still writes: every first
\* byte is followed by the rest of its character.
Written(s, n) ==
  \/ s[n] \in 0 .. 127 \ {13}
  \/ Continues(s[n])
  \/ s[n] \in 194 .. 223 /\ n + 1 <= Len(s) /\ Continues(s[n + 1])
  \/ /\ s[n] \in 224 .. 239 /\ n + 2 <= Len(s) /\ Continues(s[n + 1]) /\ Continues(s[n + 2])
     /\ s[n] = 224 => s[n + 1] >= 160
IsOutput(s) == s \in Seq(Int) /\ s # <<>> /\ \A n \in 1 .. Len(s) : Written(s, n)

WriteInv == next # "write" /\ (pc = "write" => IsOutput(out))
\* A character is open only inside the write of a program, or where the line is full.
DecoderInv ==
  /\ Overlong(screen.d) => pc = "write" /\ out[1] >= 160
  /\ screen.d.st > 0 /\ Len(lbuf) < LBUF_MAX =>
       pc = "write" /\ screen.d.st <= Len(out) /\ \A i \in 1 .. screen.d.st : Continues(out[i])
HomeInv == home \in Int /\ (home >= 0 => screen.d.st = 0 /\ At(home, Box))
EchoInv == ScreenOK(screen) /\ WriteInv /\ DecoderInv /\ HomeInv

LEMMA ScreenFacts ==
  ASSUME NEW s, ScreenOK(s)
  PROVE  s.x \in Int /\ s.x >= 0 /\ s.x < Columns /\ s.d.st \in 0 .. 2
<1>1. s.x \in 0 .. Columns - 1 /\ s.d.st \in 0 .. 2
  BY DEF ScreenOK, Canvas, Framed, DecoderOK
<1> QED
  BY <1>1, FourColumns

\* An empty line starts at the cursor.
LEMMA EmptyAt ==
  ASSUME NEW k, k.lbuf = <<>>, ScreenOK(k.screen)
  PROVE  At(k.screen.x, k)
<1>1. Text(<<>>) = NoText /\ IsText(<<>>)
  BY TextEmpty, EmptyText
<1>2. NoText.width = 0 /\ NoText.chars = <<>> /\ DOMAIN NoText.chars = {}
  BY DEF NoText
<1>3. k.screen.x \in Int
  BY ScreenFacts
<1>4. Shows(k.screen.x, k.screen, NoText)
  BY <1>2, <1>3 DEF Shows
<1> QED
  BY <1>1, <1>4 DEF At

LEMMA OutputsWritten ==
  ASSUME NEW s \in Outputs
  PROVE  IsOutput(s)
<1>1. s \in Seq(0 .. 255) /\ s # <<>> /\ Whole(s)
  BY ConsoleAssumption
<1>2. s \in Seq(Int)
  <2> DEFINE bytes == 0 .. 255
  <2>1. s \in Seq(bytes) /\ bytes \subseteq Int
    BY <1>1
  <2> HIDE DEF bytes
  <2> QED
    BY <2>1, SeqMonotonic
<1>3. ASSUME NEW n \in 1 .. Len(s) PROVE Written(s, n)
  <2>1. \/ s[n] \in 0 .. 127 \ {13}
        \/ s[n] \in 194 .. 223 /\ n + 1 <= Len(s) /\ Continues(s[n + 1])
        \/ /\ s[n] \in 224 .. 239 /\ n + 2 <= Len(s) /\ Continues(s[n + 1]) /\ Continues(s[n + 2])
           /\ s[n] = 224 => s[n + 1] >= 160
        \/ Continues(s[n])
    BY <1>1 DEF Whole
  <2> QED
    BY <2>1 DEF Written
<1> QED
  BY <1>1, <1>2, <1>3 DEF IsOutput

LEMMA OutputTail ==
  ASSUME NEW s, IsOutput(s), Len(s) # 1
  PROVE  IsOutput(Tail(s))
<1> DEFINE t == Tail(s)
           m == Len(s)
<1>1. s \in Seq(Int) /\ m \in Nat /\ m > 1
  <2>1. s \in Seq(Int) /\ s # <<>> /\ m # 1
    BY DEF IsOutput
  <2>2. m \in Nat /\ m # 0
    BY <2>1
  <2> HIDE DEF m
  <2> QED
    BY <2>1, <2>2
<1>2. t \in Seq(Int) /\ Len(t) = m - 1 /\ \A i \in 1 .. m - 1 : t[i] = s[i + 1]
  BY <1>1
<1> HIDE DEF t
<1>3. t # <<>>
  BY <1>1, <1>2
<1>4. ASSUME NEW n \in 1 .. m - 1 PROVE Written(t, n)
  <2>1. n + 1 \in 1 .. m /\ n + 1 + 1 = n + 2 /\ n + 2 + 1 = n + 3 /\ n + 1 + 2 = n + 3 /\ t[n] = s[n + 1]
    BY <1>1, <1>2
  <2>2. Written(s, n + 1)
    BY <2>1 DEF IsOutput
  <2>3. ASSUME NEW i \in Nat, i > 0, i + 1 <= m PROVE i <= Len(t) /\ t[i] = s[i + 1]
    <3>1. i \in 1 .. m - 1 /\ i <= m - 1
      BY <1>1, <2>3
    <3> QED
      BY <1>2, <3>1
  <2>8. n + 1 \in Nat /\ n + 1 > 0 /\ n + 2 \in Nat /\ n + 2 > 0 /\ (n + 3 <= m => n + 2 <= m)
    BY <1>1
  <2>9. n + 2 <= m => n + 1 <= Len(t) /\ t[n + 1] = s[n + 2]
    BY <2>1, <2>3, <2>8
  <2>4. n + 3 <= m => n + 2 <= Len(t) /\ t[n + 2] = s[n + 3] /\ n + 2 <= m
    BY <2>1, <2>3, <2>8
  <2>5. CASE s[n + 1] \in 0 .. 127 \ {13} \/ Continues(s[n + 1])
    BY <2>1, <2>5 DEF Written
  <2>6. CASE s[n + 1] \in 194 .. 223 /\ n + 2 <= m /\ Continues(s[n + 2])
    BY <2>1, <2>9, <2>6 DEF Written
  <2>7. CASE /\ s[n + 1] \in 224 .. 239 /\ n + 3 <= m /\ Continues(s[n + 2]) /\ Continues(s[n + 3])
             /\ s[n + 1] = 224 => s[n + 2] >= 160
    <3>1. /\ t[n] \in 224 .. 239 /\ n + 2 <= Len(t) /\ Continues(t[n + 1]) /\ Continues(t[n + 2])
          /\ t[n] = 224 => t[n + 1] >= 160
      <4>1. t[n] = s[n + 1] /\ t[n + 1] = s[n + 2] /\ t[n + 2] = s[n + 3] /\ n + 2 <= Len(t)
        BY <2>1, <2>9, <2>4, <2>7
      <4> QED
        BY <2>7, <4>1
    <3> QED
      BY <3>1 DEF Written
  <2> QED
    BY <2>1, <2>2, <2>5, <2>6, <2>7 DEF Written
<1> QED
  BY <1>2, <1>3, <1>4 DEF IsOutput, t

\* A key.
LEMMA KeyScreen ==
  ASSUME KeyTypes, EchoInv, NEW key \in KeySet, KeyInterrupt(key)
  PROVE  EchoInv'
<1> DEFINE n == keyboard_handler_main(Box, key, shift)
<1>1. /\ ime' = n.ime /\ lbuf' = n.lbuf /\ g_readline' = n.line /\ screen' = n.screen
      /\ KeyHistory(key, shift, n) /\ pc' = pc /\ next' = next /\ out' = out
  BY DEF KeyInterrupt, Box
<1>2. /\ Boxes(Box) /\ IsBoxes(Box) /\ Box.ime \in Ime /\ shift \in BOOLEAN
      /\ Box.lbuf = lbuf /\ Box.line = g_readline /\ Box.screen = screen
  <2>1. Box.screen = screen
    BY DEF Box
  <2> QED
    BY <2>1, BoxSound DEF KeyTypes
<1>3. ScreenOK(screen) /\ WriteInv /\ DecoderInv /\ HomeInv
  BY DEF EchoInv
<1>4. KeyEchoed(Box, n, key)
  BY <1>2, <1>3, KeyEcho
<1>5. home' = IF key = Enter /\ ~g_readline.ready THEN n.screen.x
              ELSE IF (n.screen.x < screen.x /\ key # Backspace) \/ n.screen.d.st > 0 THEN -1 ELSE home
  BY <1>1 DEF KeyHistory
<1> HIDE DEF n
<1>6. ScreenOK(n.screen) /\ Rests(Box, n)
  BY <1>4 DEF KeyEchoed
<1>7. /\ n.screen.x \in Int /\ n.screen.x >= 0 /\ n.screen.d.st \in 0 .. 2
      /\ screen.x \in Int
  BY <1>3, <1>6, ScreenFacts
<1>8. WriteInv'
  BY <1>1, <1>3 DEF WriteInv
<1>9. DecoderInv'
  <2>1. CASE n.screen = screen /\ n.lbuf = lbuf
    BY <1>1, <1>3, <2>1 DEF DecoderInv
  <2>2. CASE ~Overlong(n.screen.d) /\ (n.screen.d.st > 0 => Len(n.lbuf) = LBUF_MAX)
    <3>1. ~(LBUF_MAX < LBUF_MAX)
      BY ConsoleAssumption
    <3> QED
      BY <1>1, <2>2, <3>1 DEF DecoderInv
  <2> QED
    BY <1>2, <1>6, <2>1, <2>2 DEF Rests
<1>10. \A h : At(h, n) => At(h, Box)'
  <2>1. Box'.lbuf = n.lbuf /\ Box'.screen = n.screen
    BY <1>1 DEF Box
  <2> QED
    BY <2>1 DEF At
<1>11. HomeInv'
  <2>1. CASE key = Enter /\ ~g_readline.ready
    <3>1. home' = n.screen.x /\ n.screen.d.st = 0 /\ n.lbuf = <<>>
      BY <1>2, <1>4, <1>5, <2>1 DEF KeyEchoed
    <3>2. At(n.screen.x, n)
      BY <1>6, <3>1, EmptyAt
    <3> QED
      BY <1>1, <1>7, <1>10, <3>1, <3>2 DEF HomeInv
  <2>2. CASE ~(key = Enter /\ ~g_readline.ready)
    <3>1. CASE (n.screen.x < screen.x /\ key # Backspace) \/ n.screen.d.st > 0
      <4>1. home' = -1
        BY <1>5, <2>2, <3>1
      <4> QED
        BY <4>1 DEF HomeInv
    <3>2. CASE ~((n.screen.x < screen.x /\ key # Backspace) \/ n.screen.d.st > 0)
      <4>1. home' = home /\ home \in Int
        BY <1>3, <1>5, <2>2, <3>2 DEF HomeInv
      <4>2. n.screen.d.st = 0 /\ (key = Backspace \/ n.screen.x >= screen.x)
        BY <1>7, <3>2
      <4>3. ASSUME home >= 0 PROVE At(home, n)
        <5>1. screen.d.st = 0 /\ At(home, Box) /\ home \in Nat
          BY <1>3, <4>1, <4>3 DEF HomeInv
        <5> QED
          BY <1>2, <1>4, <2>2, <4>2, <5>1 DEF KeyEchoed
      <4> QED
        BY <1>1, <1>10, <4>1, <4>2, <4>3 DEF HomeInv
    <3> QED
      BY <3>1, <3>2
  <2> QED
    BY <2>1, <2>2
<1> QED
  BY <1>1, <1>6, <1>8, <1>9, <1>11 DEF EchoInv

\* A byte of a program.
LEMMA WriteScreen ==
  ASSUME KeyTypes, EchoInv, sys_write
  PROVE  EchoInv'
<1> DEFINE b == out[1]
           s == screen'
<1>1. /\ pc = "write" /\ s = lkputchar(screen, b)
      /\ home' = IF lbuf = <<>> /\ s.d.st = 0 THEN s.x ELSE -1
      /\ out' = Tail(out) /\ pc' = (IF Len(out) = 1 THEN next ELSE pc) /\ next' \in {"none", next}
      /\ lbuf' = lbuf
  BY DEF sys_write, keyboard
<1>2. ScreenOK(screen) /\ next # "write" /\ IsOutput(out)
      /\ (Overlong(screen.d) => b >= 160)
      /\ (screen.d.st > 0 /\ Len(lbuf) < LBUF_MAX =>
           screen.d.st <= Len(out) /\ \A i \in 1 .. screen.d.st : Continues(out[i]))
  BY <1>1 DEF EchoInv, WriteInv, DecoderInv
<1>3. out \in Seq(Int) /\ Len(out) \in Nat /\ Len(out) >= 1 /\ Written(out, 1) /\ b \in Int
  <2>1. out \in Seq(Int) /\ out # <<>> /\ \A n \in 1 .. Len(out) : Written(out, n)
    BY <1>2 DEF IsOutput
  <2>2. Len(out) \in Nat /\ Len(out) >= 1
    BY <2>1
  <2> QED
    BY <2>1, <2>2
<1>4. \A i \in 1 .. Len(out) - 1 : Tail(out)[i] = out[i + 1]
  BY <1>3
<1>5. Len(Tail(out)) = Len(out) - 1
  BY <1>3
<1> HIDE DEF s, b
<1>6. \/ b \in 0 .. 127 \ {13}
      \/ Continues(b)
      \/ b \in 194 .. 223 /\ 2 <= Len(out) /\ Continues(out[2])
      \/ b \in 224 .. 239 /\ 3 <= Len(out) /\ Continues(out[2]) /\ Continues(out[3]) /\ (b = 224 => out[2] >= 160)
  BY <1>3 DEF Written, b
<1>7. Follows(screen.d, b)
  <2>1. b >= 0 /\ b <= 239 /\ b \notin {13, 192, 193}
    BY <1>3, <1>6 DEF Continues
  <2> QED
    BY <1>2, <1>3, <2>1 DEF Follows, Overlong
<1>8. /\ ScreenOK(s) /\ (b # 224 => ~Overlong(s.d))
      /\ s.d.st = CASE screen.d.st > 0 -> IF Continues(b) THEN screen.d.st - 1 ELSE 0
                    [] screen.d.st = 0 /\ b \in 194 .. 223 -> 1
                    [] screen.d.st = 0 /\ b \in 224 .. 239 -> 2
                    [] OTHER -> 0
  BY <1>1, <1>2, <1>7, LkSound
<1>9. screen.d.st \in 0 .. 2 /\ s.d.st \in 0 .. 2 /\ s.x \in Int
  BY <1>2, <1>8, ScreenFacts
<1>10. WriteInv'
  <2>1. next' # "write" /\ (pc' = "write" => Len(out) # 1)
    BY <1>1, <1>2
  <2> QED
    BY <1>1, <1>2, <2>1, OutputTail DEF WriteInv
<1>11. ASSUME screen.d.st = 0, b \in 194 .. 223 \/ b \in 224 .. 239
       PROVE  s.d.st < Len(out) /\ \A i \in 1 .. s.d.st : Continues(out[i + 1])
  <2>1. ~Continues(b) /\ b \notin 0 .. 127
    BY <1>11 DEF Continues
  <2>2. CASE b \in 194 .. 223
    <3>3. b \notin 224 .. 239
      BY <2>2
    <3>1. s.d.st = 1 /\ 2 <= Len(out) /\ Continues(out[2])
      BY <1>6, <1>8, <1>11, <2>1, <2>2, <3>3
    <3>2. \A i \in 1 .. 1 : i + 1 = 2
      OBVIOUS
    <3> QED
      BY <1>3, <3>1, <3>2
  <2>3. CASE b \in 224 .. 239
    <3>1. b \notin 194 .. 223
      BY <2>3
    <3>2. s.d.st = 2 /\ 3 <= Len(out) /\ Continues(out[2]) /\ Continues(out[3])
      BY <1>6, <1>8, <1>11, <2>1, <2>3, <3>1
    <3>3. \A i \in 1 .. 2 : i + 1 = 2 \/ i + 1 = 3
      OBVIOUS
    <3> QED
      BY <1>3, <3>2, <3>3
  <2> QED
    BY <1>11, <2>2, <2>3
<1>12. ASSUME screen.d.st > 0, Len(lbuf) < LBUF_MAX, s.d.st > 0
       PROVE  s.d.st < Len(out) /\ \A i \in 1 .. s.d.st : Continues(out[i + 1])
  <2>1. screen.d.st <= Len(out) /\ \A i \in 1 .. screen.d.st : Continues(out[i])
    BY <1>2, <1>12
  <2>2. s.d.st = screen.d.st - 1
    BY <1>8, <1>12
  <2>3. \A i \in 1 .. s.d.st : i + 1 \in 1 .. screen.d.st
    BY <1>9, <2>2
  <2> QED
    BY <1>3, <1>9, <2>1, <2>2, <2>3
<1>13. ASSUME s.d.st > 0, Len(lbuf) < LBUF_MAX
       PROVE  pc' = "write" /\ s.d.st <= Len(out') /\ \A i \in 1 .. s.d.st : Continues(out'[i])
  <2>1. screen.d.st > 0 \/ (screen.d.st = 0 /\ (b \in 194 .. 223 \/ b \in 224 .. 239))
    BY <1>8, <1>9, <1>13
  <2>2. s.d.st < Len(out) /\ \A i \in 1 .. s.d.st : Continues(out[i + 1])
    BY <1>11, <1>12, <1>13, <2>1
  <2>3. Len(out) # 1 /\ s.d.st <= Len(out) - 1 /\ \A i \in 1 .. s.d.st : i \in 1 .. Len(out) - 1
    <3> DEFINE k == Len(out)
               z == s.d.st
    <3>1. k \in Nat /\ z \in Nat /\ z > 0 /\ z < k
      BY <1>3, <1>9, <1>13, <2>2
    <3> HIDE DEF k, z
    <3>2. k # 1 /\ z <= k - 1 /\ \A i \in 1 .. z : i \in 1 .. k - 1
      BY <3>1
    <3> QED
      BY <3>2 DEF k, z
  <2> QED
    BY <1>1, <1>4, <1>5, <2>2, <2>3
<1>14. ASSUME Overlong(s.d) PROVE pc' = "write" /\ out'[1] >= 160
  <2>1. b = 224 /\ s.d.st = 2
    BY <1>8, <1>14 DEF Overlong
  <2>2. 3 <= Len(out) /\ out[2] >= 160
    BY <1>6, <2>1 DEF Continues
  <2>3. 1 \in 1 .. Len(out) - 1 /\ 1 + 1 = 2 /\ Len(out) # 1
    BY <1>3, <2>2
  <2> QED
    BY <1>1, <1>4, <2>2, <2>3
<1>15. DecoderInv'
  BY <1>1, <1>13, <1>14 DEF DecoderInv, s
<1>16. HomeInv'
  <2>1. CASE lbuf = <<>> /\ s.d.st = 0
    <3>1. home' = s.x
      BY <1>1, <2>1
    <3>2. Box'.lbuf = <<>> /\ Box'.screen = s
      BY <1>1, <2>1 DEF Box, s
    <3>3. At(s.x, Box')
      BY <1>8, <3>2, EmptyAt
    <3> QED
      BY <1>9, <2>1, <3>1, <3>3 DEF HomeInv, s
  <2>2. CASE ~(lbuf = <<>> /\ s.d.st = 0)
    <3>1. home' = -1
      BY <1>1, <2>2
    <3> QED
      BY <3>1 DEF HomeInv
  <2> QED
    BY <2>1, <2>2
<1> QED
  BY <1>8, <1>10, <1>15, <1>16 DEF EchoInv, s

\* A step that draws nothing, of a program that is not inside a write.
LEMMA QuietScreen ==
  ASSUME EchoInv, pc # "write", UNCHANGED <<lbuf, screen, home>>, next' # "write", pc' = "write" => IsOutput(out')
  PROVE  EchoInv'
<1>1. ScreenOK(screen) /\ DecoderInv /\ HomeInv
  BY DEF EchoInv
<1>2. ~Overlong(screen.d) /\ ~(screen.d.st > 0 /\ Len(lbuf) < LBUF_MAX)
  BY <1>1 DEF DecoderInv
<1>3. DecoderInv'
  BY <1>2 DEF DecoderInv
<1>4. Box'.lbuf = Box.lbuf /\ Box'.screen = Box.screen
  BY DEF Box
<1>5. HomeInv'
  BY <1>1, <1>4 DEF HomeInv, At
<1> QED
  BY <1>1, <1>3, <1>5 DEF EchoInv, WriteInv

\* A write begins.
LEMMA WriteBegins ==
  ASSUME KeyTypes, EchoInv, pc # "write", NEW text, IsOutput(text), NEW then, then # "write",
         Write(text, then), UNCHANGED keyboard
  PROVE  EchoInv'
<1>1. UNCHANGED <<lbuf, screen, home>> /\ next' = then /\ out' = text
  BY DEF Write, keyboard
<1> QED
  BY <1>1, QuietScreen

\* A read begins.
LEMMA ReadBegins ==
  ASSUME KeyTypes, EchoInv, pc # "write", NEW size, NEW then, then # "write", StartRead(size, then)
  PROVE  EchoInv'
<1>1. UNCHANGED <<lbuf, screen, home>> /\ next' = then /\ pc' = "wait"
  BY DEF StartRead, keyboard
<1> QED
  BY <1>1, QuietScreen

\* A command clears the screen.
LEMMA ClearScreen ==
  ASSUME KeyTypes, EchoInv, pc = "command", clear, UNCHANGED <<lbuf, next>>
  PROVE  EchoInv'
<1> DEFINE row == [BlankRow EXCEPT ![0] = Cursor]
           s == [screen EXCEPT !.x = 0, !.y = 0, !.row = row]
<1>1. ScreenOK(screen) /\ DecoderInv /\ WriteInv
  BY DEF EchoInv
<1>2. screen' = s /\ home' = (IF lbuf = <<>> THEN 0 ELSE -1) /\ pc' = "prompt" /\ lbuf' = lbuf /\ next' = next
  BY DEF clear, vga_clear
<1>3. DOMAIN screen = {"d", "x", "y", "row"} /\ DecoderOK(screen.d)
  BY <1>1 DEF ScreenOK, Canvas, Framed
<1>4. 0 \in 0 .. Columns - 1
  BY FourColumns
<1>5. DOMAIN row = 0 .. Columns - 1 /\ \A x \in 0 .. Columns - 1 : x > 0 => row[x] = 0
  BY <1>4 DEF BlankRow
<1> HIDE DEF row
<1>6. DOMAIN s = DOMAIN screen /\ s.d = screen.d /\ s.x = 0 /\ s.row = row
  BY <1>3
<1> HIDE DEF s
<1>7. ScreenOK(s)
  BY <1>3, <1>4, <1>5, <1>6 DEF ScreenOK, Canvas, Framed, BlankAfter
<1>8. ~Overlong(screen.d) /\ ~(screen.d.st > 0 /\ Len(lbuf) < LBUF_MAX)
  BY <1>1 DEF DecoderInv
<1>9. DecoderInv' /\ WriteInv'
  BY <1>1, <1>2, <1>6, <1>8 DEF DecoderInv, WriteInv
<1>10. HomeInv'
  <2>1. CASE lbuf = <<>>
    <3>1. Len(lbuf) < LBUF_MAX
      BY <2>1, ConsoleAssumption
    <3>2. s.d.st = 0
      BY <1>1, <1>6, <1>8, <3>1, ScreenFacts
    <3>3. Box'.lbuf = <<>> /\ Box'.screen = s
      BY <1>2, <2>1 DEF Box
    <3>4. At(0, Box')
      BY <1>6, <1>7, <3>3, EmptyAt
    <3> QED
      BY <1>2, <2>1, <3>2, <3>4 DEF HomeInv
  <2>2. CASE lbuf # <<>>
    <3>1. home' = -1
      BY <1>2, <2>2
    <3> QED
      BY <3>1 DEF HomeInv
  <2> QED
    BY <2>1, <2>2
<1> QED
  BY <1>2, <1>7, <1>9, <1>10 DEF EchoInv

LEMMA EchoInit ==
  ASSUME Init
  PROVE  EchoInv
<1> DEFINE row == [BlankRow EXCEPT ![0] = Cursor]
<1>1. screen = [d |-> Rest, x |-> 0, y |-> 0, row |-> row] /\ lbuf = <<>> /\ home = 0 /\ next = "none" /\ pc = "prompt"
  BY DEF Init
<1>2. 0 \in 0 .. Columns - 1
  BY FourColumns
<1>3. DOMAIN row = 0 .. Columns - 1 /\ \A x \in 0 .. Columns - 1 : x > 0 => row[x] = 0
  BY <1>2 DEF BlankRow
<1> HIDE DEF row
<1>4. DecoderOK(Rest) /\ Rest.st = 0 /\ ~Overlong(Rest)
  BY DEF DecoderOK, Rest, Overlong
<1>5. DOMAIN screen = {"d", "x", "y", "row"} /\ screen.d = Rest /\ screen.x = 0 /\ screen.row = row
  BY <1>1
<1>6. ScreenOK(screen)
  BY <1>2, <1>3, <1>4, <1>5 DEF ScreenOK, Canvas, Framed, BlankAfter
<1>7. Box.lbuf = <<>> /\ Box.screen = screen
  BY <1>1 DEF Box
<1>8. At(0, Box)
  BY <1>5, <1>6, <1>7, EmptyAt
<1> QED
  BY <1>1, <1>4, <1>5, <1>6, <1>8 DEF EchoInv, WriteInv, DecoderInv, HomeInv

LEMMA EchoStep ==
  ASSUME KeyTypes, EchoInv, [Next]_vars
  PROVE  EchoInv'
<1>1. next # "write" /\ (pc = "write" => IsOutput(out))
  BY DEF EchoInv, WriteInv
<1>2. ASSUME NEW key \in Pressed, KeyInterrupt(key)
      PROVE  EchoInv'
  <2>1. key \in KeySet
    BY <1>2, ConsoleAssumption DEF KeyTypes, Pressed
  <2> QED
    BY <1>2, <2>1, KeyScreen
<1>3. ASSUME UNCHANGED <<lbuf, screen, home, pc, next, out>>
      PROVE  EchoInv'
  BY <1>3 DEF EchoInv, ScreenOK, Canvas, Framed, BlankAfter, WriteInv, DecoderInv, HomeInv, At, Box
<1>4. CASE ShiftKey
  BY <1>3, <1>4 DEF ShiftKey
<1>5. CASE sys_write
  BY <1>5, WriteScreen
<1>6. CASE keyboard_readline_wait
  BY <1>1, <1>6, QuietScreen DEF keyboard_readline_wait, keyboard
<1>7. CASE keyboard_readline_copy
  BY <1>1, <1>7, QuietScreen DEF keyboard_readline_copy, keyboard
<1>8. CASE keyboard_readline_clear
  <2>1. pc = "clear" /\ pc' \in {"prompt", next} /\ next' = "none" /\ UNCHANGED <<lbuf, screen, home>>
    BY <1>8 DEF keyboard_readline_clear, keyboard
  <2> QED
    BY <1>1, <2>1, QuietScreen
<1>9. CASE Prompt
  <2>1. IsOutput(<<36>>)
    BY DEF IsOutput, Written
  <2> QED
    BY <1>9, <2>1, WriteBegins DEF Prompt
<1>10. CASE ReadCommand
  BY <1>10, ReadBegins DEF ReadCommand
<1>11. CASE ShellStep
  <2>1. PICK words \in user.commands : IF Is(words, Answers) THEN Answer(words) ELSE Obey(words)
    BY <1>11 DEF ShellStep
  <2>2. CASE Is(words, Answers)
    <3>1. PICK text \in Outputs : Write(text, "prompt")
      BY <2>1, <2>2 DEF Answer
    <3>2. pc = "command" /\ UNCHANGED keyboard /\ IsOutput(text)
      BY <2>1, <2>2, OutputsWritten DEF Answer
    <3> QED
      BY <3>1, <3>2, WriteBegins
  <2>3. CASE ~Is(words, Answers)
    <3>1. /\ exit \/ cd(words) \/ clear \/ run(words)
          /\ pc = "command" /\ UNCHANGED <<lbuf, next, out>>
      BY <2>1, <2>3 DEF Obey, keyboard
    <3>2. CASE clear
      BY <3>1, <3>2, ClearScreen
    <3>3. CASE exit \/ cd(words) \/ run(words)
      <4>1. UNCHANGED <<screen, home>> /\ pc' \in {"done", "prompt", "child"}
        BY <3>3 DEF exit, cd, run
      <4> QED
        BY <1>1, <3>1, <4>1, QuietScreen
    <3> QED
      BY <3>1, <3>2, <3>3
  <2> QED
    BY <2>2, <2>3
<1>12. CASE ChildWrite
  <2>1. PICK text \in Outputs : Write(text, "child")
    BY <1>12 DEF ChildWrite
  <2>2. pc = "child" /\ UNCHANGED keyboard /\ IsOutput(text)
    BY <1>12, OutputsWritten DEF ChildWrite
  <2> QED
    BY <2>1, <2>2, WriteBegins
<1>13. CASE ChildRead
  BY <1>13, ReadBegins DEF ChildRead
<1>14. CASE ChildEnds
  BY <1>1, <1>14, QuietScreen DEF ChildEnds, keyboard
<1>15. CASE UNCHANGED vars
  BY <1>3, <1>15 DEF vars
<1> QED
  BY <1>2, <1>4, <1>5, <1>6, <1>7, <1>8, <1>9, <1>10, <1>11, <1>12, <1>13, <1>14, <1>15 DEF Next

LEMMA EchoShown ==
  ASSUME KeyTypes, EchoInv
  PROVE  OutputSound
<1>1. ScreenOK(screen) /\ DecoderInv /\ HomeInv
  BY DEF EchoInv
<1>2. EchoInStep
  <2>1. SUFFICES ASSUME home >= 0
                 PROVE  LET text == Text(lbuf)
                        IN  /\ screen.x = home + text.width
                            /\ \A i \in DOMAIN text.chars : screen.row[home + text.cols[i]] = text.chars[i]
                            /\ \A x \in screen.x + 1 .. Columns - 1 : screen.row[x] = 0
    BY DEF EchoInStep
  <2>2. Shows(home, screen, Text(lbuf))
    BY <1>1, <2>1 DEF HomeInv, At, Box
  <2>3. ASSUME NEW x \in screen.x + 1 .. Columns - 1 PROVE screen.row[x] = 0
    <3>1. x \in 0 .. Columns - 1 /\ x > screen.x
      BY <1>1, <2>3, ScreenFacts, FourColumns
    <3> QED
      BY <1>1, <3>1 DEF ScreenOK, Canvas, BlankAfter
  <2> QED
    BY <2>2, <2>3 DEF Shows
<1>3. DecoderRests
  <2>1. Len(lbuf) \in Nat /\ Len(lbuf) <= LBUF_MAX /\ LBUF_MAX \in Nat
    BY ConsoleAssumption DEF KeyTypes
  <2>2. Len(lbuf) < LBUF_MAX \/ Len(lbuf) = LBUF_MAX
    BY <2>1
  <2> QED
    BY <1>1, <2>2 DEF DecoderInv, DecoderRests
<1> QED
  BY <1>2, <1>3 DEF OutputSound

\* However keys and the output of programs mix: from where the line starts, the
\* screen shows the line and nothing behind it, and the decoder that both use
\* is inside a character only in a write or at the end of a full line.
THEOREM ScreenFollows == Spec => []OutputSound
<1>1. ConsoleIInv => KeyTypes
  BY DEF ConsoleIInv
<1>2. ConsoleIInv /\ EchoInv => OutputSound
  BY <1>1, EchoShown
<1>3. ConsoleIInv /\ EchoInv /\ [Next]_vars => EchoInv'
  BY <1>1, EchoStep
<1> QED
  BY <1>2, <1>3, ConsoleInit, ConsoleStep, EchoInit, PTL DEF Spec

\* A recursion over 1 .. n with values in V has a solution.
Steps(g, n, V) == g \in [(1 .. n) \X V -> V]
Runs(f, g, a, n, V) == f \in [0 .. n -> V] /\ f[0] = a /\ \A m \in 1 .. n : f[m] = g[<<m, f[m - 1]>>]

LEMMA Recursion ==
  ASSUME NEW n \in Nat, NEW V, NEW a \in V, NEW g, Steps(g, n, V)
  PROVE  \E f : Runs(f, g, a, n, V)
<1> DEFINE Solves(f, k) == f \in [0 .. k -> V] /\ f[0] = a /\ \A m \in 1 .. k : f[m] = g[<<m, f[m - 1]>>]
           S == {k \in Nat : k <= n => \E f : Solves(f, k)}
<1>1. 0 \in S
  <2> DEFINE f == [m \in 0 .. 0 |-> a]
  <2>1. f \in [0 .. 0 -> V] /\ f[0] = a /\ \A m \in 1 .. 0 : FALSE
    OBVIOUS
  <2> HIDE DEF f
  <2>2. Solves(f, 0)
    BY <2>1
  <2> QED
    BY <2>2
<1>2. ASSUME NEW k \in S PROVE k + 1 \in S
  <2>0. g \in [(1 .. n) \X V -> V]
    BY DEF Steps
  <2>1. SUFFICES ASSUME k + 1 <= n PROVE \E f : Solves(f, k + 1)
    BY <1>2
  <2>2. k \in Nat /\ k <= n /\ k + 1 \in 1 .. n
    BY <2>1
  <2>3. PICK f : Solves(f, k)
    BY <1>2, <2>2
  <2> DEFINE v == g[<<k + 1, f[k]>>]
             h == [m \in 0 .. k + 1 |-> IF m = k + 1 THEN v ELSE f[m]]
  <2>4. f[k] \in V /\ v \in V
    <3>1. f[k] \in V
      BY <2>2, <2>3
    <3>2. <<k + 1, f[k]>> \in (1 .. n) \X V
      BY <2>2, <3>1
    <3> QED
      BY <2>0, <3>1, <3>2
  <2>5. ASSUME NEW m \in 0 .. k PROVE h[m] = f[m] /\ f[m] \in V
    <3>1. m \in 0 .. k + 1 /\ m # k + 1
      BY <2>2
    <3> QED
      BY <2>3, <3>1
  <2>6. h[k + 1] = v
    BY <2>2
  <2>7. \A m \in 0 .. k + 1 : m = k + 1 \/ m \in 0 .. k
    BY <2>2
  <2>8. h = [m \in 0 .. k + 1 |-> h[m]]
    OBVIOUS
  <2> HIDE DEF h
  <2>9. h \in [0 .. k + 1 -> V]
    <3>1. \A m \in 0 .. k + 1 : h[m] \in V
      <4> HIDE DEF v
      <4> QED
        BY <2>4, <2>5, <2>6, <2>7
    <3> QED
      BY <2>8, <3>1
  <2>10. h[0] = a
    BY <2>2, <2>3, <2>5
  <2>11. ASSUME NEW m \in 1 .. k + 1 PROVE h[m] = g[<<m, h[m - 1]>>]
    <3>1. CASE m = k + 1
      <4>1. m - 1 = k /\ k \in 0 .. k
        BY <2>2, <3>1
      <4>2. h[m - 1] = f[k]
        BY <2>5, <4>1
      <4> QED
        BY <2>6, <3>1, <4>2
    <3>2. CASE m \in 1 .. k
      <4>1. m \in 0 .. k /\ m - 1 \in 0 .. k
        BY <2>2, <3>2
      <4>2. f[m] = g[<<m, f[m - 1]>>]
        BY <2>3, <3>2
      <4> QED
        BY <2>5, <4>1, <4>2
    <3> QED
      BY <2>2, <3>1, <3>2
  <2>12. Solves(h, k + 1)
    BY <2>9, <2>10, <2>11
  <2> HIDE DEF Solves
  <2> QED
    BY <2>12
<1> HIDE DEF Solves
<1>3. S = Nat
  <2> HIDE DEF S
  <2>1. S \in SUBSET Nat
    BY DEF S
  <2> QED
    BY <1>1, <1>2, <2>1, Induct
<1>4. n <= n
  OBVIOUS
<1>5. PICK f : Solves(f, n)
  BY <1>3, <1>4
<1> QED
  BY <1>5 DEF Solves, Runs

-----------------------------------------------------------------------------
\* Sizes.
Elements == Names \cup {Slash}
SizeOf(x) == IF x = Slash THEN 1 ELSE NameSize(x)
Sums(f, s) == /\ f \in [0 .. Len(s) -> Nat] /\ f[0] = 0
              /\ \A m \in 1 .. Len(s) : f[m] = f[m - 1] + SizeOf(s[m])

LEMMA ElementSize ==
  ASSUME NEW x \in Elements
  PROVE  SizeOf(x) \in Nat /\ SizeOf(x) > 0
<1>1. CASE x = Slash
  BY <1>1 DEF SizeOf
<1>2. CASE x \in Names
  <2>1. NameSize(x) \in Nat \ {0} /\ x # Slash
    BY <1>2, ShellAssumption
  <2> QED
    BY <2>1 DEF SizeOf
<1> QED
  BY <1>1, <1>2 DEF Elements

LEMMA SizeSums ==
  ASSUME NEW s \in Seq(Elements)
  PROVE  \E f : Sums(f, s) /\ Size(s) = f[Len(s)]
<1> DEFINE n == Len(s)
           g == [p \in (1 .. n) \X Nat |-> p[2] + SizeOf(s[p[1]])]
           IsSum(f) == f = [m \in 0 .. n |-> IF m = 0 THEN 0 ELSE f[m - 1] + (IF s[m] = Slash THEN 1 ELSE NameSize(s[m]))]
<1>1. n \in Nat /\ \A m \in 1 .. n : s[m] \in Elements
  OBVIOUS
<1>2. \A m \in 1 .. n : SizeOf(s[m]) \in Nat
  BY <1>1, ElementSize
<1> HIDE DEF n
<1>3. Steps(g, n, Nat)
  <2>1. \A p \in (1 .. n) \X Nat : p[2] \in Nat /\ p[1] \in 1 .. n
    OBVIOUS
  <2> QED
    BY <1>2, <2>1 DEF Steps
<1>4. \A m \in 1 .. n, v \in Nat : g[<<m, v>>] = v + SizeOf(s[m])
  OBVIOUS
<1> HIDE DEF g
<1>5. PICK f : Runs(f, g, 0, n, Nat)
  BY <1>1, <1>3, Recursion
<1>20. f \in [0 .. n -> Nat] /\ f[0] = 0 /\ \A m \in 1 .. n : f[m] = g[<<m, f[m - 1]>>]
  BY <1>5 DEF Runs
<1>6. ASSUME NEW m \in 1 .. n PROVE f[m] = f[m - 1] + SizeOf(s[m])
  <2>1. m - 1 \in 0 .. n
    BY <1>1
  <2> QED
    BY <1>4, <1>20, <2>1
<1>7. IsSum(f)
  <2>1. ASSUME NEW m \in 0 .. n
        PROVE  f[m] = IF m = 0 THEN 0 ELSE f[m - 1] + (IF s[m] = Slash THEN 1 ELSE NameSize(s[m]))
    <3>1. m = 0 \/ m \in 1 .. n
      BY <1>1
    <3> QED
      BY <1>20, <1>6, <3>1 DEF SizeOf
  <2>2. f = [m \in 0 .. n |-> f[m]]
    BY <1>20
  <2> QED
    BY <2>1, <2>2
<1> DEFINE h == CHOOSE h : IsSum(h)
<1>8. IsSum(h)
  BY <1>7
<1>9. Size(s) = h[n]
  BY DEF Size, n
<1> HIDE DEF h
<1>10. DOMAIN h = 0 .. n /\ h[0] = 0
  BY <1>1, <1>8
<1>11. ASSUME NEW m \in 1 .. n PROVE h[m] = h[m - 1] + SizeOf(s[m])
  <2>1. m \in 0 .. n /\ m # 0
    BY <1>1
  <2> QED
    BY <1>8, <2>1 DEF SizeOf
<1> HIDE DEF IsSum
<1> DEFINE S == {m \in Nat : m <= n => h[m] \in Nat}
<1>12. 0 \in S
  BY <1>10
<1>13. ASSUME NEW m \in S PROVE m + 1 \in S
  <2>1. SUFFICES ASSUME m + 1 <= n PROVE h[m + 1] \in Nat
    OBVIOUS
  <2>2. m + 1 \in 1 .. n /\ m + 1 - 1 = m /\ m <= n /\ m \in Nat
    BY <1>1, <2>1
  <2>3. h[m + 1] = h[m] + SizeOf(s[m + 1])
    BY <1>11, <2>2
  <2>4. h[m] \in Nat
    BY <2>2
  <2> QED
    BY <1>2, <2>2, <2>3, <2>4
<1>14. S = Nat
  <2> HIDE DEF S
  <2>1. S \in SUBSET Nat
    BY DEF S
  <2> QED
    BY <1>12, <1>13, <2>1, Induct
<1>15. \A m \in 0 .. n : h[m] \in Nat
  <2> SUFFICES ASSUME NEW m \in 0 .. n PROVE h[m] \in Nat
    OBVIOUS
  <2>1. m \in Nat /\ m <= n
    BY <1>1
  <2> QED
    BY <1>14, <2>1
<1>16. h = [m \in 0 .. n |-> h[m]]
  BY <1>8 DEF IsSum
<1>17. h \in [0 .. n -> Nat]
  BY <1>15, <1>16
<1>18. Sums(h, s)
  BY <1>10, <1>11, <1>17 DEF Sums, n
<1> QED
  BY <1>9, <1>18 DEF n

LEMMA SizePrefix ==
  ASSUME NEW s \in Seq(Elements), NEW f, Sums(f, s), NEW n \in 0 .. Len(s)
  PROVE  Size(SubSeq(s, 1, n)) = f[n]
<1> DEFINE t == SubSeq(s, 1, n)
           l == Len(s)
<1>1. l \in Nat /\ n \in Nat /\ n <= l
  OBVIOUS
<1>2. t \in Seq(Elements) /\ Len(t) = n /\ \A i \in 1 .. n : t[i] = s[i]
  OBVIOUS
<1>3. f[0] = 0 /\ \A m \in 1 .. l : f[m] = f[m - 1] + SizeOf(s[m])
  BY DEF Sums
<1> HIDE DEF t, l
<1>4. PICK g : Sums(g, t) /\ Size(t) = g[n]
  BY <1>2, SizeSums
<1>5. g[0] = 0 /\ \A m \in 1 .. n : g[m] = g[m - 1] + SizeOf(t[m])
  BY <1>2, <1>4 DEF Sums
<1> DEFINE S == {m \in Nat : m <= n => g[m] = f[m]}
<1>6. 0 \in S
  BY <1>3, <1>5
<1>7. ASSUME NEW m \in S PROVE m + 1 \in S
  <2>1. SUFFICES ASSUME m + 1 <= n PROVE g[m + 1] = f[m + 1]
    OBVIOUS
  <2>2. m + 1 \in 1 .. n /\ m + 1 \in 1 .. l /\ m + 1 - 1 = m /\ m <= n
    BY <1>1, <2>1
  <2>3. g[m + 1] = g[m] + SizeOf(t[m + 1]) /\ f[m + 1] = f[m] + SizeOf(s[m + 1])
    BY <1>3, <1>5, <2>2
  <2> QED
    BY <1>2, <2>2, <2>3
<1>8. S = Nat
  <2> HIDE DEF S
  <2>1. S \in SUBSET Nat
    BY DEF S
  <2> QED
    BY <1>6, <1>7, <2>1, Induct
<1>9. g[n] = f[n]
  BY <1>1, <1>8
<1> QED
  BY <1>4, <1>9 DEF t

LEMMA SubSeqOfAppended ==
  ASSUME NEW S, NEW s \in Seq(S), NEW x \in S
  PROVE  SubSeq(Append(s, x), 1, Len(s)) = s
<1> DEFINE t == Append(s, x)
           u == SubSeq(t, 1, Len(s))
<1>1. Len(s) \in Nat /\ t \in Seq(S) /\ Len(t) = Len(s) + 1 /\ \A i \in 1 .. Len(s) : t[i] = s[i]
  OBVIOUS
<1> HIDE DEF t
<1>2. u \in Seq(S) /\ Len(u) = Len(s) /\ \A i \in 1 .. Len(s) : u[i] = t[i]
  BY <1>1
<1> HIDE DEF u
<1>3. s = [i \in 1 .. Len(s) |-> s[i]] /\ u = [i \in 1 .. Len(u) |-> u[i]]
  BY <1>2
<1>4. u = s
  BY <1>1, <1>2, <1>3
<1> QED
  BY <1>4 DEF u, t

LEMMA SizeAppend ==
  ASSUME NEW s \in Seq(Elements), NEW x \in Elements
  PROVE  Size(s) \in Nat /\ Size(Append(s, x)) = Size(s) + SizeOf(x)
<1> DEFINE t == Append(s, x)
           n == Len(s)
<1>1. n \in Nat /\ t \in Seq(Elements) /\ Len(t) = n + 1 /\ t[n + 1] = x /\ SubSeq(t, 1, n) = s
  <2>1. n \in Nat /\ t \in Seq(Elements) /\ Len(t) = n + 1 /\ t[n + 1] = x
    OBVIOUS
  <2>2. SubSeq(t, 1, n) = s
    BY SubSeqOfAppended
  <2> QED
    BY <2>1, <2>2
<1> HIDE DEF t, n
<1>2. PICK f : Sums(f, t) /\ Size(t) = f[n + 1]
  BY <1>1, SizeSums
<1>3. n \in 0 .. n + 1 /\ n + 1 \in 1 .. n + 1 /\ n + 1 - 1 = n
  BY <1>1
<1>4. Size(s) = f[n]
  <2>1. t \in Seq(Elements) /\ Sums(f, t) /\ n \in 0 .. Len(t)
    BY <1>1, <1>2, <1>3
  <2>2. Size(SubSeq(t, 1, n)) = f[n]
    BY <2>1, SizePrefix
  <2> QED
    BY <1>1, <2>2
<1>5. f[n] \in Nat /\ f[n + 1] = f[n] + SizeOf(x)
  BY <1>1, <1>2, <1>3 DEF Sums
<1> QED
  BY <1>2, <1>4, <1>5 DEF t

LEMMA SizeOfFew ==
  Size(<<>>) = 0 /\ Size(<<Slash>>) = 1
<1>1. <<>> \in Seq(Elements) /\ Len(<<>>) = 0
  OBVIOUS
<1>2. PICK f : Sums(f, <<>>) /\ Size(<<>>) = f[0]
  BY <1>1, SizeSums
<1>3. Size(<<>>) = 0
  BY <1>2 DEF Sums
<1>4. Slash \in Elements /\ SizeOf(Slash) = 1
  BY DEF Elements, SizeOf
<1>5. Append(<<>>, Slash) = <<Slash>>
  OBVIOUS
<1>6. Size(Append(<<>>, Slash)) = Size(<<>>) + SizeOf(Slash)
  <2> DEFINE e == <<>>
  <2>1. e \in Seq(Elements)
    BY <1>1
  <2> HIDE DEF e
  <2>2. Size(Append(e, Slash)) = Size(e) + SizeOf(Slash)
    BY <1>4, <2>1, SizeAppend
  <2> QED
    BY <2>2 DEF e
<1>7. Size(<<Slash>>) = 1
  BY <1>3, <1>4, <1>5, <1>6
<1> QED
  BY <1>3, <1>7

\* A longer beginning is larger, by its last element.
LEMMA Beginnings ==
  ASSUME NEW s \in Seq(Elements)
  PROVE  /\ \A n \in 0 .. Len(s) : Size(SubSeq(s, 1, n)) \in Nat /\ Size(SubSeq(s, 1, n)) <= Size(s)
         /\ \A n \in 1 .. Len(s) : Size(SubSeq(s, 1, n)) = Size(SubSeq(s, 1, n - 1)) + SizeOf(s[n])
         /\ Size(SubSeq(s, 1, 0)) = 0 /\ Size(SubSeq(s, 1, Len(s))) = Size(s)
<1> DEFINE l == Len(s)
<1>1. l \in Nat /\ \A n \in 1 .. l : s[n] \in Elements
  OBVIOUS
<1>2. PICK f : Sums(f, s) /\ Size(s) = f[l]
  BY SizeSums
<1>3. \A n \in 0 .. l : Size(SubSeq(s, 1, n)) = f[n]
  BY <1>2, SizePrefix
<1>4. f[0] = 0 /\ (\A n \in 0 .. l : f[n] \in Nat) /\ \A n \in 1 .. l : f[n] = f[n - 1] + SizeOf(s[n])
  BY <1>2 DEF Sums
<1> HIDE DEF l
<1> DEFINE S == {k \in Nat : k <= l => f[l - k] <= f[l]}
<1>5. 0 \in S
  <2>1. l - 0 = l /\ l \in 0 .. l
    BY <1>1
  <2> QED
    BY <1>4, <2>1
<1>6. ASSUME NEW k \in S PROVE k + 1 \in S
  <2>1. SUFFICES ASSUME k + 1 <= l PROVE f[l - (k + 1)] <= f[l]
    OBVIOUS
  <2> DEFINE n == l - k
  <2>2. n \in 1 .. l /\ n - 1 \in 0 .. l /\ n \in 0 .. l /\ l - (k + 1) = n - 1 /\ k <= l /\ l \in 0 .. l
    BY <1>1, <2>1
  <2>3. f[n] <= f[l]
    BY <2>2
  <2> HIDE DEF n
  <2>4. f[n] = f[n - 1] + SizeOf(s[n]) /\ SizeOf(s[n]) \in Nat
    BY <1>1, <1>4, <2>2, ElementSize
  <2>5. f[n] \in Nat /\ f[n - 1] \in Nat /\ f[l] \in Nat
    BY <1>4, <2>2
  <2>6. f[n - 1] <= f[l]
    BY <2>3, <2>4, <2>5
  <2> QED
    BY <2>2, <2>6
<1>7. S = Nat
  <2> HIDE DEF S
  <2>1. S \in SUBSET Nat
    BY DEF S
  <2> QED
    BY <1>5, <1>6, <2>1, Induct
<1>8. ASSUME NEW n \in 0 .. l PROVE f[n] <= f[l]
  <2>1. l - n \in Nat /\ l - n <= l /\ l - (l - n) = n
    BY <1>1
  <2>2. l - n \in S
    BY <1>7, <2>1
  <2> QED
    BY <2>1, <2>2
<1> HIDE DEF S
<1>9. \A n \in 1 .. l : n \in 0 .. l /\ n - 1 \in 0 .. l
  BY <1>1
<1>10. 0 \in 0 .. l /\ l \in 0 .. l
  BY <1>1
<1> QED
  BY <1>2, <1>3, <1>4, <1>8, <1>9, <1>10 DEF l

-----------------------------------------------------------------------------
\* Directories: a slash and a name in turn.
Leads(s, names) ==
  /\ s \in Seq(Elements) /\ names \in Seq(Names)
  /\ Len(s) = 2 * Len(names) \/ Len(s) = 2 * Len(names) + 1
  /\ \A k \in 1 .. Len(names) : s[2 * k - 1] = Slash /\ s[2 * k] = names[k]
  /\ Len(s) = 2 * Len(names) + 1 => s[Len(s)] = Slash
\* No slash is left at its end.
Bare(s, names) == s # <<>> /\ (Len(s) = 2 * Len(names) \/ names = <<>>)

LEMMA EvenOrOdd ==
  ASSUME NEW n \in Nat
  PROVE  \E k \in Nat : n = 2 * k \/ n = 2 * k + 1
<1>1. n \div 2 \in Nat /\ n % 2 \in 0 .. 1 /\ n = 2 * (n \div 2) + (n % 2)
  BY DivisionWithRest
<1> QED
  BY <1>1

LEMMA TurnAt ==
  ASSUME NEW s, NEW names, Leads(s, names)
  PROVE  /\ \A k \in Nat : 2 * k + 1 <= Len(s) => s[2 * k + 1] = Slash
         /\ \A k \in Nat : k > 0 /\ 2 * k <= Len(s) => /\ k \in 1 .. Len(names) /\ s[2 * k] = names[k]
                                                       /\ s[2 * k] \in Names /\ s[2 * k] # Slash
<1> DEFINE l == Len(names)
<1>1. /\ l \in Nat /\ (Len(s) = 2 * l \/ Len(s) = 2 * l + 1)
      /\ \A k \in 1 .. l : s[2 * k - 1] = Slash /\ s[2 * k] = names[k] /\ names[k] \in Names
      /\ Len(s) = 2 * l + 1 => s[Len(s)] = Slash
  BY DEF Leads
<1>2. l \in Nat
  BY DEF Leads
<1> HIDE DEF l
<1>3. ASSUME NEW k \in Nat, 2 * k + 1 <= Len(s) PROVE s[2 * k + 1] = Slash
  <2>1. CASE k = l
    <3>1. Len(s) = 2 * l + 1
      BY <1>1, <1>2, <1>3, <2>1
    <3> QED
      BY <1>1, <2>1, <3>1
  <2>2. CASE k # l
    <3>1. k + 1 \in 1 .. l /\ 2 * (k + 1) - 1 = 2 * k + 1
      BY <1>1, <1>2, <1>3, <2>2
    <3>2. s[2 * (k + 1) - 1] = Slash
      BY <1>1, <3>1
    <3> QED
      BY <3>1, <3>2
  <2> QED
    BY <2>1, <2>2
<1>4. ASSUME NEW k \in Nat, k > 0, 2 * k <= Len(s) PROVE k \in 1 .. l /\ s[2 * k] = names[k] /\ s[2 * k] \in Names /\ s[2 * k] # Slash
  <2>1. k \in 1 .. l
    BY <1>1, <1>2, <1>4
  <2>2. s[2 * k] = names[k] /\ names[k] \in Names
    BY <1>1, <2>1
  <2> QED
    BY <2>1, <2>2, ShellAssumption
<1> QED
  BY <1>3, <1>4 DEF l

LEMMA LeadsBeginning ==
  ASSUME NEW s, NEW names, Leads(s, names), NEW k \in Nat, NEW n \in {2 * k, 2 * k + 1}, n <= Len(s)
  PROVE  k <= Len(names) /\ Leads(SubSeq(s, 1, n), SubSeq(names, 1, k))
<1> DEFINE l == Len(names)
           t == SubSeq(s, 1, n)
           m == SubSeq(names, 1, k)
<1>1. s \in Seq(Elements) /\ names \in Seq(Names) /\ l \in Nat /\ Len(s) \in Nat
      /\ (Len(s) = 2 * l \/ Len(s) = 2 * l + 1)
  BY DEF Leads
<1>2. k <= l /\ n \in Nat
  <2> HIDE DEF l
  <2>1. n = 2 * k \/ n = 2 * k + 1
    OBVIOUS
  <2> QED
    BY <1>1, <2>1
<1>3. n \in 0 .. Len(s) /\ k \in 0 .. l
  BY <1>2
<1>4. t \in Seq(Elements) /\ Len(t) = n /\ \A i \in 1 .. n : t[i] = s[i]
  BY <1>1, <1>3
<1>5. m \in Seq(Names) /\ Len(m) = k /\ \A i \in 1 .. k : m[i] = names[i]
  BY <1>1, <1>3
<1> HIDE DEF t, m, l
<1>6. ASSUME NEW i \in 1 .. k PROVE t[2 * i - 1] = Slash /\ t[2 * i] = m[i]
  <2>1. 2 * i - 1 \in 1 .. n /\ 2 * i \in 1 .. n /\ i \in 1 .. l
    BY <1>1, <1>2
  <2>2. s[2 * i - 1] = Slash /\ s[2 * i] = names[i]
    BY <2>1 DEF Leads, l
  <2> QED
    BY <1>4, <1>5, <2>1, <2>2
<1>7. ASSUME n = 2 * k + 1 PROVE t[n] = Slash
  <2>1. s[2 * k + 1] = Slash
    BY <1>7, TurnAt
  <2>2. n \in 1 .. n
    BY <1>2, <1>7
  <2> QED
    BY <1>4, <1>7, <2>1, <2>2
<1>8. n = 2 * k \/ n = 2 * k + 1
  OBVIOUS
<1> QED
  BY <1>2, <1>4, <1>5, <1>6, <1>7, <1>8 DEF Leads, t, m, l

\* What Cut does, by the beginning that fits.
FitsAt(s, size, n) == n \in 0 .. Len(s) /\ Size(SubSeq(s, 1, n)) < size
                      /\ (n = Len(s) \/ Size(SubSeq(s, 1, n + 1)) >= size)
CutAt(s, size, n) ==
  LET head == SubSeq(s, 1, n)
      room == size - 1 - Size(head)
  IN  IF n = Len(s) \/ room = 0 THEN head ELSE Append(head, NameStart(s[n + 1], room))

LEMMA CutSomewhere ==
  ASSUME NEW s \in Seq(Elements), NEW size \in Nat, size > 0
  PROVE  \E n : FitsAt(s, size, n) /\ Cut(s, size) = CutAt(s, size, n)
<1> DEFINE l == Len(s)
           P(n) == Size(SubSeq(s, 1, n))
           S == {k \in Nat : k >= 1 /\ k <= l /\ P(k) >= size}
<1>1. l \in Nat /\ P(0) = 0 /\ \A n \in 0 .. l : P(n) \in Nat
  BY Beginnings
<1> HIDE DEF P
<1>2. \E n : n \in 0 .. l /\ P(n) < size /\ (n = l \/ P(n + 1) >= size)
  <2>1. CASE S = {}
    <3>1. l \in 0 .. l /\ (l = 0 \/ l >= 1) /\ P(l) \in Nat
      BY <1>1
    <3>2. l >= 1 => ~(P(l) >= size)
      BY <1>1, <2>1
    <3>3. P(l) < size
      BY <1>1, <3>1, <3>2
    <3> QED
      BY <3>1, <3>3
  <2>2. CASE S # {}
    <3>1. PICK k \in S : \A u \in S : k <= u
      BY <2>2, LeastElement
    <3> DEFINE n == k - 1
    <3>2. k \in Nat /\ k >= 1 /\ k <= l /\ P(k) >= size
      OBVIOUS
    <3>3. n \in Nat /\ n + 1 = k /\ n \in 0 .. l /\ n < k /\ P(n) \in Nat
      BY <1>1, <3>2
    <3> HIDE DEF n
    <3>4. n \notin S
      BY <3>1, <3>2, <3>3
    <3>5. n = 0 \/ n >= 1
      BY <3>3
    <3>6. P(n) < size
      BY <1>1, <3>3, <3>4, <3>5
    <3> QED
      BY <3>2, <3>3, <3>6
  <2> QED
    BY <2>1, <2>2
<1> DEFINE fit == CHOOSE n \in 0 .. l : P(n) < size /\ (n = l \/ P(n + 1) >= size)
<1>3. fit \in 0 .. l /\ P(fit) < size /\ (fit = l \/ P(fit + 1) >= size)
  BY <1>2
<1>4. FitsAt(s, size, fit)
  <2> HIDE DEF fit
  <2> QED
    BY <1>3 DEF FitsAt, P
<1>5. Cut(s, size) = CutAt(s, size, fit)
  BY DEF Cut, CutAt, P
<1> QED
  BY <1>4, <1>5

LEMMA WholeSequence ==
  ASSUME NEW S, NEW s \in Seq(S)
  PROVE  SubSeq(s, 1, Len(s)) = s
<1> DEFINE u == SubSeq(s, 1, Len(s))
<1>1. Len(s) \in Nat /\ s = [i \in 1 .. Len(s) |-> s[i]]
  OBVIOUS
<1>2. u \in Seq(S) /\ Len(u) = Len(s) /\ \A i \in 1 .. Len(s) : u[i] = s[i]
  BY <1>1
<1> HIDE DEF u
<1>3. u = [i \in 1 .. Len(u) |-> u[i]]
  BY <1>2
<1>4. u = s
  BY <1>1, <1>2, <1>3
<1> QED
  BY <1>4 DEF u

LEMMA CutFits ==
  ASSUME NEW s \in Seq(Elements), NEW size \in Nat, Size(s) < size
  PROVE  Cut(s, size) = s
<1>1. /\ \A n \in 0 .. Len(s) : Size(SubSeq(s, 1, n)) \in Nat /\ Size(SubSeq(s, 1, n)) <= Size(s)
      /\ Size(SubSeq(s, 1, Len(s))) = Size(s)
  BY Beginnings
<1>2. Len(s) \in Nat
  OBVIOUS
<1>3. Size(s) \in Nat
  <2>1. Len(s) \in 0 .. Len(s)
    BY <1>2
  <2> QED
    BY <1>1, <2>1
<1>4. size > 0
  BY <1>3
<1>5. PICK n : FitsAt(s, size, n) /\ Cut(s, size) = CutAt(s, size, n)
  BY <1>4, CutSomewhere
<1>6. n = Len(s)
  <2> SUFFICES ASSUME n # Len(s) PROVE FALSE
    OBVIOUS
  <2>1. n \in 0 .. Len(s) /\ Size(SubSeq(s, 1, n + 1)) >= size
    BY <1>5 DEF FitsAt
  <2>2. n + 1 \in 0 .. Len(s)
    BY <1>2, <2>1
  <2>3. Size(SubSeq(s, 1, n + 1)) \in Nat /\ Size(SubSeq(s, 1, n + 1)) <= Size(s)
    BY <1>1, <2>2
  <2> QED
    BY <1>3, <2>1, <2>3
<1>7. Cut(s, size) = SubSeq(s, 1, Len(s))
  BY <1>5, <1>6 DEF CutAt
<1> QED
  BY <1>7, WholeSequence

\* One more name, or the slash before it.
LEMMA LeadsName ==
  ASSUME NEW s, NEW names, Leads(s, names), Len(s) = 2 * Len(names) + 1, NEW x \in Names
  PROVE  Leads(Append(s, x), Append(names, x)) /\ Len(Append(s, x)) = 2 * Len(Append(names, x))
<1> DEFINE l == Len(names)
           t == Append(s, x)
           m == Append(names, x)
<1>1. s \in Seq(Elements) /\ names \in Seq(Names) /\ l \in Nat /\ Len(s) = 2 * l + 1 /\ x \in Elements
  BY DEF Leads, Elements
<1>2. t \in Seq(Elements) /\ Len(t) = 2 * l + 2 /\ t[2 * l + 2] = x /\ \A i \in 1 .. 2 * l + 1 : t[i] = s[i]
  <2>1. t \in Seq(Elements) /\ Len(t) = Len(s) + 1 /\ t[Len(s) + 1] = x /\ \A i \in 1 .. Len(s) : t[i] = s[i]
    BY <1>1
  <2>2. 2 * l + 1 + 1 = 2 * l + 2
    BY <1>1
  <2> HIDE DEF t, l
  <2> QED
    BY <1>1, <2>1, <2>2
<1>3. m \in Seq(Names) /\ Len(m) = l + 1 /\ m[l + 1] = x /\ \A i \in 1 .. l : m[i] = names[i]
  BY <1>1
<1> HIDE DEF t, m
<1>4. ASSUME NEW i \in 1 .. l + 1 PROVE t[2 * i - 1] = Slash /\ t[2 * i] = m[i]
  <2>1. CASE i = l + 1
    <3>1. 2 * i - 1 = 2 * l + 1 /\ 2 * i = 2 * l + 2 /\ 2 * l + 1 \in 1 .. 2 * l + 1
      BY <1>1, <2>1
    <3>2. s[2 * l + 1] = Slash
      BY <1>1, TurnAt
    <3> QED
      BY <1>2, <1>3, <2>1, <3>1, <3>2
  <2>2. CASE i \in 1 .. l
    <3>1. s[2 * i - 1] = Slash /\ s[2 * i] = names[i]
      BY <2>2 DEF Leads
    <3>2. 2 * i - 1 \in 1 .. 2 * l + 1 /\ 2 * i \in 1 .. 2 * l + 1
      BY <1>1, <2>2
    <3> QED
      BY <1>2, <1>3, <2>2, <3>1, <3>2
  <2> QED
    BY <1>1, <2>1, <2>2
<1>5. 2 * (l + 1) = 2 * l + 2 /\ 2 * l + 2 # 2 * (l + 1) + 1
  BY <1>1
<1> HIDE DEF l
<1> QED
  BY <1>2, <1>3, <1>4, <1>5 DEF Leads, t, m

LEMMA LeadsSlash ==
  ASSUME NEW s, NEW names, Leads(s, names), Len(s) = 2 * Len(names)
  PROVE  Leads(Append(s, Slash), names) /\ Len(Append(s, Slash)) = 2 * Len(names) + 1
<1> DEFINE l == Len(names)
           t == Append(s, Slash)
<1>1. /\ s \in Seq(Elements) /\ names \in Seq(Names) /\ l \in Nat /\ Len(s) = 2 * l /\ Slash \in Elements
      /\ \A k \in 1 .. l : s[2 * k - 1] = Slash /\ s[2 * k] = names[k]
  BY DEF Leads, Elements
<1>2. t \in Seq(Elements) /\ Len(t) = Len(s) + 1 /\ t[Len(s) + 1] = Slash /\ \A i \in 1 .. Len(s) : t[i] = s[i]
  <2>1. s \in Seq(Elements) /\ Slash \in Elements
    BY <1>1
  <2> QED
    BY <2>1
<1> HIDE DEF t, l
<1>3. ASSUME NEW k \in 1 .. l PROVE t[2 * k - 1] = Slash /\ t[2 * k] = names[k]
  <2>1. 2 * k - 1 \in 1 .. Len(s) /\ 2 * k \in 1 .. Len(s)
    BY <1>1
  <2> QED
    BY <1>1, <1>2, <2>1
<1> QED
  BY <1>1, <1>2, <1>3 DEF Leads, t, l

\* A cut directory leads somewhere, and ends in a slash only when its room is used up.
LEMMA CutLeads ==
  ASSUME NEW s, NEW names, Leads(s, names), s # <<>>, NEW size \in Nat, size > 1
  PROVE  LET c == Cut(s, size)
         IN  \E m : Leads(c, m) /\ c # <<>> /\ (Bare(s, names) /\ Size(c) < size - 1 => Bare(c, m))
<1> DEFINE c == Cut(s, size)
<1>1. s \in Seq(Elements) /\ s # <<>> /\ Len(s) \in Nat
  BY DEF Leads
<1>2. size > 0
  OBVIOUS
<1>3. PICK n : FitsAt(s, size, n) /\ c = CutAt(s, size, n)
  BY <1>1, <1>2, CutSomewhere
<1> DEFINE head == SubSeq(s, 1, n)
           room == size - 1 - Size(head)
<1>4. n \in 0 .. Len(s) /\ Size(head) < size /\ (n = Len(s) \/ Size(SubSeq(s, 1, n + 1)) >= size)
  BY <1>3 DEF FitsAt
<1>5. c = IF n = Len(s) \/ room = 0 THEN head ELSE Append(head, NameStart(s[n + 1], room))
  BY <1>3 DEF CutAt
<1>6. PICK k \in Nat : n = 2 * k \/ n = 2 * k + 1
  <2>1. n \in Nat
    BY <1>1, <1>4
  <2> QED
    BY <2>1, EvenOrOdd
<1> DEFINE m == SubSeq(names, 1, k)
<1>7. k <= Len(names) /\ Leads(head, m)
  <2>1. n \in {2 * k, 2 * k + 1} /\ n <= Len(s)
    BY <1>1, <1>4, <1>6
  <2> QED
    BY <2>1, LeadsBeginning
<1>8. Size(head) \in Nat /\ room \in Nat
  <2>1. Size(head) \in Nat
    BY <1>1, <1>4, Beginnings
  <2> HIDE DEF head
  <2> QED
    BY <1>4, <2>1
<1>9. head \in Seq(Elements) /\ Len(head) = n
  BY <1>1, <1>4
<1>15. m \in Seq(Names) /\ Len(m) = k
  <2>1. names \in Seq(Names) /\ k \in 0 .. Len(names)
    BY <1>7 DEF Leads
  <2> QED
    BY <2>1
<1> SUFFICES \E z : Leads(c, z) /\ c # <<>> /\ (Bare(s, names) /\ Size(c) < size - 1 => Bare(c, z))
  OBVIOUS
<1> HIDE DEF c, m
<1>10. CASE n = Len(s)
  <2>1. c = s
    BY <1>1, <1>5, <1>10, WholeSequence
  <2> QED
    BY <1>1, <2>1
<1>11. CASE n # Len(s) /\ room = 0
  <2>1. c = head /\ Size(c) = size - 1
    BY <1>4, <1>5, <1>8, <1>11
  <2>2. c # <<>>
    <3>1. Size(c) # 0
      BY <2>1
    <3> QED
      BY <3>1, SizeOfFew
  <2> QED
    BY <1>7, <2>1, <2>2
<1>12. CASE n # Len(s) /\ room # 0
  <2> DEFINE x == s[n + 1]
             y == NameStart(x, room)
  <2>1. n + 1 \in 1 .. Len(s) /\ n + 1 - 1 = n /\ Size(SubSeq(s, 1, n + 1)) >= size
    BY <1>1, <1>4, <1>12
  <2>2. x \in Elements
    BY <1>1, <2>1
  <2>3. Size(SubSeq(s, 1, n + 1)) = Size(head) + SizeOf(x)
    <3>1. \A i \in 1 .. Len(s) : Size(SubSeq(s, 1, i)) = Size(SubSeq(s, 1, i - 1)) + SizeOf(s[i])
      BY <1>1, Beginnings
    <3> DEFINE j == n + 1
    <3>2. j \in 1 .. Len(s) /\ j - 1 = n
      BY <1>1, <1>4, <2>1
    <3> HIDE DEF j
    <3>3. Size(SubSeq(s, 1, j)) = Size(SubSeq(s, 1, j - 1)) + SizeOf(s[j])
      BY <3>1, <3>2
    <3>4. Size(SubSeq(s, 1, j)) = Size(SubSeq(s, 1, n)) + SizeOf(s[j])
      BY <3>2, <3>3
    <3> QED
      BY <3>4 DEF j
  <2>4. SizeOf(x) \in Nat
    BY <2>2, ElementSize
  <2> HIDE DEF x, head
  <2>5. room >= 1 /\ room <= SizeOf(x) - 1
    BY <1>8, <1>12, <2>1, <2>3, <2>4
  <2>6. x \in Names /\ x # Slash
    <3>1. x # Slash
      BY <2>4, <2>5, <1>8 DEF SizeOf
    <3> QED
      BY <2>2, <3>1 DEF Elements
  <2> HIDE DEF room
  <2>7. y \in Names
    <3>1. room \in 1 .. NameSize(x) - 1
      BY <1>8, <2>4, <2>5, <2>6 DEF SizeOf
    <3> QED
      BY <2>6, <3>1, ShellAssumption
  <2>8. n = 2 * k + 1
    <3>1. SUFFICES ASSUME n = 2 * k PROVE FALSE
      BY <1>6
    <3>2. 2 * k + 1 <= Len(s)
      BY <2>1, <3>1
    <3> QED
      BY <2>6, <3>1, <3>2, TurnAt DEF x
  <2>9. Leads(Append(head, y), Append(m, y)) /\ Len(Append(head, y)) = 2 * Len(Append(m, y))
    BY <1>7, <1>9, <1>15, <2>7, <2>8, LeadsName
  <2>10. c = Append(head, y)
    BY <1>5, <1>12 DEF x
  <2>11. Append(head, y) # <<>>
    BY <1>9
  <2> HIDE DEF y
  <2> QED
    BY <2>9, <2>10, <2>11 DEF Bare
<1> QED
  BY <1>10, <1>11, <1>12

\* A directory that ends in no slash is what it leads to.
LEMMA BareIsAbsolute ==
  ASSUME NEW s, NEW names, Leads(s, names)
  PROVE  NamesOf(s) = names /\ (Bare(s, names) => s = Absolute(names))
<1> DEFINE l == Len(names)
           t == NamesOf(s)
<1>1. /\ s \in Seq(Elements) /\ names \in Seq(Names) /\ l \in Nat /\ Len(s) \in Nat
      /\ Len(s) = 2 * l \/ Len(s) = 2 * l + 1
      /\ \A k \in 1 .. l : s[2 * k - 1] = Slash /\ s[2 * k] = names[k]
      /\ Len(s) = 2 * l + 1 => s[Len(s)] = Slash
  BY DEF Leads
<1> HIDE DEF l
<1>2. Len(s) \div 2 = l
  <2> DEFINE n == Len(s)
             q == n \div 2
             r == n % 2
  <2>3. n \in Nat /\ (n = 2 * l \/ n = 2 * l + 1)
    BY <1>1
  <2> HIDE DEF n
  <2>1. q \in Nat /\ r \in 0 .. 1 /\ n = 2 * q + r
    BY <2>3, DivisionWithRest
  <2> HIDE DEF q, r
  <2>2. q = l
    BY <1>1, <2>1, <2>3
  <2> QED
    BY <2>2 DEF q, n
<1>3. t = [i \in 1 .. l |-> s[2 * i]]
  BY <1>2 DEF NamesOf
<1>4. names = [i \in 1 .. l |-> names[i]]
  BY <1>1 DEF l
<1>5. t = names
  BY <1>1, <1>3, <1>4
<1>6. ASSUME names = <<>>, s # <<>> PROVE s = Absolute(names)
  <2>1. Len(s) = 1 /\ s[1] = Slash
    <3>1. l = 0
      BY <1>6 DEF l
    <3>2. Len(s) # 0
      BY <1>1, <1>6
    <3> QED
      BY <1>1, <3>1, <3>2
  <2>2. s = <<Slash>>
    BY <1>1, <2>1
  <2> QED
    BY <1>6, <2>2 DEF Absolute
<1>7. ASSUME names # <<>>, Len(s) = 2 * l PROVE s = Absolute(names)
  <2> DEFINE a == [i \in 1 .. 2 * l |-> IF i % 2 = 1 THEN Slash ELSE names[i \div 2]]
  <2>1. Absolute(names) = a
    BY <1>7 DEF Absolute, l
  <2>2. s = [i \in 1 .. 2 * l |-> s[i]]
    BY <1>1, <1>7
  <2>3. ASSUME NEW i \in 1 .. 2 * l PROVE s[i] = IF i % 2 = 1 THEN Slash ELSE names[i \div 2]
    <3> DEFINE q == i \div 2
               r == i % 2
    <3>1. q \in Nat /\ r \in 0 .. 1 /\ i = 2 * q + r
      <4>1. i \in Nat
        BY <1>1
      <4> QED
        BY <4>1, DivisionWithRest
    <3> HIDE DEF q, r
    <3>2. CASE r = 1
      <4>1. i = 2 * q + 1 /\ 2 * q + 1 <= Len(s)
        BY <1>1, <1>7, <3>1, <3>2
      <4> QED
        BY <3>1, <3>2, <4>1, TurnAt DEF r
    <3>3. CASE r = 0
      <4>1. i = 2 * q /\ q \in 1 .. l
        BY <1>1, <3>1, <3>3
      <4>2. s[2 * q] = names[q]
        BY <1>1, <4>1
      <4> QED
        BY <3>3, <4>1, <4>2 DEF r, q
    <3> QED
      BY <3>1, <3>2, <3>3
  <2>4. s = a
    BY <2>2, <2>3
  <2> QED
    BY <2>1, <2>4
<1> QED
  BY <1>5, <1>6, <1>7 DEF Bare, l

LEMMA SlashAtEnd ==
  ASSUME NEW s, NEW names, Leads(s, names)
  PROVE  EndsInSlash(s) <=> Len(s) = 2 * Len(names) + 1
<1> DEFINE l == Len(names)
<1>1. s \in Seq(Elements) /\ l \in Nat /\ (Len(s) = 2 * l \/ Len(s) = 2 * l + 1) /\ Len(s) \in Nat
  BY DEF Leads
<1>2. EndsInSlash(s) <=> s # <<>> /\ s[Len(s)] = Slash
  BY DEF EndsInSlash, Last
<1> HIDE DEF l
<1>3. CASE Len(s) = 2 * l + 1
  <2>1. s # <<>>
    <3>1. Len(s) # 0
      BY <1>1, <1>3
    <3> QED
      BY <3>1
  <2>2. s[Len(s)] = Slash
    BY <1>3 DEF Leads, l
  <2> QED
    BY <1>2, <1>3, <2>1, <2>2 DEF l
<1>4. CASE Len(s) = 2 * l
  <2>1. ~(Len(s) = 2 * l + 1)
    BY <1>1, <1>4
  <2>2. CASE l = 0
    <3>1. Len(s) = 0
      BY <1>4, <2>2
    <3>2. s = <<>>
      BY <1>1, <3>1
    <3> QED
      BY <1>2, <2>1, <3>2 DEF l
  <2>3. CASE l # 0
    <3>1. l > 0 /\ 2 * l <= Len(s)
      BY <1>1, <1>4, <2>3
    <3>2. s[2 * l] # Slash
      BY <1>1, <3>1, TurnAt
    <3> QED
      BY <1>2, <1>4, <2>1, <3>2 DEF l
  <2> QED
    BY <2>2, <2>3
<1> QED
  BY <1>1, <1>3, <1>4

\* The last slash, found as Parent finds it.
LastSlash(t) == CHOOSE i \in 0 .. Len(t) : /\ i = 0 \/ t[i] = Slash
                                           /\ \A j \in i + 1 .. Len(t) : t[j] # Slash

LEMMA LastSlashIs ==
  ASSUME NEW t, Len(t) \in Nat, NEW i \in 0 .. Len(t), i = 0 \/ t[i] = Slash, \A j \in i + 1 .. Len(t) : t[j] # Slash
  PROVE  LastSlash(t) = i
<1> DEFINE n == Len(t)
           P(k) == (k = 0 \/ t[k] = Slash) /\ \A j \in k + 1 .. n : t[j] # Slash
           c == CHOOSE k \in 0 .. n : P(k)
<1>1. n \in Nat /\ i \in 0 .. n /\ P(i)
  OBVIOUS
<1>2. c \in 0 .. n /\ P(c)
  BY <1>1
<1>3. LastSlash(t) = c
  BY DEF LastSlash
<1> HIDE DEF n, c
<1>4. ~(c < i)
  <2> SUFFICES ASSUME c < i PROVE FALSE
    OBVIOUS
  <2>1. i \in c + 1 .. n /\ i # 0
    BY <1>1, <1>2
  <2> QED
    BY <1>1, <1>2, <2>1
<1>5. ~(i < c)
  <2> SUFFICES ASSUME i < c PROVE FALSE
    OBVIOUS
  <2>1. c \in i + 1 .. n /\ c # 0
    BY <1>1, <1>2
  <2> QED
    BY <1>1, <1>2, <2>1
<1>6. c = i
  BY <1>1, <1>2, <1>4, <1>5
<1> QED
  BY <1>3, <1>6

\* The last name is taken from a directory without a slash at its end.
LEMMA LastTaken ==
  ASSUME NEW t, NEW names, Leads(t, names), Len(t) = 2 * Len(names), names # <<>>
  PROVE  LastSlash(t) # 0 /\ Leads(SubSeq(t, 1, LastSlash(t)), Front(names)) /\ Size(SubSeq(t, 1, LastSlash(t))) <= Size(t)
<1> DEFINE l == Len(names)
           k == l - 1
           i == 2 * k + 1
<1>1. t \in Seq(Elements) /\ names \in Seq(Names) /\ l \in Nat /\ Len(t) = 2 * l
  BY DEF Leads
<1>2. l > 0
  BY <1>1
<1> HIDE DEF l
<1>3. k \in Nat /\ k + 1 = l /\ k \in 0 .. l
  BY <1>1, <1>2
<1> HIDE DEF k
<1>4. i \in 0 .. Len(t) /\ i # 0 /\ i <= Len(t) /\ i + 1 = 2 * l /\ 2 * l <= Len(t) /\ Len(t) \in Nat
  BY <1>1, <1>3
<1>5. t[i] = Slash
  BY <1>3, <1>4, TurnAt
<1>6. t[2 * l] # Slash
  BY <1>1, <1>2, <1>4, TurnAt
<1> HIDE DEF i
<1>7. \A j \in i + 1 .. Len(t) : j = 2 * l
  BY <1>1, <1>4
<1>8. LastSlash(t) = i
  BY <1>4, <1>5, <1>6, <1>7, LastSlashIs
<1>9. i \in {2 * k, 2 * k + 1}
  BY DEF i
<1>10. Leads(SubSeq(t, 1, i), SubSeq(names, 1, k))
  BY <1>3, <1>4, <1>9, LeadsBeginning
<1>11. Front(names) = SubSeq(names, 1, k)
  BY DEF Front, l, k
<1>12. Size(SubSeq(t, 1, i)) <= Size(t)
  BY <1>1, <1>4, Beginnings
<1> QED
  BY <1>4, <1>8, <1>10, <1>11, <1>12

LEMMA LeadsSize ==
  ASSUME NEW s, NEW names, Leads(s, names)
  PROVE  s \in Seq(Elements) /\ Len(s) \in Nat /\ Len(names) \in Nat /\ Size(s) \in Nat
<1>1. s \in Seq(Elements) /\ Len(s) \in Nat /\ Len(names) \in Nat
  BY DEF Leads
<1>2. Slash \in Elements
  BY DEF Elements
<1>3. Size(s) \in Nat
  BY <1>1, <1>2, SizeAppend
<1> QED
  BY <1>1, <1>3

Up(names) == IF names = <<>> THEN names ELSE Front(names)
LEMMA ParentLeads ==
  ASSUME NEW s, NEW names, Leads(s, names)
  PROVE  Leads(Parent(s), Up(names)) /\ Size(Parent(s)) <= Size(s) + 1
<1> DEFINE l == Len(names)
           t == IF Len(s) > 1 /\ EndsInSlash(s) THEN Front(s) ELSE s
           p == Parent(s)
<1>1. s \in Seq(Elements) /\ names \in Seq(Names) /\ l \in Nat /\ (Len(s) = 2 * l \/ Len(s) = 2 * l + 1)
      /\ Len(s) \in Nat /\ Size(s) \in Nat
  BY LeadsSize DEF Leads
<1>2. p = IF LastSlash(t) = 0 THEN <<Slash>> ELSE SubSeq(t, 1, LastSlash(t))
  BY DEF Parent, LastSlash
<1>3. EndsInSlash(s) <=> Len(s) = 2 * l + 1
  BY SlashAtEnd
<1> HIDE DEF p, t
<1>4. CASE names = <<>>
  <2>1. Up(names) = <<>> /\ l = 0
    BY <1>4 DEF Up
  <2>2. Len(s) \in {0, 1} /\ t = s
    <3>1. Len(s) = 0 \/ Len(s) = 1
      <4> HIDE DEF l
      <4> QED
        BY <1>1, <2>1
    <3>2. Len(s) \in {0, 1} /\ ~(Len(s) > 1)
      <4> DEFINE k == Len(s)
      <4>1. k = 0 \/ k = 1
        BY <3>1
      <4> HIDE DEF k
      <4>2. k \in {0, 1} /\ ~(k > 1)
        BY <4>1
      <4> QED
        BY <4>2 DEF k
    <3> QED
      BY <3>2 DEF t
  <2>3. Leads(<<Slash>>, <<>>)
    BY DEF Leads, Elements
  <2>4. CASE Len(s) = 0
    <3>1. s = <<>>
      BY <1>1, <2>4
    <3>2. LastSlash(t) = 0
      <4>1. Len(t) \in Nat /\ 0 \in 0 .. Len(t) /\ \A j \in 0 + 1 .. Len(t) : t[j] # Slash
        BY <2>2, <2>4
      <4> QED
        BY <4>1, LastSlashIs
    <3>3. p = <<Slash>>
      BY <1>2, <3>2
    <3> QED
      BY <2>1, <2>3, <3>1, <3>3, SizeOfFew DEF p
  <2>5. CASE Len(s) = 1
    <3>1. s[1] = Slash
      <4>1. Len(s) = 2 * l + 1
        BY <2>1, <2>5
      <4> QED
        BY <2>5, <4>1 DEF Leads
    <3>2. s = <<Slash>>
      BY <1>1, <2>5, <3>1
    <3>3. LastSlash(t) = 1
      <4>1. Len(t) \in Nat /\ 1 \in 0 .. Len(t) /\ t[1] = Slash /\ \A j \in 1 + 1 .. Len(t) : t[j] # Slash
        BY <2>2, <2>5, <3>1
      <4> QED
        BY <4>1, LastSlashIs
    <3>4. p = SubSeq(s, 1, 1)
      BY <1>2, <2>2, <3>3
    <3>5. p = s
      BY <1>1, <2>5, <3>4, WholeSequence
    <3> QED
      BY <1>1, <2>1, <2>3, <3>2, <3>5 DEF p
  <2> QED
    BY <2>2, <2>4, <2>5
<1>5. CASE names # <<>>
  <2>1. Up(names) = Front(names) /\ l > 0
    <3>1. l # 0
      BY <1>1, <1>5
    <3> QED
      BY <1>1, <1>5, <3>1 DEF Up
  <2>2. Leads(t, names) /\ Len(t) = 2 * l /\ Size(t) <= Size(s) /\ Size(t) \in Nat
    <3>1. CASE Len(s) = 2 * l
      <4>1. t = s
        BY <1>1, <1>3, <3>1 DEF t
      <4> QED
        BY <1>1, <3>1, <4>1
    <3>2. CASE Len(s) = 2 * l + 1
      <4>1. Len(s) > 1 /\ Len(s) - 1 = 2 * l /\ 2 * l \in 0 .. Len(s) /\ 2 * l <= Len(s) /\ 2 * l \in {2 * l, 2 * l + 1}
        BY <1>1, <2>1, <3>2
      <4>2. t = SubSeq(s, 1, 2 * l)
        BY <1>3, <3>2, <4>1 DEF t, Front
      <4>3. Leads(t, SubSeq(names, 1, l))
        BY <1>1, <4>1, <4>2, LeadsBeginning
      <4>4. SubSeq(names, 1, l) = names
        BY <1>1, WholeSequence
      <4>5. Len(t) = 2 * l
        BY <1>1, <4>1, <4>2
      <4>6. Size(t) <= Size(s) /\ Size(t) \in Nat
        BY <1>1, <4>1, <4>2, Beginnings
      <4> QED
        BY <4>3, <4>4, <4>5, <4>6
    <3> QED
      BY <1>1, <3>1, <3>2
  <2>3. LastSlash(t) # 0 /\ Leads(SubSeq(t, 1, LastSlash(t)), Front(names)) /\ Size(SubSeq(t, 1, LastSlash(t))) <= Size(t)
    BY <1>5, <2>2, LastTaken
  <2>4. Leads(p, Front(names)) /\ Size(p) <= Size(t)
    BY <1>2, <2>3
  <2>5. Size(p) \in Nat
    BY <2>4, LeadsSize
  <2> QED
    BY <1>1, <2>1, <2>2, <2>4, <2>5 DEF p
<1> QED
  BY <1>4, <1>5

LEMMA ChildLeads ==
  ASSUME NEW s, NEW names, Leads(s, names), NEW x \in Names
  PROVE  LET c == Child(s, x)
             size == Size(s) + 1 + NameSize(x)
         IN  /\ (\E m : Leads(c, m)) /\ Size(c) <= size
             /\ size < TEMP_SIZE => Leads(c, Append(names, x))
<1> DEFINE c == Child(s, x)
           size == Size(s) + 1 + NameSize(x)
           t == IF ~EndsInSlash(s) /\ Size(s) < TEMP_SIZE - 1 THEN Append(s, Slash) ELSE s
<1>1. s \in Seq(Elements) /\ Len(s) \in Nat /\ Len(names) \in Nat /\ Size(s) \in Nat
      /\ (Len(s) = 2 * Len(names) \/ Len(s) = 2 * Len(names) + 1)
  BY LeadsSize DEF Leads
<1>2. NameSize(x) \in Nat /\ NameSize(x) > 0 /\ x # Slash /\ TEMP_SIZE \in Nat /\ Slash \in Elements /\ x \in Elements
      /\ SizeOf(x) = NameSize(x) /\ SizeOf(Slash) = 1
  <2>1. NameSize(x) \in Nat \ {0} /\ x # Slash /\ TEMP_SIZE \in Nat
    BY ShellAssumption
  <2> QED
    BY <2>1 DEF Elements, SizeOf
<1>3. c = IF Size(t) + NameSize(x) < TEMP_SIZE THEN Append(t, x) ELSE t
  BY DEF Child
<1>4. EndsInSlash(s) <=> Len(s) = 2 * Len(names) + 1
  BY SlashAtEnd
<1> HIDE DEF c, t
<1>5. CASE t = Append(s, Slash) /\ ~EndsInSlash(s)
  <2>1. Len(s) = 2 * Len(names)
    BY <1>1, <1>4, <1>5
  <2>2. Leads(t, names) /\ Len(t) = 2 * Len(names) + 1 /\ Size(t) = Size(s) + 1 /\ t \in Seq(Elements)
    BY <1>1, <1>2, <1>5, <2>1, LeadsSlash, SizeAppend, LeadsSize
  <2>3. Leads(Append(t, x), Append(names, x)) /\ Size(Append(t, x)) = Size(t) + NameSize(x)
    BY <1>2, <2>2, LeadsName, SizeAppend
  <2>4. CASE Size(t) + NameSize(x) < TEMP_SIZE
    <3>1. c = Append(t, x)
      BY <1>3, <2>4
    <3>2. Size(c) <= size
      BY <1>1, <1>2, <2>2, <2>3, <3>1
    <3> QED
      BY <2>3, <3>1, <3>2 DEF c
  <2>5. CASE ~(Size(t) + NameSize(x) < TEMP_SIZE)
    <3>1. c = t
      BY <1>3, <2>5
    <3>2. Size(c) <= size /\ ~(size < TEMP_SIZE)
      BY <1>1, <1>2, <2>2, <2>5, <3>1
    <3> QED
      BY <2>2, <3>1, <3>2 DEF c
  <2> QED
    BY <2>4, <2>5
<1>6. CASE t = s /\ EndsInSlash(s)
  <2>1. Len(s) = 2 * Len(names) + 1
    BY <1>4, <1>6
  <2>3. Leads(Append(s, x), Append(names, x)) /\ Size(Append(s, x)) = Size(s) + NameSize(x)
    BY <1>1, <1>2, <2>1, LeadsName, SizeAppend
  <2>4. CASE Size(t) + NameSize(x) < TEMP_SIZE
    <3>1. c = Append(s, x)
      BY <1>3, <1>6, <2>4
    <3>2. Size(c) <= size
      BY <1>1, <1>2, <2>3, <3>1
    <3> QED
      BY <2>3, <3>1, <3>2 DEF c
  <2>5. CASE ~(Size(t) + NameSize(x) < TEMP_SIZE)
    <3>1. c = s
      BY <1>3, <1>6, <2>5
    <3>2. Size(c) <= size /\ ~(size < TEMP_SIZE)
      BY <1>1, <1>2, <1>6, <2>5, <3>1
    <3> QED
      BY <3>1, <3>2 DEF c
  <2> QED
    BY <2>4, <2>5
<1>7. CASE t = s /\ ~EndsInSlash(s) /\ ~(Size(s) < TEMP_SIZE - 1)
  <2>1. ~(Size(t) + NameSize(x) < TEMP_SIZE)
    BY <1>1, <1>2, <1>7
  <2>2. c = s
    BY <1>3, <1>7, <2>1
  <2>3. Size(c) <= size /\ ~(size < TEMP_SIZE)
    BY <1>1, <1>2, <1>7, <2>2
  <2> QED
    BY <2>2, <2>3 DEF c
<1> QED
  BY <1>5, <1>6, <1>7 DEF t

LEMMA ComponentLeads ==
  ASSUME NEW s, NEW names, Leads(s, names), NEW x \in Elements
  PROVE  LET c == Component(s, x)
             size == Size(s) + 1 + SizeOf(x)
         IN  /\ (\E m : Leads(c, m)) /\ Size(c) <= size
             /\ x = Slash => c = s /\ Walk(names, x) = names
             /\ size < TEMP_SIZE => Leads(c, Walk(names, x))
<1> DEFINE c == Component(s, x)
           size == Size(s) + 1 + SizeOf(x)
<1>1. Size(s) \in Nat /\ SizeOf(x) \in Nat /\ SizeOf(x) > 0
  BY LeadsSize, ElementSize
<1>2. CASE x \in {Slash, "."}
  <2>3. x # ".."
    BY <1>2 DEF Slash
  <2>1. c = s /\ Walk(names, x) = names
    BY <1>2, <2>3 DEF Component, Walk
  <2>2. Size(s) <= size
    BY <1>1
  <2> HIDE DEF c, size
  <2> QED
    BY <2>1, <2>2 DEF c, size
<1>3. CASE x \notin {Slash, "."} /\ x = ".."
  <2>1. c = Parent(s) /\ Walk(names, x) = Up(names) /\ x # Slash
    BY <1>3 DEF Component, Walk, Up
  <2>2. Leads(c, Up(names)) /\ Size(c) <= Size(s) + 1
    BY <2>1, ParentLeads
  <2>3. Size(c) \in Nat
    BY <2>2, LeadsSize
  <2> HIDE DEF c
  <2>4. Size(c) <= size
    BY <1>1, <2>2, <2>3
  <2> HIDE DEF size
  <2> QED
    BY <2>1, <2>2, <2>4 DEF c, size
<1>4. CASE x \notin {Slash, "."} /\ x # ".."
  <2>1. c = Child(s, x) /\ Walk(names, x) = Append(names, x)
    BY <1>4 DEF Component, Walk
  <2>2. x \in Names /\ x # Slash /\ SizeOf(x) = NameSize(x)
    BY <1>4 DEF Elements, SizeOf
  <2>3. (\E m : Leads(c, m)) /\ Size(c) <= size /\ (size < TEMP_SIZE => Leads(c, Append(names, x)))
    BY <2>1, <2>2, ChildLeads
  <2> HIDE DEF c, size
  <2> QED
    BY <2>1, <2>2, <2>3 DEF c, size
<1> QED
  BY <1>2, <1>3, <1>4

\* The path that is built, without a slash at its end.
Stripped(temp) ==
  CASE temp = <<>> -> <<Slash>>
    [] Len(temp) > 1 /\ EndsInSlash(temp) -> Front(temp)
    [] OTHER -> temp

LEMMA StrippedLeads ==
  ASSUME NEW s, NEW names, Leads(s, names)
  PROVE  Leads(Stripped(s), names) /\ Bare(Stripped(s), names)
<1> DEFINE l == Len(names)
           p == Stripped(s)
<1>1. s \in Seq(Elements) /\ names \in Seq(Names) /\ l \in Nat /\ Len(s) \in Nat /\ (Len(s) = 2 * l \/ Len(s) = 2 * l + 1)
  BY DEF Leads
<1>2. EndsInSlash(s) <=> Len(s) = 2 * l + 1
  BY SlashAtEnd
<1> HIDE DEF l
<1>3. CASE s = <<>>
  <2>1. p = <<Slash>>
    BY <1>3 DEF Stripped
  <2>2. Len(s) = 0
    BY <1>3
  <2>3. l = 0
    BY <1>1, <2>2
  <2>4. names = <<>>
    BY <1>1, <2>3 DEF l
  <2>5. Leads(<<Slash>>, <<>>)
    BY DEF Leads, Elements
  <2> QED
    BY <2>1, <2>4, <2>5 DEF Bare
<1>4. CASE s # <<>> /\ Len(s) = 2 * l + 1 /\ Len(s) > 1
  <2>1. p = Front(s)
    BY <1>2, <1>4 DEF Stripped
  <2>2. Len(s) - 1 = 2 * l /\ 2 * l \in 1 .. Len(s) /\ 2 * l <= Len(s) /\ 2 * l \in {2 * l, 2 * l + 1} /\ 2 * l # 0
    BY <1>1, <1>4
  <2>3. p = SubSeq(s, 1, 2 * l)
    BY <2>1, <2>2 DEF Front
  <2>4. Leads(p, SubSeq(names, 1, l))
    BY <1>1, <2>2, <2>3, LeadsBeginning
  <2>5. SubSeq(names, 1, l) = names
    BY <1>1, WholeSequence DEF l
  <2>6. Len(p) = 2 * l
    BY <1>1, <2>2, <2>3
  <2>7. p # <<>>
    <3>1. Len(p) # 0
      BY <2>2, <2>6
    <3> HIDE DEF p
    <3> QED
      BY <3>1
  <2> QED
    BY <2>4, <2>5, <2>6, <2>7 DEF Bare, l
<1>5. CASE s # <<>> /\ ~(Len(s) = 2 * l + 1 /\ Len(s) > 1)
  <2>1. p = s
    BY <1>2, <1>5 DEF Stripped
  <2>2. Len(s) # 0
    BY <1>1, <1>5
  <2>3. Len(s) = 2 * l \/ l = 0
    BY <1>1, <1>5, <2>2
  <2>4. l = 0 => names = <<>>
    BY <1>1 DEF l
  <2> QED
    BY <1>5, <2>1, <2>3, <2>4 DEF Bare, l
<1> QED
  BY <1>3, <1>4, <1>5

\* The path of resolve_path and the meaning of a path, one element after the other.
Dirs == {s \in Seq(Elements) : \E names : Leads(s, names)}
StartOf(dir, rel) == IF rel[1] = Slash THEN <<>> ELSE Cut(dir, TEMP_SIZE)
IsBuilt(b, start, rel) == b = [n \in 0 .. Len(rel) |-> IF n = 0 THEN start ELSE Component(b[n - 1], rel[n])]
Builds(b, start, rel) == /\ b[0] = start /\ \A n \in 1 .. Len(rel) : b[n] = Component(b[n - 1], rel[n])
IsWalk(w, start, rel) == w = [n \in 0 .. Len(rel) |-> IF n = 0 THEN start ELSE Walk(w[n - 1], rel[n])]
Walks(w, start, rel) == /\ w[0] = start /\ \A n \in 1 .. Len(rel) : w[n] = Walk(w[n - 1], rel[n])

LEMMA EmptyDir == <<>> \in Dirs /\ Leads(<<>>, <<>>)
<1>1. Leads(<<>>, <<>>)
  BY DEF Leads
<1> QED
  BY <1>1 DEF Dirs

LEMMA BuiltExists ==
  ASSUME NEW rel \in Seq(Elements), NEW start \in Dirs
  PROVE  \E b : IsBuilt(b, start, rel)
<1> DEFINE n == Len(rel)
           g == [p \in (1 .. n) \X Dirs |-> Component(p[2], rel[p[1]])]
<1>1. n \in Nat /\ \A m \in 1 .. n : rel[m] \in Elements
  OBVIOUS
<1> HIDE DEF n
<1>2. ASSUME NEW m \in 1 .. n, NEW s \in Dirs PROVE Component(s, rel[m]) \in Dirs
  <2>1. PICK names : Leads(s, names)
    BY DEF Dirs
  <2>2. rel[m] \in Elements
    BY <1>1
  <2>3. PICK z : Leads(Component(s, rel[m]), z)
    BY <2>1, <2>2, ComponentLeads
  <2> QED
    BY <2>3 DEF Dirs, Leads
<1>3. Steps(g, n, Dirs)
  <2>1. \A p \in (1 .. n) \X Dirs : p[1] \in 1 .. n /\ p[2] \in Dirs
    OBVIOUS
  <2>2. \A p \in (1 .. n) \X Dirs : Component(p[2], rel[p[1]]) \in Dirs
    BY <1>2, <2>1
  <2> QED
    BY <2>2 DEF Steps
<1>4. \A m \in 1 .. n, s \in Dirs : g[<<m, s>>] = Component(s, rel[m])
  OBVIOUS
<1> HIDE DEF g
<1>5. PICK b : Runs(b, g, start, n, Dirs)
  BY <1>1, <1>3, Recursion
<1>6. b \in [0 .. n -> Dirs] /\ b[0] = start /\ \A m \in 1 .. n : b[m] = g[<<m, b[m - 1]>>]
  BY <1>5 DEF Runs
<1>7. ASSUME NEW m \in 0 .. n PROVE b[m] = IF m = 0 THEN start ELSE Component(b[m - 1], rel[m])
  <2>1. CASE m = 0
    BY <1>6, <2>1
  <2>2. CASE m # 0
    <3>1. m \in 1 .. n /\ m - 1 \in 0 .. n
      BY <1>1, <2>2
    <3>2. b[m - 1] \in Dirs
      BY <1>6, <3>1
    <3> QED
      BY <1>4, <1>6, <2>2, <3>1, <3>2
  <2> QED
    BY <2>1, <2>2
<1>8. b = [m \in 0 .. n |-> b[m]]
  BY <1>6
<1>9. IsBuilt(b, start, rel)
  BY <1>7, <1>8 DEF IsBuilt, n
<1> QED
  BY <1>9

LEMMA WalkExists ==
  ASSUME NEW rel \in Seq(Elements), NEW start \in Seq(Names)
  PROVE  \E w : IsWalk(w, start, rel)
<1> DEFINE n == Len(rel)
           V == Seq(Names)
           g == [p \in (1 .. n) \X V |-> Walk(p[2], rel[p[1]])]
<1>1. n \in Nat /\ (\A m \in 1 .. n : rel[m] \in Elements) /\ start \in V
  OBVIOUS
<1>2. ASSUME NEW x \in Elements, NEW s \in V PROVE Walk(s, x) \in V
  <2>1. CASE x \in {Slash, "."}
    <3>1. x # ".."
      BY <2>1 DEF Slash
    <3>2. Walk(s, x) = s
      BY <2>1, <3>1 DEF Walk
    <3> QED
      BY <3>2
  <2>2. CASE x \notin {Slash, "."} /\ x = ".."
    <3>1. Walk(s, x) = Up(s)
      BY <2>2 DEF Walk, Up
    <3>2. CASE s = <<>>
      BY <3>1, <3>2 DEF Up
    <3>3. CASE s # <<>>
      <4>1. Len(s) \in Nat /\ Len(s) # 0
        BY <3>3
      <4>2. Len(s) - 1 \in 0 .. Len(s)
        BY <4>1
      <4>3. SubSeq(s, 1, Len(s) - 1) \in V
        BY <4>2
      <4> QED
        BY <3>1, <3>3, <4>3 DEF Up, Front
    <3> QED
      BY <3>2, <3>3
  <2>3. CASE x \notin {Slash, "."} /\ x # ".."
    <3>1. x \in Names /\ Walk(s, x) = Append(s, x)
      BY <2>3 DEF Walk, Elements
    <3> QED
      BY <3>1
  <2> QED
    BY <2>1, <2>2, <2>3
<1> HIDE DEF n, V
<1>3. Steps(g, n, V)
  <2>1. \A p \in (1 .. n) \X V : p[1] \in 1 .. n /\ p[2] \in V
    OBVIOUS
  <2>2. \A p \in (1 .. n) \X V : Walk(p[2], rel[p[1]]) \in V
    BY <1>1, <1>2, <2>1
  <2> QED
    BY <2>2 DEF Steps
<1>4. \A m \in 1 .. n, s \in V : g[<<m, s>>] = Walk(s, rel[m])
  OBVIOUS
<1> HIDE DEF g
<1>5. PICK w : Runs(w, g, start, n, V)
  BY <1>1, <1>3, Recursion
<1>6. w \in [0 .. n -> V] /\ w[0] = start /\ \A m \in 1 .. n : w[m] = g[<<m, w[m - 1]>>]
  BY <1>5 DEF Runs
<1>7. ASSUME NEW m \in 0 .. n PROVE w[m] = IF m = 0 THEN start ELSE Walk(w[m - 1], rel[m])
  <2>1. CASE m = 0
    BY <1>6, <2>1
  <2>2. CASE m # 0
    <3>1. m \in 1 .. n /\ m - 1 \in 0 .. n
      BY <1>1, <2>2
    <3>2. w[m - 1] \in V
      BY <1>6, <3>1
    <3> QED
      BY <1>4, <1>6, <2>2, <3>1, <3>2
  <2> QED
    BY <2>1, <2>2
<1>8. w = [m \in 0 .. n |-> w[m]]
  BY <1>6
<1>9. IsWalk(w, start, rel)
  BY <1>7, <1>8 DEF IsWalk, n
<1> QED
  BY <1>9

\* Whatever its sizes, resolve_path leads somewhere; it ends in a slash only
\* when the room of the path is used up.
LEMMA ResolveParts ==
  ASSUME NEW dir, NEW rel \in Seq(Elements), StartOf(dir, rel) \in Dirs
  PROVE  \E b : Builds(b, StartOf(dir, rel), rel) /\ resolve_path(dir, rel) = Cut(Stripped(b[Len(rel)]), PATH_SIZE)
<1> DEFINE start == StartOf(dir, rel)
           b == CHOOSE b : IsBuilt(b, start, rel)
<1>1. IsBuilt(b, start, rel)
  BY BuiltExists
<1>2. resolve_path(dir, rel) = Cut(Stripped(b[Len(rel)]), PATH_SIZE)
  BY DEF resolve_path, Stripped, StartOf, IsBuilt
<1> HIDE DEF b, start
<1>3. Len(rel) \in Nat
  OBVIOUS
<1>4. b[0] = start
  <2>1. 0 \in 0 .. Len(rel)
    BY <1>3
  <2> QED
    BY <1>1, <2>1 DEF IsBuilt
<1>5. ASSUME NEW n \in 1 .. Len(rel) PROVE b[n] = Component(b[n - 1], rel[n])
  <2>1. n \in 0 .. Len(rel) /\ n # 0
    BY <1>3
  <2> QED
    BY <1>1, <2>1 DEF IsBuilt
<1> QED
  BY <1>2, <1>4, <1>5 DEF Builds, start

LEMMA MeantParts ==
  ASSUME NEW dir, NEW names, Leads(dir, names), NEW rel \in Seq(Elements)
  PROVE  \E w : Walks(w, IF rel[1] = Slash THEN <<>> ELSE names, rel) /\ Meant(dir, rel) = w[Len(rel)]
<1> DEFINE start == IF rel[1] = Slash THEN <<>> ELSE names
           w == CHOOSE w : IsWalk(w, start, rel)
<1>1. start \in Seq(Names) /\ Len(rel) \in Nat
  BY DEF Leads
<1>2. NamesOf(dir) = names
  BY BareIsAbsolute
<1>3. Meant(dir, rel) = w[Len(rel)]
  BY <1>2 DEF Meant, IsWalk
<1> HIDE DEF start
<1>4. IsWalk(w, start, rel)
  BY <1>1, WalkExists
<1> HIDE DEF w
<1>5. w[0] = start
  <2>1. 0 \in 0 .. Len(rel)
    BY <1>1
  <2> QED
    BY <1>4, <2>1 DEF IsWalk
<1>6. ASSUME NEW n \in 1 .. Len(rel) PROVE w[n] = Walk(w[n - 1], rel[n])
  <2>1. n \in 0 .. Len(rel) /\ n # 0
    BY <1>1
  <2> QED
    BY <1>4, <2>1 DEF IsWalk
<1> QED
  BY <1>3, <1>5, <1>6 DEF Walks, start

LEMMA StartLeads ==
  ASSUME NEW dir, NEW names, Leads(dir, names), dir # <<>>, NEW rel
  PROVE  StartOf(dir, rel) \in Dirs
<1>1. CASE rel[1] = Slash
  BY <1>1, EmptyDir DEF StartOf
<1>2. CASE rel[1] # Slash
  <2>1. TEMP_SIZE \in Nat /\ TEMP_SIZE > 1
    BY ShellAssumption
  <2>2. PICK m : Leads(Cut(dir, TEMP_SIZE), m)
    BY <2>1, CutLeads
  <2> QED
    BY <1>2, <2>2 DEF StartOf, Dirs, Leads
<1> QED
  BY <1>1, <1>2

LEMMA ResolveLeads ==
  ASSUME NEW dir, NEW names, Leads(dir, names), dir # <<>>, NEW rel \in Paths
  PROVE  LET r == resolve_path(dir, rel)
         IN  \E m : Leads(r, m) /\ r # <<>> /\ (Size(r) < PATH_SIZE - 1 => Bare(r, m))
<1> DEFINE r == resolve_path(dir, rel)
           start == StartOf(dir, rel)
           l == Len(rel)
<1>1. rel \in Seq(Elements) /\ l \in Nat /\ \A n \in 1 .. l : rel[n] \in Elements
  BY DEF Paths, Elements
<1>2. start \in Dirs
  BY StartLeads
<1>3. PICK b : Builds(b, start, rel) /\ r = Cut(Stripped(b[l]), PATH_SIZE)
  BY <1>1, <1>2, ResolveParts
<1>4. b[0] = start /\ \A n \in 1 .. l : b[n] = Component(b[n - 1], rel[n])
  BY <1>3 DEF Builds
<1> HIDE DEF start, l, r
<1> DEFINE S == {n \in Nat : n <= l => \E m : Leads(b[n], m)}
<1>5. 0 \in S
  BY <1>2, <1>4 DEF Dirs
<1>6. ASSUME NEW n \in S PROVE n + 1 \in S
  <2>1. SUFFICES ASSUME n + 1 <= l PROVE \E m : Leads(b[n + 1], m)
    OBVIOUS
  <2> DEFINE k == n + 1
  <2>2. k \in 1 .. l /\ k - 1 = n /\ n <= l
    BY <1>1, <2>1
  <2>3. PICK m : Leads(b[n], m)
    BY <2>2
  <2> HIDE DEF k
  <2>4. b[k] = Component(b[n], rel[k]) /\ rel[k] \in Elements
    BY <1>1, <1>4, <2>2
  <2>5. \E z : Leads(Component(b[n], rel[k]), z)
    BY <2>3, <2>4, ComponentLeads
  <2> QED
    BY <2>4, <2>5 DEF k
<1>7. S = Nat
  <2> HIDE DEF S
  <2>1. S \in SUBSET Nat
    BY DEF S
  <2> QED
    BY <1>5, <1>6, <2>1, Induct
<1>8. PICK m : Leads(b[l], m)
  BY <1>1, <1>7
<1>9. Leads(Stripped(b[l]), m) /\ Bare(Stripped(b[l]), m)
  BY <1>8, StrippedLeads
<1>10. Stripped(b[l]) # <<>>
  BY <1>9 DEF Bare
<1>11. PATH_SIZE \in Nat /\ PATH_SIZE > 1
  BY ShellAssumption
<1>12. \E z : Leads(r, z) /\ r # <<>> /\ (Size(r) < PATH_SIZE - 1 => Bare(r, z))
  BY <1>3, <1>9, <1>10, <1>11, CutLeads
<1> QED
  BY <1>12 DEF r

\* A path that fits resolves to what it means.
LEMMA ResolveMeant ==
  ASSUME NEW dir, NEW names, Leads(dir, names), dir # <<>>, NEW rel \in Paths,
         Size(dir) + Size(rel) + 1 < TEMP_SIZE, Size(Absolute(Meant(dir, rel))) < PATH_SIZE
  PROVE  LET m == Meant(dir, rel)
             r == resolve_path(dir, rel)
         IN  r = Absolute(m) /\ Leads(r, m) /\ Bare(r, m)
<1> DEFINE start == StartOf(dir, rel)
           first == IF rel[1] = Slash THEN <<>> ELSE names
           l == Len(rel)
           sc == Size(dir)
           ss == Size(start)
<1>1. rel \in Seq(Elements) /\ l \in Nat /\ (\A n \in 1 .. l : rel[n] \in Elements)
      /\ \A n \in 1 .. l - 1 : rel[n] = Slash \/ rel[n + 1] = Slash
  BY DEF Paths, Elements
<1>2. dir \in Seq(Elements) /\ sc \in Nat /\ TEMP_SIZE \in Nat /\ PATH_SIZE \in Nat
  BY LeadsSize, ShellAssumption
<1>3. PICK f : Sums(f, rel) /\ Size(rel) = f[l]
  BY <1>1, SizeSums
<1>4. f[0] = 0 /\ (\A n \in 0 .. l : f[n] \in Nat /\ f[n] <= f[l]) /\ \A n \in 1 .. l : f[n] = f[n - 1] + SizeOf(rel[n])
  <2>1. f[0] = 0 /\ (\A n \in 0 .. l : f[n] \in Nat) /\ \A n \in 1 .. l : f[n] = f[n - 1] + SizeOf(rel[n])
    BY <1>3 DEF Sums
  <2>2. \A n \in 0 .. l : Size(SubSeq(rel, 1, n)) = f[n]
    BY <1>1, <1>3, SizePrefix
  <2>3. \A n \in 0 .. l : Size(SubSeq(rel, 1, n)) <= Size(rel)
    BY <1>1, Beginnings
  <2> QED
    BY <1>3, <2>1, <2>2, <2>3
<1>5. sc + f[l] + 1 < TEMP_SIZE /\ f[l] \in Nat
  <2>1. l \in 0 .. l
    BY <1>1
  <2> QED
    BY <1>3, <1>4, <2>1
<1>6. Leads(start, first) /\ ss <= sc /\ ss \in Nat /\ start \in Dirs
  <2>1. CASE rel[1] = Slash
    <3>1. start = <<>> /\ first = <<>>
      BY <2>1 DEF StartOf
    <3> HIDE DEF start, first, sc
    <3>2. ss = 0
      BY <3>1, SizeOfFew
    <3> QED
      BY <1>2, <3>1, <3>2, EmptyDir
  <2>2. CASE rel[1] # Slash
    <3>1. sc < TEMP_SIZE
      <4> HIDE DEF sc
      <4> QED
        BY <1>2, <1>5
    <3>2. start = dir /\ first = names
      BY <1>2, <2>2, <3>1, CutFits DEF StartOf
    <3> HIDE DEF start, first
    <3>3. ss = sc
      BY <3>2
    <3> HIDE DEF ss, sc
    <3> QED
      BY <1>2, <3>2, <3>3 DEF Dirs
  <2> QED
    BY <2>1, <2>2
<1>7. PICK b : Builds(b, start, rel) /\ resolve_path(dir, rel) = Cut(Stripped(b[l]), PATH_SIZE)
  BY <1>1, <1>6, ResolveParts
<1>8. PICK w : Walks(w, first, rel) /\ Meant(dir, rel) = w[l]
  BY <1>1, MeantParts
<1>9. b[0] = start /\ \A n \in 1 .. l : b[n] = Component(b[n - 1], rel[n])
  BY <1>7 DEF Builds
<1>10. w[0] = first /\ \A n \in 1 .. l : w[n] = Walk(w[n - 1], rel[n])
  BY <1>8 DEF Walks
<1>11. Size(b[0]) = ss
  BY <1>9
<1> HIDE DEF start, first, l, sc, ss
<1> DEFINE Held(n) == /\ Leads(b[n], w[n]) /\ Size(b[n]) <= ss + f[n] + 1
                      /\ n = 0 \/ rel[n] = Slash => Size(b[n]) <= ss + f[n]
           S == {n \in Nat : n <= l => Held(n)}
<1>12. 0 \in S
  <2>1. Leads(b[0], w[0])
    BY <1>6, <1>9, <1>10
  <2>2. Size(b[0]) <= ss + f[0] + 1 /\ Size(b[0]) <= ss + f[0]
    BY <1>4, <1>6, <1>11
  <2> QED
    BY <2>1, <2>2
<1>13. ASSUME NEW n \in S PROVE n + 1 \in S
  <2>1. SUFFICES ASSUME n + 1 <= l PROVE Held(n + 1)
    OBVIOUS
  <2> DEFINE k == n + 1
             x == rel[k]
             s == b[n]
             c == Component(s, x)
             z == Size(s)
             a == Size(c)
             e == SizeOf(x)
  <2>2. n \in Nat /\ k \in Nat /\ k \in 1 .. l /\ k - 1 = n /\ n \in 0 .. l /\ k \in 0 .. l
    BY <1>1, <2>1
  <2>3. Held(n)
    BY <1>1, <2>1, <2>2
  <2> SUFFICES Held(k)
    OBVIOUS
  <2> HIDE DEF k
  <2>4. x \in Elements /\ b[k] = c /\ w[k] = Walk(w[n], x) /\ f[k] = f[n] + e
        /\ f[n] \in Nat /\ f[k] \in Nat /\ f[k] <= f[l]
    BY <1>1, <1>4, <1>9, <1>10, <2>2
  <2>5. Leads(s, w[n]) /\ z <= ss + f[n] + 1 /\ (n = 0 \/ rel[n] = Slash => z <= ss + f[n])
    BY <2>3
  <2> HIDE DEF Held, S
  <2>6. /\ \E m : Leads(c, m)
        /\ a <= z + 1 + e
        /\ x = Slash => c = s /\ Walk(w[n], x) = w[n]
        /\ z + 1 + e < TEMP_SIZE => Leads(c, Walk(w[n], x))
    BY <2>4, <2>5, ComponentLeads
  <2>7. z \in Nat /\ a \in Nat /\ e \in Nat
    BY <2>4, <2>5, <2>6, LeadsSize, ElementSize
  <2>8. CASE x = Slash
    <3>1. c = s /\ w[k] = w[n] /\ e = 1
      BY <2>4, <2>6, <2>8 DEF SizeOf
    <3>2. a = z
      BY <3>1
    <3>3. Leads(b[k], w[k])
      BY <2>4, <2>5, <3>1
    <3> HIDE DEF z, a, e, x, c, s
    <3>4. a <= ss + f[k]
      BY <1>6, <2>4, <2>5, <2>7, <3>1, <3>2
    <3>5. a <= ss + f[k] + 1
      BY <1>6, <2>4, <2>7, <3>4
    <3> QED
      BY <2>4, <3>3, <3>4, <3>5 DEF Held, a
  <2>9. CASE x # Slash
    <3>1. n = 0 \/ rel[n] = Slash
      <4> SUFFICES ASSUME n # 0 PROVE rel[n] = Slash
        OBVIOUS
      <4>1. n \in 1 .. l - 1 /\ n + 1 = k
        BY <1>1, <2>2 DEF k
      <4>2. rel[n] = Slash \/ rel[n + 1] = Slash
        BY <1>1, <4>1
      <4> QED
        BY <2>9, <4>1, <4>2
    <3>2. z <= ss + f[n]
      BY <2>5, <3>1
    <3> HIDE DEF z, a, e, c, s
    <3>3. z + 1 + e <= ss + f[k] + 1
      BY <1>6, <2>4, <2>7, <3>2
    <3>4. a <= ss + f[k] + 1
      BY <1>6, <2>4, <2>6, <2>7, <3>3
    <3>5. z + 1 + e < TEMP_SIZE
      <4>1. f[k] <= f[l] /\ f[k] \in Nat
        BY <2>4
      <4>2. ss <= sc /\ ss \in Nat /\ sc \in Nat
        BY <1>2, <1>6
      <4> DEFINE v == f[k]
                 y == f[l]
      <4>3. v <= y /\ v \in Nat /\ y \in Nat
        <5>1. l \in 0 .. l
          BY <1>1
        <5> QED
          BY <1>4, <4>1, <5>1
      <4>4. sc + y + 1 < TEMP_SIZE /\ z + 1 + e <= ss + v + 1
        BY <1>5, <3>3
      <4> HIDE DEF v, y
      <4> QED
        BY <1>2, <2>7, <4>2, <4>3, <4>4
    <3>6. Leads(b[k], w[k])
      BY <2>4, <2>6, <3>5
    <3>7. ~(k = 0 \/ rel[k] = Slash)
      BY <2>2, <2>9
    <3> QED
      BY <2>4, <3>4, <3>6, <3>7 DEF Held, a
  <2> QED
    BY <2>8, <2>9
<1>14. S = Nat
  <2> HIDE DEF S
  <2>1. S \in SUBSET Nat
    BY DEF S
  <2> QED
    BY <1>12, <1>13, <2>1, Induct
<1>15. Leads(b[l], w[l])
  BY <1>1, <1>14
<1> DEFINE m == Meant(dir, rel)
           p == Stripped(b[l])
<1>16. Leads(p, m) /\ Bare(p, m)
  BY <1>8, <1>15, StrippedLeads
<1>17. p = Absolute(m)
  BY <1>16, BareIsAbsolute
<1>18. p \in Seq(Elements)
  BY <1>16, LeadsSize
<1>19. Size(p) < PATH_SIZE
  BY <1>17
<1> HIDE DEF p
<1>20. Cut(p, PATH_SIZE) = p
  BY <1>2, <1>18, <1>19, CutFits
<1>21. resolve_path(dir, rel) = p
  BY <1>7, <1>20 DEF p
<1> QED
  BY <1>16, <1>17, <1>21

\* The names of a directory say all that a path needs to know of it.
LEMMA MeantByNames ==
  ASSUME NEW s, NEW t, NEW names, Leads(s, names), Leads(t, names), NEW rel
  PROVE  Meant(s, rel) = Meant(t, rel)
<1>1. NamesOf(s) = NamesOf(t)
  BY BareIsAbsolute
<1> QED
  BY <1>1 DEF Meant


-----------------------------------------------------------------------------
\* The directory that names lead to.
LEMMA RootLeads == Leads(<<Slash>>, <<>>) /\ Bare(<<Slash>>, <<>>)
<1>1. <<Slash>> \in Seq(Elements) /\ Len(<<Slash>>) = 1 /\ <<Slash>>[1] = Slash
  BY DEF Elements
<1>2. <<>> \in Seq(Names) /\ Len(<<>>) = 0
  OBVIOUS
<1> QED
  BY <1>1, <1>2 DEF Leads, Bare

LEMMA AbsoluteLeads ==
  ASSUME NEW names \in Seq(Names)
  PROVE  Leads(Absolute(names), names)
<1>1. CASE names = <<>>
  BY <1>1, RootLeads DEF Absolute
<1>2. CASE names # <<>>
  <2> DEFINE l == Len(names)
             Turn(i) == IF i % 2 = 1 THEN Slash ELSE names[i \div 2]
             a == [i \in 1 .. 2 * l |-> Turn(i)]
  <2>1. l \in Nat /\ \A k \in 1 .. l : names[k] \in Names
    OBVIOUS
  <2>2. Absolute(names) = a
    BY <1>2 DEF Absolute
  <2> HIDE DEF l
  <2>3. ASSUME NEW k \in Nat PROVE Turn(2 * k) = names[k] /\ Turn(2 * k + 1) = Slash
    <3>1. 2 \in Nat \ {0} /\ 0 \in 0 .. 2 - 1 /\ 1 \in 0 .. 2 - 1
      OBVIOUS
    <3>2. (2 * k + 0) % 2 = 0 /\ (2 * k + 0) \div 2 = k
      BY <3>1, RestUnique
    <3>3. (2 * k + 1) % 2 = 1
      BY <3>1, RestUnique
    <3>4. 2 * k + 0 = 2 * k
      OBVIOUS
    <3> QED
      BY <3>2, <3>3, <3>4
  <2> HIDE DEF Turn
  <2>4. ASSUME NEW i \in 1 .. 2 * l PROVE Turn(i) \in Elements
    <3>1. i \in Nat
      BY <2>1
    <3>2. PICK k \in Nat : i = 2 * k \/ i = 2 * k + 1
      BY <3>1, EvenOrOdd
    <3>3. CASE i = 2 * k
      <4>1. k \in 1 .. l
        BY <2>1, <3>3
      <4> QED
        BY <2>1, <2>3, <3>3, <4>1 DEF Elements
    <3>4. CASE i = 2 * k + 1
      BY <2>3, <3>4 DEF Elements
    <3> QED
      BY <3>2, <3>3, <3>4
  <2>5. 2 * l \in Nat
    BY <2>1
  <2>6. a \in Seq(Elements) /\ Len(a) = 2 * l
    BY <2>4, <2>5
  <2>7. ASSUME NEW k \in 1 .. l PROVE a[2 * k - 1] = Slash /\ a[2 * k] = names[k]
    <3>1. k \in Nat /\ 2 * k \in 1 .. 2 * l /\ 2 * k - 1 \in 1 .. 2 * l
      BY <2>1
    <3>2. k - 1 \in Nat /\ 2 * (k - 1) + 1 = 2 * k - 1
      BY <2>1
    <3>3. Turn(2 * k - 1) = Slash
      BY <2>3, <3>2
    <3> QED
      BY <2>3, <3>1, <3>3
  <2> HIDE DEF a
  <2>8. Len(a) # 2 * l + 1
    BY <2>1, <2>6
  <2> QED
    BY <2>2, <2>6, <2>7, <2>8 DEF Leads, l
<1> QED
  BY <1>1, <1>2

\* A line is one path or more.
LEMMA ParsePaths ==
  ASSUME NEW words \in Seq(Paths) \ {<<>>}
  PROVE  parse_args(words) \in Seq(Paths) \ {<<>>}
<1> DEFINE n == IF Len(words) < ARGV_MAX THEN Len(words) ELSE ARGV_MAX - 1
<1>1. Len(words) \in Nat /\ Len(words) > 0 /\ ARGV_MAX \in Nat /\ ARGV_MAX > 2
  BY ShellAssumption
<1>2. n \in 1 .. Len(words)
  BY <1>1
<1> HIDE DEF n
<1> DEFINE s == SubSeq(words, 1, n)
<1>3. s \in Seq(Paths) /\ Len(s) = n
  <2>1. \A i \in 1 .. n : words[i] \in Paths
    BY <1>2
  <2> HIDE DEF Paths
  <2> QED
    BY <1>1, <1>2, <2>1
<1> HIDE DEF s
<1>4. s # <<>>
  BY <1>1, <1>2, <1>3
<1> QED
  BY <1>3, <1>4 DEF parse_args, n, s

LEMMA InBin ==
  ASSUME NEW p \in Paths
  PROVE  <<Slash, "bin", Slash>> \o p \in Paths
<1> DEFINE b == <<Slash, "bin", Slash>>
           s == b \o p
<1>1. p \in Seq(Elements) /\ \A i \in 1 .. Len(p) - 1 : p[i] = Slash \/ p[i + 1] = Slash
  BY DEF Paths, Elements
<1>2. b \in Seq(Elements) /\ Len(b) = 3 /\ b[1] = Slash /\ b[3] = Slash
  BY ShellAssumption DEF Elements
<1> HIDE DEF b
<1>3. s \in Seq(Elements) /\ Len(s) = Len(p) + 3 /\ Len(p) \in Nat
  <2>1. b \in Seq(Elements) /\ p \in Seq(Elements)
    BY <1>1, <1>2
  <2>2. s \in Seq(Elements) /\ Len(s) = Len(b) + Len(p)
    BY <2>1, ConcatProperties
  <2>3. Len(p) \in Nat
    BY <2>1
  <2> HIDE DEF s
  <2> QED
    BY <1>2, <2>2, <2>3
<1>4. \A i \in 1 .. Len(p) + 3 : s[i] = IF i <= 3 THEN b[i] ELSE p[i - 3]
  BY <1>1, <1>2, <1>3, ConcatProperties
<1> HIDE DEF s
<1>5. ASSUME NEW i \in 1 .. Len(s) - 1 PROVE s[i] = Slash \/ s[i + 1] = Slash
  <2>1. i \in 1 .. Len(p) + 3 /\ i + 1 \in 1 .. Len(p) + 3 /\ i \in Nat
    BY <1>3
  <2>2. CASE i = 1 \/ i = 3
    BY <1>2, <1>4, <2>1, <2>2
  <2>3. CASE i = 2
    BY <1>2, <1>4, <2>1, <2>3
  <2>4. CASE i > 3
    <3>1. i - 3 \in 1 .. Len(p) - 1 /\ i + 1 - 3 = i - 3 + 1 /\ ~(i <= 3) /\ ~(i + 1 <= 3)
      BY <1>3, <2>1, <2>4
    <3>2. s[i] = p[i - 3] /\ s[i + 1] = p[i - 3 + 1]
      BY <1>4, <2>1, <3>1
    <3> QED
      BY <1>1, <3>1, <3>2
  <2> QED
    BY <2>1, <2>2, <2>3, <2>4
<1>6. s # <<>>
  BY <1>3
<1>7. s \in Paths
  BY <1>3, <1>5, <1>6 DEF Paths, Elements
<1> QED
  BY <1>7 DEF s, b

LEMMA CommandPaths ==
  ASSUME NEW words \in Seq(Paths) \ {<<>>}
  PROVE  Command(words) \in Seq(Paths)
<1>1. words[1] \in Paths /\ Tail(words) \in Seq(Paths)
  OBVIOUS
<1>2. CASE words[1] = <<"run">>
  BY <1>1, <1>2 DEF Command
<1>3. CASE words[1] # <<"run">> /\ words[1][1] = Slash
  BY <1>3 DEF Command
<1>4. CASE words[1] # <<"run">> /\ words[1][1] # Slash
  <2> DEFINE p == <<Slash, "bin", Slash>> \o words[1]
  <2>1. p \in Paths
    BY <1>1, InBin
  <2>2. Command(words) = <<p>> \o Tail(words)
    BY <1>4 DEF Command
  <2> HIDE DEF p
  <2>3. <<p>> \in Seq(Paths)
    BY <2>1
  <2> QED
    BY <1>1, <2>2, <2>3
<1> QED
  BY <1>2, <1>3, <1>4

-----------------------------------------------------------------------------
\* The directory of the shell is where its user went, and no slash is left at
\* its end unless the buffer was full; a child runs only while the shell waits.
PlaceInv == cwd # <<>> /\ Leads(cwd, place) /\ (Size(cwd) < PATH_SIZE - 1 => Bare(cwd, place))
ChildInv ==
  /\ child # NoChild => pc = "child" \/ next = "child"
  /\ pc \in {"prompt", "read", "command", "child", "done"} => next = "none"
ChildNamed ==
  \A i \in DOMAIN child.argv :
    (i = 1 \/ i \in FileArgs(Last(child.argv[1]), child.argv)) /\ Fits(child.argv[i]) =>
      child.args[i] = Absolute(Meant(Absolute(place), child.argv[i]))
PathInv == PlaceInv /\ ChildInv /\ ChildNamed

LEMMA NoChildNamed ==
  ASSUME child' = NoChild
  PROVE  ChildNamed'
<1>1. child'.argv = <<>> /\ DOMAIN <<>> = {}
  BY DEF NoChild
<1> QED
  BY <1>1 DEF ChildNamed

\* What a path means does not depend on how the directory is written.
LEMMA FitsResolved ==
  ASSUME PlaceInv, NEW rel \in Paths, Fits(rel)
  PROVE  LET m == Meant(Absolute(place), rel)
             r == resolve_path(cwd, rel)
         IN  r = Absolute(m) /\ Leads(r, m) /\ Bare(r, m)
<1>1. cwd # <<>> /\ Leads(cwd, place) /\ place \in Seq(Names)
  BY DEF PlaceInv, Leads
<1>2. Leads(Absolute(place), place)
  BY <1>1, AbsoluteLeads
<1>3. Meant(Absolute(place), rel) = Meant(cwd, rel)
  BY <1>1, <1>2, MeantByNames
<1>4. Size(cwd) + Size(rel) + 1 < TEMP_SIZE /\ Size(Absolute(Meant(cwd, rel))) < PATH_SIZE
  BY DEF Fits
<1> QED
  BY <1>1, <1>3, <1>4, ResolveMeant

LEMMA RootIsPath == <<Slash>> \in Paths
<1> DEFINE root == <<Slash>>
<1>1. root \in Seq(Names \cup {Slash}) /\ root # <<>> /\ Len(root) = 1
  BY DEF Slash
<1> HIDE DEF root
<1>2. \A i \in 1 .. Len(root) - 1 : root[i] = Slash
  BY <1>1
<1>3. root \in Paths
  BY <1>1, <1>2 DEF Paths
<1> QED
  BY <1>3 DEF root

\* Without a word behind it, cd goes to the root.
LEMMA GoneTo ==
  ASSUME NEW words \in Seq(Paths) \ {<<>>}
  PROVE  (IF Len(words) = 1 THEN <<Slash>> ELSE words[2]) \in Paths
<1>3. Len(words) \in Nat /\ Len(words) > 0
  OBVIOUS
<1>4. Len(words) # 1 => 2 \in 1 .. Len(words)
  BY <1>3
<1>5. Len(words) # 1 => words[2] \in Paths
  BY <1>4
<1> QED
  BY <1>5, RootIsPath

\* cd goes where its user means, or to what is left of it.
LEMMA CdStep ==
  ASSUME PathInv, NEW words \in Seq(Paths) \ {<<>>}, pc = "command", UNCHANGED next, cd(words)
  PROVE  PathInv'
<1> DEFINE rel == IF Len(words) = 1 THEN <<Slash>> ELSE words[2]
           r == resolve_path(cwd, rel)
<1>1. rel \in Paths
  BY GoneTo
<1>2. /\ cwd' = r
      /\ place' = IF Fits(rel) THEN Meant(Absolute(place), rel) ELSE NamesOf(r)
      /\ pc' = "prompt" /\ child' = child
  BY DEF cd
<1> HIDE DEF rel
<1>3. cwd # <<>> /\ Leads(cwd, place)
  BY DEF PathInv, PlaceInv
<1>4. r # <<>> /\ Leads(r, place') /\ (Size(r) < PATH_SIZE - 1 => Bare(r, place'))
  <2>1. CASE Fits(rel)
    <3>1. Leads(r, place') /\ Bare(r, place')
      BY <1>1, <1>2, <2>1, FitsResolved DEF PathInv
    <3> QED
      BY <3>1 DEF Bare
  <2>2. CASE ~Fits(rel)
    <3>1. PICK m : Leads(r, m) /\ r # <<>> /\ (Size(r) < PATH_SIZE - 1 => Bare(r, m))
      BY <1>1, <1>3, ResolveLeads
    <3>2. NamesOf(r) = m
      BY <3>1, BareIsAbsolute
    <3> QED
      BY <1>2, <2>2, <3>1, <3>2
  <2> QED
    BY <2>1, <2>2
<1> HIDE DEF r
<1>5. PlaceInv'
  BY <1>2, <1>4 DEF PlaceInv
<1>6. next' = "none" /\ child' = NoChild
  BY <1>2 DEF PathInv, ChildInv
<1>7. ChildInv'
  BY <1>2, <1>6 DEF ChildInv
<1>8. ChildNamed'
  BY <1>6, NoChildNamed
<1> QED
  BY <1>5, <1>7, <1>8 DEF PathInv

\* A child is named what its user named.
LEMMA RunStep ==
  ASSUME PathInv, NEW words \in Seq(Paths) \ {<<>>}, pc = "command", UNCHANGED next, run(words)
  PROVE  PathInv'
<1> DEFINE argv == Command(parse_args(words))
           args == cmd_run(cwd, argv)
<1>1. argv \in Seq(Paths)
  BY ParsePaths, CommandPaths
<1>2. /\ IF argv = <<>> THEN pc' = "prompt" /\ child' = child
         ELSE pc' = "child" /\ child' = [argv |-> argv, args |-> args]
      /\ UNCHANGED <<cwd, place>>
  BY DEF run
<1> HIDE DEF argv, args
<1>3. PlaceInv'
  BY <1>2 DEF PathInv, PlaceInv
<1>4. next' = "none" /\ child = NoChild
  BY DEF PathInv, ChildInv
<1>5. ChildInv'
  BY <1>2, <1>4 DEF ChildInv
<1>6. CASE argv = <<>>
  BY <1>2, <1>3, <1>4, <1>5, <1>6, NoChildNamed DEF PathInv
<1>7. CASE argv # <<>>
  <2>1. child'.argv = argv /\ child'.args = args
    BY <1>2, <1>7
  <2>2. ASSUME NEW i \in DOMAIN argv, i = 1 \/ i \in FileArgs(Last(argv[1]), argv), Fits(argv[i])
        PROVE  args[i] = Absolute(Meant(Absolute(place), argv[i]))
    <3> DEFINE prog == Last(argv[1])
               all == IF prog = "ls" /\ Len(argv) = 1 THEN Append(argv, cwd) ELSE argv
    <3>1. i \in 1 .. Len(argv) /\ Len(argv) \in Nat /\ argv[i] \in Paths
      BY <1>1
    <3>2. i \in 1 .. Len(all) /\ all[i] = argv[i]
      BY <1>1, <3>1
    <3>3. i = 1 \/ (i \in FileArgs(prog, all) /\ Len(argv) > 1)
      <4>1. SUFFICES ASSUME i # 1 PROVE i \in FileArgs(prog, all) /\ Len(argv) > 1
        OBVIOUS
      <4>2. Len(argv) > 1
        BY <3>1, <4>1
      <4>3. all = argv
        <5>1. Len(argv) # 1
          <6> DEFINE n == Len(argv)
          <6>1. n \in Nat /\ n > 1
            BY <3>1, <4>2
          <6> HIDE DEF n
          <6>2. n # 1
            BY <6>1
          <6> QED
            BY <6>2 DEF n
        <5> HIDE DEF prog
        <5> QED
          BY Zenon, <5>1
      <4> HIDE DEF all
      <4> QED
        BY <2>2, <4>1, <4>2, <4>3
    <3>4. args = [j \in 1 .. Len(all) |->
                    IF j = 1 \/ (j \in FileArgs(prog, all) /\ Len(argv) > 1) THEN resolve_path(cwd, all[j]) ELSE all[j]]
      BY DEF args, cmd_run
    <3> HIDE DEF all, prog
    <3>5. args[i] = resolve_path(cwd, argv[i])
      BY <3>2, <3>3, <3>4
    <3> QED
      BY <2>2, <3>1, <3>5, FitsResolved DEF PathInv
  <2>3. \A rel : Fits(rel)' <=> Fits(rel)
    BY <1>2 DEF Fits
  <2>4. ChildNamed'
    BY <1>2, <2>1, <2>2, <2>3 DEF ChildNamed
  <2> QED
    BY <1>3, <1>5, <2>4 DEF PathInv
<1> QED
  BY <1>6, <1>7

\* Whatever else happens leaves the directory alone.
LEMMA PathKept ==
  ASSUME PathInv, UNCHANGED <<cwd, place>>, ChildInv', child' = child \/ child' = NoChild
  PROVE  PathInv'
<1>1. PlaceInv'
  BY DEF PathInv, PlaceInv
<1>2. CASE child' = NoChild
  BY <1>1, <1>2, NoChildNamed DEF PathInv
<1>3. CASE child' = child
  <2>1. \A rel : Fits(rel)' <=> Fits(rel)
    BY DEF Fits
  <2>2. ChildNamed'
    BY <1>3, <2>1 DEF PathInv, ChildNamed
  <2> QED
    BY <1>1, <2>2 DEF PathInv
<1> QED
  BY <1>2, <1>3

LEMMA PathInit ==
  ASSUME Init
  PROVE  PathInv
<1>1. cwd = <<Slash>> /\ place = <<>> /\ child = NoChild /\ pc = "prompt" /\ next = "none"
  BY DEF Init
<1>2. PlaceInv
  BY <1>1, RootLeads DEF PlaceInv, Bare
<1>3. ChildInv
  BY <1>1 DEF ChildInv
<1>4. ChildNamed
  BY <1>1 DEF ChildNamed, NoChild
<1> QED
  BY <1>2, <1>3, <1>4 DEF PathInv

LEMMA PathStep ==
  ASSUME user \in Users, PathInv, [Next]_vars
  PROVE  PathInv'
<1>1. ChildInv
  BY DEF PathInv
<1>2. ASSUME UNCHANGED <<cwd, place, child>>, ChildInv' PROVE PathInv'
  BY <1>2, PathKept
<1>3. ASSUME UNCHANGED <<cwd, place, child, pc, next>> PROVE PathInv'
  BY <1>1, <1>2, <1>3 DEF ChildInv
<1>4. ASSUME NEW key \in Pressed, KeyInterrupt(key) PROVE PathInv'
  BY <1>3, <1>4 DEF KeyInterrupt, shell
<1>5. CASE ShiftKey
  BY <1>3, <1>5 DEF ShiftKey, shell
<1>6. CASE sys_write
  <2>1. /\ pc = "write" /\ UNCHANGED <<cwd, place, child>>
        /\ (pc' = next /\ next' = "none") \/ (pc' = pc /\ next' = next)
    BY <1>6 DEF sys_write, shell
  <2>2. ChildInv'
    BY <1>1, <2>1 DEF ChildInv
  <2> QED
    BY <1>2, <2>1, <2>2
<1>7. CASE keyboard_readline_wait
  <2>1. pc = "wait" /\ pc' = "copy" /\ UNCHANGED <<cwd, place, child, next>>
    BY <1>7 DEF keyboard_readline_wait, shell
  <2> QED
    BY <1>1, <1>2, <2>1 DEF ChildInv
<1>8. CASE keyboard_readline_copy
  <2>1. pc = "copy" /\ pc' = "clear" /\ UNCHANGED <<cwd, place, child, next>>
    BY <1>8 DEF keyboard_readline_copy, shell
  <2> QED
    BY <1>1, <1>2, <2>1 DEF ChildInv
<1>9. CASE keyboard_readline_clear
  <2>1. /\ pc = "clear" /\ UNCHANGED <<cwd, place, child>> /\ next' = "none"
        /\ pc' = next \/ (next = "command" /\ pc' = "prompt")
    BY <1>9 DEF keyboard_readline_clear, shell
  <2>2. ChildInv'
    BY <1>1, <2>1 DEF ChildInv
  <2> QED
    BY <1>2, <2>1, <2>2
<1>10. CASE Prompt
  <2>1. pc = "prompt" /\ pc' = "write" /\ next' = "read" /\ UNCHANGED <<cwd, place, child>>
    BY <1>10 DEF Prompt, Write, shell
  <2> QED
    BY <1>1, <1>2, <2>1 DEF ChildInv
<1>11. CASE ReadCommand
  <2>1. pc = "read" /\ pc' = "wait" /\ next' = "command" /\ UNCHANGED <<cwd, place, child>>
    BY <1>11 DEF ReadCommand, StartRead, shell
  <2> QED
    BY <1>1, <1>2, <2>1 DEF ChildInv
<1>12. CASE ShellStep
  <2>1. PICK words \in user.commands : IF Is(words, Answers) THEN Answer(words) ELSE Obey(words)
    BY <1>12 DEF ShellStep
  <2>2. words \in Seq(Paths) \ {<<>>}
    BY <2>1, ConsoleAssumption
  <2>3. CASE Is(words, Answers)
    <3>1. pc = "command" /\ pc' = "write" /\ next' = "prompt" /\ UNCHANGED <<cwd, place, child>>
      BY <2>1, <2>3 DEF Answer, Write, shell
    <3> QED
      BY <1>1, <1>2, <3>1 DEF ChildInv
  <2>4. CASE ~Is(words, Answers)
    <3>1. (exit \/ cd(words) \/ clear \/ run(words)) /\ pc = "command" /\ UNCHANGED next
      BY <2>1, <2>4 DEF Obey
    <3>2. CASE exit \/ clear
      <4>1. UNCHANGED <<cwd, place, child>> /\ pc' \in {"done", "prompt"}
        BY <3>2 DEF exit, clear, shell
      <4> QED
        BY <1>1, <1>2, <3>1, <4>1 DEF ChildInv
    <3> QED
      BY <2>2, <3>1, <3>2, CdStep, RunStep
  <2> QED
    BY <2>3, <2>4
<1>13. CASE ChildWrite
  <2>1. pc = "child" /\ pc' = "write" /\ next' = "child" /\ UNCHANGED <<cwd, place, child>>
    BY <1>13 DEF ChildWrite, Write, shell
  <2> QED
    BY <1>1, <1>2, <2>1 DEF ChildInv
<1>14. CASE ChildRead
  <2>1. pc = "child" /\ pc' = "wait" /\ next' = "child" /\ UNCHANGED <<cwd, place, child>>
    BY <1>14 DEF ChildRead, StartRead, shell
  <2> QED
    BY <1>1, <1>2, <2>1 DEF ChildInv
<1>15. CASE ChildEnds
  <2>1. pc = "child" /\ pc' = "prompt" /\ child' = NoChild /\ UNCHANGED <<cwd, place, next>>
    BY <1>15 DEF ChildEnds
  <2>2. ChildInv'
    BY <1>1, <2>1 DEF ChildInv
  <2> QED
    BY <2>1, <2>2, PathKept
<1>16. CASE UNCHANGED vars
  BY <1>3, <1>16 DEF vars
<1> QED
  BY <1>4, <1>5, <1>6, <1>7, <1>8, <1>9, <1>10, <1>11, <1>12, <1>13, <1>14, <1>15, <1>16 DEF Next

LEMMA PathShown ==
  ASSUME PathInv
  PROVE  PathResolved
<1>1. Size(cwd) < PATH_SIZE - 1 => cwd = Absolute(place)
  BY BareIsAbsolute DEF PathInv, PlaceInv
<1> QED
  BY <1>1 DEF PathInv, ChildNamed, PathResolved

\* However a user walks through directories, with . and .., doubled slashes and
\* names that are cut: where all fits, the directory that the shell keeps and the
\* files that it names to a program are those that the user means.
THEOREM PathsResolve == Spec => []PathResolved
<1>1. ConsoleIInv => user \in Users
  BY DEF ConsoleIInv, KeyTypes
<1>2. ConsoleIInv /\ PathInv /\ [Next]_vars => PathInv'
  BY <1>1, PathStep
<1> QED
  BY <1>2, ConsoleInit, ConsoleStep, PathInit, PathStep, PathShown, PTL DEF Spec

=============================================================================

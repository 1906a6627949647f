---------------------------------- MODULE LibC ----------------------------------
(***************************************************************************)
(* The pure algorithms of the C libraries: the five printf formatters, the *)
(* two scanf cores, the number conversions, quicksort and binary search.   *)
(* The repository has four libraries: src/user/lib (linked into the        *)
(* programs), src/sdk/lib, src/src/std (the kernel's) and the console's    *)
(* kprintf.                                                                *)
(*                                                                         *)
(* Text is a sequence of character codes.  A format is a sequence of       *)
(* directives that already carry their argument (reading the directive out *)
(* of the format string is left out); only directives a function knows are *)
(* given to it.  Integers have W bits.                                     *)
(***************************************************************************)
LOCAL INSTANCE Integers
LOCAL INSTANCE Sequences
LOCAL INSTANCE SequencesExt

CONSTANTS W,            \* bits of an int (32)
          SORT_STACK,   \* ranges the stack of kqsort holds (64)
          INSERTION     \* ranges this short are insertion-sorted by the SDK (8)

Blank == 32
Dash == 45
Cross == 43
Nought == 48
Ex == 120
White == {32, 9, 10, 13}

Unsigned(v) == v % (2 ^ W)
Signed(v) == LET u == Unsigned(v) IN IF u >= 2 ^ (W - 1) THEN u - 2 ^ W ELSE u
Lowest == -(2 ^ (W - 1))

Radix(conv) == CASE conv \in {"x", "X", "p"} -> 16
                 [] conv = "o" -> 8
                 [] conv = "b" -> 2
                 [] OTHER -> 10

DigitChar(d, upper) == IF d < 10 THEN Nought + d ELSE (IF upper THEN 55 ELSE 87) + d

\* The digits of an unsigned number; the code collects them in reverse in tmp[].
Numeral(n, base, upper) ==
  LET f[m \in 0 .. 2 ^ W] ==
        IF m < base THEN <<DigitChar(m, upper)>>
        ELSE Append(f[m \div base], DigitChar(m % base, upper))
  IN f[n]

Repeat(c, n) == [i \in 1 .. (IF n > 0 THEN n ELSE 0) |-> c]

\* Text brought to the width of a directive: blanks behind, or c in front.
Aligned(text, d, c) == LET pad == Repeat(IF d.left THEN Blank ELSE c, d.width - Len(text))
                       IN IF d.left THEN text \o pad ELSE pad \o text

Filler(d) == IF d.zero THEN Nought ELSE Blank

\* What does not fit into the buffer is left out; the last byte is the NUL.
Cut(text, size) == IF Len(text) < size THEN text ELSE SubSeq(text, 1, size - 1)

\* %p: 0x and all the digits of a word.
Pointer(v) == <<Nought, Ex>> \o
  Aligned(Numeral(Unsigned(v), 16, FALSE), [left |-> FALSE, width |-> W \div 4], Nought)

---------------------------------------------------------------------------
(* printf *)

\* What the formatters share: strings, characters, pointers and plain text.
Plain(d) ==
  CASE d.conv = "s"   -> Aligned(d.arg, d, Blank)
    [] d.conv = "c"   -> Aligned(<<d.arg>>, d, Blank)
    [] d.conv = "p"   -> Pointer(d.arg)
    [] d.conv = "lit" -> <<d.arg>>

\* A number of the user library: the sign counts as a digit, so zeros go in
\* front of it; the smallest number is a literal that ignores the width.
UserText(d) ==
  CASE d.conv = "d" /\ d.arg = Lowest ->
         <<Dash>> \o Numeral(-Lowest, 10, FALSE)
    [] d.conv = "d" /\ d.arg # Lowest ->
         Aligned((IF d.arg < 0 THEN <<Dash>> ELSE <<>>)
                   \o Numeral(IF d.arg < 0 THEN -d.arg ELSE d.arg, 10, FALSE), d, Filler(d))
    [] d.conv \in {"u", "x", "X"} ->
         Aligned(Numeral(Unsigned(d.arg), Radix(d.conv), d.conv = "X"), d, Filler(d))
    [] OTHER -> Plain(d)

vsnprintf(fmt, size) == Cut(FlattenSeq([i \in DOMAIN fmt |-> UserText(fmt[i])]), size)

\* The kernel's copy knows %o and not the special case: -INT_MIN is negative
\* again, its loop makes no digit and only the sign is left.
KernelText(d) ==
  CASE d.conv = "d" ->
         Aligned((IF d.arg < 0 THEN <<Dash>> ELSE <<>>)
                   \o (IF d.arg = Lowest THEN <<>>
                       ELSE Numeral(IF d.arg < 0 THEN -d.arg ELSE d.arg, 10, FALSE)),
                 d, Filler(d))
    [] d.conv \in {"u", "x", "X", "o"} ->
         Aligned(Numeral(Unsigned(d.arg), Radix(d.conv), d.conv = "X"), d, Filler(d))
    [] OTHER -> Plain(d)

vsnprintf_k(fmt, size) == Cut(FlattenSeq([i \in DOMAIN fmt |-> KernelText(fmt[i])]), size)

\* Faulty: the sign or prefix is not counted when padding.
Emit_WidthOfDigits(prefix, digits, d) ==
  LET pad == d.width - Len(digits)
  IN CASE d.left -> prefix \o digits \o Repeat(Blank, pad)
       [] d.zero /\ ~d.left -> prefix \o Repeat(Nought, pad) \o digits
       [] OTHER -> Repeat(Blank, pad) \o prefix \o digits

\* The SDK puts sign or prefix in front of the zeros (EMIT_INT and the octal
\* and hexadecimal cases).
Emit(prefix, digits, d) ==
  LET pad == d.width - Len(prefix) - Len(digits)
  IN CASE d.left -> prefix \o digits \o Repeat(Blank, pad)
       [] d.zero /\ ~d.left -> prefix \o Repeat(Nought, pad) \o digits
       [] OTHER -> Repeat(Blank, pad) \o prefix \o digits

SdkNumber(d) ==
  LET digits == Numeral(IF d.conv = "d" /\ d.arg < 0 THEN -d.arg ELSE Unsigned(d.arg),
                        Radix(d.conv), d.conv = "X")
      sign == IF d.arg < 0 THEN <<Dash>> ELSE IF d.plus THEN <<Cross>> ELSE <<>>
      prefix == CASE d.conv = "d" -> sign
                  [] d.conv = "o" /\ d.alt /\ digits[1] # Nought -> <<Nought>>
                  [] d.conv = "x" /\ d.alt -> <<Nought, Ex>>
                  [] d.conv = "X" /\ d.alt -> <<Nought, 88>>
                  [] OTHER -> <<>>
  IN Emit(prefix, digits, d)

vsnprintf_sdk(fmt, size) ==
  Cut(FlattenSeq([i \in DOMAIN fmt |->
        IF fmt[i].conv \in {"d", "u", "x", "X", "o"} THEN SdkNumber(fmt[i]) ELSE Plain(fmt[i])]),
      size)

\* kstring.c: no flags and no width; the sign is written before the digits.
snprintf(fmt, size) ==
  Cut(FlattenSeq([i \in DOMAIN fmt |->
        LET d == fmt[i] IN
        CASE d.conv = "d" -> (IF d.arg < 0 THEN <<Dash>> ELSE <<>>)
                               \o (IF d.arg = Lowest THEN <<>>
                                   ELSE Numeral(IF d.arg < 0 THEN -d.arg ELSE d.arg, 10, FALSE))
          [] d.conv = "x" -> Numeral(Unsigned(d.arg), 16, FALSE)
          [] OTHER -> Plain([d EXCEPT !.width = 0])]), size)

\* The console: no alignment to the left, sign in front of the zeros.
print_number(v, base, signed, d, upper) ==
  LET neg == signed /\ Signed(v) < 0
      digits == Numeral(IF neg THEN -Signed(v) ELSE Unsigned(v), base, upper)
  IN Emit(IF neg THEN <<Dash>> ELSE <<>>, digits, [d EXCEPT !.left = FALSE])

\* Strings and characters ignore the width; a pointer is in capitals.
kprintf(fmt) ==
  FlattenSeq([i \in DOMAIN fmt |->
    LET d == fmt[i] IN
    CASE d.conv \in {"d", "u", "x", "X", "b"} ->
           (IF d.conv = "b" THEN <<Nought, 98>> ELSE <<>>)
             \o print_number(d.arg, Radix(d.conv), d.conv = "d", d, d.conv = "X")
      [] d.conv = "p" ->
           <<Nought, Ex>> \o print_number(d.arg, 16, FALSE,
             [d EXCEPT !.zero = TRUE, !.width = IF @ > 0 THEN @ ELSE W \div 4], TRUE)
      [] OTHER -> Plain([d EXCEPT !.width = 0])])

\* kvprintf of the log functions does the same without %b.
kvprintf(fmt) == kprintf(fmt)

---------------------------------------------------------------------------
(* scanf *)

\* How many leading characters are in a set, and what follows them.
Prefix(s, C) == CHOOSE n \in 0 .. Len(s) : /\ \A i \in 1 .. n : s[i] \in C
                                           /\ n < Len(s) => s[n + 1] \notin C
After(s, n) == SubSeq(s, n + 1, Len(s))
SkipWhite(s) == After(s, Prefix(s, White))

DigitValue(c) == IF c < 58 THEN c - 48 ELSE IF c < 97 THEN c - 55 ELSE c - 87
DigitsOf(base) == (48 .. (IF base < 10 THEN 47 + base ELSE 57))
                    \union (IF base = 16 THEN (65 .. 70) \union (97 .. 102) ELSE {})
Number(digits, base) ==
  FoldLeft(LAMBDA v, c : Unsigned((v * base) + DigitValue(c)), 0, digits)

\* The state of a scan: the text left, the values stored, whether it goes on,
\* and whether it stopped at the end of the text.
ScanStart(s) == [rest |-> s, out |-> <<>>, on |-> TRUE, eof |-> FALSE]
Stop_(st, s) == [st EXCEPT !.rest = s, !.on = FALSE]
Ended(st) == [st EXCEPT !.rest = <<>>, !.on = FALSE, !.eof = TRUE]
Stored(st, d, s, v) == [st EXCEPT !.rest = s, !.out = IF d.suppress THEN @ ELSE Append(@, v)]

\* %d %i %u %o %x %X of the SDK: a sign for the signed ones, a prefix for %i.
ScanNumber(st, d) ==
  LET s == SkipWhite(st.rest)
      room == IF d.width > 0 THEN d.width ELSE Len(s)
      signed == d.conv \in {"d", "i"}
      sign == IF signed /\ s # <<>> /\ s[1] \in {Dash, Cross} THEN 1 ELSE 0
      t == After(s, sign)
      octal == d.conv = "i" /\ t # <<>> /\ t[1] = Nought /\ room > sign
      hex == octal /\ Len(t) > 1 /\ t[2] \in {88, 120}
      base == IF hex THEN 16 ELSE IF octal THEN 8 ELSE Radix(d.conv)
      u == IF hex THEN After(t, 2) ELSE t
      limit == room - sign - (IF hex THEN 2 ELSE 0)
      all == Prefix(u, DigitsOf(base))
      n == IF all < limit THEN all ELSE limit
      v == Number(SubSeq(u, 1, n), base)
  IN CASE s = <<>> -> Ended(st)
       [] s # <<>> /\ n <= 0 -> Stop_(st, u)
       [] OTHER -> Stored(st, d, After(u, n),
                          IF signed THEN Signed(IF sign = 1 /\ s[1] = Dash THEN -v ELSE v) ELSE v)

ScanOne(st, d) ==
  LET s == st.rest
      w == SkipWhite(s)
      word == Prefix(w, 0 .. 255 \ White)
      n == IF d.width > 0 /\ d.width < word THEN d.width ELSE word
      k == IF d.width > 0 THEN d.width ELSE 1
  IN CASE ~st.on -> st
       [] st.on /\ d.conv = "white" -> [st EXCEPT !.rest = w]
       [] st.on /\ d.conv = "lit" -> IF s # <<>> /\ s[1] = d.arg THEN [st EXCEPT !.rest = Tail(s)]
                                     ELSE Stop_(st, s)
       [] st.on /\ d.conv = "s" -> IF w = <<>> THEN Ended(st)
                                   ELSE Stored(st, d, After(w, n), SubSeq(w, 1, n))
       [] st.on /\ d.conv = "c" -> IF s = <<>> THEN Ended(st)
                                   ELSE Stored(st, d, After(s, k), SubSeq(s, 1, IF k < Len(s) THEN k ELSE Len(s)))
       [] OTHER -> ScanNumber(st, d)

\* The result: what was stored, and -1 when the text ended before anything was.
vscan_core(s, fmt) ==
  LET st == FoldLeft(ScanOne, ScanStart(s), fmt)
  IN [ret |-> IF st.eof /\ st.out = <<>> THEN -1 ELSE Len(st.out), out |-> st.out]

\* The kernel's scanner: no width, no suppression; %x drops a prefix and takes
\* an empty number for zero, %s an empty word.
KernelScanOne(st, d) ==
  LET s == IF d.conv \in {"c", "lit"} THEN st.rest ELSE SkipWhite(st.rest)
      sign == IF d.conv = "d" /\ s # <<>> /\ s[1] \in {Dash, Cross} THEN 1 ELSE 0
      hex == d.conv = "x" /\ Len(s) > 1 /\ s[1] = Nought /\ s[2] \in {88, 120}
      u == After(s, sign + (IF hex THEN 2 ELSE 0))
      n == Prefix(u, DigitsOf(Radix(d.conv)))
      v == Number(SubSeq(u, 1, n), Radix(d.conv))
  IN CASE ~st.on -> st
       [] st.on /\ d.conv = "white" -> [st EXCEPT !.rest = s]
       [] st.on /\ d.conv = "lit" -> IF s # <<>> /\ s[1] = d.arg THEN [st EXCEPT !.rest = Tail(s)]
                                     ELSE Stop_(st, s)
       [] st.on /\ d.conv = "s" -> LET k == Prefix(s, 0 .. 255 \ White)
                                   IN Stored(st, d, After(s, k), SubSeq(s, 1, k))
       [] st.on /\ d.conv = "c" -> IF s = <<>> THEN Stop_(st, s)
                                   ELSE Stored(st, d, Tail(s), SubSeq(s, 1, 1))
       [] OTHER -> IF n = 0 /\ d.conv # "x" THEN Stop_(st, u)
                   ELSE Stored(st, d, After(u, n),
                          IF d.conv = "d" THEN Signed(IF sign = 1 /\ s[1] = Dash THEN -v ELSE v)
                          ELSE v)

vsscanf_k(s, fmt) == LET st == FoldLeft(KernelScanOne, ScanStart(s), fmt)
                     IN [ret |-> Len(st.out), out |-> st.out]

---------------------------------------------------------------------------
(* Numbers without a format *)

\* Only base 10 has a sign; the digits are those of the unsigned value.
kitoa(v, base) ==
  IF v < 0 /\ base = 10 THEN <<Dash>> \o Numeral(Unsigned(-v), base, FALSE)
  ELSE Numeral(Unsigned(v), base, FALSE)

kutoa(v, base) == Numeral(Unsigned(v), base, FALSE)

katoi(s) == LET t == SkipWhite(s)
                sign == IF t # <<>> /\ t[1] \in {Dash, Cross} THEN 1 ELSE 0
                u == After(t, sign)
                v == Number(SubSeq(u, 1, Prefix(u, DigitsOf(10))), 10)
            IN Signed(IF sign = 1 /\ t[1] = Dash THEN -v ELSE v)

\* The text is read as far as it has digits of the base.
strtoul(s, base) == LET t == SkipWhite(s)
                        hex == base = 16 /\ Len(t) > 1 /\ t[1] = Nought /\ t[2] \in {88, 120}
                        u == IF hex THEN After(t, 2) ELSE t
                    IN Number(SubSeq(u, 1, Prefix(u, DigitsOf(base))), base)

---------------------------------------------------------------------------
(* Sorting and searching: arrays are functions on 0 .. n - 1 *)

Swap(a, i, j) == [a EXCEPT ![i] = a[j], ![j] = a[i]]
Ordered2(a, i, j) == IF a[i] > a[j] THEN Swap(a, i, j) ELSE a

\* Faulty: the pivot stays in the middle.
Median_NoMove(a, lo, hi) ==
  LET mid == lo + ((hi - lo) \div 2)
  IN Ordered2(Ordered2(Ordered2(a, lo, mid), lo, hi), mid, hi)

\* The median of three goes to the middle and from there next to the end.
Median(a, lo, hi) ==
  LET mid == lo + ((hi - lo) \div 2)
  IN Swap(Ordered2(Ordered2(Ordered2(a, lo, mid), lo, hi), mid, hi), mid, hi - 1)

RECURSIVE Split(_, _, _, _, _)
Split(a, i0, j0, lo, p) ==
  LET i == CHOOSE k \in i0 + 1 .. p : a[k] >= a[p] /\ \A m \in i0 + 1 .. k - 1 : a[m] < a[p]
      j == CHOOSE k \in lo .. j0 - 1 : /\ k = lo \/ a[k] <= a[p]
                                       /\ \A m \in k + 1 .. j0 - 1 : a[m] > a[p]
  IN IF i >= j THEN [a |-> Swap(a, i, p), i |-> i] ELSE Split(Swap(a, i, j), i, j, lo, p)

Partition(a, lo, hi) == Split(Median(a, lo, hi), lo, hi - 1, lo, hi - 1)

\* The kernel's quicksort keeps the open ranges on a stack of its own; with no
\* room for two more it forgets both (lost).
RECURSIVE KSort(_, _, _)
KSort(a, stack, lost) ==
  IF stack = <<>> THEN [a |-> a, lost |-> lost]
  ELSE LET lo == Last(stack)[1]
           hi == Last(stack)[2]
           rest == Front(stack)
           mid == lo + ((hi - lo) \div 2)
           q == Partition(a, lo, hi)
           more == (IF q.i > lo + 1 THEN <<<<lo, q.i - 1>>>> ELSE <<>>)
                     \o (IF q.i < hi - 1 THEN <<<<q.i + 1, hi>>>> ELSE <<>>)
       IN CASE lo >= hi -> KSort(a, rest, lost)
            [] hi = lo + 1 -> KSort(Ordered2(Ordered2(a, lo, hi), mid, hi), rest, lost)
            [] OTHER -> IF Len(rest) < SORT_STACK - 1 THEN KSort(q.a, rest \o more, lost)
                        ELSE KSort(q.a, rest, lost \/ more # <<>>)

kqsort(a, n) == IF n <= 1 THEN [a |-> a, lost |-> FALSE] ELSE KSort(a, <<<<0, n - 1>>>>, FALSE)

RECURSIVE Sift(_, _, _)
Sift(a, j, lo) == IF j > lo /\ a[j - 1] > a[j] THEN Sift(Swap(a, j - 1, j), j - 1, lo) ELSE a

\* The SDK's: short ranges by insertion, the smaller part by recursion.
RECURSIVE QSortR(_, _, _)
QSortR(a, lo, hi) ==
  IF lo >= hi THEN a
  ELSE IF hi - lo < INSERTION
  THEN FoldLeft(LAMBDA b, i : Sift(b, i, lo), a, [k \in 1 .. hi - lo |-> lo + k])
  ELSE LET q == Partition(a, lo, hi)
       IN IF q.i - 1 - lo < hi - q.i - 1
          THEN QSortR(IF q.i > lo + 1 THEN QSortR(q.a, lo, q.i - 1) ELSE q.a, q.i + 1, hi)
          ELSE LET b == IF q.i + 1 < hi THEN QSortR(q.a, q.i + 1, hi) ELSE q.a
               IN QSortR(b, lo, q.i - 1)

qsort(a, n) == IF n < 2 THEN a ELSE QSortR(a, 0, n - 1)

\* Binary search in lo .. hi - 1: the index found, or -1 (both libraries).
RECURSIVE Search(_, _, _, _)
Search(key, a, lo, hi) ==
  LET mid == lo + ((hi - lo) \div 2)
  IN CASE lo >= hi -> -1
       [] lo < hi /\ a[mid] = key -> mid
       [] lo < hi /\ a[mid] > key -> Search(key, a, lo, mid)
       [] OTHER -> Search(key, a, mid + 1, hi)

bsearch(key, a, n) == Search(key, a, 0, n)
=============================================================================

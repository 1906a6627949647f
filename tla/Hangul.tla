------------------------------- MODULE Hangul -------------------------------
(***************************************************************************)
(* The Hangul input method of ParinOS (src/hal/hangul_ime.c): the state is *)
(* the syllable being composed, every operation returns it with the code   *)
(* point it gives out, 0 for none.  UTF-8 as sequences of bytes.           *)
(* X_Y before X is a faulty variant of X.                                  *)
(***************************************************************************)
EXTENDS Integers, SequencesExt

\* A jamo of the keyboard: t is "cho" (consonant) or "jung" (vowel).
Cho(i) == [t |-> "cho", i |-> i]
Jung(i) == [t |-> "jung", i |-> i]
None == [t |-> "none", i |-> 0]

Row(first, shift, normal) == IF first \in DOMAIN shift THEN shift[first] ELSE normal[first]
\* Scancodes q to p, a to l, z to m.
Upper == [k \in 16 .. 25 |-> <<Cho(7), Cho(12), Cho(3), Cho(0), Cho(9), Jung(12), Jung(6), Jung(2), Jung(1), Jung(5)>>[k - 15]]
Middle == [k \in 30 .. 38 |-> <<Cho(6), Cho(2), Cho(11), Cho(5), Cho(18), Jung(8), Jung(4), Jung(0), Jung(20)>>[k - 29]]
Lower == [k \in 44 .. 50 |-> <<Cho(15), Cho(16), Cho(14), Cho(17), Jung(17), Jung(13), Jung(18)>>[k - 43]]
Shifted == [k \in {16, 17, 18, 19, 20, 24, 25} |->
              CASE k = 24 -> Jung(3) [] k = 25 -> Jung(7) [] OTHER -> Cho(Upper[k].i + 1)]
scancode_hangul(k, shift) ==
  CASE shift /\ k \in DOMAIN Shifted -> Shifted[k]
    [] k \in DOMAIN Upper -> Upper[k]
    [] k \in DOMAIN Middle -> Middle[k]
    [] k \in DOMAIN Lower -> Lower[k]
    [] OTHER -> None

cho_to_jong == <<1, 2, 4, 7, -1, 8, 16, 17, -1, 19, 20, 21, 22, -1, 23, 24, 25, 26, 27>>
jong_to_cho(jong) == (CHOOSE c \in 1 .. 19 : cho_to_jong[c] = jong) - 1

-----------------------------------------------------------------------------
\* The composition; -1 is absent.
Nothing == [cho |-> -1, jung |-> -1, jong |-> -1]
Only(cho) == [Nothing EXCEPT !.cho = cho]

make_codepoint(cho, jung, jong) ==
  IF cho < 0 \/ jung < 0 THEN 0 ELSE 44032 + (cho * 21 + jung) * 28 + (IF jong < 0 THEN 0 ELSE jong)
Codepoint(m) == make_codepoint(m.cho, m.jung, m.jong)

Give(m, cp) == [m |-> m, cp |-> cp]
hangul_ime_flush(m) ==
  IF m.cho < 0 /\ m.jung < 0 THEN Give(m, 0) ELSE Give(Nothing, Codepoint(m))

\* A consonant starts a syllable, ends the open one, or is the first of the next.
Consonant(m, i) ==
  CASE m.cho < 0 -> Give(Only(i), 0)
    [] m.cho >= 0 /\ m.jung < 0 -> Give(Only(i), 12593 + m.cho)
    [] m.cho >= 0 /\ m.jung >= 0 /\ m.jong < 0 /\ cho_to_jong[i + 1] >= 0 ->
         Give([m EXCEPT !.jong = cho_to_jong[i + 1]], 0)
    [] OTHER -> Give(Only(i), Codepoint(m))

\* A vowel takes the final of a closed syllable as its consonant.
Vowel_KeepFinal(m, i) ==
  CASE m.cho < 0 -> Give(m, 12641 + i)
    [] m.cho >= 0 /\ m.jung < 0 -> Give([m EXCEPT !.jung = i], 0)
    [] m.cho >= 0 /\ m.jung >= 0 /\ m.jong >= 0 ->
         Give([cho |-> jong_to_cho(m.jong), jung |-> i, jong |-> -1], Codepoint(m))
    [] OTHER -> Give([Nothing EXCEPT !.jung = i], make_codepoint(m.cho, m.jung, -1))
Vowel(m, i) ==
  CASE m.cho < 0 -> Give(m, 12641 + i)
    [] m.cho >= 0 /\ m.jung < 0 -> Give([m EXCEPT !.jung = i], 0)
    [] m.cho >= 0 /\ m.jung >= 0 /\ m.jong >= 0 ->
         Give([cho |-> jong_to_cho(m.jong), jung |-> i, jong |-> -1], make_codepoint(m.cho, m.jung, -1))
    [] OTHER -> Give([Nothing EXCEPT !.jung = i], make_codepoint(m.cho, m.jung, -1))

\* Only called in Korean mode.
hangul_ime_input(m, k, shift) ==
  LET j == scancode_hangul(k, shift)
  IN  CASE k >= 64 -> Give(m, 0)
        [] k < 64 /\ j.t = "none" -> hangul_ime_flush(m)
        [] k < 64 /\ j.t = "cho" -> Consonant(m, j.i)
        [] k < 64 /\ j.t = "jung" -> Vowel(m, j.i)

-----------------------------------------------------------------------------
\* The bytes of a code point below 2^16, and the character that starts at byte
\* i of a well-formed text.
unicode_to_utf8(cp) ==
  CASE cp < 128 -> <<cp>>
    [] cp \in 128 .. 2047 -> <<192 + (cp \div 64), 128 + (cp % 64)>>
    [] OTHER -> <<224 + (cp \div 4096), 128 + ((cp \div 64) % 64), 128 + (cp % 64)>>

Continues(b) == b \in 128 .. 191
\* The decoder of lkputchar: st bytes are missing of cp, which is complete when
\* none is.
Decode(d, b) ==
  CASE d.st = 0 /\ b < 128 -> [st |-> 0, cp |-> b]
    [] d.st = 0 /\ b \in 192 .. 223 -> [st |-> 1, cp |-> b - 192]
    [] d.st = 0 /\ b \in 224 .. 239 -> [st |-> 2, cp |-> b - 224]
    [] d.st = 0 /\ b \in 240 .. 247 -> [st |-> 3, cp |-> b - 240]
    [] d.st > 0 /\ Continues(b) -> [st |-> d.st - 1, cp |-> d.cp * 64 + b - 128]
    [] OTHER -> [st |-> 0, cp |-> 63]
Rest == [st |-> 0, cp |-> 0]

\* The jamo that a code point of the input method stands for.
Final(jong) == IF jong = 0 THEN <<>> ELSE <<Cho(jong_to_cho(jong))>>
Syllable(cho, jung, jong) == <<Cho(cho), Jung(jung)>> \o Final(jong)
Jamo(cp) ==
  CASE cp >= 44032 -> LET s == cp - 44032 IN Syllable(s \div 588, (s \div 28) % 21, s % 28)
    [] cp \in 12593 .. 12611 -> <<Cho(cp - 12593)>>
    [] cp \in 12641 .. 12661 -> <<Jung(cp - 12641)>>
    [] OTHER -> <<cp>>
Composed(m) ==
  CASE m.cho < 0 -> IF m.jung < 0 THEN <<>> ELSE <<Jung(m.jung)>>
    [] m.cho >= 0 /\ m.jung < 0 -> <<Cho(m.cho)>>
    [] OTHER -> Jamo(Codepoint(m))

\* What a text stands for, byte by byte: its characters, the columns where they
\* start, the keys that were typed to give it, and how many columns it takes.
Wide(cp) == cp >= 4352
NoText == [d |-> Rest, chars |-> <<>>, cols |-> <<>>, keys |-> <<>>, width |-> 0]
Shown(a, b) ==
  LET d == Decode(a.d, b)
  IN  IF d.st > 0 THEN [a EXCEPT !.d = d]
      ELSE [d |-> d, chars |-> Append(a.chars, d.cp), cols |-> Append(a.cols, a.width),
            keys |-> a.keys \o Jamo(d.cp), width |-> a.width + (IF Wide(d.cp) THEN 2 ELSE 1)]
Text(s) ==
  LET after[n \in 0 .. Len(s)] == IF n = 0 THEN NoText ELSE Shown(after[n - 1], s[n])
  IN  after[Len(s)]
Keys(s) == Text(s).keys

=============================================================================

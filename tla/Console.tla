------------------------------ MODULE Console ------------------------------
(***************************************************************************)
(* The terminal of ParinOS: the keyboard interrupt (src/hal/keyboard.c),   *)
(* the line it edits (kstdio.c), the screen (vga.c, vesa.c, font.c), the   *)
(* calls that read and write them (user.c), and the shell, the program     *)
(* that makes these calls (user/shell/src/shell.c).                        *)
(*                                                                         *)
(* The interrupt runs between any two bytes that the program writes and    *)
(* any two steps of a read.  The screen is a frame buffer; a row holds one *)
(* code point for each column, and Half next to a wide one.  Only the row  *)
(* of the cursor is kept: those below it are blank, those above are never  *)
(* written again.  Which command a line is, is left open.  Left out: what  *)
(* goes to the serial port, colours, blinking, and the text mode.          *)
(* X_Y before X is a faulty variant of X.                                  *)
(***************************************************************************)
EXTENDS Hangul, Shell

CONSTANTS
  LBUF_MAX,         \* bytes of a line, 254
  Columns, Rows,
  ReadSizes,        \* of the reads of other programs
  Outputs,          \* texts that programs write
  Users,            \* what a user does: the keys pressed in English and in Korean mode, there
                    \* without shift and with it, and the commands, as sequences of words
  MaxChars          \* bound on a line that still grows

HANGUL_KEYS == {114, 88, 56}
Backspace == 14
Enter == 28
Space == 57
Arrows == {75, 77}

VARIABLES
  user,        \* one of Users
  ime,         \* g_ime: the composition and whether it is active
  shift,       \* key_states of the shift key
  lbuf,
  g_readline,  \* g_readline_buf and g_readline_ready
  screen,      \* the decoder, the cursor and its row
  pc, next,    \* of the program, the shell or the child that it waits for; next follows a call
  read,        \* size of a read, length of its line, and what is copied
  out,         \* bytes still to be written
  cwd, child,  \* g_cwd, and the command and the arguments of the child
  typed,       \* history: keys of the line, and whether each is sure to count
  line,        \* history: typed of the line that waits to be read
  home,        \* history: column where the line starts on the screen, or -1 after
               \* a wrap, a cut character, or output in the line
  place        \* history: the names that lead to the directory meant

keyboard == <<user, ime, shift, lbuf, typed>>
shell == <<cwd, child, place>>
vars == <<user, ime, shift, lbuf, g_readline, screen, pc, next, read, out, cwd, child, typed, line, home, place>>

-----------------------------------------------------------------------------
\* The screen.  0 is blank.
Half == -1
Cursor == 95
BlankRow == [x \in 0 .. Columns - 1 |-> 0]
vga_clear(s) == [s EXCEPT !.x = 0, !.y = 0, !.row = [BlankRow EXCEPT ![0] = Cursor]]

\* Below the last row everything moves up.
NewLine(s) == [s EXCEPT !.x = 0, !.y = IF @ + 1 = Rows THEN @ ELSE @ + 1, !.row = BlankRow]

font_draw_char(s, cp) ==
  LET glyph == [s EXCEPT !.row[s.x] = cp]
  IN  IF Wide(cp) /\ s.x + 1 < Columns THEN [glyph EXCEPT !.row[s.x + 1] = Half] ELSE glyph
DrawGlyph(s, cp) ==
  LET drawn == font_draw_char(s, cp)
      x == s.x + (IF Wide(cp) THEN 2 ELSE 1)
  IN  IF x + 1 > Columns THEN NewLine(drawn) ELSE [drawn EXCEPT !.x = x]

Draw(s, cp) ==
  LET clean == [s EXCEPT !.row[s.x] = 0]
      moved == CASE cp = 10 -> NewLine(clean)
                 [] cp = 13 -> [clean EXCEPT !.x = 0]
                 [] cp = 8 -> IF s.x > 0 THEN [clean EXCEPT !.x = @ - 1, !.row[s.x - 1] = 0] ELSE clean
                 [] OTHER -> DrawGlyph(clean, cp)
  IN  [moved EXCEPT !.row[moved.x] = Cursor]

lkputchar(s, b) ==
  LET d == Decode(s.d, b)
  IN  IF d.st > 0 THEN [s EXCEPT !.d = d] ELSE Draw([s EXCEPT !.d = d], d.cp)

-----------------------------------------------------------------------------
\* The line.  k holds ime, lbuf, g_readline and screen.
CharStart(s) == CHOOSE i \in 1 .. Len(s) : /\ i = 1 \/ ~Continues(s[i])
                                           /\ \A j \in i + 1 .. Len(s) : Continues(s[j])
Shorter(s) == SubSeq(s, 1, CharStart(s) - 1)

EraseChar_OneColumn(s, lead) == lkputchar(s, 8)
EraseChar(s, lead) == IF lead >= 224 THEN lkputchar(lkputchar(s, 8), 8) ELSE lkputchar(s, 8)

keyboard_readline_feed(k, c) ==
  CASE k.line.ready -> k
    [] ~k.line.ready /\ c \in {10, 13} ->
         [k EXCEPT !.line = [buf |-> k.lbuf, ready |-> TRUE], !.lbuf = <<>>, !.screen = lkputchar(@, 10)]
    [] ~k.line.ready /\ c = 8 ->
         IF k.lbuf = <<>> THEN k
         ELSE [k EXCEPT !.lbuf = Shorter(@), !.screen = EraseChar(@, k.lbuf[CharStart(k.lbuf)])]
    [] OTHER ->
         IF Len(k.lbuf) < LBUF_MAX THEN [k EXCEPT !.lbuf = Append(@, c), !.screen = lkputchar(@, c)] ELSE k

FeedBytes(k, s) ==
  LET fed[n \in 0 .. Len(s)] == IF n = 0 THEN k ELSE keyboard_readline_feed(fed[n - 1], s[n])
  IN  fed[Len(s)]
FeedChar(k, cp) == IF cp = 0 THEN k ELSE FeedBytes(k, unicode_to_utf8(cp))
FeedFlush(k) ==
  LET f == hangul_ime_flush(k.ime.m) IN FeedChar([k EXCEPT !.ime.m = f.m], f.cp)

\* The letters, and the keys of KeySet that are not; 0 for no character.
Letters == [key \in 16 .. 25 \cup 30 .. 38 \cup 44 .. 50 |->
              CASE key <= 25 -> <<113, 119, 101, 114, 116, 121, 117, 105, 111, 112>>[key - 15]
                [] key \in 30 .. 38 -> <<97, 115, 100, 102, 103, 104, 106, 107, 108>>[key - 29]
                [] OTHER -> <<122, 120, 99, 118, 98, 110, 109>>[key - 43]]
kbd_us(key, shifted) ==
  CASE key \in DOMAIN Letters -> Letters[key] - (IF shifted THEN 32 ELSE 0)
    [] key = Backspace -> 8
    [] key = Enter -> 10
    [] key = Space -> 32
    [] OTHER -> 0

hangul_ime_toggle(i) == [m |-> IF i.active THEN Nothing ELSE i.m, active |-> ~i.active]

InKorean(k, key, shifted) ==
  LET f == hangul_ime_flush(k.ime.m)
      r == hangul_ime_input(k.ime.m, key, shifted)
  IN  CASE key = Backspace -> IF f.cp = 0 THEN keyboard_readline_feed([k EXCEPT !.ime.m = f.m], 8)
                              ELSE [k EXCEPT !.ime.m = f.m]
        [] key = Enter -> keyboard_readline_feed(FeedFlush(k), 10)
        [] key = Space -> keyboard_readline_feed(FeedFlush(k), 32)
        [] OTHER -> FeedChar([k EXCEPT !.ime.m = r.m], r.cp)
keyboard_handler_main(k, key, shifted) ==
  CASE key \in HANGUL_KEYS -> [k EXCEPT !.ime = hangul_ime_toggle(@)]
    [] key \in Arrows -> keyboard_readline_feed(FeedFlush(k), IF key = 75 THEN 17 ELSE 18)
    [] key \notin HANGUL_KEYS \cup Arrows /\ k.ime.active -> InKorean(k, key, shifted)
    [] OTHER -> LET c == kbd_us(key, shifted) IN IF c = 0 THEN k ELSE keyboard_readline_feed(k, c)

-----------------------------------------------------------------------------
\* The keys of the model, and texts of whole characters without a return.
KeySet == DOMAIN Letters \cup {Backspace, Enter, Space} \cup HANGUL_KEYS \cup Arrows
Whole(s) ==
  \A n \in 1 .. Len(s) :
    \/ s[n] \in 0 .. 127 \ {13}
    \/ s[n] \in 194 .. 223 /\ n + 1 <= Len(s) /\ Continues(s[n + 1])
    \/ /\ s[n] \in 224 .. 239 /\ n + 2 <= Len(s) /\ Continues(s[n + 1]) /\ Continues(s[n + 2])
       /\ s[n] = 224 => s[n + 1] >= 160
    \/ /\ Continues(s[n]) /\ n > 1
       /\ s[n - 1] \in 194 .. 239 \/ (Continues(s[n - 1]) /\ n > 2 /\ s[n - 2] \in 224 .. 239)

ASSUME ConsoleAssumption ==
  /\ LBUF_MAX \in Nat \ {0} /\ Columns \in Nat /\ Columns > 3 /\ Rows \in Nat \ {0}
  /\ ReadSizes \subseteq Nat
  /\ \A s \in Outputs : s \in Seq(0 .. 255) /\ s # <<>> /\ Whole(s)
  /\ \A u \in Users : u.english \cup u.korean \cup u.shifted \subseteq KeySet
  /\ \A u \in Users : u.commands \subseteq Seq(Paths) \ {<<>>}

-----------------------------------------------------------------------------
\* History.  A key does not count as a user expects when it finds a syllable
\* unfinished, is dropped because a line waits, or may not fit.
Stray(m) == m.cho < 0 /\ m.jung >= 0
Unfinished(m) == Stray(m) \/ (m.cho >= 0 /\ m.jung < 0)
IsJamo(key, shifted) == ime.active /\ scancode_hangul(key, shifted).t # "none"
Counts(key, shifted, k) ==
  CASE g_readline.ready -> key \notin HANGUL_KEYS /\ ~ime.active
    [] ~g_readline.ready /\ key \in HANGUL_KEYS -> ime.m = Nothing
    [] ~g_readline.ready /\ IsJamo(key, shifted) -> ~Stray(ime.m) /\ Len(k.lbuf) < LBUF_MAX
    [] OTHER -> ~Unfinished(ime.m) /\ Len(IF key = Enter THEN k.line.buf ELSE k.lbuf) < LBUF_MAX

\* Backspace takes the syllable that is being composed, or the last character.
TakenBack(keys) ==
  LET n == IF ime.m # Nothing THEN Len(Composed(ime.m))
           ELSE IF lbuf = <<>> THEN 0 ELSE Len(Keys(SubSeq(lbuf, CharStart(lbuf), Len(lbuf))))
  IN  SubSeq(keys, 1, Len(keys) - n)
Typed(keys, key, shifted) ==
  CASE key \in HANGUL_KEYS -> keys
    [] key = Backspace -> TakenBack(keys)
    [] key \in Arrows -> Append(keys, IF key = 75 THEN 17 ELSE 18)
    [] key = Space -> Append(keys, 32)
    [] OTHER -> Append(keys, IF ime.active THEN scancode_hangul(key, shifted) ELSE kbd_us(key, shifted))

NoKeys == [keys |-> <<>>, sure |-> TRUE]
Unsure == [keys |-> <<>>, sure |-> FALSE]
KeyHistory(key, shifted, k) ==
  IF key = Enter /\ ~g_readline.ready
  THEN /\ line' = IF typed.sure /\ Counts(key, shifted, k) THEN typed ELSE Unsure
       /\ typed' = NoKeys
       /\ home' = k.screen.x
  ELSE /\ typed' = CASE ~typed.sure \/ ~Counts(key, shifted, k) -> Unsure
                     [] typed.sure /\ Counts(key, shifted, k) /\ g_readline.ready -> typed
                     [] OTHER -> [typed EXCEPT !.keys = Typed(@, key, shifted)]
       /\ home' = IF (k.screen.x < screen.x /\ key # Backspace) \/ k.screen.d.st > 0 THEN -1 ELSE home
       /\ UNCHANGED line

-----------------------------------------------------------------------------
\* The keyboard interrupt: a key, or the shift key pressed or let go.
KeyInterrupt(key) ==
  LET k == keyboard_handler_main([ime |-> ime, lbuf |-> lbuf, line |-> g_readline, screen |-> screen], key, shift)
  IN  /\ key \in {Backspace, Enter} \/ Len(Text(lbuf).chars) < MaxChars
      /\ ime' = k.ime
      /\ lbuf' = k.lbuf
      /\ g_readline' = k.line
      /\ screen' = k.screen
      /\ KeyHistory(key, shift, k)
      /\ UNCHANGED <<user, shift, pc, next, read, out, shell>>

Pressed == IF ~ime.active THEN user.english ELSE IF shift THEN user.shifted ELSE user.korean
ShiftKey ==
  /\ user.shifted # {} /\ (ime.active \/ shift)
  /\ shift' = ~shift
  /\ UNCHANGED <<user, ime, lbuf, g_readline, screen, pc, next, read, out, shell, typed, line, home>>

-----------------------------------------------------------------------------
\* The calls of the program.
NoRead == [size |-> 0, len |-> 0, buf |-> <<>>, want |-> NoKeys]

Write(text, then) ==
  /\ pc' = "write"
  /\ next' = then
  /\ out' = text
  /\ UNCHANGED <<g_readline, screen, read, line, home>>
sys_write ==
  /\ pc = "write"
  /\ screen' = lkputchar(screen, out[1])
  /\ home' = IF lbuf = <<>> /\ screen'.d.st = 0 THEN screen'.x ELSE -1
  /\ out' = Tail(out)
  /\ pc' = IF Len(out) = 1 THEN next ELSE pc
  /\ next' = IF Len(out) = 1 THEN "none" ELSE next
  /\ UNCHANGED <<keyboard, g_readline, read, line, shell>>

\* keyboard_readline forgets a line that was waiting.
StartRead(size, then) ==
  /\ pc' = "wait"
  /\ next' = then
  /\ read' = [NoRead EXCEPT !.size = size]
  /\ g_readline' = [g_readline EXCEPT !.ready = FALSE]
  /\ UNCHANGED <<keyboard, screen, out, line, home, shell>>

EndWait_Clear(r) == [r EXCEPT !.ready = FALSE]
EndWait(r) == r
keyboard_readline_wait ==
  /\ pc = "wait"
  /\ g_readline.ready
  /\ read' = [read EXCEPT !.len = IF Len(g_readline.buf) >= read.size THEN read.size - 1 ELSE Len(g_readline.buf),
                          !.want = line]
  /\ g_readline' = EndWait(g_readline)
  /\ pc' = "copy"
  /\ UNCHANGED <<keyboard, screen, next, out, line, home, shell>>
\* Bytes behind a line are 0.
keyboard_readline_copy ==
  /\ pc = "copy"
  /\ read' = [read EXCEPT !.buf = [i \in 1 .. read.len |-> IF i <= Len(g_readline.buf) THEN g_readline.buf[i] ELSE 0]]
  /\ pc' = "clear"
  /\ UNCHANGED <<keyboard, g_readline, screen, next, out, line, home, shell>>
\* An empty line makes the shell ask again.
keyboard_readline_clear ==
  /\ pc = "clear"
  /\ g_readline' = [g_readline EXCEPT !.ready = FALSE]
  /\ pc' = IF next = "command" /\ \A i \in DOMAIN read.buf : read.buf[i] = 32 THEN "prompt" ELSE next
  /\ next' = "none"
  /\ read' = NoRead
  /\ UNCHANGED <<keyboard, screen, out, line, home, shell>>

-----------------------------------------------------------------------------
\* The shell.
\* The prompt is one column, 36.
Prompt ==
  /\ pc = "prompt"
  /\ Write(<<36>>, "read")
  /\ UNCHANGED <<keyboard, shell>>
ReadCommand ==
  /\ pc = "read"
  /\ StartRead(LBUF_MAX + 1, "command")

NoChild == [argv |-> <<>>, args |-> <<>>]
Answers == {"pwd", "echo", "help", "free", "ps"}
Is(words, names) == words[1] \in {<<n>> : n \in names}
\* A path is not cut.
Fits(rel) == Size(cwd) + Size(rel) + 1 < TEMP_SIZE /\ Size(Absolute(Meant(cwd, rel))) < PATH_SIZE
cd(words) ==
  LET rel == IF Len(words) = 1 THEN <<Slash>> ELSE words[2]
  IN  /\ cwd' = resolve_path(cwd, rel)
      /\ place' = IF Fits(rel) THEN Meant(Absolute(place), rel) ELSE NamesOf(cwd')
      /\ pc' = "prompt"
      /\ UNCHANGED <<screen, home, child>>
run(words) ==
  LET argv == Command(parse_args(words))
  IN  /\ IF argv = <<>> THEN pc' = "prompt" /\ UNCHANGED child
         ELSE pc' = "child" /\ child' = [argv |-> argv, args |-> cmd_run(cwd, argv)]
      /\ UNCHANGED <<screen, home, cwd, place>>
clear ==
  /\ screen' = vga_clear(screen)
  /\ home' = IF lbuf = <<>> THEN 0 ELSE -1
  /\ pc' = "prompt"
  /\ UNCHANGED shell
exit ==
  /\ pc' = "done"
  /\ UNCHANGED <<screen, home, shell>>
Obey(words) ==
  /\ pc = "command"
  /\ CASE Is(words, {"exit"}) -> exit
       [] Is(words, {"cd"}) -> cd(words)
       [] Is(words, {"clear", "cls"}) -> clear
       [] OTHER -> run(words)
  /\ UNCHANGED <<keyboard, g_readline, next, read, out, line>>
Answer(words) ==
  /\ pc = "command"
  /\ \E text \in Outputs : Write(text, "prompt")
  /\ UNCHANGED <<keyboard, shell>>
ShellStep == \E words \in user.commands : IF Is(words, Answers) THEN Answer(words) ELSE Obey(words)

\* The child writes and reads what it likes, then ends.
ChildWrite ==
  /\ pc = "child"
  /\ \E text \in Outputs : Write(text, "child")
  /\ UNCHANGED <<keyboard, shell>>
ChildRead ==
  /\ pc = "child"
  /\ \E size \in ReadSizes : StartRead(size, "child")
ChildEnds ==
  /\ pc = "child"
  /\ pc' = "prompt"
  /\ child' = NoChild
  /\ UNCHANGED <<keyboard, g_readline, screen, next, read, out, line, home, cwd, place>>

Init ==
  /\ user \in Users
  /\ ime = [m |-> Nothing, active |-> FALSE]
  /\ shift = FALSE
  /\ lbuf = <<>>
  /\ g_readline = [buf |-> <<>>, ready |-> FALSE]
  /\ screen = [d |-> Rest, x |-> 0, y |-> 0, row |-> [BlankRow EXCEPT ![0] = Cursor]]
  /\ pc = "prompt"
  /\ next = "none"
  /\ read = NoRead
  /\ out = <<>>
  /\ cwd = <<Slash>>
  /\ child = NoChild
  /\ typed = NoKeys
  /\ line = NoKeys
  /\ home = 0
  /\ place = <<>>

Next ==
  \/ \E key \in Pressed : KeyInterrupt(key)
  \/ ShiftKey
  \/ sys_write
  \/ keyboard_readline_wait
  \/ keyboard_readline_copy
  \/ keyboard_readline_clear
  \/ Prompt
  \/ ReadCommand
  \/ ShellStep
  \/ ChildWrite
  \/ ChildRead
  \/ ChildEnds

Spec == Init /\ [][Next]_vars

-----------------------------------------------------------------------------
\* What a user who types whole syllables types is what the line and the
\* syllable being composed stand for, across the input method, UTF-8 and
\* backspace, whatever is written meanwhile.
TextKept == typed.sure => Keys(lbuf) \o Composed(ime.m) = typed.keys

\* A read that has room for the line returns the line that ended it, though
\* keys arrive all the time.
LineDelivered ==
  pc = "clear" /\ read.want.sure /\ read.len < read.size - 1 => Keys(read.buf) = read.want.keys

\* While nothing is written between, the screen shows the line from the column
\* where it began to the cursor, and nothing of what backspace removed.
EchoInStep ==
  home >= 0 =>
    LET text == Text(lbuf)
    IN  /\ screen.x = home + text.width
        /\ \A i \in DOMAIN text.chars : screen.row[home + text.cols[i]] = text.chars[i]
        /\ \A x \in screen.x + 1 .. Columns - 1 : screen.row[x] = 0

\* However keys and output mix, the decoder is at rest when the program is not
\* inside a character and no character was cut at the end of the line.
DecoderRests == screen.d.st > 0 => pc = "write" \/ Len(lbuf) = LBUF_MAX

\* The screen follows the line being typed, echo and output of programs mixed
\* as they come, and the UTF-8 decoder they share is never left inside a
\* character.
OutputSound == EchoInStep /\ DecoderRests

\* The directory that the shell keeps, and the files it names to its children,
\* are those that the user means, as long as they fit.
PathResolved ==
  /\ Size(cwd) < PATH_SIZE - 1 => cwd = Absolute(place)
  /\ \A i \in DOMAIN child.argv :
       (i = 1 \/ i \in FileArgs(Last(child.argv[1]), child.argv)) /\ Fits(child.argv[i]) =>
         child.args[i] = Absolute(Meant(Absolute(place), child.argv[i]))

=============================================================================

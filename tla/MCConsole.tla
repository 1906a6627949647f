----------------------------- MODULE MCConsole -----------------------------
(***************************************************************************)
(* Two consonants, one of them (with shift) never final, and a vowel, that *)
(* are letters in English mode.  Lines of up to three characters; two of   *)
(* three bytes and a few short ones fit.                                   *)
(***************************************************************************)
EXTENDS Console

G == 18
K == 37
ConsoleOutputs == {unicode_to_utf8(44032)}
\* One user types lines, another walks through the directories.
Writer ==
  [english |-> {K, Backspace, Enter, 56, 75}, korean |-> {G, K, Space, Backspace, Enter, 56}, shifted |-> {G},
   commands |-> {<<<<"echo">>>>, <<<<"game">>>>}]
Walker ==
  [english |-> {K, Enter}, korean |-> {}, shifted |-> {},
   commands |-> {<<<<"cd">>, <<"a">>>>, <<<<"cd">>, <<"bb">>>>, <<<<"cd">>, <<"..", Slash, "..", Slash, "bb">>>>,
                 <<<<"clear">>>>, <<<<"exit">>>>, <<<<"cp">>, <<".", Slash, "a">>, <<"..">>>>, <<<<"run">>, <<"a">>>>, <<<<"ls">>>>}]
ConsoleUsers == {Writer, Walker}
\* What is left of a name that is cut is known by its size alone.
WalkerNames == {"a", "bb", "c", "bin", ".", "..", "cd", "clear", "exit", "cp", "run", "ls", "echo", "game"}
WalkerNameSize(x) ==
  CASE x \in {"a", "c", "."} -> 1
    [] x \in {"bb", "..", "cd", "cp", "ls"} -> 2
    [] x \in {"bin", "run"} -> 3
    [] x \in {"exit", "echo", "game"} -> 4
    [] OTHER -> 5
WalkerNameStart(x, n) == <<"c", "bb", "bin", "echo">>[n]

\* Dead: the decoder's code point at rest, a line that nobody waits for, the
\* cells left of the line (passed by backspace they are blank), and the row.
Seen == [x \in (IF home >= 0 THEN home ELSE screen.x) .. Columns - 1 |-> screen.row[x]]
View ==
  <<user, ime, shift, lbuf, g_readline.ready, IF g_readline.ready \/ pc = "copy" THEN <<g_readline.buf, line>> ELSE <<>>,
    screen.d.st, IF screen.d.st = 0 THEN 0 ELSE screen.d.cp, screen.x, Seen,
    pc, next, read, out, cwd, child, typed, home, place>>

=============================================================================

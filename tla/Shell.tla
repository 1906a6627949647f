------------------------------- MODULE Shell -------------------------------
(***************************************************************************)
(* The paths and commands of the user shell (user/shell/src/shell.c).  A   *)
(* text is a sequence of slashes and names: what is between two slashes is *)
(* one element.  X_Y before X is a faulty variant of X.                    *)
(***************************************************************************)
EXTENDS Integers, SequencesExt

CONSTANTS
  Names,
  NameSize(_),            \* characters of a name
  NameStart(_, _),        \* the first characters of a name, so many: again a name
  TEMP_SIZE, PATH_SIZE,   \* of temp, and of the buffers for paths
  ARGV_MAX

Slash == "/"
ASSUME ShellAssumption ==
  /\ Slash \notin Names /\ "bin" \in Names
  /\ \A x \in Names : /\ NameSize(x) \in Nat \ {0}
                      /\ \A n \in 1 .. NameSize(x) - 1 : NameStart(x, n) \in Names /\ NameSize(NameStart(x, n)) = n
  /\ TEMP_SIZE \in Nat /\ PATH_SIZE \in Nat /\ ARGV_MAX \in Nat
  /\ TEMP_SIZE > 1 /\ PATH_SIZE > 1 /\ ARGV_MAX > 2

\* What a user can type: between two names is a slash.
Paths == {s \in Seq(Names \cup {Slash}) :
            s # <<>> /\ \A i \in 1 .. Len(s) - 1 : s[i] = Slash \/ s[i + 1] = Slash}

Size(s) ==
  LET size[n \in 0 .. Len(s)] == IF n = 0 THEN 0 ELSE size[n - 1] + (IF s[n] = Slash THEN 1 ELSE NameSize(s[n]))
  IN  size[Len(s)]
EndsInSlash(s) == s # <<>> /\ Last(s) = Slash

\* What fits before the size-th character; the name that does not is cut.
Cut(s, size) ==
  LET fit == CHOOSE n \in 0 .. Len(s) : /\ Size(SubSeq(s, 1, n)) < size
                                        /\ n = Len(s) \/ Size(SubSeq(s, 1, n + 1)) >= size
      head == SubSeq(s, 1, fit)
      room == size - 1 - Size(head)
  IN  IF fit = Len(s) \/ room = 0 THEN head ELSE Append(head, NameStart(s[fit + 1], room))

Parent_KeepSlash(temp) ==
  LET last == CHOOSE i \in 0 .. Len(temp) : /\ i = 0 \/ temp[i] = Slash
                                            /\ \A j \in i + 1 .. Len(temp) : temp[j] # Slash
  IN  IF last = 0 THEN <<Slash>> ELSE SubSeq(temp, 1, last)
Parent(temp) ==
  LET t == IF Len(temp) > 1 /\ EndsInSlash(temp) THEN Front(temp) ELSE temp
      last == CHOOSE i \in 0 .. Len(t) : /\ i = 0 \/ t[i] = Slash
                                         /\ \A j \in i + 1 .. Len(t) : t[j] # Slash
  IN  IF last = 0 THEN <<Slash>> ELSE SubSeq(t, 1, last)

Child(temp, name) ==
  LET t == IF ~EndsInSlash(temp) /\ Size(temp) < TEMP_SIZE - 1 THEN Append(temp, Slash) ELSE temp
  IN  IF Size(t) + NameSize(name) < TEMP_SIZE THEN Append(t, name) ELSE t

Component(temp, name) ==
  CASE name \in {Slash, "."} -> temp
    [] name = ".." -> Parent(temp)
    [] OTHER -> Child(temp, name)

resolve_path(cwd, rel) ==
  LET start == IF rel[1] = Slash THEN <<>> ELSE Cut(cwd, TEMP_SIZE)
      built[n \in 0 .. Len(rel)] == IF n = 0 THEN start ELSE Component(built[n - 1], rel[n])
      temp == built[Len(rel)]
      path == CASE temp = <<>> -> <<Slash>>
                [] Len(temp) > 1 /\ EndsInSlash(temp) -> Front(temp)
                [] OTHER -> temp
  IN  Cut(path, PATH_SIZE)

-----------------------------------------------------------------------------
\* A line is a sequence of words; a word that is a path is a sequence itself.
parse_args(words) == SubSeq(words, 1, IF Len(words) < ARGV_MAX THEN Len(words) ELSE ARGV_MAX - 1)

\* The positions of the arguments that are resolved.
FileArgs(prog, argv) ==
  LET option == Len(argv) > 1 /\ argv[2] \in {<<"-d">>, <<"-jar">>, <<"-jl">>}
  IN  CASE prog = "ls" -> {2}
        [] prog \in {"cat", "rm", "mkdir"} -> 2 .. Len(argv)
        [] prog = "cp" -> {2, 3}
        [] prog \in {"gzip", "jvm"} -> IF option THEN {3} ELSE {2}
        [] OTHER -> {}

\* What execve is called with: the path and the arguments.
cmd_run(cwd, argv) ==
  LET prog == Last(argv[1])
      all == IF prog = "ls" /\ Len(argv) = 1 THEN Append(argv, cwd) ELSE argv
  IN  [i \in 1 .. Len(all) |->
         IF i = 1 \/ (i \in FileArgs(prog, all) /\ Len(argv) > 1) THEN resolve_path(cwd, all[i]) ELSE all[i]]

\* A command that is no path is looked for in /bin.
Command(words) ==
  CASE words[1] = <<"run">> -> Tail(words)
    [] words[1] # <<"run">> /\ words[1][1] = Slash -> words
    [] OTHER -> <<<<Slash, "bin", Slash>> \o words[1]>> \o Tail(words)

\* What a path means: the names from the root on.  A directory is kept as
\* slashes and names in turn.
NamesOf(dir) == [i \in 1 .. Len(dir) \div 2 |-> dir[2 * i]]
Walk(names, name) ==
  CASE name \in {Slash, "."} -> names
    [] name = ".." -> IF names = <<>> THEN names ELSE Front(names)
    [] OTHER -> Append(names, name)
Meant(cwd, rel) ==
  LET names[n \in 0 .. Len(rel)] ==
        IF n = 0 THEN IF rel[1] = Slash THEN <<>> ELSE NamesOf(cwd) ELSE Walk(names[n - 1], rel[n])
  IN  names[Len(rel)]
Absolute(names) ==
  IF names = <<>> THEN <<Slash>>
  ELSE [i \in 1 .. 2 * Len(names) |-> IF i % 2 = 1 THEN Slash ELSE names[i \div 2]]

=============================================================================

--------------------------------- MODULE MCTools ---------------------------------
EXTENDS Tools

A_ == <<97>>
B_ == <<98>>
Gz(n) == n \o Suffix

MCDisk == [n \in {A_, B_} |-> IF n = A_ THEN <<65, 10, 66, 67>> ELSE <<7>>]

MCLaunches ==
  {[prog |-> "gzip", argv |-> <<A_>>], [prog |-> "gzip", argv |-> <<B_>>],
   [prog |-> "gunzip", argv |-> <<Gz(A_)>>], [prog |-> "gunzip", argv |-> <<A_>>],
   [prog |-> "gzip -l", argv |-> <<Gz(A_)>>],
   [prog |-> "cat", argv |-> <<A_, B_>>],
   [prog |-> "cp", argv |-> <<A_, B_>>],
   [prog |-> "rm", argv |-> <<A_, Gz(A_)>>],
   [prog |-> "mkdir", argv |-> <<<<100>>>>], [prog |-> "ls", argv |-> <<>>],
   [prog |-> "hello", argv |-> <<A_>>], [prog |-> "curl", argv |-> <<>>],
   [prog |-> "alloc", argv |-> <<>>], [prog |-> "print", argv |-> <<>>],
   [prog |-> "sort", argv |-> <<>>]}

\* Checksums as the length and the first bytes: written and shown only.
MCCrc(data) == <<Len(data) % 256, 0, 0, 0>>

Directive(conv, left, zero, plus, alt, width, arg) ==
  [conv |-> conv, left |-> left, zero |-> zero, plus |-> plus, alt |-> alt,
   width |-> width, arg |-> arg]

Values == {-128, -127, -10, -1, 0, 7, 8, 127}
MCPrints ==
  {[lib |-> "sdk", layout |-> l, size |-> s, d |-> Directive(c, le, z, p, a, w, v)] :
      c \in {"d", "u", "x", "X", "o"}, le \in BOOLEAN, z \in BOOLEAN, p \in BOOLEAN, a \in BOOLEAN,
      w \in {0, 5}, v \in Values, l \in {"bar"}, s \in {5, 40}}
  \union
  {[lib |-> "sdk", layout |-> "columns", size |-> 40, d |-> Directive(c, FALSE, z, p, a, 6, v)] :
      c \in {"d", "u", "x", "o"}, z \in {TRUE}, p \in BOOLEAN, a \in BOOLEAN, v \in Values}
  \union
  {[lib |-> b, layout |-> "bar", size |-> s, d |-> Directive(c, le, z, FALSE, FALSE, w, v)] :
      b \in {"user", "kernel"}, c \in {"d", "u", "x"}, le \in BOOLEAN, z \in BOOLEAN,
      w \in {0, 5}, v \in Values, s \in {5, 40}}
  \union
  {[lib |-> b, layout |-> "bar", size |-> 40, d |-> Directive(c, FALSE, z, FALSE, FALSE, w, v)] :
      b \in {"kprintf", "klog"}, c \in {"d", "u", "x", "p"}, z \in BOOLEAN, w \in {0, 5}, v \in Values}
  \union
  {[lib |-> "kstring", layout |-> "bar", size |-> s, d |-> Directive(c, FALSE, FALSE, FALSE, FALSE, 0, v)] :
      c \in {"d", "x", "p"}, v \in Values, s \in {5, 40}}

MCStreams == {<<72, 84>>, <<72, 0, 73, 74>>}

MCArrays == UNION {[1 .. n -> 0 .. 2] : n \in 0 .. 5}
=============================================================================

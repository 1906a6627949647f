-------------------------------- MODULE Jit --------------------------------
(***************************************************************************)
(* The template compiler of ParinOS's JVM (user/jvm/src/jit.c): bytecode   *)
(* of methods that only compute with integers becomes x86 code.            *)
(*                                                                         *)
(* A method is a sequence of instructions [op, a] and a pc is an index in  *)
(* it, from 0; InstrBytes is their length in bytes.  Native code is a      *)
(* sequence of x86 instructions <<mnemonic, operand, ...>>, run by a       *)
(* machine with three registers, flags and a stack.  Integers have W bits. *)
(* X_Y before X is a faulty variant of X.                                  *)
(***************************************************************************)
EXTENDS Integers, Sequences, FiniteSets, Bitwise

CONSTANTS
  W,             \* bits of an int, a power of two
  MAX_LOCALS,
  DISP_SLOTS,    \* locals that an 8-bit displacement reaches: 32
  MAX_PATCHES,   \* branches a method may have
  MAX_PC_MAP,    \* pcs that may be branched to
  JIT_SIZE,      \* bytes of the code buffer
  FUEL           \* bound: x86 instructions before a run counts as endless

\* Two's complement.
Unsigned(n) == n % 2^W
Wrap(n) == LET u == Unsigned(n) IN IF u >= 2^(W - 1) THEN u - 2^W ELSE u
Quot(a, b) == LET q == (IF a < 0 THEN -a ELSE a) \div (IF b < 0 THEN -b ELSE b)
              IN  IF (a < 0) = (b < 0) THEN q ELSE -q
Rem(a, b) == a - b * Quot(a, b)
Shift(b) == b % W      \* & 0x1f
Calc(op, a, b) == Wrap(
  CASE op = "add" -> a + b [] op = "sub" -> a - b [] op = "mul" -> a * b
    [] op = "and" -> Unsigned(a) & Unsigned(b) [] op = "or" -> Unsigned(a) | Unsigned(b)
    [] op = "xor" -> Unsigned(a) ^^ Unsigned(b)
    [] op = "shl" -> a * 2^Shift(b) [] op = "shr" -> a \div 2^Shift(b)
    [] op = "ushr" -> Unsigned(a) \div 2^Shift(b)
    [] op = "div" -> Quot(a, b) [] op = "rem" -> Rem(a, b))
Test(cc, a, b) ==
  CASE cc = "eq" -> a = b [] cc = "ne" -> a # b [] cc = "lt" -> a < b
    [] cc = "ge" -> a >= b [] cc = "gt" -> a > b [] cc = "le" -> a <= b
\* What idiv, and the compiler's code for / and %, cannot compute.
Traps(a, b) == b = 0 \/ Quot(a, b) >= 2^(W - 1)

Binary == {"add", "sub", "mul", "div", "rem", "shl", "shr", "ushr", "and", "or", "xor"}
JitOps == Binary \cup {"nop", "const", "iload", "istore", "iinc", "neg", "pop", "dup", "swap",
                       "if", "if_icmp", "goto", "ireturn", "return"}

-----------------------------------------------------------------------------
\* Bytes of bytecode: an index above 3 or a constant above 5 takes an operand.
InstrBytes(i) ==
  CASE i.op \in {"if", "if_icmp", "goto", "iinc"} -> 3
    [] i.op \in {"iload", "istore"} -> IF i.a > 3 THEN 2 ELSE 1
    [] i.op = "const" -> IF i.a \in -1 .. 5 THEN 1 ELSE 2
    [] OTHER -> 1
CodeLen(code) ==
  LET s[n \in 0 .. Len(code)] == IF n = 0 THEN 0 ELSE s[n - 1] + InstrBytes(code[n]) IN s[Len(code)]

jit_can_compile(code) ==
  /\ code # <<>>
  /\ \A n \in DOMAIN code : /\ code[n].op \in JitOps
                            /\ code[n].op = "iinc" => code[n].a[1] < DISP_SLOTS

\* The slot that [ebx + disp8] reaches for index i: disp8 is signed.
Disp(i) == ((i + DISP_SLOTS) % (2 * DISP_SLOTS)) - DISP_SLOTS

emit_iload(i) == <<<<"push_local", Disp(i)>>>>
emit_istore(i) == <<<<"pop", "eax">>, <<"mov_local", Disp(i)>>>>
emit_iinc(i, delta) == <<<<"add_local", Disp(i), delta>>>>

\* x86 code of one instruction; jumps still name a pc of the bytecode.
Emit(i) ==
  CASE i.op = "nop" -> <<>>
    [] i.op = "const" -> <<<<"push_imm", i.a>>>>
    [] i.op = "iload" -> emit_iload(i.a)
    [] i.op = "istore" -> emit_istore(i.a)
    [] i.op = "iinc" -> emit_iinc(i.a[1], i.a[2])
    [] i.op = "add" -> <<<<"pop", "eax">>, <<"alu_top", "add", "eax">>>>
    [] i.op \in {"sub", "mul"} -> <<<<"pop", "ecx">>, <<"pop", "eax">>, <<"alu", i.op>>, <<"push", "eax">>>>
    [] i.op = "div" -> <<<<"pop", "ecx">>, <<"pop", "eax">>, <<"cdq_idiv">>, <<"push", "eax">>>>
    [] i.op = "rem" -> <<<<"pop", "ecx">>, <<"pop", "eax">>, <<"cdq_idiv">>, <<"push", "edx">>>>
    [] i.op = "neg" -> <<<<"neg_top">>>>
    [] i.op \in {"shl", "shr", "ushr", "and", "or", "xor"} -> <<<<"pop", "ecx">>, <<"alu_top", i.op, "ecx">>>>
    [] i.op = "pop" -> <<<<"pop", "eax">>>>
    [] i.op = "dup" -> <<<<"push_top">>>>
    [] i.op = "swap" -> <<<<"pop", "eax">>, <<"pop", "ecx">>, <<"push", "eax">>, <<"push", "ecx">>>>
    [] i.op = "if" -> <<<<"pop", "eax">>, <<"test">>, <<"jcc", i.a[2], i.a[1]>>>>
    [] i.op = "if_icmp" -> <<<<"pop", "ecx">>, <<"pop", "eax">>, <<"cmp">>, <<"jcc", i.a[2], i.a[1]>>>>
    [] i.op = "goto" -> <<<<"jmp", i.a>>>>
    [] i.op = "ireturn" -> <<<<"pop", "eax">>, <<"leave_ret">>>>
    [] i.op = "return" -> <<<<"xor_eax">>, <<"leave_ret">>>>

\* Bytes of an x86 instruction.
X86Bytes(x) ==
  CASE x[1] = "enter" -> 13 [] x[1] \in {"push", "pop"} -> 1
    [] x[1] = "push_imm" -> IF x[2] \in 0 .. 5 THEN 2 ELSE 5
    [] x[1] = "push_local" -> IF x[2] = 0 THEN 2 ELSE 3
    [] x[1] = "mov_local" -> IF x[2] = 0 THEN 2 ELSE 3
    [] x[1] = "add_local" -> IF x[2] = 0 THEN 3 ELSE 4
    [] x[1] \in {"alu_top", "neg_top", "push_top", "cdq_idiv"} -> 3
    [] x[1] = "alu" -> IF x[2] = "mul" THEN 3 ELSE 2
    [] x[1] \in {"test", "cmp", "xor_eax"} -> 2
    [] x[1] = "jcc" -> 6 [] x[1] = "jmp" -> 5 [] x[1] = "leave_ret" -> 6
X86Len(x86) ==
  LET s[n \in 0 .. Len(x86)] == IF n = 0 THEN 0 ELSE s[n - 1] + X86Bytes(x86[n]) IN s[Len(x86)]

IsJump(x) == x[1] \in {"jcc", "jmp"}
Target(x) == x[Len(x)]

\* Where the code of each pc begins, and of the end.
PcMap(code) ==
  LET at[n \in 0 .. Len(code)] == IF n = 0 THEN 2 ELSE at[n - 1] + Len(Emit(code[n])) IN at

Translate(code) ==
  LET x[n \in 0 .. Len(code)] == IF n = 0 THEN <<<<"enter">>>> ELSE x[n - 1] \o Emit(code[n]) IN x[Len(code)]

\* The second pass: a jump without a place in s_patches, or to a pc without a
\* place in s_pc_map, keeps the offset 0 and falls through.
Patched(x86, map, code) ==
  LET nth(n) == Cardinality({m \in 1 .. n : IsJump(x86[m])})
      known(t) == t \in 0 .. Len(code) - 1 /\ CodeLen(SubSeq(code, 1, t)) < MAX_PC_MAP
      to(n, t) == IF nth(n) <= MAX_PATCHES /\ known(t) THEN map[t] ELSE n + 1
  IN  [n \in DOMAIN x86 |-> IF IsJump(x86[n]) THEN [x86[n] EXCEPT ![Len(x86[n])] = to(n, Target(x86[n]))] ELSE x86[n]]

Reserve_Tight(code) == 2 * CodeLen(code)

Reserve(code) == 32 + 12 * CodeLen(code)

\* EMIT1 drops what does not fit: so many instructions are there in n bytes.
Fitting(x86, n) == Cardinality({i \in DOMAIN x86 : X86Len(SubSeq(x86, 1, i)) <= n})

NotCompiled == [made |-> FALSE, x86 |-> <<>>]

jit_compile(code, used) ==
  LET Kept(x86) == SubSeq(Patched(x86, PcMap(code), code), 1, Fitting(x86, JIT_SIZE - used))
  IN  IF ~jit_can_compile(code) \/ used + Reserve(code) > JIT_SIZE THEN NotCompiled
      ELSE [made |-> TRUE, x86 |-> Kept(Translate(code))]

-----------------------------------------------------------------------------
\* The machine.  What lies behind the end of the code, outside the locals or
\* below the operand stack is not known: touching it is a fault.
X86Start(args) ==
  [ip |-> 1, eax |-> 0, ecx |-> 0, edx |-> 0, flags |-> <<0, 0>>, st |-> <<>>, end |-> "run",
   mem |-> [i \in 0 .. MAX_LOCALS - 1 |-> IF i < Len(args) THEN args[i + 1] ELSE 0]]

X86Step(x86, x) ==
  LET i == x86[x.ip]
      top == x.st[Len(x.st)]
      Reg(r) == IF r = "eax" THEN x.eax ELSE IF r = "ecx" THEN x.ecx ELSE x.edx
      Go == [x EXCEPT !.ip = @ + 1]
      Push(n) == [Go EXCEPT !.st = Append(@, n)]
      Top(n) == [Go EXCEPT !.st[Len(x.st)] = n]
      less == SubSeq(x.st, 1, Len(x.st) - 1)
      Fault == [x EXCEPT !.end = "fault"]
  IN  IF \/ i[1] \in {"pop", "alu_top", "neg_top", "push_top"} /\ x.st = <<>>
         \/ i[1] \in {"push_local", "mov_local", "add_local"} /\ i[2] \notin 0 .. MAX_LOCALS - 1
         \/ i[1] = "cdq_idiv" /\ Traps(x.eax, x.ecx)
      THEN Fault
      ELSE CASE i[1] = "enter" -> Go
             [] i[1] = "push_imm" -> Push(i[2])
             [] i[1] = "push_local" -> Push(x.mem[i[2]])
             [] i[1] = "mov_local" -> [Go EXCEPT !.mem[i[2]] = x.eax]
             [] i[1] = "add_local" -> [Go EXCEPT !.mem[i[2]] = Calc("add", @, i[3])]
             [] i[1] = "push" -> Push(Reg(i[2]))
             [] i[1] = "pop" -> IF i[2] = "eax" THEN [Go EXCEPT !.eax = top, !.st = less]
                                                ELSE [Go EXCEPT !.ecx = top, !.st = less]
             [] i[1] = "push_top" -> Push(top)
             [] i[1] = "alu_top" -> Top(Calc(i[2], top, Reg(i[3])))
             [] i[1] = "neg_top" -> Top(Wrap(-top))
             [] i[1] = "alu" -> [Go EXCEPT !.eax = Calc(i[2], x.eax, x.ecx)]
             [] i[1] = "cdq_idiv" -> [Go EXCEPT !.eax = Quot(x.eax, x.ecx), !.edx = Rem(x.eax, x.ecx)]
             [] i[1] = "test" -> [Go EXCEPT !.flags = <<x.eax, 0>>]
             [] i[1] = "cmp" -> [Go EXCEPT !.flags = <<x.eax, x.ecx>>]
             [] i[1] = "jcc" -> IF Test(i[2], x.flags[1], x.flags[2]) THEN [x EXCEPT !.ip = i[3]] ELSE Go
             [] i[1] = "jmp" -> [x EXCEPT !.ip = i[2]]
             [] i[1] = "xor_eax" -> [Go EXCEPT !.eax = 0]
             [] OTHER -> [x EXCEPT !.end = "ret"]

\* [end, eax]: the native function runs on a copy of the arguments.
jit_call(x86, args) ==
  LET run[n \in 0 .. FUEL] ==
        IF n = 0 THEN X86Start(args)
        ELSE LET x == run[n - 1] IN
             IF x.end # "run" THEN x
             ELSE IF x.ip \notin DOMAIN x86 THEN [x EXCEPT !.end = "fault"] ELSE X86Step(x86, x)
  IN  run[FUEL]

=============================================================================

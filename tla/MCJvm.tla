------------------------------- MODULE MCJvm -------------------------------
(***************************************************************************)
(* Programs for Jvm.  Each method of a family is called three times with   *)
(* the same arguments by a main of its own, so that the third call is      *)
(* compiled; the other programs use objects, natives, class initialisers   *)
(* that name each other, and the launcher's failures.                      *)
(***************************************************************************)
EXTENDS Jvm

I(op, a) == [op |-> op, a |-> a]
O(op) == I(op, 0)
L(n) == I("iload", n)
C(n) == I("const", n)
D(n, ret) == [params |-> n, ret |-> ret]
Call(cls, name, n, ret) == I("invoke", [cls |-> cls, name |-> name, desc |-> D(n, ret), static |-> TRUE])
On(cls, name, n, ret) == I("invoke", [cls |-> cls, name |-> name, desc |-> D(n, ret), static |-> FALSE])
NewOf(cls) == I("new", [cls |-> cls])
At_(op, cls, name) == I(op, [cls |-> cls, name |-> name])
M(name, n, ret, code) == [name |-> name, desc |-> D(n, ret), code |-> code]
ClassFile(name, fields, methods) == [kind |-> "class", name |-> name, fields |-> fields, methods |-> methods]

\* Bodies of int f(int, int).
Bodies ==
  [op \in Binary |-> <<L(0), L(1), O(op), O("ireturn")>>] @@
  [cc \in {"eq", "ne", "lt", "ge", "gt", "le"} |->
     <<L(0), I("if", <<4, cc>>), L(1), O("ireturn"), L(0), L(1), I("if_icmp", <<9, cc>>), C(1), O("ireturn"), C(-1), O("ireturn")>>] @@
  ("neg" :> <<L(0), O("neg"), O("nop"), O("ireturn")>>) @@
  ("swap" :> <<L(0), L(1), O("swap"), O("sub"), O("dup"), O("add"), C(7), O("pop"), O("ireturn")>>) @@
  \* while (a > 0) { b += a; a -= 1; } return b
  ("loop" :> <<L(0), I("if", <<8, "le">>), L(1), L(0), O("add"), I("istore", 1), I("iinc", <<0, -1>>), I("goto", 0), L(1), O("ireturn")>>)
Args == {<<a, b>> : a \in {-128, -1, 3}, b \in {-1, 0, 127}} \cup {<<0, -128>>}
Tests == {<<n, a>> : n \in DOMAIN Bodies, a \in Args}

Three(a, name) ==
  LET one == <<C(a[1]), C(a[2]), Call("T", name, 2, "I"), O("pop")>> IN one \o one \o one \o <<O("return")>>
TestFile(t) == ClassFile("T", <<>>, <<M("main", 1, "V", Three(t[2], "f")), M("f", 2, "I", Bodies[t[1]])>>)

\* Methods that get hot one after the other until the code buffer is full.
Long == <<L(0), L(1), O("add"), L(0), O("add"), L(1), O("add"), O("neg"), O("ireturn")>>
Hot == <<"f", "g", "h", "i", "j", "k">>
HotFile ==
  LET calls[n \in 0 .. Len(Hot)] ==
        IF n = 0 THEN <<>> ELSE calls[n - 1] \o SubSeq(Three(<<2, n>>, Hot[n]), 1, 12)
  IN  ClassFile("T", <<>>, <<M("main", 1, "V", Append(calls[Len(Hot)], O("return")))>>
                           \o [n \in DOMAIN Hot |-> M(Hot[n], 2, "I", Long)])

\* Objects, arrays, strings and natives.
ObjectsFile == ClassFile("T", <<"s">>, <<M("main", 1, "V", <<
  NewOf("P"), O("dup"), C(3), On("P", "<init>", 1, "V"), I("astore", 1),
  I("aload", 1), At_("getfield", "P", "x"), At_("putstatic", "T", "s"),
  I("aload", 1), I("aload", 1), I("if_acmp", <<13, "ne">>), At_("getstatic", "T", "s"), O("pop"),
  I("aload", 1), O("instanceof"), I("if", <<99, "eq">>),
  C(2), O("newarray"), I("astore", 2), I("aload", 2), C(1), C(5), O("iastore"),
  I("aload", 2), C(1), O("iaload"), I("aload", 2), O("arraylength"), O("cmp"), O("pop"),
  C(2), C(1), I("multianewarray", 2), O("dup"), C(0), O("aconst_null"), O("aastore"), C(0), O("aaload"), I("ifnull", 41), O("nop"),
  C(1), O("anewarray"), O("checkcast"), I("ifnonnull", 45), I("wide_iinc", <<3, 1>>),
  NewOf("java/lang/StringBuilder"), O("dup"), On("java/lang/StringBuilder", "<init>", 0, "V"), C(-12),
  On("java/lang/StringBuilder", "append", 1, "L"), I("ldc", [kind |-> "string", val |-> <<7>>]),
  On("java/lang/StringBuilder", "append", 1, "L"), On("java/lang/StringBuilder", "toString", 0, "L"), I("astore", 2),
  At_("getstatic", "java/lang/System", "out"), I("aload", 2), On("java/io/PrintStream", "println", 1, "V"),
  I("aload", 2), Call("java/lang/Integer", "parseInt", 1, "I"), C(4), Call("java/lang/Math", "max", 2, "I"),
  I("switch", [to |-> 4 :> 64 @@ 5 :> 64, dflt |-> 63]), O("bad"),
  O("return")>>)>>)
PointFile == ClassFile("P", <<"x">>, <<M("<init>", 1, "V", <<I("aload", 0), On("java/lang/Object", "<init>", 0, "V"),
  I("aload", 0), L(1), At_("putfield", "P", "x"), O("return")>>)>>)

\* Class initialisers that need each other, a class that is missing, a method
\* that is missing, a recursion.
InitFile == ClassFile("T", <<>>, <<M("main", 1, "V", <<At_("getstatic", "A", "x"), At_("getstatic", "B", "y"), O("dup_x1"),
  O("pop2"), At_("putstatic", "A", "x"), Call("Nowhere", "f", 0, "I"), O("pop"), Call("A", "g", 0, "I"), O("pop"),
  NewOf("Nowhere"), O("pop"), C(3), Call("T", "down", 1, "I"), Call("java/lang/Other", "f", 1, "V"), At_("getstatic", "B", "z"), O("dup"),
  O("dup2"), O("dup_x2"), O("pop2"), O("pop2"), O("pop"), O("return")>>),
  M("down", 1, "I", <<L(0), I("if", <<7, "le">>), L(0), C(1), O("sub"), Call("T", "down", 1, "I"), O("ireturn"), L(0), O("ireturn")>>)>>)
AFile == ClassFile("A", <<"x">>, <<M("<clinit>", 0, "V", <<C(1), At_("putstatic", "A", "x"), At_("getstatic", "B", "y"), At_("putstatic", "A", "x"), O("return")>>)>>)
BFile == ClassFile("B", <<"y">>, <<M("<clinit>", 0, "V", <<At_("getstatic", "A", "x"), At_("putstatic", "B", "y"), O("return")>>)>>)

\* The rest of the natives, one after the other.
Then(nat) == nat \o <<O("pop")>>
Str(s) == I("ldc", [kind |-> "string", val |-> s])
NativesFile == ClassFile("T", <<>>, <<M("main", 1, "V",
  Then(<<Str(<<1, 2>>), C(0), C(1), On("java/lang/String", "substring", 2, "L"), Str(<<3>>), On("java/lang/String", "concat", 1, "L"),
         C(1), On("java/lang/String", "charAt", 1, "I")>>)
  \o Then(<<Str(<<1>>), Str(<<1>>), On("java/lang/String", "equals", 1, "Z")>>)
  \o Then(<<C(-128), Call("java/lang/Math", "abs", 1, "I"), Call("java/lang/String", "valueOf", 1, "L"), On("java/lang/String", "length", 0, "I")>>)
  \o <<C(3), O("newarray"), I("astore", 1), I("aload", 1), C(0), I("aload", 1), C(1), C(2), Call("java/lang/System", "arraycopy", 5, "V")>>
  \o Then(<<Str(<<1>>), Call("java/net/InetAddress", "getByName", 1, "L"), On("java/net/InetAddress", "getHostAddress", 0, "L")>>)
  \o <<NewOf("java/net/Socket"), O("dup"), Str(<<1>>), C(80), On("java/net/Socket", "<init>", 2, "V"), I("astore", 1)>>
  \o Then(<<I("aload", 1), On("java/net/Socket", "getInputStream", 0, "L"), On("java/io/InputStream", "read", 0, "I")>>)
  \o <<NewOf("java/io/BufferedReader"), O("dup"), O("aconst_null"), On("java/io/BufferedReader", "<init>", 1, "V"), I("astore", 2)>>
  \o Then(<<I("aload", 2), On("java/io/BufferedReader", "readLine", 0, "L")>>)
  \o <<I("aload", 1), On("java/net/Socket", "close", 0, "V"), NewOf("java/io/PrintWriter"), O("dup"), O("aconst_null"),
       On("java/io/PrintWriter", "<init>", 1, "V"), C(1), On("java/io/PrintWriter", "println", 1, "V"),
       NewOf("java/net/ServerSocket"), O("dup"), C(80), On("java/net/ServerSocket", "<init>", 1, "V"), On("java/net/ServerSocket", "accept", 0, "L"),
       On("java/lang/Object", "toString", 0, "L"), O("pop"), C(0), Call("java/lang/System", "exit", 1, "V"), O("return")>>)>>)

\* Opcodes left, a subroutine, code without a return; a full heap and a full stack.
RestFile == ClassFile("T", <<>>, <<M("main", 1, "V", <<C(100), O("i2b"), O("i2c"), O("i2s"), O("conv"), O("lneg"), C(1), I("larith", "add"),
  I("wide_store", 1), I("wide_load", 1), I("istore", 1), I("ldc2_w", 0), I("ldc", [kind |-> "int", val |-> 9]),
  I("ldc", [kind |-> "other", val |-> 0]), O("laload"), O("neg"), O("pop"), O("aconst_null"), C(0), C(0), O("lastore"), I("jsr", 23), I("goto_w", 25),
  I("astore", 2), I("ret", 2)>>)>>)
HeapFile == ClassFile("T", <<>>, <<M("main", 1, "V", <<C(120), O("newarray"), O("pop"), C(100), O("newarray"), O("dup"), O("arraylength"), O("pop"),
  NewOf("java/lang/StringBuilder"), O("pop"), C(0), C(1), O("iastore"), O("return")>>)>>)
StackFile == ClassFile("T", <<>>, <<M("main", 1, "V", [i \in 1 .. 9 |-> C(i)])>>)

\* A block that is synchronised.
SyncFile == ClassFile("T", <<>>, <<M("main", 1, "V", <<O("aconst_null"), O("monitor"), O("return")>>)>>)

Named == {"hot", "objects", "P", "init", "A", "B", "natives", "rest", "heap", "stack", "nomain", "bad", "big", "athrow", "negative"}
Key(k) == <<k, <<>>>>
FileNamed(k) ==
  CASE k = "hot" -> HotFile [] k = "objects" -> ObjectsFile [] k = "P" -> PointFile [] k = "init" -> InitFile
    [] k = "A" -> AFile [] k = "B" -> BFile [] k = "natives" -> NativesFile [] k = "rest" -> RestFile
    [] k = "heap" -> HeapFile [] k = "stack" -> StackFile [] k = "nomain" -> ClassFile("T", <<>>, <<>>)
    [] k = "athrow" -> ClassFile("T", <<>>, <<M("main", 1, "V", <<I("aload", 0), O("athrow")>>)>>)
    [] k = "negative" -> ClassFile("T", <<>>, <<M("main", 1, "V", <<C(-1), O("newarray"), O("pop"), O("return")>>)>>)
    [] OTHER -> [kind |-> k, name |-> "T", fields |-> <<>>, methods |-> <<>>]
JvmFiles == [f \in Tests \cup {Key(k) : k \in Named} |-> IF f[2] # <<>> THEN TestFile(f) ELSE FileNamed(f[1])]
JvmDisk == [n \in {"T", "A", "B", "P", "Nowhere"} |-> Key(n)]
JvmLaunches ==
  [how : {"class"}, main : DOMAIN JvmFiles \cup {Key("gone")}, args : {<<>>}]
  \cup [how : {"class"}, main : {Key("objects")}, args : {<<<<1>>, <<2>>>>}]
  \cup {[how |-> "jar", jar |-> [manifest |-> b, stored |-> c, file |-> Key(f)], args |-> <<>>] : b, c \in BOOLEAN, f \in {"init", "big"}}
  \cup {[how |-> "list"]}
SyncFiles == [f \in {Key("sync")} |-> SyncFile]
SyncLaunches == {[how |-> "class", main |-> Key("sync"), args |-> <<>>]}

=============================================================================

-------------------------------- MODULE Jvm --------------------------------
(***************************************************************************)
(* ParinOS's Java virtual machine (user/jvm/src): loading of classes       *)
(* (classfile.c, jar.c), the interpreter (interp.c) with its natives and   *)
(* its compiler, and the launcher (main.c).                                *)
(*                                                                         *)
(* An instruction is [op, a]: opcodes that do the same are one op, and     *)
(* operands that the class file keeps in its constant pool stand in a.     *)
(* Methods use fewer than MAX_LOCALS locals.  A class file that goes wrong *)
(* in the parser is "bad" when the parser notices and "big" when a table   *)
(* is longer than its array and the parser goes on at the wrong place.     *)
(* X_Y before X is a faulty variant of X.                                  *)
(***************************************************************************)
EXTENDS JvmNatives

CONSTANTS
  MAX_CLASSES, JIT_THRESHOLD,
  Files,      \* class files: [kind, name, fields, methods], a method being [name, desc, code]
  Disk,       \* the path, a key of Files if there is a file, of each class name
  Launches,   \* command lines: [how, main, args] or [how, jar, args]
  MaxFrames   \* bound

VARIABLES
  vm,         \* g_jvm: heap, obj, class (all that were made), loader, jit (bytes used)
  frames,     \* the C stack of interp_exec
  status,     \* "start", "running", or how the process ended
  results     \* history: what calls of compilable methods returned

vars == <<vm, frames, status, results>>

fr == frames[Len(frames)]
Method(f) == Files[vm.class[f.k].file].methods[f.m]
Code(f) == Method(f).code
Running == status = "running"
ins == Code(fr)[fr.pc + 1]
At(ops) == Running /\ fr.pc \in 0 .. Len(Code(fr)) - 1 /\ ins.op \in ops

NewFrame(k, m, args, void) ==
  [k |-> k, m |-> m, pc |-> 0, stack |-> <<>>, void |-> void, args |-> args, resolved |-> -1,
   locals |-> [i \in 0 .. MAX_LOCALS - 1 |-> IF i < Len(args) THEN args[i + 1] ELSE JInt(0)]]

\* A stack that outgrows its frame ends the program.
Stop(how) == status' = how /\ UNCHANGED <<vm, frames, results>>
Continue(v, f) ==
  IF Len(f.stack) > MAX_STACK THEN Stop("aborted")
  ELSE vm' = v /\ frames' = [frames EXCEPT ![Len(frames)] = f] /\ UNCHANGED <<status, results>>
\* The instruction takes n values, leaves more and is done.
Leaving(n, more) == [fr EXCEPT !.pc = @ + 1, !.stack = Drop(@, n) \o more, !.resolved = -1]
Leaves(n, more) == Continue(vm, Leaving(n, more))
LeavesNew(n, r) == Continue(r.v, Leaving(n, <<JRef(r.ref)>>))
Jumps(n, cond, target) == Continue(vm, [Leaving(n, <<>>) EXCEPT !.pc = IF cond THEN target ELSE fr.pc + 1])
A == Nth(fr.stack, 1)     \* the operands of binary instructions
B == Nth(fr.stack, 0)

-----------------------------------------------------------------------------
\* Classes.
FileOf(v, k) == Files[v.class[k].file]
First(S) == CHOOSE i \in S : \A j \in S : i <= j
class_find_method(v, k, name, desc) ==
  LET ms == FileOf(v, k).methods
      same == {i \in DOMAIN ms : ms[i].name = name}
      exact == {i \in same : ms[i].desc = desc}
  IN  IF exact # {} THEN First(exact) ELSE IF same # {} THEN First(same) ELSE 0
class_find_field(v, k, name) ==
  LET fs == FileOf(v, k).fields
      same == {i \in DOMAIN fs : fs[i] = name}
  IN  IF same # {} THEN First(same) ELSE 0
classloader_find(v, name) ==
  LET same == {i \in DOMAIN v.loader : FileOf(v, v.loader[i]).name = name}
  IN  IF same # {} THEN v.loader[First(same)] ELSE 0

NewClass(f) ==
  [file |-> f, statics |-> [i \in DOMAIN Files[f].fields |-> JInt(0)],
   methods |-> [i \in DOMAIN Files[f].methods |-> [calls |-> 0, jit |-> NotCompiled]]]

Registered(v, f) ==
  [v EXCEPT !.class = Append(@, NewClass(f)),
            !.loader = IF Len(@) < MAX_CLASSES THEN Append(@, Len(v.class) + 1) ELSE @]

\* [kind, v]: the new class is the last one of v.
classfile_load(v, path) ==
  IF path \notin DOMAIN Files THEN [kind |-> "null", v |-> v]
  ELSE IF Files[path].kind = "bad" THEN [kind |-> "null", v |-> v]
  ELSE IF Files[path].kind = "big" THEN [kind |-> "fault", v |-> v]
  ELSE [kind |-> "class", v |-> Registered(v, path)]
\* Fields beyond the array are skipped, modern constants refused.
classfile_load_from_memory(v, f) ==
  IF Files[f].kind # "class" THEN [kind |-> "null", v |-> v] ELSE [kind |-> "class", v |-> Registered(v, f)]
\* The class of a jar entry, if it is stored uncompressed.
jar_load_class(v, jar) ==
  IF jar.stored THEN classfile_load_from_memory(v, jar.file) ELSE [kind |-> "null", v |-> v]

JavaClass(name) == name \in {"java/io/PrintStream", "java/lang/StringBuilder", "java/lang/String",
  "java/lang/Integer", "java/lang/Math", "java/lang/System", "java/lang/Object", "java/lang/Other",
  "java/net/InetAddress", "java/net/Socket", "java/net/ServerSocket", "java/io/InputStream",
  "java/io/OutputStream", "java/io/BufferedReader", "java/io/PrintWriter"}

-----------------------------------------------------------------------------
\* Calls.  f is the caller's frame once it has given its arguments.
Ivals(args) == [i \in DOMAIN args |-> args[i].ival]
Result(v, k, m, args, end, val) == [m |-> <<v.class[k].file, m>>, args |-> Ivals(args), end |-> end, val |-> val]
Receives(f, void, val) == IF ~void /\ Len(f.stack) < MAX_STACK THEN [f EXCEPT !.stack = Append(@, val)] ELSE f

JitRun(v, k, m, args, x86, void, f, callers) ==
  LET Ended(r) ==
        /\ vm' = v
        /\ frames' = IF f = <<>> THEN callers ELSE Append(callers, Receives(f[1], void, JInt(r.eax)))
        /\ status' = IF r.end = "run" THEN "hang" ELSE IF r.end = "fault" THEN "fault"
                     ELSE IF f = <<>> THEN "exit" ELSE "running"
        /\ results' = results \cup {Result(v, k, m, args, r.end, r.eax)}
  IN  Ended(jit_call(x86, Ivals(args)))

\* f is <<>> or <<frame>>; frames are callers \o f.
interp_exec(v, k, m, args, void, f, callers) ==
  LET code == FileOf(v, k).methods[m].code
      calls == Lesser(v.class[k].methods[m].calls + 1, JIT_THRESHOLD)
      old == v.class[k].methods[m].jit
      Counted(jit) == [v EXCEPT !.class[k].methods[m] = [calls |-> calls, jit |-> jit]]
      Compiled(jit) ==
        IF jit.made THEN JitRun([Counted(jit) EXCEPT !.jit = @ + IF old.made THEN 0 ELSE X86Len(jit.x86)],
                                k, m, args, jit.x86, void, f, callers)
        ELSE /\ vm' = Counted(jit)
             /\ frames' = callers \o f \o <<NewFrame(k, m, args, void)>>
             /\ status' = "running"
             /\ UNCHANGED results
  IN  /\ Len(callers) + Len(f) < MaxFrames
      /\ Compiled(IF old.made THEN old ELSE IF calls >= JIT_THRESHOLD THEN jit_compile(code, v.jit) ELSE NotCompiled)

Callers == SubSeq(frames, 1, Len(frames) - 1)

-----------------------------------------------------------------------------
\* The launcher.
EmptyVm == [heap |-> 0, obj |-> <<>>, class |-> <<>>, loader |-> <<>>, jit |-> 0]
heap_init == OneBlock(EmptyVm, [type |-> "printstream"]).v
system_out == 1

\* The array of arguments, then its strings.
ArgArray(v, args) ==
  LET Filled(r) ==
        LET add[n \in 0 .. Len(args)] ==
              IF n = 0 THEN r.v
              ELSE LET s == obj_string(add[n - 1], args[n])
                   IN  IF r.ref # 0 /\ n \in DOMAIN s.v.obj[r.ref].data
                       THEN [s.v EXCEPT !.obj[r.ref].data[n] = s.ref] ELSE s.v
        IN  [v |-> add[Len(args)], ref |-> r.ref]
  IN  Filled(obj_array_ref(v, Len(args)))

MainDesc == [params |-> 1, ret |-> "V"]
RunMain(load, args) ==
  LET k == Len(load.v.class)
      m == class_find_method(load.v, k, "main", MainDesc)
      Go(r) == interp_exec(r.v, k, m, <<JRef(r.ref)>>, TRUE, <<>>, <<>>)
  IN  IF load.kind = "null" THEN Stop("exit")
      ELSE IF load.kind = "fault" THEN Stop("fault")
      ELSE IF m = 0 THEN Stop("exit")
      ELSE IF FileOf(load.v, k).methods[m].code = <<>> THEN Stop("exit")
      ELSE Go(ArgArray(load.v, args))

\* Each launcher loads the class whose main is run; jar_read_main_class needs
\* a manifest that is stored and names a class, and a listing runs nothing.
main(l) == classfile_load(heap_init, l.main)
run_jar(l) == IF l.jar.manifest THEN jar_load_class(heap_init, l.jar) ELSE [kind |-> "null", v |-> heap_init]
Start(l) ==
  /\ status = "start"
  /\ RunMain(IF l.how = "class" THEN main(l) ELSE IF l.how = "jar" THEN run_jar(l)
             ELSE [kind |-> "null", v |-> heap_init], l.args)

-----------------------------------------------------------------------------
\* Instructions that only work on the frame and the heap.
Constants ==
  /\ At({"nop", "const", "aconst_null", "ldc", "ldc2_w"})
  /\ CASE ins.op = "nop" -> Leaves(0, <<>>)
       [] ins.op = "const" -> Leaves(0, <<JInt(ins.a)>>)
       [] ins.op = "aconst_null" -> Leaves(0, <<JRef(0)>>)
       [] ins.op = "ldc" -> IF ins.a.kind = "int" THEN Leaves(0, <<JInt(ins.a.val)>>)
                            ELSE IF ins.a.kind = "string" THEN LeavesNew(0, obj_string(vm, ins.a.val))
                            ELSE Leaves(0, <<JInt(0)>>)
       [] OTHER -> Leaves(0, <<JInt(0)>>)

Loads == At({"iload", "aload", "wide_load"}) /\ Leaves(0, <<fr.locals[ins.a]>>)
Stores == /\ At({"istore", "astore", "wide_store"})
          /\ Continue(vm, [Leaving(1, <<>>) EXCEPT !.locals[ins.a] = B])
Iinc == /\ At({"iinc", "wide_iinc"})
        /\ Continue(vm, [Leaving(0, <<>>) EXCEPT !.locals[ins.a[1]].ival = Calc("add", @, ins.a[2])])

\* Arrays.  An index in range of an array whose block is missing is a fault.
InRange(p, type, i) == Is(vm, p, type) /\ i.ival \in 0 .. vm.obj[p].len - 1
Missing(p) == vm.obj[p].data = <<>>
ArrayLoads ==
  /\ At({"iaload", "aaload", "laload"})
  /\ CASE ins.op = "iaload" ->
            IF ~InRange(A.ref, "ints", B) THEN Leaves(2, <<JInt(0)>>)
            ELSE IF Missing(A.ref) THEN Stop("fault")
            ELSE Leaves(2, <<JInt(vm.obj[A.ref].data[B.ival + 1])>>)
       [] ins.op = "aaload" ->
            IF ~InRange(A.ref, "refs", B) THEN Leaves(2, <<JRef(0)>>)
            ELSE IF Missing(A.ref) THEN Stop("fault")
            ELSE Leaves(2, <<JRef(vm.obj[A.ref].data[B.ival + 1])>>)
       [] OTHER -> Leaves(2, <<JInt(0)>>)
ArrayStores ==
  LET arr == Nth(fr.stack, 2).ref
      Into(type, val) ==
        IF ~InRange(arr, type, A) THEN Leaves(3, <<>>)
        ELSE IF Missing(arr) THEN Stop("fault")
        ELSE Continue([vm EXCEPT !.obj[arr].data[A.ival + 1] = val], Leaving(3, <<>>))
  IN  /\ At({"iastore", "aastore", "lastore"})
      /\ CASE ins.op = "iastore" -> Into("ints", B.ival)
           [] ins.op = "aastore" -> Into("refs", B.ref)
           [] OTHER -> Leaves(3, <<>>)

\* PEEK of an empty stack is the last local.
Peek == IF fr.stack = <<>> THEN fr.locals[MAX_LOCALS - 1] ELSE B
dup_x1_Lost == <<A, B>>

dup_x1 == <<B, A, B>>
StackOps ==
  /\ At({"pop", "pop2", "dup", "dup_x1", "dup_x2", "dup2", "dup2_x", "swap"})
  /\ CASE ins.op = "pop" -> Leaves(1, <<>>)
       [] ins.op = "pop2" -> Leaves(2, <<>>)
       [] ins.op \in {"dup", "dup2_x"} -> Leaves(0, <<Peek>>)
       [] ins.op = "dup_x1" -> Leaves(2, dup_x1)
       [] ins.op = "dup_x2" -> Leaves(3, <<B, Nth(fr.stack, 2), A, B>>)
       [] ins.op = "dup2" -> Leaves(2, <<A, B, A, B>>)
       [] OTHER -> Leaves(2, <<B, A>>)

\* long, float and double have opcodes of their own, which count as ints.
Arithmetic ==
  LET op == IF ins.op = "larith" THEN ins.a ELSE ins.op
  IN  /\ At(Binary \cup {"neg", "lneg", "larith"})
      /\ IF op \in {"neg", "lneg"} THEN Leaves(1, <<JInt(Wrap(-B.ival))>>)
         ELSE IF op \in {"div", "rem"} /\ B.ival = 0 THEN Stop("aborted")
         ELSE IF op \in {"div", "rem"} /\ Traps(A.ival, B.ival) THEN Stop("fault")
         ELSE Leaves(2, <<JInt(Calc(op, A.ival, B.ival))>>)

Low(n, bits) == n % 2^bits
Signed(n, bits) == IF Low(n, bits) >= 2^(bits - 1) THEN Low(n, bits) - 2^bits ELSE Low(n, bits)
Conversions ==
  /\ At({"conv", "i2b", "i2c", "i2s"})
  /\ CASE ins.op = "conv" -> Leaves(0, <<>>)
       [] ins.op = "i2b" -> Leaves(1, <<JInt(Signed(B.ival, W \div 4))>>)
       [] ins.op = "i2c" -> Leaves(1, <<JInt(Low(B.ival, W \div 2))>>)
       [] OTHER -> Leaves(1, <<JInt(Signed(B.ival, W \div 2))>>)
Comparisons ==
  /\ At({"cmp"})
  /\ Leaves(2, <<JInt(IF A.ival < B.ival THEN -1 ELSE IF A.ival > B.ival THEN 1 ELSE 0)>>)

IsNull(x) == x.tag = "ref" /\ x.ref = 0
Branches ==
  /\ At({"if", "if_icmp", "if_acmp", "goto", "goto_w", "jsr", "ret", "ifnull", "ifnonnull"})
  /\ CASE ins.op = "if" -> Jumps(1, Test(ins.a[2], B.ival, 0), ins.a[1])
       [] ins.op = "if_icmp" -> Jumps(2, Test(ins.a[2], A.ival, B.ival), ins.a[1])
       [] ins.op = "if_acmp" -> Jumps(2, Test(ins.a[2], A.ref, B.ref), ins.a[1])
       [] ins.op \in {"goto", "goto_w"} -> Jumps(0, TRUE, ins.a)
       [] ins.op = "jsr" -> Continue(vm, [Leaving(0, <<JInt(fr.pc + 1)>>) EXCEPT !.pc = ins.a])
       [] ins.op = "ret" -> Jumps(0, TRUE, fr.locals[ins.a].ival)
       [] ins.op = "ifnull" -> Jumps(1, IsNull(B), ins.a)
       [] OTHER -> Jumps(1, ~IsNull(B), ins.a)
\* tableswitch and lookupswitch.
Switches == At({"switch"}) /\ Jumps(1, TRUE, IF B.ival \in DOMAIN ins.a.to THEN ins.a.to[B.ival] ELSE ins.a.dflt)

-----------------------------------------------------------------------------
\* Returns, to the caller or from main.
Returned(val) ==
  LET caller == frames[Len(frames) - 1]
      below == SubSeq(frames, 1, Len(frames) - 2)
  IN  /\ results' = IF jit_can_compile(Code(fr))
                    THEN results \cup {Result(vm, fr.k, fr.m, fr.args, "ret", val.ival)} ELSE results
      /\ frames' = IF Len(frames) = 1 THEN <<>> ELSE Append(below, Receives(caller, fr.void, val))
      /\ status' = IF Len(frames) = 1 THEN "exit" ELSE "running"
      /\ UNCHANGED vm
Returns_ == At({"ireturn", "xreturn", "return"}) /\ Returned(IF ins.op = "return" THEN JInt(0) ELSE B)
\* Code without a return at its end.
FallsOff == Running /\ fr.pc >= Len(Code(fr)) /\ Returned(JInt(0))

-----------------------------------------------------------------------------
\* Instructions that name a class.
SystemOut == ins.a.cls = "java/lang/System" /\ ins.a.name \in {"out", "err"}
Native == native_invoke(vm, ins.a.cls, ins.a.name, fr.stack)
NoNative == -2     \* as fr.resolved: native_invoke knows no such method
NeedsClass ==
  \/ At({"getstatic"}) /\ ~SystemOut
  \/ At({"putstatic"})
  \/ At({"invoke"}) /\ fr.resolved = NoNative
  \/ At({"new"}) /\ ins.a.cls # "java/lang/StringBuilder"
Known == classloader_find(vm, ins.a.cls)
\* The class pointer is there: NULL, an old class, or the one just loaded.
Resolved == fr.resolved >= 0 \/ Known # 0 \/ JavaClass(ins.a.cls)
Klass == IF fr.resolved >= 0 THEN fr.resolved ELSE Known

\* A class that is not there yet is loaded, and its initialiser runs in a frame
\* of its own before the instruction goes on.
classloader_resolve ==
  LET Loaded(l) ==
        LET k == Len(l.v.class)
            f == [fr EXCEPT !.resolved = k]
            m == class_find_method(l.v, k, "<clinit>", [params |-> 0, ret |-> "V"])
        IN  IF l.kind = "null" THEN Continue(vm, [fr EXCEPT !.resolved = 0])
            ELSE IF l.kind = "fault" THEN Stop("fault")
            ELSE IF m = 0 THEN Continue(l.v, f)
            ELSE interp_exec(l.v, k, m, <<>>, TRUE, <<f>>, Callers)
  IN  NeedsClass /\ ~Resolved /\ Loaded(classfile_load(vm, Disk[ins.a.cls]))

GetStatic ==
  LET Value(k, i) == IF i = 0 THEN JInt(0) ELSE vm.class[k].statics[i]
      From(k) == IF k = 0 THEN JInt(0) ELSE Value(k, class_find_field(vm, k, ins.a.name))
  IN  /\ At({"getstatic"})
      /\ \/ SystemOut /\ Leaves(0, <<JRef(system_out)>>)
         \/ ~SystemOut /\ Resolved /\ Leaves(0, <<From(Klass)>>)
PutStatic ==
  LET Set(k, i) == IF i = 0 THEN vm ELSE [vm EXCEPT !.class[k].statics[i] = B]
      In(k) == IF k = 0 THEN vm ELSE Set(k, class_find_field(vm, k, ins.a.name))
  IN  At({"putstatic"}) /\ Resolved /\ Continue(In(Klass), Leaving(1, <<>>))

\* Fields are searched by name in the class of the object.
FieldOf(p) == IF Is(vm, p, "instance") THEN class_find_field(vm, vm.obj[p].klass, ins.a.name) ELSE 0
GetField ==
  LET Value(p, i) == IF i # 0 /\ i \in DOMAIN vm.obj[p].fields THEN vm.obj[p].fields[i] ELSE JInt(0)
      Of(p) == Value(p, FieldOf(p))
  IN  At({"getfield"}) /\ Leaves(1, <<Of(B.ref)>>)
PutField ==
  LET Set(p, i) == IF i # 0 /\ i \in DOMAIN vm.obj[p].fields THEN [vm EXCEPT !.obj[p].fields[i] = B] ELSE vm
      Of(p) == Set(p, FieldOf(p))
  IN  At({"putfield"}) /\ Continue(Of(A.ref), Leaving(2, <<>>))

\* A call is first tried as a native; natives push without looking at the limit.
InvokeNative ==
  LET Did(r) == IF ~r.done THEN Continue(vm, [fr EXCEPT !.resolved = NoNative])
                ELSE IF r.end # "run" THEN Stop(r.end)
                ELSE IF Len(r.stack) > MAX_STACK THEN Stop("fault")
                ELSE Continue(r.v, [fr EXCEPT !.pc = @ + 1, !.stack = r.stack])
  IN  At({"invoke"}) /\ fr.resolved = -1 /\ Did(Native)

count_args(desc, static) == desc.params + (IF static THEN 0 ELSE 1)
do_invoke ==
  LET void == ins.a.desc.ret = "V"
      Args(n) == SubSeq(fr.stack, Len(fr.stack) - n + 1, Lesser(Len(fr.stack), Len(fr.stack) - n + MAX_LOCALS))
      Find(k) == IF k = 0 THEN 0 ELSE class_find_method(vm, k, ins.a.name, ins.a.desc)
      Call(k, m, n, f) ==
        IF (IF m = 0 THEN TRUE ELSE FileOf(vm, k).methods[m].code = <<>>)
        THEN Continue(vm, Receives(f, void, JInt(0)))
        ELSE interp_exec(vm, k, m, Args(n), void, <<f>>, Callers)
      Of(k, n) == Call(k, Find(k), n, Leaving(n, <<>>))
  IN  /\ At({"invoke"}) /\ fr.resolved # -1 /\ Resolved
      /\ Of(Klass, Lesser(count_args(ins.a.desc, ins.a.static), Len(fr.stack)))

-----------------------------------------------------------------------------
\* Objects and the rest.
New ==
  /\ At({"new"})
  /\ \/ ins.a.cls = "java/lang/StringBuilder" /\ LeavesNew(0, obj_stringbld(vm))
     \/ /\ ins.a.cls # "java/lang/StringBuilder" /\ Resolved
        /\ IF Klass = 0 THEN Leaves(0, <<JRef(0)>>) ELSE LeavesNew(0, obj_instance(vm, Klass, Len(FileOf(vm, Klass).fields)))
\* A negative length moves the heap pointer back and clears what follows; of
\* several dimensions only the first is made.
NewArrays ==
  LET dims == IF ins.op = "multianewarray" THEN ins.a ELSE 1
      len == Nth(fr.stack, dims - 1).ival
  IN  /\ At({"newarray", "anewarray", "multianewarray"})
      /\ IF len < 0 THEN Stop("fault")
         ELSE LeavesNew(dims, IF ins.op = "newarray" THEN obj_array_int(vm, len) ELSE obj_array_ref(vm, len))

Length(p) == IF p = 0 THEN 0
             ELSE CASE vm.obj[p].type \in {"ints", "refs"} -> vm.obj[p].len
                    [] vm.obj[p].type = "string" -> Len(vm.obj[p].chars) [] OTHER -> 0
Misc ==
  /\ At({"arraylength", "instanceof", "checkcast", "monitor", "invokedynamic", "athrow", "bad"})
  /\ CASE ins.op = "arraylength" -> Leaves(1, <<JInt(Length(B.ref))>>)
       [] ins.op = "instanceof" -> Leaves(1, <<JInt(IF B.ref # 0 THEN 1 ELSE 0)>>)
       [] ins.op = "checkcast" -> Leaves(0, <<>>)
       [] ins.op = "monitor" -> Leaves(0, <<>>)
       [] ins.op = "invokedynamic" -> Leaves(0, <<>>)
       [] OTHER -> Stop("aborted")

Over == status \notin {"start", "running"} /\ UNCHANGED vars

Init == vm = EmptyVm /\ frames = <<>> /\ status = "start" /\ results = {}
\* The sections of interp_exec's switch.
LoadsStores == Constants \/ Loads \/ ArrayLoads \/ Stores \/ ArrayStores
Operations == StackOps \/ Arithmetic \/ Iinc \/ Conversions \/ Comparisons
Flow == Branches \/ Switches \/ Returns_ \/ FallsOff
Members == classloader_resolve \/ GetStatic \/ PutStatic \/ GetField \/ PutField \/ InvokeNative \/ do_invoke
Objects == New \/ NewArrays \/ Misc
Next ==
  \/ \E l \in Launches : Start(l)
  \/ LoadsStores \/ Operations \/ Flow \/ Members \/ Objects \/ Over
Spec == Init /\ [][Next]_vars

-----------------------------------------------------------------------------
(***************************************************************************)
(* A method returns the same for the same arguments whether it is          *)
(* interpreted or, from its JIT_THRESHOLD-th call on, compiled: what       *)
(* jit_compile emits, in the room that is left, computes what the switch   *)
(* of interp_exec computes, and no compiled call faults or runs on.        *)
(***************************************************************************)
JitAgrees == \A r, s \in results : r.m = s.m /\ r.args = s.args => r = s

\* What an instruction takes and leaves, as a compiler of Java counts it.
Effect(i) ==
  CASE i.op \in {"nop", "iinc", "wide_iinc", "conv", "checkcast", "goto", "goto_w", "ret", "return"} -> <<0, 0>>
    [] i.op \in {"const", "aconst_null", "ldc", "ldc2_w", "iload", "aload", "wide_load", "getstatic", "new", "jsr"} -> <<0, 1>>
    [] i.op \in {"istore", "astore", "wide_store", "pop", "if", "ifnull", "ifnonnull", "switch", "ireturn", "xreturn",
                 "putstatic", "athrow", "bad"} -> <<1, 0>>
    [] i.op \in {"neg", "lneg", "i2b", "i2c", "i2s", "getfield", "newarray", "anewarray", "arraylength", "instanceof"} -> <<1, 1>>
    [] i.op \in {"pop2", "if_icmp", "if_acmp", "putfield"} -> <<2, 0>>
    [] i.op \in {"iaload", "aaload", "laload", "cmp", "larith"} \cup Binary -> <<2, 1>>
    [] i.op \in {"iastore", "aastore", "lastore"} -> <<3, 0>>
    [] i.op = "monitor" -> <<1, 0>> [] i.op = "dup" -> <<1, 2>> [] i.op = "dup_x1" -> <<2, 3>>
    [] i.op = "dup_x2" -> <<3, 4>> [] i.op = "dup2" -> <<2, 4>> [] i.op = "swap" -> <<2, 2>>
    [] i.op = "dup2_x" -> <<3, 5>> [] i.op = "multianewarray" -> <<i.a, 1>>
    [] i.op = "invokedynamic" -> <<i.a, 1>>
    [] i.op = "invoke" -> <<count_args(i.a.desc, i.a.static), IF i.a.desc.ret = "V" THEN 0 ELSE 1>>
Successors(n, i) ==
  CASE i.op \in {"goto", "goto_w", "jsr"} -> {i.a}
    [] i.op \in {"if", "if_icmp", "if_acmp"} -> {i.a[1], n + 1}
    [] i.op \in {"ifnull", "ifnonnull"} -> {i.a, n + 1}
    [] i.op = "switch" -> {i.a.dflt} \cup {i.a.to[k] : k \in DOMAIN i.a.to}
    [] i.op = "ret" -> {n2 + 1 : n2 \in 0 .. n}
    [] i.op \in {"ireturn", "xreturn", "return", "athrow", "bad"} -> {}
    [] OTHER -> {n + 1}
\* The stack depths with which each pc can be reached.
DepthsOf(code) ==
  LET d[n \in 0 .. Len(code)] ==
        IF n = 0 THEN {<<0, 0>>}
        ELSE LET p == d[n - 1]
                 Steps(x) == LET i == code[x[1] + 1] IN {<<t, x[2] - Effect(i)[1] + Effect(i)[2]>> : t \in Successors(x[1], i)}
             IN  p \cup UNION {Steps(x) : x \in {y \in p : y[1] < Len(code)}}
  IN  d[Len(code)]
Depths == [f \in DOMAIN Files |-> [m \in DOMAIN Files[f].methods |-> DepthsOf(Files[f].methods[m].code)]]

(***************************************************************************)
(* Every instruction finds as many values on the operand stack as the      *)
(* compiler that made the class counted on: natives, calls, compiled code  *)
(* and class initialisers in between take and leave what their descriptors *)
(* say.  One value too few or too many and every later POP() is another    *)
(* value, without any error.                                               *)
(***************************************************************************)
StackAsVerified ==
  Running => <<fr.pc, Len(fr.stack)>> \in Depths[vm.class[fr.k].file][fr.m]

(***************************************************************************)
(* While the loader has room no class is loaded twice, also when classes   *)
(* name each other or themselves in their initialisers: a second load has  *)
(* statics of its own and runs <clinit> again.                             *)
(***************************************************************************)
LoadedOnce ==
  Len(vm.loader) < MAX_CLASSES =>
    \A i, j \in DOMAIN vm.class : vm.class[i].file = vm.class[j].file => i = j

\* What the interpreter relies on and never tests: the depth of the operand
\* stack at every instruction, and one class per file.
VmSound == StackAsVerified /\ LoadedOnce

=============================================================================

----------------------------- MODULE JvmNatives -----------------------------
(***************************************************************************)
(* Values, objects and library of ParinOS's JVM (user/jvm/src/heap.c and   *)
(* natives.c).  The heap only grows: objects are numbered in the order in  *)
(* which they were made, 0 is NULL.  A string is a sequence of characters, *)
(* digits being numbers and the minus sign -1.  What is printed and the    *)
(* contents of addresses are left out.                                     *)
(***************************************************************************)
EXTENDS Jit, TLC

CONSTANTS
  MAX_STACK,
  HEAP_SIZE,     \* bytes
  OBJ_BYTES,     \* sizeof(jobj_t)
  SB_CAP         \* characters a StringBuilder has room for, with the 0: 256

JInt(n) == [tag |-> "int", ival |-> n, ref |-> 0]
JRef(p) == [tag |-> "ref", ival |-> 0, ref |-> p]

Lesser(a, b) == IF a < b THEN a ELSE b
Greater(a, b) == IF a > b THEN a ELSE b

\* The value i below the top, and the stack without its n topmost values: an
\* empty stack delivers zeros.
Nth(s, i) == IF i < Len(s) THEN s[Len(s) - i] ELSE JInt(0)
Drop(s, n) == SubSeq(s, 1, Greater(0, Len(s) - n))

-----------------------------------------------------------------------------
\* Objects.  The allocator's answer is a machine and a reference.
heap_alloc(v, size) ==
  LET n == 4 * ((size + 3) \div 4)
  IN  IF v.heap + n > HEAP_SIZE THEN [v |-> v, ok |-> FALSE] ELSE [v |-> [v EXCEPT !.heap = @ + n], ok |-> TRUE]

\* A header, then a block of size bytes; mk(ok) is the object with or without it.
TwoBlocks(v, size, Mk(_)) ==
  LET Second(b) == [v |-> [b.v EXCEPT !.obj = Append(@, Mk(b.ok))], ref |-> Len(v.obj) + 1]
      First(a) == IF a.ok THEN Second(heap_alloc(a.v, size)) ELSE [v |-> a.v, ref |-> 0]
  IN  First(heap_alloc(v, OBJ_BYTES))
OneBlock(v, o) == TwoBlocks(v, 0, LAMBDA ok : o)

\* The one object that is given up when its second block is missing.
obj_string(v, chars) ==
  LET Mk(ok) == [type |-> IF ok THEN "string" ELSE "lost", chars |-> chars]
      Checked(r) == IF r.ref # 0 /\ r.v.obj[r.ref].type = "lost" THEN [r EXCEPT !.ref = 0] ELSE r
  IN  Checked(TwoBlocks(v, Len(chars) + 1, Mk))
obj_stringbld(v) == TwoBlocks(v, SB_CAP, LAMBDA ok : [type |-> "sbld", buf |-> ok, chars |-> <<>>])
\* An array without its block keeps its length.
obj_array(v, type, len, zero) ==
  TwoBlocks(v, 4 * len, LAMBDA ok : [type |-> type, len |-> len, data |-> [i \in 1 .. IF ok THEN len ELSE 0 |-> zero]])
obj_array_int(v, len) == obj_array(v, "ints", len, 0)
obj_array_ref(v, len) == obj_array(v, "refs", len, 0)
obj_instance(v, k, n) ==
  LET Mk(ok) == [type |-> "instance", klass |-> k, fields |-> [i \in 1 .. IF ok THEN n ELSE 0 |-> JInt(0)]]
  IN  TwoBlocks(v, 12 * n, Mk)

Is(v, p, type) == p # 0 /\ v.obj[p].type = type

-----------------------------------------------------------------------------
\* Decimal digits, and back.
int_to_str(n) ==
  LET u == IF n < 0 THEN -n ELSE n
      count == CHOOSE k \in 1 .. W : u < 10^k /\ (k = 1 \/ u >= 10^(k - 1))
      digits == [i \in 1 .. count |-> (u \div 10^(count - i)) % 10]
  IN  IF n < 0 THEN <<-1>> \o digits ELSE digits

atoi(s) ==
  LET start == IF s # <<>> /\ s[1] = -1 THEN 2 ELSE 1
      End(i) == CHOOSE e \in i .. Len(s) + 1 : /\ \A j \in i .. e - 1 : s[j] \in 0 .. 9
                                               /\ e = Len(s) + 1 \/ s[e] \notin 0 .. 9
      val[i \in 0 .. Len(s)] == IF i < start THEN 0 ELSE 10 * val[i - 1] + s[i]
  IN  IF s = <<>> THEN 0 ELSE Wrap(IF start = 2 THEN -val[End(2) - 1] ELSE val[End(1) - 1])

sbld_append_str(v, p, text) ==
  [v EXCEPT !.obj[p].chars = IF v.obj[p].buf
     THEN @ \o SubSeq(text, 1, Greater(0, Lesser(Len(text), SB_CAP - Len(@) - 1))) ELSE @]

-----------------------------------------------------------------------------
\* Natives work on the caller's stack.  They do not look at descriptors.
Done(v, s) == [done |-> TRUE, v |-> v, stack |-> s, end |-> "run"]
NotNative(v, s) == [Done(v, s) EXCEPT !.done = FALSE]
Ends(v, s, end) == [Done(v, s) EXCEPT !.end = end]
Returns(v, s, pops, val) == Done(v, Append(Drop(s, pops), val))
ReturnsNew(r, s, pops) == Returns(r.v, s, pops, JRef(r.ref))
\* A value instead, when fewer than n values are there.
Guarded(v, s, n, val, res) == IF Len(s) < n THEN Returns(v, s, 0, val) ELSE res
Pops(v, s, n) == Done(v, Drop(s, n))

PrintStream(v, name, s) ==
  CASE name \in {"println", "print"} -> Pops(v, s, IF Len(s) >= 2 THEN 2 ELSE 1)
    [] name \in {"flush", "close"} -> Pops(v, s, 1)
    [] OTHER -> NotNative(v, s)

StringBuilder(v, name, s) ==
  LET arg == Nth(s, 0)
      Text == IF arg.tag = "int" THEN int_to_str(arg.ival)
              ELSE IF Is(v, arg.ref, "string") THEN v.obj[arg.ref].chars ELSE <<>>
      this == arg.ref
  IN  CASE name = "<init>" -> Pops(v, s, 1)
        [] name = "append" ->
             IF Len(s) < 2 THEN Done(v, s)
             ELSE Pops(IF Is(v, Nth(s, 1).ref, "sbld") THEN sbld_append_str(v, Nth(s, 1).ref, Text) ELSE v, s, 1)
        [] name = "toString" -> Guarded(v, s, 1, JRef(0),
             IF Is(v, this, "sbld") THEN ReturnsNew(obj_string(v, v.obj[this].chars), s, 1) ELSE Returns(v, s, 1, JRef(0)))
        [] name = "length" -> Guarded(v, s, 1, JInt(0),
             Returns(v, s, 1, JInt(IF Is(v, this, "sbld") THEN Len(v.obj[this].chars) ELSE 0)))
        [] name = "insert" -> Pops(v, s, IF Len(s) >= 2 THEN 1 ELSE 0)
        [] OTHER -> NotNative(v, s)

String_(v, name, s) ==
  LET a == Nth(s, 1).ref
      b == Nth(s, 0).ref
      top == Nth(s, 0)
      Chars(p) == v.obj[p].chars
      Str(p) == Is(v, p, "string")
      \* substring with an end: a reference below two ints
      two == Len(s) >= 3 /\ Nth(s, 2).tag = "ref" /\ Nth(s, 1).tag = "int" /\ top.tag = "int"
      Sub(p, beg, end) == ReturnsNew(obj_string(v, SubSeq(Chars(p), Greater(beg, 0) + 1, Lesser(end, Len(Chars(p))))),
                                     s, IF two THEN 3 ELSE 2)
      Cut(p) == IF ~Str(p) THEN Returns(v, s, IF two THEN 3 ELSE 2, JRef(0))
                ELSE IF two THEN Sub(p, Nth(s, 1).ival, top.ival) ELSE Sub(p, top.ival, Len(Chars(p)))
  IN  CASE name = "length" -> Guarded(v, s, 1, JInt(0), Returns(v, s, 1, JInt(IF Str(b) THEN Len(Chars(b)) ELSE 0)))
        [] name = "charAt" -> Guarded(v, s, 2, JInt(0), Returns(v, s, 2,
             JInt(IF Str(a) /\ top.ival \in 0 .. Len(Chars(a)) - 1 THEN Chars(a)[top.ival + 1] ELSE 0)))
        [] name \in {"equals", "equalsIgnoreCase"} -> Guarded(v, s, 2, JInt(0), Returns(v, s, 2,
             JInt(IF (IF Str(a) /\ Str(b) THEN Chars(a) = Chars(b) ELSE a = b) THEN 1 ELSE 0)))
        [] name = "valueOf" -> Guarded(v, s, 1, JRef(0),
             IF top.tag = "int" THEN ReturnsNew(obj_string(v, int_to_str(top.ival)), s, 1) ELSE Done(v, s))
        [] name = "concat" -> IF Len(s) < 2 THEN Done(v, s)
             ELSE IF Str(a) /\ Str(b) THEN ReturnsNew(obj_string(v, Chars(a) \o Chars(b)), s, 2)
             ELSE Returns(v, s, 2, JRef(a))
        [] name = "substring" -> IF Len(s) < 2 THEN Done(v, s) ELSE Cut(Nth(s, IF two THEN 2 ELSE 1).ref)
        [] name = "isEmpty" -> Guarded(v, s, 1, JInt(1), Returns(v, s, 1, JInt(IF Str(b) /\ Chars(b) # <<>> THEN 0 ELSE 1)))
        [] OTHER -> NotNative(v, s)

Integer_(v, name, s) ==
  LET p == Nth(s, 0).ref
  IN  CASE name = "parseInt" -> Guarded(v, s, 1, JInt(0),
             Returns(v, s, 1, JInt(IF Is(v, p, "string") THEN atoi(v.obj[p].chars) ELSE 0)))
        [] name \in {"toString", "valueOf"} -> Guarded(v, s, 1, JRef(0),
             ReturnsNew(obj_string(v, int_to_str(Nth(s, 0).ival)), s, 1))
        [] OTHER -> NotNative(v, s)

Math_(v, name, s) ==
  LET a == Nth(s, 1).ival
      b == Nth(s, 0).ival
  IN  CASE name = "max" -> IF Len(s) < 2 THEN Done(v, s) ELSE Returns(v, s, 2, JInt(Greater(a, b)))
        [] name = "min" -> IF Len(s) < 2 THEN Done(v, s) ELSE Returns(v, s, 2, JInt(Lesser(a, b)))
        [] name = "abs" -> IF Len(s) < 1 THEN Done(v, s) ELSE Returns(v, s, 1, JInt(Wrap(IF b < 0 THEN -b ELSE b)))
        [] OTHER -> NotNative(v, s)

\* Elements are copied one by one, upwards; only upper ends are tested.
arraycopy(v, src, spos, dst, dpos, len) ==
  LET from == v.obj[src]
      Hits(k) == spos + k < from.len /\ dpos + k < v.obj[dst].len
      hits == {k \in 0 .. len - 1 : Hits(k)}
      wild == \E k \in hits : spos + k + 1 \notin DOMAIN from.data \/ dpos + k + 1 \notin DOMAIN v.obj[dst].data
      step[k \in 0 .. len] ==
        IF k = 0 THEN v
        ELSE LET w == step[k - 1]
             IN  IF k - 1 \in hits THEN [w EXCEPT !.obj[dst].data[dpos + k] = w.obj[src].data[spos + k]] ELSE w
  IN  IF wild THEN [ok |-> FALSE, v |-> v] ELSE [ok |-> TRUE, v |-> IF len > 0 THEN step[len] ELSE v]

System_(v, name, s) ==
  LET src == Nth(s, 4).ref
      dst == Nth(s, 2).ref
      alike == \E t \in {"ints", "refs"} : Is(v, src, t) /\ Is(v, dst, t)
      Copied(c) == IF c.ok THEN Pops(c.v, s, 5) ELSE Ends(v, s, "fault")
  IN  CASE name = "exit" -> Ends(v, Drop(s, 1), "exit")
        [] name = "currentTimeMillis" -> Returns(v, s, 0, JInt(0))
        [] name = "arraycopy" -> IF Len(s) < 5 THEN Done(v, <<>>)
             ELSE IF alike THEN Copied(arraycopy(v, src, Nth(s, 3).ival, dst, Nth(s, 1).ival, Nth(s, 0).ival))
             ELSE Pops(v, s, 5)
        [] OTHER -> NotNative(v, s)

ObjectWord == <<20, 21>>     \* "Object"
Object_(v, name, s) ==
  CASE name = "<init>" -> Pops(v, s, 1)
    [] name = "toString" -> IF s = <<>> \/ Is(v, Nth(s, 0).ref, "string") THEN Done(v, s)
                            ELSE ReturnsNew(obj_string(v, ObjectWord), s, 1)
    [] OTHER -> NotNative(v, s)

\* Sockets.  new gives NULL for every class of java/, so no object is ever an
\* OBJ_SOCKET and streams never have a descriptor: of the natives below, what
\* is left is what they do to the stack.
NoHost == <<0>>              \* "0.0.0.0", "127.0.0.1", "unknown:0"
InetAddress(v, name, s) ==
  LET p == Nth(s, 0).ref
      Host == IF Is(v, p, "iaddr") /\ v.obj[p].host # <<>> THEN v.obj[p].host ELSE NoHost
      Named == IF Is(v, p, "string") THEN v.obj[p].chars ELSE NoHost
  IN  CASE name = "getByName" -> Guarded(v, s, 1, JRef(0),
             ReturnsNew(OneBlock(v, [type |-> "iaddr", host |-> Named]), s, 1))
        [] name \in {"getHostAddress", "getHostName"} -> Guarded(v, s, 1, JRef(0), ReturnsNew(obj_string(v, Host), s, 1))
        [] name = "isLoopbackAddress" -> Guarded(v, s, 1, JInt(0), Returns(v, s, 1, JInt(0)))
        [] name = "getAddress" -> Guarded(v, s, 1, JRef(0), ReturnsNew(obj_array_int(v, 4), s, 1))
        [] OTHER -> NotNative(v, s)

Socket(v, name, s) ==
  CASE name = "<init>" -> Pops(v, s, IF Len(s) >= 3 THEN 3 ELSE 1)
    [] name = "connect" -> Pops(v, s, IF Len(s) < 3 THEN 0 ELSE 3)
    [] name \in {"getInputStream", "getOutputStream"} -> Guarded(v, s, 1, JRef(0),
         ReturnsNew(OneBlock(v, [type |-> "stream", input |-> name = "getInputStream"]), s, 1))
    [] name = "close" -> Pops(v, s, 1)
    [] name \in {"isConnected", "isClosed"} -> Guarded(v, s, 1, JInt(0), Returns(v, s, 1, JInt(0)))
    [] name \in {"setSoTimeout", "setTcpNoDelay", "setKeepAlive", "setReuseAddress"} -> Pops(v, s, IF Len(s) >= 2 THEN 2 ELSE 0)
    [] name = "getRemoteSocketAddress" -> Guarded(v, s, 1, JRef(0), ReturnsNew(obj_string(v, NoHost), s, 1))
    [] OTHER -> NotNative(v, s)

ServerSocket(v, name, s) ==
  CASE name = "<init>" -> Pops(v, s, IF Len(s) >= 2 THEN 2 ELSE 1)
    [] name = "accept" -> Guarded(v, s, 1, JRef(0), Returns(v, s, 1, JRef(0)))
    [] name = "close" -> Pops(v, s, 1)
    [] name \in {"setSoTimeout", "setReuseAddress"} -> Pops(v, s, IF Len(s) >= 2 THEN 2 ELSE 0)
    [] OTHER -> NotNative(v, s)

\* read looks for the stream on top of the stack, where only read() has it.
InputStream(v, name, s) ==
  CASE name = "read" -> Returns(v, s, 1, JInt(-1))
    [] name = "close" -> Pops(v, s, 1)
    [] name = "available" -> Returns(v, s, 1, JInt(0))
    [] OTHER -> NotNative(v, s)

\* write does, too, and empties the stack when it is not there.
OutputStream(v, name, s) ==
  CASE name = "write" -> Done(v, <<>>)
    [] name \in {"flush", "close"} -> Pops(v, s, 1)
    [] OTHER -> NotNative(v, s)

BufferedReader(v, name, s) ==
  CASE name = "<init>" -> Pops(v, s, IF Len(s) >= 2 THEN 2 ELSE 0)
    [] name = "readLine" -> Guarded(v, s, 1, JRef(0), Returns(v, s, 1, JRef(0)))
    [] name = "close" -> Pops(v, s, 1)
    [] OTHER -> NotNative(v, s)

PrintWriter(v, name, s) ==
  CASE name = "<init>" -> Pops(v, s, IF Len(s) >= 2 THEN 2 ELSE 0)
    [] name \in {"println", "print", "write"} -> Pops(v, s, IF Len(s) < 2 THEN 1 ELSE 2)
    [] name \in {"flush", "close"} -> Pops(v, s, 1)
    [] OTHER -> NotNative(v, s)

native_invoke(v, cls, name, s) ==
  CASE cls = "java/io/PrintStream" -> PrintStream(v, name, s)
    [] cls = "java/lang/StringBuilder" -> StringBuilder(v, name, s)
    [] cls = "java/lang/String" -> String_(v, name, s)
    [] cls = "java/lang/Integer" -> Integer_(v, name, s)
    [] cls = "java/lang/Math" -> Math_(v, name, s)
    [] cls = "java/lang/System" -> System_(v, name, s)
    [] cls = "java/lang/Object" -> Object_(v, name, s)
    [] cls = "java/net/InetAddress" -> InetAddress(v, name, s)
    [] cls = "java/net/Socket" -> Socket(v, name, s)
    [] cls = "java/net/ServerSocket" -> ServerSocket(v, name, s)
    [] cls \in {"java/io/InputStream", "java/net/SocketInputStream"} -> InputStream(v, name, s)
    [] cls \in {"java/io/OutputStream", "java/net/SocketOutputStream"} -> OutputStream(v, name, s)
    [] cls \in {"java/io/BufferedReader", "java/io/InputStreamReader"} -> BufferedReader(v, name, s)
    [] cls \in {"java/io/PrintWriter", "java/io/BufferedWriter", "java/io/OutputStreamWriter"} -> PrintWriter(v, name, s)
    [] OTHER -> NotNative(v, s)

=============================================================================

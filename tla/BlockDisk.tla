----------------------------- MODULE BlockDisk -----------------------------
(***************************************************************************)
(* What the disks promise: one call at a time moves its sectors between    *)
(* the disk and the buffer, all of them before it succeeds; a call that    *)
(* fails has moved some of them, from the first, and nothing else changes. *)
(***************************************************************************)
EXTENDS Integers

CONSTANTS
  Fresh,       \* the contents of every disk at first: a function on its sectors
  NoCall       \* a call is [op, disk, lba, count, data]; a write brings its data
VARIABLES contents, buffer, call, moved, result

vars == <<contents, buffer, call, moved, result>>

Init ==
  /\ contents = Fresh
  /\ buffer = <<>>
  /\ call = NoCall
  /\ moved = FALSE
  /\ result = 0

Begin ==
  /\ call = NoCall
  /\ call' # NoCall
  /\ buffer' = call'.data
  /\ moved' = FALSE
  /\ UNCHANGED <<contents, result>>

Move(n) ==
  /\ ~moved
  /\ call.lba + call.count - 1 \in DOMAIN contents[call.disk]
  /\ moved' = (n = call.count)
  /\ buffer' = IF call.op = "read" THEN [i \in 1 .. n |-> contents[call.disk][call.lba + i - 1]] ELSE buffer
  /\ contents' = IF call.op = "write"
                 THEN [contents EXCEPT ![call.disk] =
                        [b \in DOMAIN @ |-> IF b - call.lba \in 0 .. n - 1 THEN call.data[b - call.lba + 1] ELSE @[b]]]
                 ELSE contents
  /\ UNCHANGED <<call, result>>

End ==
  /\ call # NoCall
  /\ call' = NoCall
  /\ result' = 1 => moved
  /\ moved' = FALSE
  /\ UNCHANGED <<contents, buffer>>

Next ==
  \/ Begin
  \/ /\ call # NoCall
     /\ call.disk \in DOMAIN contents
     /\ \E n \in 1 .. call.count : Move(n)
  \/ End
Spec == Init /\ [][Next]_vars

=============================================================================

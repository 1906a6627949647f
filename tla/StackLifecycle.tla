--------------------------- MODULE StackLifecycle ----------------------------
(***************************************************************************)
(* What the cleanup pool promises (multitasking.h, "process cleanup        *)
(* pool"): a thread's stack is live until its thread ends, then condemned, *)
(* and is freed by a later scheduling decision that finds the CPU on       *)
(* another stack.  Threads, tables and time do not appear here.            *)
(***************************************************************************)
CONSTANTS Stacks, BootStack

VARIABLES
  status,  \* of each stack block: "free", "live" or "condemned"
  on       \* the stack the CPU executes on

Init ==
  /\ status = [s \in Stacks |-> "free"]
  /\ on = BootStack

\* A thread is created on a free block.
Create(s) ==
  /\ status[s] = "free"
  /\ status' = [status EXCEPT ![s] = "live"]
  /\ UNCHANGED on

\* Some threads end, the one on the CPU among them or not.
Condemn(S) ==
  /\ \A s \in S : status[s] = "live"
  /\ status' = [s \in Stacks |-> IF s \in S THEN "condemned" ELSE status[s]]
  /\ UNCHANGED on

\* A scheduling decision: the CPU stays where it is or moves to a live stack,
\* and every condemned stack but the one it was on is freed.
Dispatch(n) ==
  /\ n \in {on, BootStack} \cup {s \in Stacks : status[s] = "live"}
  /\ on' = n
  /\ status' = [s \in Stacks |->
                  IF status[s] = "condemned" /\ s # on THEN "free" ELSE status[s]]

Next ==
  \/ \E s \in Stacks : Create(s)
  \/ \E S \in SUBSET Stacks : Condemn(S)
  \/ \E n \in Stacks \cup {BootStack} : Dispatch(n)

Spec == Init /\ [][Next]_<<status, on>>

=============================================================================

------------------------------ MODULE HeapBlocks ------------------------------
(***************************************************************************)
(* What kmalloc, kfree and krealloc promise (src/std/malloc.h): the memory *)
(* in the hands of callers is a set of disjoint ranges, which only the     *)
(* calls of their holders change.                                          *)
(***************************************************************************)
CONSTANT Arena            \* the addresses of the heap

VARIABLE allocated        \* sets of addresses

Fresh(e, others) == e # {} /\ e \subseteq Arena /\ \A o \in others : e \cap o = {}

HeapInit == allocated = {}

Alloc(e) == Fresh(e, allocated) /\ allocated' = allocated \cup {e}

Free(e) == allocated' = allocated \ {e}

\* A range grows or shrinks in place, or its contents move to another one.
Resize(e, f) == Fresh(f, allocated \ {e}) /\ allocated' = (allocated \ {e}) \cup {f}

HeapNext ==
  \/ \E e \in allocated' : Alloc(e)
  \/ \E e \in allocated : Free(e)
  \/ \E e \in allocated, f \in allocated' : Resize(e, f)

HeapSpec == HeapInit /\ [][HeapNext]_allocated

=============================================================================

-------------------------------- MODULE MCPmm --------------------------------
(***************************************************************************)
(* Small instances of Pmm for TLC: pages of two bytes, two of them below   *)
(* "1 MB".                                                                 *)
(***************************************************************************)
EXTENDS Pmm

Usable(b, l)    == [base |-> b, length |-> l, usable |-> TRUE]
Unusable(b, l)  == [base |-> b, length |-> l, usable |-> FALSE]

\* Memory in one piece, in pieces with a hole, ending inside a page, without
\* a usable entry.
SmallMaps == {{Usable(0, 24)},
              {Usable(0, 3), Unusable(3, 1), Usable(4, 19)},
              {Usable(0, 12), Unusable(12, 2), Usable(14, 9)},
              {Unusable(0, 24)}}

\* Inside memory, at odd addresses, partly and wholly beyond the last page.
SmallHeap == {[paddr |-> 10, size |-> 2], [paddr |-> 15, size |-> 2],
              [paddr |-> 22, size |-> 6]}

\* Twice as much memory as the bitmap has bits for.
LargeMaps == {{Usable(0, 16)}}

=============================================================================

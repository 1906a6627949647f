------------------------------- MODULE MCExec --------------------------------
(***************************************************************************)
(* Small instances of Exec for TLC.                                        *)
(***************************************************************************)
EXTENDS Exec, TLC

\* Stacks, argument blocks and page directories are interchangeable.
ExecSymmetry == Permutations(Stacks) \cup Permutations(Args) \cup Permutations(Dirs)

=============================================================================

----------------------------- MODULE MCScheduler -----------------------------
(***************************************************************************)
(* Small instances of Scheduler for TLC.                                   *)
(***************************************************************************)
EXTENDS Scheduler, TLC

\* Stack blocks are interchangeable.
StackSymmetry == Permutations(Stacks)

=============================================================================

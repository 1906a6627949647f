-------------------------------- MODULE MCVmm --------------------------------
(***************************************************************************)
(* A small machine for Vmm: four identity-mapped tables of four pages, as  *)
(* many tables as the code has, one entry each for program, stack and      *)
(* device.                                                                 *)
(***************************************************************************)
EXTENDS Vmm, TLC

Tables   == [i \in 0 .. 3 |-> 2 + i]
Program  == [base |-> 16, count |-> 1]
UserStack == [base |-> 22, count |-> 2]

ProgramSymmetry == Permutations(Programs)

=============================================================================

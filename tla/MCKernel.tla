------------------------------ MODULE MCKernel ------------------------------
(* Kernel for TLC.  CPUs are interchangeable. *)
EXTENDS Kernel, TLC

Symmetry == Permutations(CPUs)
=============================================================================

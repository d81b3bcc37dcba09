------------------------------- MODULE MCMemory -------------------------------
(* Memory for TLC. *)
EXTENDS Memory, TLC

\* Page frames are interchangeable, and no property tells them apart.
Symmetry == Permutations(Pages)
===============================================================================

---------------------------- MODULE AddressSpaces ----------------------------
(***************************************************************************)
(* What the memory code of the kernel promises a program: an address space *)
(* of its own.  Nothing in here is shared, so no step of one process       *)
(* changes what another reads; fork gives the child a copy; memory that is *)
(* mapped anew reads as zero.                                              *)
(***************************************************************************)
EXTENDS Integers

CONSTANTS Procs, InitProc, VPages, Image, Contents

VARIABLES
  alive,   \* the processes that have an address space
  space    \* space[p]: contents of the pages p may access, its domain

spaceVars == <<alive, space>>

NoSpace == [v \in {} |-> 0]

\* What execve loads: the pages of the image and nothing else.
Images == [Image -> Contents]

Init ==
  /\ alive = {InitProc}
  /\ \E f \in Images : space = [p \in Procs |-> IF p = InitProc THEN f ELSE NoSpace]

Become(p, f) == space' = [space EXCEPT ![p] = f]

Write(p, v, x) ==
  /\ v \in DOMAIN space[p]
  /\ Become(p, [space[p] EXCEPT ![v] = x])
  /\ UNCHANGED alive

\* mmap or brk: the new pages S are zero.
Map(p, S) ==
  /\ S \cap DOMAIN space[p] = {}
  /\ Become(p, [v \in S \cup DOMAIN space[p] |-> IF v \in S THEN 0 ELSE space[p][v]])
  /\ UNCHANGED alive

Unmap(p, S) ==
  /\ Become(p, [v \in DOMAIN space[p] \ S |-> space[p][v]])
  /\ UNCHANGED alive

Fork(p, q) ==
  /\ q \notin alive
  /\ Become(q, space[p])
  /\ alive' = alive \cup {q}

Exec(p) ==
  /\ \E f \in Images : Become(p, f)
  /\ UNCHANGED alive

Exit(p) ==
  /\ Become(p, NoSpace)
  /\ alive' = alive \ {p}

Next ==
  \E p \in alive :
    \/ \E v \in VPages, x \in Contents : Write(p, v, x)
    \/ \E S \in SUBSET VPages : Map(p, S) \/ Unmap(p, S)
    \/ \E q \in Procs : Fork(p, q)
    \/ Exec(p)
    \/ Exit(p)

Spec == Init /\ [][Next]_spaceVars
==============================================================================

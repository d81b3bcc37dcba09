------------------------------ MODULE MCUmount -------------------------------
(* Vfs for TLC, with an ext2 disk whose files are one directory down. *)
EXTENDS Vfs, TLC

Abs(comps) == [abs |-> TRUE, comps |-> comps]

\* The root of the disk (inode 2) holds the directory "b" (inode 3), which holds
\* the file "b" (inode 4); it is mounted on /a.
NestedDisk ==
  (2 :> [a |-> 0, b |-> 3]) @@ (3 :> [a |-> 0, b |-> 4]) @@ (4 :> << >>)
Paths == {Abs(<<"a">>), Abs(<<"a", "b", "b">>)}
Targets == {Abs(<<"a">>)}
==============================================================================

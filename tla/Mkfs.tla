-------------------------------- MODULE Mkfs --------------------------------
(***************************************************************************)
(* The first file system image of the RISC-V system (mkfs/mkfs.c): the     *)
(* root directory, one file per program, and the map of used blocks.       *)
(*                                                                         *)
(* A block is BSIZE units; a unit holds a block number, a directory entry  *)
(* or a piece of data.  What belongs to inode i is written as Datum(i).    *)
(***************************************************************************)
EXTENDS Integers, Sequences

CONSTANTS
  FSSIZE,      \* blocks of the disk
  NMETA,       \* boot block, super block, log, inodes and bitmap
  BSIZE,
  NDIRECT,     \* direct addresses; the indirect block has BSIZE of them
  DiskInodes,  \* inode numbers, ROOTINO the first
  MkFiles      \* sizes of the files that mkfs is given

ROOTINO == 1

MkfsAssumption ==
  /\ FSSIZE \in Nat /\ NMETA \in 1 .. FSSIZE - 1
  /\ BSIZE \in Nat \ {0} /\ NDIRECT \in Nat
  /\ DiskInodes = 1 .. Len(MkFiles) + 1 \/ DiskInodes = 1 .. Len(MkFiles) + 2
  /\ \A k \in DOMAIN MkFiles : MkFiles[k] \in Nat

MAXFILE == NDIRECT + BSIZE
Datum(i) == FSSIZE + i
ZeroBlock == [k \in 0 .. BSIZE - 1 |-> 0]
FreeDin == [size |-> 0, addrs |-> [k \in 0 .. NDIRECT |-> 0]]

\* What mkfs has made so far
EmptyImage == [freeblock |-> NMETA,
               blocks |-> [b \in 0 .. FSSIZE - 1 |-> ZeroBlock],
               din |-> [i \in DiskInodes |-> FreeDin]]

\* The image with an address for block fbn of inode i, freeblock++ for each
\* block that is missing.
Addressed(m, i, fbn) ==
  LET slot == IF fbn < NDIRECT THEN fbn ELSE NDIRECT
      a == m.din[i].addrs[slot]
      n == IF a # 0 THEN m
           ELSE [m EXCEPT !.din[i].addrs[slot] = m.freeblock, !.freeblock = @ + 1]
      table == n.din[i].addrs[NDIRECT]
  IN IF fbn < NDIRECT \/ n.blocks[table][fbn - NDIRECT] # 0 THEN n
     ELSE [n EXCEPT !.blocks[table][fbn - NDIRECT] = n.freeblock, !.freeblock = @ + 1]

BlockOf(m, i, fbn) ==
  IF fbn < NDIRECT THEN m.din[i].addrs[fbn]
  ELSE m.blocks[m.din[i].addrs[NDIRECT]][fbn - NDIRECT]

\* iappend of n units, a unit at a time
RECURSIVE iappend(_, _, _)
iappend(m, i, n) ==
  LET off == m.din[i].size
      t == Addressed(m, i, off \div BSIZE)
  IN IF n = 0 THEN m
     ELSE iappend([t EXCEPT !.blocks[BlockOf(t, i, off \div BSIZE)][off % BSIZE] = Datum(i),
                            !.din[i].size = off + 1], i, n - 1)

\* The files in turn: an entry of the root, then the contents.
RECURSIVE AddFiles(_, _)
AddFiles(m, k) ==
  IF k > Len(MkFiles) THEN m
  ELSE AddFiles(iappend(iappend(m, ROOTINO, 1), ROOTINO + k, MkFiles[k]), k + 1)

\* main: "." and "..", the files, and the size of the root made a whole number
\* of blocks
Image ==
  LET m == AddFiles(iappend(EmptyImage, ROOTINO, 2), 1)
  IN [m EXCEPT !.din[ROOTINO].size = (@ \div BSIZE + 1) * BSIZE]

\* balloc(freeblock): all blocks before it are used.
UsedBits == 0 .. Image.freeblock - 1
=============================================================================

------------------------------- MODULE RvBlocks ------------------------------
(***************************************************************************)
(* The blocks of files on the RISC-V system (riscv/kernel/fs.c): the free  *)
(* map, the direct and indirect addresses of an inode, and reading,        *)
(* writing and truncating its content.                                     *)
(*                                                                         *)
(* A caller holds the inode's lock for the whole call, and the buffer of   *)
(* the free map for one look at it.  So calls for two inodes interleave at *)
(* balloc and bfree; what a call does to its own inode and to the blocks   *)
(* of that inode in between is part of the step.                           *)
(***************************************************************************)
EXTENDS Mkfs, FiniteSets

CONSTANTS
  BlockProcs,
  MaxUnits      \* largest size a file is given

VARIABLES
  bits,      \* used blocks in the free map
  blocks,    \* the contents of the blocks
  din,       \* inodes: size and addresses
  bcall,     \* the call a process is in
  bpanic     \* the panic of balloc or bfree, if any

blockVars == <<bits, blocks, din, bcall, bpanic>>

NoBlockCall == [kind |-> "none", ip |-> 0, off |-> 0, left |-> 0, got |-> 0, j |-> 0]

Junk == [k \in 0 .. BSIZE - 1 |-> FSSIZE]
Busy(i) == \E q \in BlockProcs : bcall[q].kind # "none" /\ bcall[q].ip = i
FreeBlocks == (0 .. FSSIZE - 1) \ bits

BeginBlocks(p, c) ==
  /\ bcall[p].kind = "none" /\ ~Busy(c.ip)
  /\ bcall' = [bcall EXCEPT ![p] = c]
  /\ UNCHANGED <<bits, blocks, din, bpanic>>

writei(p, i, off, n) ==
  /\ off <= din[i].size /\ off + n <= MAXFILE * BSIZE
  /\ BeginBlocks(p, [NoBlockCall EXCEPT !.kind = "write", !.ip = i, !.off = off, !.left = n])

Least(a, b) == IF a < b THEN a ELSE b

itrunc(p, i) == BeginBlocks(p, [NoBlockCall EXCEPT !.kind = "trunc", !.ip = i])

----------------------------------------------------------------------------
(* bmap: the address that is missing next, as the place it goes to *)

Bn(p) == bcall[p].off \div BSIZE
Table(i) == din[i].addrs[NDIRECT]

Missing(p) ==
  LET i == bcall[p].ip
      n == Bn(p)
  IN IF n < NDIRECT THEN (IF din[i].addrs[n] = 0 THEN "direct" ELSE "none")
     ELSE IF Table(i) = 0 THEN "table"
     ELSE IF blocks[Table(i)][n - NDIRECT] = 0 THEN "entry" ELSE "none"

Address(i, n) == IF n < NDIRECT THEN din[i].addrs[n] ELSE blocks[Table(i)][n - NDIRECT]

\* readi: the units from off on, no more than there are.  The blocks below the
\* size are there, so the call changes nothing.
readi(i, off, n) ==
  [k \in 1 .. Least(n, din[i].size - off) |->
     blocks[Address(i, (off + k - 1) \div BSIZE)][(off + k - 1) % BSIZE]]

Mapping(p) == bcall[p].kind = "write" /\ bcall[p].left > 0

\* Variant: the map is looked at, and marked in a later step.
BallocUnmarked(p) ==
  /\ Mapping(p) /\ Missing(p) # "none" /\ bcall[p].got = 0
  /\ IF FreeBlocks = {} THEN bpanic' = "out of blocks" /\ UNCHANGED bcall
     ELSE /\ bcall' = [bcall EXCEPT ![p].got = CHOOSE b \in FreeBlocks : \A c \in FreeBlocks : b <= c]
          /\ UNCHANGED bpanic
  /\ UNCHANGED <<bits, blocks, din>>

\* balloc up to brelse: the first free block
balloc(p) ==
  /\ Mapping(p) /\ Missing(p) # "none" /\ bcall[p].got = 0
  /\ IF FreeBlocks = {} THEN bpanic' = "out of blocks" /\ UNCHANGED <<bits, bcall>>
     ELSE LET b == CHOOSE b \in FreeBlocks : \A c \in FreeBlocks : b <= c
          IN /\ bits' = bits \cup {b}
             /\ bcall' = [bcall EXCEPT ![p].got = b]
             /\ UNCHANGED bpanic
  /\ UNCHANGED <<blocks, din>>

\* bzero of the new block, and the address stored by bmap
bmap(p) ==
  LET i == bcall[p].ip
      b == bcall[p].got
      zeroed == [blocks EXCEPT ![b] = ZeroBlock]
  IN /\ b # 0
     /\ CASE Missing(p) = "direct" -> blocks' = zeroed /\ din' = [din EXCEPT ![i].addrs[Bn(p)] = b]
          [] Missing(p) = "table" -> blocks' = zeroed /\ din' = [din EXCEPT ![i].addrs[NDIRECT] = b]
          [] OTHER -> blocks' = [zeroed EXCEPT ![Table(i)][Bn(p) - NDIRECT] = b] /\ UNCHANGED din
     /\ bcall' = [bcall EXCEPT ![p].got = 0]
     /\ UNCHANGED <<bits, bpanic>>

\* One turn of the loop of writei: up to the end of the block
CopyBlock(p) ==
  LET c == bcall[p]
      b == Address(c.ip, Bn(p))
      at == c.off % BSIZE
      m == Least(c.left, BSIZE - at)
  IN /\ Mapping(p) /\ Missing(p) = "none"
     /\ blocks' = [blocks EXCEPT ![b] = [k \in DOMAIN @ |->
                     IF k \in at .. at + m - 1 THEN Datum(c.ip) ELSE blocks[b][k]]]
     /\ bcall' = [bcall EXCEPT ![p].off = @ + m, ![p].left = @ - m]
     /\ UNCHANGED <<bits, din, bpanic>>

\* either_copyin fails: the loop ends with the block mapped.
CopyFails(p) ==
  /\ Mapping(p) /\ Missing(p) = "none"
  /\ bcall' = [bcall EXCEPT ![p].left = 0]
  /\ UNCHANGED <<bits, blocks, din, bpanic>>

\* The end of writei: the size, on disk as well
EndCopy(p) ==
  LET c == bcall[p]
  IN /\ c.kind = "write" /\ c.left = 0
     /\ din' = [din EXCEPT ![c.ip].size = IF c.off > @ THEN c.off ELSE @]
     /\ bcall' = [bcall EXCEPT ![p] = NoBlockCall]
     /\ UNCHANGED <<bits, blocks, bpanic>>

----------------------------------------------------------------------------
(* The loops of itrunc, a block at a time; j counts the entries of the     *)
(* indirect block, which are not cleared                                   *)

\* What was in the block stays there, and nobody may look at it: Junk.
bfree(b) ==
  IF b \in bits
  THEN bits' = bits \ {b} /\ blocks' = [blocks EXCEPT ![b] = Junk] /\ UNCHANGED bpanic
  ELSE bpanic' = "freeing free block" /\ UNCHANGED <<bits, blocks>>

Directs(i) == {k \in 0 .. NDIRECT - 1 : din[i].addrs[k] # 0}

TruncDirect(p) ==
  LET i == bcall[p].ip
      k == CHOOSE k \in Directs(i) : \A l \in Directs(i) : k <= l
  IN /\ bcall[p].kind = "trunc" /\ Directs(i) # {}
     /\ bfree(din[i].addrs[k])
     /\ din' = [din EXCEPT ![i].addrs[k] = 0]
     /\ UNCHANGED bcall

TruncEntry(p) ==
  LET i == bcall[p].ip
      a == blocks[Table(i)][bcall[p].j]
  IN /\ bcall[p].kind = "trunc" /\ Directs(i) = {} /\ Table(i) # 0 /\ bcall[p].j < BSIZE
     /\ IF a = 0 THEN UNCHANGED <<bits, blocks, bpanic>> ELSE bfree(a)
     /\ bcall' = [bcall EXCEPT ![p].j = @ + 1]
     /\ UNCHANGED din

TruncEnd(p) ==
  LET i == bcall[p].ip
  IN /\ bcall[p].kind = "trunc" /\ Directs(i) = {} /\ (Table(i) # 0 => bcall[p].j = BSIZE)
     /\ IF Table(i) = 0 THEN UNCHANGED <<bits, blocks, bpanic>> ELSE bfree(Table(i))
     /\ din' = [din EXCEPT ![i] = FreeDin]
     /\ bcall' = [bcall EXCEPT ![p] = NoBlockCall]

----------------------------------------------------------------------------
RvBlocksInit ==
  /\ bits = UsedBits
  /\ blocks = [b \in 0 .. FSSIZE - 1 |-> IF b \in UsedBits THEN Image.blocks[b] ELSE Junk]
  /\ din = Image.din
  /\ bcall = [p \in BlockProcs |-> NoBlockCall]
  /\ bpanic = ""

RvBlocksNext ==
  /\ bpanic = ""
  /\ \E p \in BlockProcs :
       \/ \E i \in DiskInodes \ {ROOTINO}, n \in {1, MaxUnits} :
            \E off \in {0, din[i].size} : off + n <= MaxUnits /\ writei(p, i, off, n)
       \/ \E i \in DiskInodes \ {ROOTINO} : itrunc(p, i)
       \/ balloc(p) \/ bmap(p) \/ CopyBlock(p) \/ CopyFails(p) \/ EndCopy(p)
       \/ TruncDirect(p) \/ TruncEntry(p) \/ TruncEnd(p)

RvBlocksSpec == RvBlocksInit /\ [][RvBlocksNext]_blockVars

----------------------------------------------------------------------------
\* Where itrunc has got to in the indirect block of inode i
Passed(i) == IF \E q \in BlockProcs : bcall[q].kind = "trunc" /\ bcall[q].ip = i
             THEN bcall[CHOOSE q \in BlockProcs : bcall[q].ip = i].j ELSE 0

\* The places that hold the number of a block
Places ==
  {x \in DiskInodes \X ({"direct"} \X (0 .. NDIRECT)) : din[x[1]].addrs[x[2][2]] # 0}
  \cup {x \in DiskInodes \X ({"entry"} \X (0 .. BSIZE - 1)) :
          /\ Table(x[1]) # 0 /\ x[2][2] >= Passed(x[1])
          /\ blocks[Table(x[1])][x[2][2]] # 0}

Held(x) == IF x[2][1] = "direct" THEN din[x[1]].addrs[x[2][2]] ELSE blocks[Table(x[1])][x[2][2]]

\* Every block of the disk is free, or it holds the disk's own tables, or it is
\* in one place of one inode, or balloc has just given it to one caller; and the
\* units readi gives of a file that nobody is changing were written to that file.
\* So itrunc never frees a free block, and no block is lost or used twice,
\* whichever way the calls for different files fall.
BlocksOwned ==
  LET taken == {bcall[p].got : p \in BlockProcs} \ {0}
  IN /\ bpanic # "freeing free block"
     /\ bpanic = "" =>
          /\ bits = 0 .. NMETA - 1 \cup {Held(x) : x \in Places} \cup taken
          /\ Cardinality(bits) = NMETA + Cardinality(Places) + Cardinality(taken)
          /\ Cardinality(taken) = Cardinality({p \in BlockProcs : bcall[p].got # 0})
          /\ \A i \in DiskInodes : ~Busy(i) /\ i # ROOTINO =>
               readi(i, 0, MaxUnits) = [k \in 1 .. din[i].size |-> Datum(i)]
=============================================================================

-------------------------------- MODULE RvLog --------------------------------
(***************************************************************************)
(* The redo log and the buffer cache of the RISC-V kernel:                 *)
(* arch/riscv/kernel/log.c, bio.c and sleeplock.c, with crashes.           *)
(*                                                                         *)
(* File system calls write home blocks through the cache; a commit copies  *)
(* them to the log, writes the header, installs them and clears the        *)
(* header.  A step is a section under log.lock or bcache.lock, or one pass *)
(* of a commit or recovery loop, which holds one disk write: the buffers   *)
(* it takes in between are sleep-locked, and it starts when they are free. *)
(* The disk transfer itself is in RvDisk.                                  *)
(***************************************************************************)
EXTENDS Integers, Sequences, FiniteSets, SequencesExt

CONSTANTS
  LogProcs,      \* processes that make file system calls
  HomeBlocks,    \* the numbers of the blocks calls read and write
  NBUF,
  LOGSIZE,
  MAXOPBLOCKS,
  NLOG,          \* sb->nlog: the header block and the log data blocks
  MaxOps,        \* bound: system calls that write
  MaxReads,      \* bound: reads outside a transaction
  MaxCrashes     \* bound: crashes

LogAssumption ==
  /\ NBUF \in Nat \ {0} /\ LOGSIZE \in Nat \ {0} /\ MAXOPBLOCKS \in 1 .. LOGSIZE
  /\ NLOG \in 2 .. LOGSIZE + 1 /\ HomeBlocks \subseteq Nat

VARIABLES
  hd,        \* the disk
  bc,        \* bcache
  lg,        \* struct log, without the lock
  lp,        \* per process: the call it is in
  boot,      \* where the first process is: fsinit's recovery, or running
  ghost      \* what the calls have written, for the properties

logVars == <<hd, bc, lg, lp, boot, ghost>>

Bufs == 1 .. NBUF
LogBlock(i) == <<"log", i>>           \* block log.start + i, 0 for the header
Home(b) == <<"home", b>>

\* Block contents: the number of the call that wrote them; the header holds
\* the block numbers (n is their count).
BlankDisk == [home |-> [b \in HomeBlocks |-> 0],
              log |-> [i \in 1 .. NLOG - 1 |-> 0], head |-> <<>>]
ReadDisk(b) == IF b[1] = "home" THEN hd.home[b[2]]
               ELSE IF b[2] = 0 THEN hd.head ELSE hd.log[b[2]]

NoBuf == [blk |-> <<>>, valid |-> FALSE, ref |-> 0, data |-> 0, owner |-> "none"]

\* binit: the list starts with the last buffer; head.next is the first element.
binit == [buf |-> [i \in Bufs |-> NoBuf], lru |-> Reverse([i \in Bufs |-> i])]
NoLog == [outstanding |-> 0, committing |-> FALSE, lh |-> <<>>]
IdleProc == [pc |-> "idle", blk |-> <<>>, buf |-> 0, op |-> 0, wrote |-> 0]

----------------------------------------------------------------------------
(* bio.c: a cache is [buf, lru]; refcnt is unsigned, -1 stands for 2^32 - 1 *)

Cached(c, b) == {i \in Bufs : c.buf[i].blk = b}
Unused(c) == {k \in Bufs : c.buf[c.lru[k]].ref = 0}
CanGet(c, b) == Cached(c, b) # {} \/ Unused(c) # {}

\* The buffer bget picks: the cached one, or the least recently used with
\* refcnt 0.
Pick(c, b) == IF Cached(c, b) # {} THEN CHOOSE i \in Cached(c, b) : TRUE
              ELSE c.lru[CHOOSE k \in Unused(c) : \A j \in Unused(c) : j <= k]

bget(c, b) ==
  LET i == Pick(c, b)
  IN  [c EXCEPT !.buf[i] =
         IF Cached(c, b) # {} THEN [@ EXCEPT !.ref = @ + 1]
         ELSE [@ EXCEPT !.blk = b, !.valid = FALSE, !.ref = 1]]

\* The rest of bread: acquiresleep, then the disk read when it is not valid.
Locked(c, i, p) ==
  [c EXCEPT !.buf[i].owner = p, !.buf[i].valid = TRUE,
            !.buf[i].data = IF c.buf[i].valid THEN @ ELSE ReadDisk(c.buf[i].blk)]
bread(c, b, p) == Locked(bget(c, b), Pick(c, b), p)

brelse(c, i) ==
  [buf |-> [c.buf EXCEPT ![i].owner = "none", ![i].ref = @ - 1],
   lru |-> IF c.buf[i].ref = 1 THEN <<i>> \o Remove(c.lru, i) ELSE c.lru]

bpin(c, i) == [c EXCEPT !.buf[i].ref = @ + 1]
bunpin(c, i) == [c EXCEPT !.buf[i].ref = @ - 1]

\* A commit or recovery step takes its buffers at once: they must be there to
\* take, and not held by somebody else.
Obtainable(c, b) == CanGet(c, b) /\ c.buf[Pick(c, b)].owner = "none"

----------------------------------------------------------------------------
(* begin_op, and the block accesses of a call *)

Fits == Len(lg.lh) + (lg.outstanding + 1) * MAXOPBLOCKS <= LOGSIZE

Wake(ps) == [p \in LogProcs |-> IF ps[p].pc = "asleep" THEN [ps[p] EXCEPT !.pc = "begin"]
                                                      ELSE ps[p]]

StartOp(p) ==
  /\ boot = "up" /\ lp[p].pc = "idle" /\ ghost.ops < MaxOps
  /\ lp' = [lp EXCEPT ![p] = [@ EXCEPT !.pc = "begin", !.op = ghost.ops + 1]]
  /\ ghost' = [ghost EXCEPT !.ops = @ + 1]
  /\ UNCHANGED <<hd, bc, lg, boot>>

begin_op(p) ==
  /\ lp[p].pc = "begin"
  /\ IF ~lg.committing /\ Fits
     THEN /\ lg' = [lg EXCEPT !.outstanding = @ + 1]
          /\ lp' = [lp EXCEPT ![p].pc = "op"]
     ELSE lp' = [lp EXCEPT ![p].pc = "asleep"] /\ UNCHANGED lg
  /\ UNCHANGED <<hd, bc, boot, ghost>>

\* The first half of bread, by a call in a transaction, or by a read call,
\* which is in none.  Without a free buffer the kernel panics.
Get(p, b) ==
  /\ boot = "up" /\ lp[p].pc \in {"op", "idle"}
  /\ IF lp[p].pc = "op" THEN lp[p].wrote < MAXOPBLOCKS ELSE ghost.reads < MaxReads
  /\ IF CanGet(bc, Home(b))
     THEN /\ bc' = bget(bc, Home(b)) /\ boot' = boot
          /\ lp' = [lp EXCEPT ![p] = [@ EXCEPT !.blk = Home(b),
                      !.buf = Pick(bc, Home(b)),
                      !.pc = IF @ = "op" THEN "getW" ELSE "getR"]]
     ELSE boot' = "panic" /\ UNCHANGED <<bc, lp>>
  /\ ghost' = IF lp[p].pc = "op" THEN ghost ELSE [ghost EXCEPT !.reads = @ + 1]
  /\ UNCHANGED <<hd, lg>>

Hold(p) ==
  /\ boot = "up" /\ lp[p].pc \in {"getW", "getR"}
  /\ bc.buf[lp[p].buf].owner = "none"
  /\ bc' = Locked(bc, lp[p].buf, p)
  /\ lp' = [lp EXCEPT ![p].pc = IF @ = "getW" THEN "write" ELSE "read"]
  /\ UNCHANGED <<hd, lg, boot, ghost>>

ReadBlock(p) ==
  /\ boot = "up" /\ lp[p].pc = "read"
  /\ bc' = brelse(bc, lp[p].buf)
  /\ lp' = [lp EXCEPT ![p] = IdleProc]
  /\ UNCHANGED <<hd, lg, boot, ghost>>

\* Variant: log_write forgets to pin the buffer.
LogNoPin(c, i) ==
  LET b == c.buf[i].blk[2]
  IN  [lh |-> IF \E k \in DOMAIN lg.lh : lg.lh[k] = b THEN lg.lh ELSE Append(lg.lh, b),
       bc |-> c]

\* The header and the cache after log_write, with absorption.
log_write(c, i) ==
  LET b == c.buf[i].blk[2]
  IN  IF \E k \in DOMAIN lg.lh : lg.lh[k] = b
      THEN [lh |-> lg.lh, bc |-> c]
      ELSE [lh |-> Append(lg.lh, b), bc |-> bpin(c, i)]

\* The call changes the block it holds, logs it and releases it.
WriteBlock(p) ==
  LET i == lp[p].buf
      w == log_write([bc EXCEPT !.buf[i].data = lp[p].op], i)
  IN  /\ boot = "up" /\ lp[p].pc = "write"
      /\ IF Len(lg.lh) >= LOGSIZE \/ Len(lg.lh) >= NLOG - 1
         THEN boot' = "panic" /\ UNCHANGED <<bc, lg, lp, ghost>>
         ELSE /\ bc' = brelse(w.bc, i) /\ lg' = [lg EXCEPT !.lh = w.lh]
              /\ lp' = [lp EXCEPT ![p] = [@ EXCEPT !.pc = "op", !.wrote = @ + 1,
                                                  !.blk = <<>>, !.buf = 0]]
              /\ ghost' = [ghost EXCEPT !.logical[lp[p].blk[2]] = lp[p].op]
              /\ boot' = boot
      /\ UNCHANGED hd

----------------------------------------------------------------------------
(* end_op and commit *)

\* The section of end_op: the last call of the transaction commits.  Its panic
\* is out of reach: begin_op admits nobody while a commit runs.
end_op(p) ==
  /\ boot = "up" /\ lp[p].pc = "op" /\ lg.outstanding > 0
  /\ IF lg.outstanding = 1
     THEN /\ lg' = [lg EXCEPT !.outstanding = 0, !.committing = TRUE]
          /\ lp' = [lp EXCEPT ![p] = [IdleProc EXCEPT !.wrote = 1,
                      !.pc = IF lg.lh = <<>> THEN "done" ELSE "log"]]
     ELSE /\ lg' = [lg EXCEPT !.outstanding = @ - 1]
          /\ lp' = Wake([lp EXCEPT ![p] = IdleProc])
  /\ UNCHANGED <<hd, bc, boot, ghost>>

\* write_log, one block: lp.wrote is tail + 1.
write_log(p) ==
  LET k == lp[p].wrote
  IN  /\ boot = "up" /\ lp[p].pc = "log" /\ Obtainable(bc, LogBlock(k))
      /\ \E to \in {Pick(bc, LogBlock(k))}, c1 \in {bread(bc, LogBlock(k), p)} :
         /\ Obtainable(c1, Home(lg.lh[k]))
         /\ \E from \in {Pick(c1, Home(lg.lh[k]))}, c2 \in {bread(c1, Home(lg.lh[k]), p)} :
              /\ hd' = [hd EXCEPT !.log[k] = c2.buf[from].data]
              /\ bc' = brelse(brelse([c2 EXCEPT !.buf[to].data = c2.buf[from].data], from), to)
      /\ lp' = [lp EXCEPT ![p] = IF k = Len(lg.lh)
                                 THEN [@ EXCEPT !.pc = "head", !.wrote = 1]
                                 ELSE [@ EXCEPT !.wrote = @ + 1]]
      /\ UNCHANGED <<lg, boot, ghost>>

\* write_head: lh goes to disk.
HeadWritten(c, lh, p) ==
  LET i == Pick(c, LogBlock(0))
  IN  brelse([bread(c, LogBlock(0), p) EXCEPT !.buf[i].data = lh], i)

\* The first write_head of commit: the transaction is committed.
CommitHead(p) ==
  /\ boot = "up" /\ lp[p].pc = "head" /\ Obtainable(bc, LogBlock(0))
  /\ hd' = [hd EXCEPT !.head = lg.lh]
  /\ bc' = HeadWritten(bc, lg.lh, p)
  /\ lp' = [lp EXCEPT ![p].pc = "install"]
  /\ ghost' = [ghost EXCEPT !.durable = ghost.logical]
  /\ UNCHANGED <<lg, boot>>

\* install_trans, one block: disk, cache.
Install(k, p) ==
  /\ Obtainable(bc, LogBlock(k))
  /\ \E l \in {Pick(bc, LogBlock(k))}, c1 \in {bread(bc, LogBlock(k), p)} :
     /\ Obtainable(c1, Home(lg.lh[k]))
     /\ \E d \in {Pick(c1, Home(lg.lh[k]))}, c2 \in {bread(c1, Home(lg.lh[k]), p)} :
          /\ hd' = [hd EXCEPT !.home[lg.lh[k]] = c1.buf[l].data]
          /\ bc' = brelse(brelse(bunpin([c2 EXCEPT !.buf[d].data = c1.buf[l].data], d), l), d)

install_trans(p) ==
  LET k == lp[p].wrote
  IN  /\ boot = "up" /\ lp[p].pc = "install" /\ Install(k, p)
      /\ lp' = [lp EXCEPT ![p] = IF k = Len(lg.lh) THEN [@ EXCEPT !.pc = "clear"]
                                                  ELSE [@ EXCEPT !.wrote = @ + 1]]
      /\ UNCHANGED <<lg, boot, ghost>>

\* lh.n = 0 and the second write_head: the log is empty again.
ClearHead(p) ==
  /\ boot = "up" /\ lp[p].pc = "clear" /\ Obtainable(bc, LogBlock(0))
  /\ hd' = [hd EXCEPT !.head = <<>>]
  /\ bc' = HeadWritten(bc, <<>>, p)
  /\ lg' = [lg EXCEPT !.lh = <<>>]
  /\ lp' = [lp EXCEPT ![p].pc = "done"]
  /\ UNCHANGED <<boot, ghost>>

\* The end of end_op, after commit.
CommitDone(p) ==
  /\ boot = "up" /\ lp[p].pc = "done"
  /\ lg' = [lg EXCEPT !.committing = FALSE]
  /\ lp' = Wake([lp EXCEPT ![p] = IdleProc])
  /\ UNCHANGED <<hd, bc, boot, ghost>>

\* A commit step that finds no buffer to recycle panics in bget.
NoBuffers(p) ==
  LET k == lp[p].wrote
      b == IF lp[p].pc \in {"head", "clear"} THEN LogBlock(0) ELSE LogBlock(k)
  IN  /\ boot = "up" /\ lp[p].pc \in {"log", "head", "install", "clear"}
      /\ CanGet(bc, b) => /\ lp[p].pc \in {"log", "install"}
                          /\ ~CanGet(bget(bc, b), Home(lg.lh[k]))
      /\ boot' = "panic"
      /\ UNCHANGED <<hd, bc, lg, lp, ghost>>

----------------------------------------------------------------------------
(* power loss, and initlog at the next boot *)

Crash ==
  /\ ghost.crashes < MaxCrashes
  /\ bc' = binit /\ lg' = NoLog /\ lp' = [p \in LogProcs |-> IdleProc]
  /\ boot' = "read_head"
  /\ ghost' = [ghost EXCEPT !.crashes = @ + 1, !.logical = ghost.durable,
                            !.skewed = FALSE, !.tail = 1]
  /\ UNCHANGED hd

read_head ==
  /\ boot = "read_head"
  /\ bc' = brelse(bread(bc, LogBlock(0), "boot"), Pick(bc, LogBlock(0)))
  /\ lg' = [lg EXCEPT !.lh = hd.head]
  /\ boot' = IF hd.head = <<>> THEN "clear" ELSE "install"
  /\ UNCHANGED <<hd, lp, ghost>>

\* install_trans called by recover_from_log: nobody has pinned the blocks it
\* unpins.
RecoverInstall ==
  LET k == ghost.tail
  IN  /\ boot = "install" /\ Install(k, "boot")
      /\ boot' = IF k = Len(lg.lh) THEN "clear" ELSE "install"
      /\ ghost' = [ghost EXCEPT !.skewed = TRUE, !.tail = IF k = Len(lg.lh) THEN 1 ELSE k + 1]
      /\ UNCHANGED <<lg, lp>>

recover_from_log ==
  /\ boot = "clear"
  /\ lg' = [lg EXCEPT !.lh = <<>>] /\ hd' = [hd EXCEPT !.head = <<>>]
  /\ bc' = HeadWritten(bc, <<>>, "boot")
  /\ boot' = "up"
  /\ UNCHANGED <<lp, ghost>>

LogInit ==
  /\ hd = BlankDisk /\ bc = binit /\ lg = NoLog
  /\ lp = [p \in LogProcs |-> IdleProc] /\ boot = "read_head"
  /\ ghost = [ops |-> 0, reads |-> 0, crashes |-> 0, tail |-> 1, skewed |-> FALSE,
              logical |-> BlankDisk.home, durable |-> BlankDisk.home]

LogNext ==
  \/ \E p \in LogProcs :
       \/ StartOp(p) \/ begin_op(p) \/ Hold(p) \/ ReadBlock(p) \/ WriteBlock(p)
       \/ end_op(p) \/ write_log(p) \/ CommitHead(p) \/ install_trans(p)
       \/ ClearHead(p) \/ CommitDone(p) \/ NoBuffers(p)
       \/ \E b \in HomeBlocks : Get(p, b)
  \/ Crash \/ read_head \/ RecoverInstall \/ recover_from_log

LogSpec == LogInit /\ [][LogNext]_logVars

----------------------------------------------------------------------------

\* The home blocks a boot from this disk would end with.
AfterRecovery ==
  [b \in HomeBlocks |->
     LET K == {k \in DOMAIN hd.head : hd.head[k] = b}
     IN  IF K = {} THEN hd.home[b] ELSE hd.log[CHOOSE k \in K : TRUE]]

\* commit and recover_from_log: whenever the machine loses power, the disk
\* recovers to the blocks of all the calls that ended before the last commit
\* and of no other, and when no call is outstanding and no commit runs
\* nothing that a call wrote is missing.  Stated until recovery has installed
\* a block: from there on install_trans has taken a reference it never had.
CrashAtomic ==
  ~ghost.skewed =>
    /\ AfterRecovery = ghost.durable
    /\ boot = "up" /\ lg.outstanding = 0 /\ ~lg.committing
         => ghost.durable = ghost.logical

\* begin_op sleeps only while it has to: end_op wakes on both of its paths.
BeginnersBlocked ==
  \A p \in LogProcs : lp[p].pc = "asleep" => lg.committing \/ ~Fits
==============================================================================

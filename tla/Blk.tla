--------------------------------- MODULE Blk ---------------------------------
(***************************************************************************)
(* The block layer and the IDE driver of the x86 kernel: block/bio.c,      *)
(* block/blk-core.c, block/genhd.c, ide.c, and the byte-wise access to     *)
(* block devices of fs/file.c.                                             *)
(*                                                                         *)
(* At boot the slots of the controllers are probed one after another.      *)
(* Then processes, each on a CPU of its own, read and write devices.  A    *)
(* step is one section under ide_lock or under the lock of a bio_waiter.   *)
(*                                                                         *)
(* ide_wait would sleep if interrupts were on, but its callers hold        *)
(* ide_lock, and acquire has turned them off: it always polls, a whole     *)
(* transfer of one sector is one section under ide_lock, and what ide_intr *)
(* sets is read by nobody.                                                 *)
(***************************************************************************)
EXTENDS Integers, Sequences

CONSTANTS
  BlkProcs,
  SlotChan,       \* per slot, in the order they are probed: its channel
  NSECT,          \* sectors of a disk
  BLOCK_SECTOR_SIZE,
  MaxBytes,       \* bound: bytes of one read or write call
  MaxRws          \* bound: read and write calls of a process

BlkAssumption ==
  /\ SlotChan \in Seq(Nat)
  /\ {NSECT, BLOCK_SECTOR_SIZE, MaxBytes, MaxRws} \subseteq Nat \ {0}

VARIABLES
  ide,      \* probed: slots done; tab: ide_tab; queue and busy of gendisks, channels
  bdisk,    \* per drive: the bytes of its sectors; history: wrote, the last
            \* value written to each byte; torn, the sectors in which a
            \* read-modify-write undid what came in between
  bp        \* per process: the call of file_blk_rw it is in, its bio

blkVars == <<ide, bdisk, bp>>

Bytes == 0 .. BLOCK_SECTOR_SIZE - 1
Sectors == 0 .. NSECT - 1
Channels == {SlotChan[s] : s \in DOMAIN SlotChan}
Drives == DOMAIN ide.tab
Blank == "zero"
NoSect == <<>>
Nothing == [op |-> "none", of |-> "nobody", data |-> NoSect]

FreshDisk == [data  |-> [x \in Sectors |-> [i \in Bytes |-> Blank]],
              wrote |-> [x \in Sectors |-> [i \in Bytes |-> Blank]],
              torn  |-> {}]
IdleBlk == [pc |-> "user", drive |-> 0, op |-> "none", off |-> 0, n |-> 0, done |-> 0,
            sect |-> NoSect, status |-> "ok", over |-> FALSE, got |-> NoSect,
            rq |-> Nothing, calls |-> 0]

----------------------------------------------------------------------------
(* boot: probing *)

\* The entry of a disk: add_disk makes it known, unless alloc_disk has no
\* memory.
ide_add_gendisk(chan, known) == [chan |-> chan, gd |-> known, queue |-> <<>>]

ide_register(entry) == Append(ide.tab, entry)

\* ide_probe_slot.  No disk, a failed IDENTIFY or no memory leave no trace;
\* otherwise the disk is put into ide_tab, its index is its minor number.
ide_probe_slot ==
  LET s == ide.probed + 1 IN
    /\ s \in DOMAIN SlotChan
    /\ \/ ide' = [ide EXCEPT !.probed = s] /\ UNCHANGED bdisk
       \/ \E known \in BOOLEAN :
            /\ ide' = [ide EXCEPT !.probed = s,
                         !.tab = ide_register(ide_add_gendisk(SlotChan[s], known))]
            /\ bdisk' = Append(bdisk, FreshDisk)
    /\ UNCHANGED bp

Booted == ide.probed = Len(SlotChan)

----------------------------------------------------------------------------
(* file_blk_rw: the sectors of one call *)

Sec(c) == c.off \div BLOCK_SECTOR_SIZE
SecOff(c) == c.off % BLOCK_SECTOR_SIZE
Chunk(c) == LET r == BLOCK_SECTOR_SIZE - SecOff(c) IN IF r < c.n - c.done THEN r ELSE c.n - c.done
Covered(c) == SecOff(c) .. SecOff(c) + Chunk(c) - 1

\* The test for a read-modify-write, and as it would be if a write that starts
\* at a sector were always taken for a whole one.
PartialStartOnly(c) == SecOff(c) # 0
Partial(c) == SecOff(c) # 0 \/ Chunk(c) # BLOCK_SECTOR_SIZE

\* What the next bio of the call does: a write that covers a part of a sector
\* reads it first.
BioOp(c) == IF c.op = "write" /\ (~Partial(c) \/ c.sect # NoSect) THEN "write" ELSE "read"

\* The sector a write bio carries: p's bytes over what was read.  A whole
\* sector is written from the caller's buffer.
Carried(p, c) ==
  [i \in Bytes |-> IF i \in Covered(c) \/ c.sect = NoSect THEN p ELSE c.sect[i]]

\* The loop goes on with the next bio, or the call returns.
Step(c) ==
  IF c.done < c.n /\ Sec(c) < NSECT THEN [c EXCEPT !.pc = "submit", !.sect = NoSect, !.over = FALSE]
                                    ELSE [IdleBlk EXCEPT !.calls = c.calls]

\* A sector is done; or, the first half of a read-modify-write, its contents
\* are in the bounce buffer.
SectorDone(c) ==
  IF c.op = "write" /\ BioOp(c) = "read"
  THEN [c EXCEPT !.pc = "submit", !.sect = c.got, !.over = FALSE]
  ELSE Step([c EXCEPT !.done = @ + Chunk(c), !.off = @ + Chunk(c)])

blk_lookup_dev == {d \in Drives : ide.tab[d].gd}

\* sys_read or sys_write on a device that blk_lookup_dev finds, at an offset
\* lseek may have set.
file_blk_rw(p) ==
  /\ Booted /\ bp[p].pc = "user" /\ bp[p].calls < MaxRws
  /\ \E d \in blk_lookup_dev, op \in {"read", "write"}, n \in 1 .. MaxBytes,
        off \in 0 .. NSECT * BLOCK_SECTOR_SIZE :
       bp' = [bp EXCEPT ![p] = Step([IdleBlk EXCEPT !.drive = d, !.op = op, !.n = n,
                                                    !.off = off, !.calls = bp[p].calls + 1])]
  /\ UNCHANGED <<ide, bdisk>>

----------------------------------------------------------------------------
(* submit_bio and the runner of a channel *)

\* A request of p goes to the end of the queue of its disk; p runs the channel
\* if nobody does.
ide_submit_bio(p) ==
  LET c == bp[p]
      ch == ide.tab[c.drive].chan
  IN  /\ ide' = [ide EXCEPT !.tab[c.drive].queue = Append(@, p), !.busy[ch] = TRUE]
      /\ bp' = [bp EXCEPT ![p].pc = IF ide.busy[ch] THEN "wait" ELSE "run"]

\* submit_bio, whose checks the sectors of file_blk_rw pass.  Without memory
\* for the bio or the request the call ends with what it has done so far.
submit_bio(p) ==
  /\ bp[p].pc = "submit"
  /\ \/ ide_submit_bio(p)
     \/ bp' = [bp EXCEPT ![p] = [IdleBlk EXCEPT !.calls = bp[p].calls]] /\ UNCHANGED ide
  /\ UNCHANGED bdisk

\* ide_chan_pick: the first disk of the channel with a request.
Waiting(ch) == {d \in blk_lookup_dev : ide.tab[d].chan = ch /\ ide.tab[d].queue # <<>>}
ChanPick(ch) == CHOOSE d \in Waiting(ch) : \A e \in Waiting(ch) : d <= e

MyChan(p) == ide.tab[bp[p].drive].chan

\* ide_run up to ide_execute_rq: take a request, or give the channel up and
\* go on to wait for the own bio.
ide_run(p) ==
  /\ bp[p].pc = "run"
  /\ LET ch == MyChan(p) IN
       IF Waiting(ch) = {}
       THEN /\ ide' = [ide EXCEPT !.busy[ch] = FALSE]
            /\ bp' = [bp EXCEPT ![p].pc = "wait"]
       ELSE LET d == ChanPick(ch) IN
            /\ ide' = [ide EXCEPT !.tab[d].queue = Tail(@)]
            /\ bp' = [bp EXCEPT ![p].pc = "execute",
                        ![p].rq = [op |-> "rq", of |-> Head(ide.tab[d].queue), data |-> NoSect]]
  /\ UNCHANGED bdisk

\* The transfers, under ide_lock.  ide_write is of what the bio of q carries.
ide_read(d, x) == bdisk[d].data[x]
ide_write(d, x, q) ==
  LET c == bp[q]
  IN [bdisk EXCEPT
       ![d].data[x] = Carried(q, c),
       ![d].wrote[x] = [i \in Bytes |-> IF i \in Covered(c) THEN q ELSE @[i]],
       ![d].torn = IF c.sect # NoSect /\ c.sect # bdisk[d].data[x] THEN @ \cup {x} ELSE @]

\* ide_wait polls: the device is ready, reports an error or does not answer in
\* time.
ide_wait == {"ok", "error"}

\* ide_execute_rq: ide_read or ide_write of the sector.  In the second wait of
\* ide_write the sector is written already.
ide_execute_rq(p) ==
  /\ bp[p].pc = "execute"
  /\ LET q == bp[p].rq.of
         c == bp[q]
         d == c.drive
         x == Sec(c)
         end(st, data) == [bp EXCEPT ![p].pc = "complete",
                                     ![p].rq = [op |-> st, of |-> q, data |-> data]]
     IN  \E first \in ide_wait :
           \/ /\ first = "error"
              /\ bp' = end("error", NoSect)
              /\ UNCHANGED bdisk
           \/ /\ first = "ok" /\ BioOp(c) = "read"
              /\ bp' = end("ok", ide_read(d, x))
              /\ UNCHANGED bdisk
           \/ /\ first = "ok" /\ BioOp(c) = "write"
              /\ bdisk' = ide_write(d, x, q)
              /\ \E last \in ide_wait : bp' = end(last, NoSect)
  /\ UNCHANGED ide

\* bio_wait_end_io marks the bio of q done and wakes who waits for it; and as
\* it would be without the wakeup.
EndSilent(ps, q, st, data) ==
  [ps EXCEPT ![q].over = TRUE, ![q].status = st, ![q].got = data]
bio_wait_end_io(ps, q, st, data) ==
  [ps EXCEPT ![q].over = TRUE, ![q].status = st, ![q].got = data,
             ![q].pc = IF @ = "asleep" THEN "wait" ELSE @]

\* ide_complete_rq, then the next turn of ide_run.
ide_complete_rq(p) ==
  /\ bp[p].pc = "complete"
  /\ LET r == bp[p].rq
         ran == [bp EXCEPT ![p].pc = "run", ![p].rq = Nothing]
     IN  bp' = bio_wait_end_io(ran, r.of, r.op, r.data)
  /\ UNCHANGED <<ide, bdisk>>

bio_waiter_sleep(c) == [c EXCEPT !.pc = "asleep"]

\* The end of submit_bio_wait: sleep until the bio is done.  A failed bio ends
\* the call with what was done so far, and the file offset stays as it was.
submit_bio_wait(p) ==
  /\ bp[p].pc = "wait"
  /\ bp' = [bp EXCEPT ![p] = CASE ~@.over -> bio_waiter_sleep(@)
                               [] @.over /\ @.status = "ok" -> SectorDone(@)
                               [] OTHER -> [IdleBlk EXCEPT !.calls = bp[p].calls]]
  /\ UNCHANGED <<ide, bdisk>>

\* A signal wakes a sleeper, which tests its bio again.
signal_wake_locked(p) ==
  /\ bp[p].pc = "asleep"
  /\ bp' = [bp EXCEPT ![p].pc = "wait"]
  /\ UNCHANGED <<ide, bdisk>>

BlkInit ==
  /\ ide = [probed |-> 0, tab |-> <<>>, busy |-> [ch \in Channels |-> FALSE]]
  /\ bdisk = <<>>
  /\ bp = [p \in BlkProcs |-> IdleBlk]

BlkNext ==
  \/ ide_probe_slot
  \/ \E p \in BlkProcs :
       file_blk_rw(p) \/ submit_bio(p) \/ ide_run(p) \/ ide_execute_rq(p)
         \/ ide_complete_rq(p) \/ submit_bio_wait(p) \/ signal_wake_locked(p)

BlkSpec == BlkInit /\ [][BlkNext]_blkVars

----------------------------------------------------------------------------
Runners(ch) == {p \in BlkProcs : bp[p].pc \in {"run", "execute", "complete"} /\ MyChan(p) = ch}
Queued(p) == \E d \in Drives : \E i \in DOMAIN ide.tab[d].queue : ide.tab[d].queue[i] = p
Carries(p, q) == bp[p].pc \in {"execute", "complete"} /\ bp[p].rq.of = q

\* A channel has one runner while it is busy and none otherwise, and no
\* request is left in a queue without one; a process whose bio is not done has
\* it in one queue or with one runner, and one that sleeps has a bio that is
\* not done: nobody waits for a transfer that is over or that no one will start
\* (ide.c ide_submit_bio, ide_run, ide_complete_rq; blk-core.c submit_bio_wait,
\* bio_wait_end_io).
BiosServed ==
  /\ \A ch \in Channels :
       /\ \A p, q \in Runners(ch) : p = q
       /\ ide.busy[ch] <=> Runners(ch) # {}
       /\ Waiting(ch) # {} => ide.busy[ch]
  /\ \A p \in BlkProcs :
       /\ bp[p].pc \notin {"user", "submit"} =>
            (~bp[p].over <=> Queued(p) \/ \E q \in BlkProcs : Carries(q, p))
       /\ bp[p].pc = "asleep" => ~bp[p].over
       /\ \A q, r \in BlkProcs : Carries(q, p) /\ Carries(r, p) => q = r

\* A byte of a disk is the last one that a write call put there, also next to
\* writes of parts of the same sector; the exception is a sector that another
\* process wrote between the read and the write of a read-modify-write
\* (file.c file_blk_rw).
BytesKept ==
  \A d \in Drives, x \in Sectors : x \notin bdisk[d].torn => bdisk[d].data[x] = bdisk[d].wrote[x]
=============================================================================

-------------------------------- MODULE RvDisk --------------------------------
(***************************************************************************)
(* The virtio disk driver of the RISC-V kernel:                            *)
(* arch/riscv/kernel/virtio_disk.c.                                        *)
(*                                                                         *)
(* Each process has one buffer, which it hands to virtio_disk_rw.  A step  *)
(* is a section under vdisk_lock.  virtio_disk_intr tests used->id, which  *)
(* the device moves at any time, and acknowledges the interrupt after its  *)
(* loop: the acknowledgement is a step of its own.                         *)
(***************************************************************************)
EXTENDS Integers, FiniteSets, Sequences

CONSTANTS
  DiskProcs,
  NUM            \* descriptors of the queue

DiskAssumption == NUM \in Nat /\ NUM >= 3

VARIABLES
  free,          \* disk.free: the free descriptors
  dp,            \* per process: place in virtio_disk_rw, its chain, b->disk
  avail,         \* requests handed to the device that it has not finished
  used,          \* the entries of the used ring from disk.used_idx to used->id;
                 \* at most NUM / 3 requests are in flight, so it never wraps
  irq            \* the interrupt line and the handler

diskVars == <<free, dp, avail, used, irq>>

Desc == 0 .. NUM - 1
NoRequest == [pc |-> "idle", idx |-> <<>>, disk |-> FALSE]

\* The handler holds vdisk_lock from TakeIntr to IntrAck.
LockFree == irq.handler = "off"

\* wakeup of the sleepers on a channel, &disk.free[0] or a buffer.
WakeAll(ps, pc, to) ==
  [p \in DiskProcs |-> IF ps[p].pc = pc THEN [ps[p] EXCEPT !.pc = to] ELSE ps[p]]

Lowest3(S) ==
  CHOOSE t \in S \X S \X S :
    t[1] < t[2] /\ t[2] < t[3] /\ \A d \in S : d <= t[3] => d \in {t[1], t[2], t[3]}

virtio_disk_rw(p) ==
  /\ dp[p].pc = "idle"
  /\ dp' = [dp EXCEPT ![p].pc = "alloc"]
  /\ UNCHANGED <<free, avail, used, irq>>

\* Variant: two free descriptors are thought to be enough.
AllocTwo(p) ==
  /\ LockFree /\ dp[p].pc = "alloc"
  /\ IF Cardinality(free) >= 2
     THEN LET t == CHOOSE u \in free \X free : u[1] < u[2]
          IN  /\ free' = free \ {t[1], t[2]}
              /\ dp' = [dp EXCEPT ![p] = [pc |-> "wait", idx |-> <<t[1], t[2], t[2]>>,
                                          disk |-> TRUE]]
              /\ avail' = avail \cup {p}
     ELSE /\ dp' = [WakeAll(dp, "nodesc", "alloc") EXCEPT ![p].pc = "nodesc"]
          /\ UNCHANGED <<free, avail>>
  /\ UNCHANGED <<used, irq>>

\* alloc3_desc and the submission.  When it cannot have three, what it took is
\* given back by free_desc, which wakes everybody that waits for descriptors,
\* and the process sleeps.
alloc3_desc(p) ==
  /\ LockFree /\ dp[p].pc = "alloc"
  /\ IF Cardinality(free) >= 3
     THEN LET t == Lowest3(free)
          IN  /\ free' = free \ {t[1], t[2], t[3]}
              /\ dp' = [dp EXCEPT ![p] = [pc |-> "wait", idx |-> t, disk |-> TRUE]]
              /\ avail' = avail \cup {p}
     ELSE /\ dp' = [IF free = {} THEN dp ELSE WakeAll(dp, "nodesc", "alloc")
                      EXCEPT ![p].pc = "nodesc"]
          /\ UNCHANGED <<free, avail>>
  /\ UNCHANGED <<used, irq>>

\* The device finishes a request, in any order, and raises its interrupt.
DeviceDone(p) ==
  /\ p \in avail
  /\ avail' = avail \ {p}
  /\ used' = Append(used, p)
  /\ irq' = [irq EXCEPT !.line = TRUE]
  /\ UNCHANGED <<free, dp>>

\* The interrupt is taken.
TakeIntr ==
  /\ irq.line /\ irq.handler = "off"
  /\ irq' = [irq EXCEPT !.handler = "loop"]
  /\ UNCHANGED <<free, dp, avail, used>>

\* Variant: the handler clears b->disk and leaves the waking to the next one.
IntrNoWake ==
  /\ irq.handler = "loop" /\ used # <<>>
  /\ dp' = [dp EXCEPT ![Head(used)].disk = FALSE]
  /\ used' = Tail(used)
  /\ UNCHANGED <<free, avail, irq>>

\* One turn of the handler's loop.
virtio_disk_intr ==
  LET p == Head(used)
  IN  /\ irq.handler = "loop" /\ used # <<>>
      /\ dp' = [dp EXCEPT ![p] = [@ EXCEPT !.disk = FALSE,
                                           !.pc = IF @ = "asleep" THEN "wait" ELSE @]]
      /\ used' = Tail(used)
      /\ UNCHANGED <<free, avail, irq>>

IntrLoopEnds ==
  /\ irq.handler = "loop" /\ used = <<>>
  /\ irq' = [irq EXCEPT !.handler = "ack"]
  /\ UNCHANGED <<free, dp, avail, used>>

IntrAck ==
  /\ irq.handler = "ack"
  /\ irq' = [line |-> FALSE, handler |-> "off"]
  /\ UNCHANGED <<free, dp, avail, used>>

\* The end of virtio_disk_rw: sleep on the buffer, or free_chain and return.
FinishRw(p) ==
  /\ LockFree /\ dp[p].pc = "wait"
  /\ IF dp[p].disk
     THEN dp' = [dp EXCEPT ![p].pc = "asleep"] /\ UNCHANGED free
     ELSE /\ free' = free \cup {dp[p].idx[1], dp[p].idx[2], dp[p].idx[3]}
          /\ dp' = [WakeAll(dp, "nodesc", "alloc") EXCEPT ![p] = NoRequest]
  /\ UNCHANGED <<avail, used, irq>>

DiskInit ==
  /\ free = Desc /\ dp = [p \in DiskProcs |-> NoRequest] /\ avail = {}
  /\ used = <<>> /\ irq = [line |-> FALSE, handler |-> "off"]

DiskNext ==
  \/ \E p \in DiskProcs :
       \/ virtio_disk_rw(p) \/ alloc3_desc(p) \/ FinishRw(p) \/ DeviceDone(p)
  \/ TakeIntr \/ virtio_disk_intr \/ IntrLoopEnds \/ IntrAck

DiskSpec == DiskInit /\ [][DiskNext]_diskVars

----------------------------------------------------------------------------

InFlight(p) == dp[p].pc \in {"wait", "asleep"}
Chain3(p) == {dp[p].idx[1], dp[p].idx[2], dp[p].idx[3]}

\* alloc3_desc and free_chain: every descriptor is free or in exactly one chain,
\* and the device works only on chains that are in flight and not yet done.
DescriptorsOwned ==
  /\ \A p \in DiskProcs : InFlight(p) => Cardinality(Chain3(p)) = 3 /\ Chain3(p) \cap free = {}
  /\ \A p, q \in DiskProcs : InFlight(p) /\ InFlight(q) /\ p # q => Chain3(p) \cap Chain3(q) = {}
  /\ Cardinality(free) + 3 * Cardinality({p \in DiskProcs : InFlight(p)}) = NUM
  /\ \A p \in avail : InFlight(p) /\ dp[p].disk

\* Who sleeps on a buffer waits for a request that is not done, and who sleeps
\* for descriptors could not have three: free_desc and virtio_disk_intr wake.
DiskSleepersBlocked ==
  \A p \in DiskProcs :
    /\ dp[p].pc = "asleep" => dp[p].disk
    /\ dp[p].pc = "nodesc" => Cardinality(free) < 3
==============================================================================

------------------------------- MODULE RvSpin --------------------------------
(***************************************************************************)
(* Spin locks of the RISC-V kernel (riscv/kernel/spinlock.c) with what     *)
(* they are entangled with: interrupts, which handlers take the same locks *)
(* in, and switches, which carry a lock from one thread to another         *)
(* (sched and scheduler of proc.c, usertrap and kerneltrap of trap.c).     *)
(*                                                                         *)
(* A context is a kernel thread or the scheduler of a CPU.  There is one   *)
(* lock that system calls and interrupt handlers share, as tickslock is,   *)
(* and p->lock of each thread.                                             *)
(***************************************************************************)
EXTENDS Integers, FiniteSets

CONSTANTS SpinThreads, SpinCpus, TicksLock

SpinAssumption ==
  SpinThreads \cap SpinCpus = {} /\ TicksLock \notin SpinThreads \cup SpinCpus

VARIABLES
  lk,        \* the locks; p->lock of thread t is lk[t]
  cpu,       \* noff, intena and the interrupt enable bit
  cur,       \* the context that runs on a CPU
  ctx,       \* where a context is
  ready,     \* threads in state RUNNABLE
  spanic     \* an acquire, release, pop_off or sched has panicked

spinVars == <<lk, cpu, cur, ctx, ready, spanic>>

Contexts == SpinThreads \cup SpinCpus
NoCpu == "none"
OpenLock == [locked |-> FALSE, cpu |-> NoCpu]

Pc(c) == ctx[cur[c]].pc

----------------------------------------------------------------------------
(* spinlock.c *)

holding(c, l) == lk[l].locked /\ lk[l].cpu = c

push_off(c) ==
  [cpu EXCEPT ![c] = [intr |-> FALSE, noff |-> @.noff + 1,
                      intena |-> IF @.noff = 0 THEN @.intr ELSE @.intena]]

PopPanics(c) == cpu[c].intr \/ cpu[c].noff < 1

pop_off(c) ==
  [cpu EXCEPT ![c].noff = @ - 1, ![c].intr = cpu[c].noff = 1 /\ cpu[c].intena]

\* acquire up to the loop that spins; next is where the context goes on.
acquire(c, l, next) ==
  /\ cpu' = push_off(c)
  /\ spanic' = holding(c, l)
  /\ ctx' = [ctx EXCEPT ![cur[c]].pc = "spin", ![cur[c]].lock = l, ![cur[c]].next = next]
  /\ UNCHANGED <<lk, cur, ready>>

Spin(c) ==
  LET x == ctx[cur[c]]
  IN /\ x.pc = "spin" /\ ~lk[x.lock].locked
     /\ lk' = [lk EXCEPT ![x.lock] = [locked |-> TRUE, cpu |-> c]]
     /\ ctx' = [ctx EXCEPT ![cur[c]].pc = x.next, ![cur[c]].next = "idle"]
     /\ UNCHANGED <<cpu, cur, ready, spanic>>

release(c, l, next) ==
  /\ lk' = [lk EXCEPT ![l] = OpenLock]
  /\ cpu' = pop_off(c)
  /\ spanic' = (~holding(c, l) \/ PopPanics(c))
  /\ ctx' = [ctx EXCEPT ![cur[c]].pc = next, ![cur[c]].lock = TicksLock]
  /\ UNCHANGED <<cur, ready>>

----------------------------------------------------------------------------
(* Interrupts and system calls *)

\* An interrupt of kernel code, wherever it is allowed
kerneltrap(c) ==
  /\ cpu[c].intr /\ Pc(c) # "user" /\ ctx[cur[c]].ret = "none"
  /\ cpu' = [cpu EXCEPT ![c].intr = FALSE]
  /\ ctx' = [ctx EXCEPT ![cur[c]].pc = "handler", ![cur[c]].ret = Pc(c)]
  /\ UNCHANGED <<lk, cur, ready, spanic>>

\* wakeup, for one thread of its loop
wakeup(c) ==
  LET t == ctx[cur[c]].lock
  IN \/ Pc(c) = "clock" /\ \E u \in SpinThreads : acquire(c, u, "wakeup")
     \/ /\ Pc(c) = "wakeup" /\ ctx[t].pc = "asleep"
        /\ ready' = ready \cup {t}
        /\ ctx' = [ctx EXCEPT ![t].pc = "woken"]
        /\ UNCHANGED <<lk, cpu, cur, spanic>>
     \/ Pc(c) = "wakeup" /\ ctx[t].pc # "asleep" /\ release(c, t, "clock")

\* Of the devices' interrupts the clock's
clockintr(c) ==
  \/ Pc(c) = "handler" /\ acquire(c, TicksLock, "clock")
  \/ wakeup(c)
  \/ Pc(c) = "clock" /\ release(c, TicksLock, "handled")

\* kerneltrap restores sstatus, which had interrupts on.
TrapReturn(c) ==
  /\ Pc(c) = "handled"
  /\ cpu' = [cpu EXCEPT ![c].intr = TRUE]
  /\ ctx' = [ctx EXCEPT ![cur[c]].pc = ctx[cur[c]].ret, ![cur[c]].ret = "none"]
  /\ UNCHANGED <<lk, cur, ready, spanic>>

\* A trap from user mode comes with interrupts off; syscall() runs with them on.
usertrap(c) ==
  /\ Pc(c) = "user"
  /\ \E on \in BOOLEAN :
       /\ cpu' = [cpu EXCEPT ![c].intr = on]
       /\ ctx' = [ctx EXCEPT ![cur[c]].pc = "kernel", ![cur[c]].on = on]
  /\ UNCHANGED <<lk, cur, ready, spanic>>

\* usertrapret: off, and on again with sret
usertrapret(c) ==
  /\ Pc(c) = "kernel"
  /\ cpu' = [cpu EXCEPT ![c].intr = TRUE]
  /\ ctx' = [ctx EXCEPT ![cur[c]].pc = "user", ![cur[c]].on = TRUE]
  /\ UNCHANGED <<lk, cur, ready, spanic>>

----------------------------------------------------------------------------
(* yield, sleep and the scheduler *)

\* The end of a handler or of a system call may yield.
yield(c) ==
  /\ cur[c] \in SpinThreads /\ Pc(c) \in {"kernel", "handled"}
  /\ acquire(c, cur[c], "yielding")

\* A system call takes the lock, and gives it back or sleeps with it.
Locked(c) ==
  \/ Pc(c) = "kernel" /\ acquire(c, TicksLock, "locked")
  \/ Pc(c) = "locked" /\ release(c, TicksLock, "kernel")

sleep(c) ==
  \/ Pc(c) = "locked" /\ acquire(c, cur[c], "sleep")
  \/ Pc(c) = "sleep" /\ release(c, TicksLock, "sleeping")
  \/ Pc(c) = "woken" /\ release(c, cur[c], "relock")
  \/ Pc(c) = "relock" /\ acquire(c, TicksLock, "locked")

AfterYield(c) ==
  Pc(c) = "yielded" /\ release(c, cur[c], IF ctx[cur[c]].ret = "none" THEN "kernel" ELSE "handled")

\* sched: to the scheduler of this CPU, with p->lock held and nothing else
sched(c) ==
  LET t == cur[c]
  IN /\ Pc(c) \in {"yielding", "sleeping"}
     /\ spanic' = (~holding(c, t) \/ cpu[c].noff # 1 \/ cpu[c].intr)
     /\ ready' = IF Pc(c) = "yielding" THEN ready \cup {t} ELSE ready
     /\ cur' = [cur EXCEPT ![c] = c]
     /\ ctx' = [ctx EXCEPT ![t].saved = cpu[c].intena,
                           ![t].pc = IF @ = "yielding" THEN "yielded" ELSE "asleep"]
     /\ UNCHANGED <<lk, cpu>>

\* Variant: the CPU's own intena is left in place.
ResumeNoRestore(c, t) ==
  /\ cur' = [cur EXCEPT ![c] = t]
  /\ UNCHANGED cpu

\* swtch to a thread that was in sched, which restores its intena, or to forkret
Resume(c, t) ==
  /\ cur' = [cur EXCEPT ![c] = t]
  /\ cpu' = IF ctx[t].pc = "forkret" THEN cpu ELSE [cpu EXCEPT ![c].intena = ctx[t].saved]

\* scheduler: the turn for thread t
PickThread(c) ==
  /\ cur[c] = c
  /\ \/ \E t \in SpinThreads : Pc(c) = "idle" /\ acquire(c, t, "look")
     \/ /\ Pc(c) = "look" /\ ctx[c].lock \in ready
        /\ Resume(c, ctx[c].lock)
        /\ ready' = ready \ {ctx[c].lock}
        /\ ctx' = [ctx EXCEPT ![c].pc = "back", ![ctx[c].lock].saved = FALSE]
        /\ UNCHANGED <<lk, spanic>>
     \/ /\ Pc(c) = "back" \/ (Pc(c) = "look" /\ ctx[c].lock \notin ready)
        /\ release(c, ctx[c].lock, "idle")

\* intr_on at the top of the loop of scheduler; within a round over the process
\* table they stay as the last thread left them.
IntrOn(c) ==
  /\ cur[c] = c /\ Pc(c) = "idle" /\ ~cpu[c].intr
  /\ cpu' = [cpu EXCEPT ![c].intr = TRUE]
  /\ UNCHANGED <<lk, cur, ctx, ready, spanic>>

\* A new thread starts with interrupts as the scheduler had them.
forkret(c) ==
  \/ Pc(c) = "forkret" /\ release(c, cur[c], "started")
  \/ /\ Pc(c) = "started"
     /\ ctx' = [ctx EXCEPT ![cur[c]].pc = "kernel", ![cur[c]].on = cpu[c].intr]
     /\ UNCHANGED <<lk, cpu, cur, ready, spanic>>

----------------------------------------------------------------------------
SpinInit ==
  /\ lk = [l \in SpinThreads \cup {TicksLock} |-> OpenLock]
  /\ cpu = [c \in SpinCpus |-> [noff |-> 0, intena |-> FALSE, intr |-> FALSE]]
  /\ cur = [c \in SpinCpus |-> c]
  /\ ctx = [x \in Contexts |->
              [pc |-> IF x \in SpinCpus THEN "idle" ELSE "forkret", next |-> "idle",
               lock |-> TicksLock, ret |-> "none", saved |-> FALSE, on |-> TRUE]]
  /\ ready = SpinThreads
  /\ spanic = FALSE

SpinNext ==
  /\ ~spanic
  /\ \E c \in SpinCpus :
       \/ Spin(c) \/ kerneltrap(c) \/ clockintr(c) \/ TrapReturn(c) \/ usertrap(c) \/ usertrapret(c)
       \/ yield(c) \/ Locked(c) \/ sleep(c) \/ AfterYield(c) \/ sched(c)
       \/ PickThread(c) \/ IntrOn(c) \/ forkret(c)

SpinSpec == SpinInit /\ [][SpinNext]_spinVars

----------------------------------------------------------------------------
\* noff of a CPU is the number of locks it holds or spins for, and while there
\* are any its interrupts are off: no handler can spin for a lock that the code
\* it interrupted holds.  Outside, interrupts are as this thread left them, on
\* whatever CPU it came back from a switch.  And none of the panics happens.
InterruptsSound ==
  /\ ~spanic
  /\ \A c \in SpinCpus :
       /\ cpu[c].noff = Cardinality({l \in DOMAIN lk : holding(c, l)})
                        + (IF Pc(c) = "spin" THEN 1 ELSE 0)
       /\ cpu[c].noff > 0 => ~cpu[c].intr
       /\ Pc(c) = "kernel" => cpu[c].intr = ctx[cur[c]].on
=============================================================================

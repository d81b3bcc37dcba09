------------------------------- MODULE Sched -------------------------------
(***************************************************************************)
(* The process table, the run queue and the per-CPU scheduler of the x86   *)
(* kernel: arch/x86/kernel/proc.c, task_queue.c, swtch.S, timer.c.         *)
(*                                                                         *)
(* A step is one section under proc_lock, or the code between two of them. *)
(* Everything a CPU does in the kernel runs with interrupts off, so the    *)
(* timer is taken only in ring 3 and in the scheduler's own loop, and the  *)
(* other interleavings are those of different CPUs.                        *)
(*                                                                         *)
(* A process that is switched out is described by its saved context; a     *)
(* process that runs is described by the position of its CPU.  Saving and  *)
(* loading are separate steps, as in the code, which releases proc_lock    *)
(* before swtch.                                                           *)
(***************************************************************************)
EXTENDS Integers, Sequences, FiniteSets

CONSTANTS
  NPROC,      \* number of process table slots
  CPUs,       \* the CPUs that run scheduler()
  NPages,     \* number of pages available for kernel stacks
  KthreadClients   \* whether kernel threads call kthread_create, see Kthread

Slots == 0 .. NPROC - 1
Swapper == 0          \* pid 0, never queued
InitProc == 1         \* initproc
KthreaddTask == 2     \* kthreadd_task

Threads == {InitProc, KthreaddTask}    \* what rest_init creates

NoProc == -1
AnyChild == -2        \* the -1 of waitpid(-1)
Args == Slots \cup {NoProc, AnyChild}

NoPage == 0
Pages == 1 .. NPages

ASSUME SchedAssumption ==
  /\ NPROC \in Nat /\ NPROC > 2
  /\ NPages \in Nat /\ NPages >= 2
  /\ KthreadClients \in BOOLEAN

VARIABLES
  state,         \* struct proc: state
  chan,          \* sleep channel
  timed,         \* wakeup_tick # 0
  parent,        \* parent
  user,          \* mm # 0: the process has a user address space
  kstack,        \* the page of its kernel stack
  context,       \* the saved context
  runqueue,      \* the FIFO of task_queue.c
  proc,          \* struct cpu: proc
  pc,            \* where the CPU is
  ret,           \* where it goes on after sched() or a timer interrupt
  arg,           \* the local variable its code keeps across steps
  stack,         \* the kernel stack page it runs on, NoPage on its boot stack
  last_sched,    \* last_sched
  freePages,     \* pages the page allocator could hand out
  crash          \* "none", "panic", or "stack": a kernel stack was corrupted

tableVars == <<state, chan, timed, parent, user, kstack, context>>
cpuVars == <<proc, pc, ret, arg, stack, last_sched>>
schedVars == <<tableVars, runqueue, cpuVars, freePages, crash>>

States == {"UNUSED", "USED", "SLEEPING", "RUNNABLE", "RUNNING", "ZOMBIE"}

\* Where a switched-out process may go on.  "dead" follows the last sched()
\* of an exiting process.
ResumePoints == {"user", "wait", "kernel_init", "kthread", "kthreadd", "created"}

NoChan == <<"none", 0>>
ProcChan(p) == <<"proc", p>>       \* sleep(parent)
ListChan == <<"list", 0>>          \* sleep(&kthread_create_list)
InfoChan(p) == <<"info", p>>       \* the request of creator p
Chans == {NoChan, ListChan} \cup {ProcChan(p) : p \in Slots}
                            \cup {InfoChan(p) : p \in Slots}

\* A context that no longer describes a suspended execution: it is zeroed, or
\* has been loaded and its frame on the stack is in use.
Popped == [at |-> "popped", arg |-> NoProc, page |-> NoPage]
Saved(at, a, page) == [at |-> at, arg |-> a, page |-> page]
Contexts == {Popped} \cup
  [at : ResumePoints \cup {"dead"}, arg : Args, page : Pages \cup {NoPage}]

Queued == {runqueue[i] : i \in DOMAIN runqueue}
Goto(c, label) == pc' = [pc EXCEPT ![c] = label]

----------------------------------------------------------------------------
(* task_queue.c *)

\* The processes of S in table order, the order of the loops over proc_table.
TableOrder(q, S) ==
  /\ q \in [1 .. Cardinality(S) -> S]
  /\ {q[i] : i \in DOMAIN q} = S
  /\ \A i, j \in DOMAIN q : i < j => q[i] < q[j]

\* task_queue_enqueue_locked, once for each process of S.
EnqueueAll(S) ==
  /\ \E q \in [1 .. Cardinality(S) -> S] :
        TableOrder(q, S) /\ runqueue' = runqueue \o q
  /\ crash' = IF S \cap Queued # {} THEN "panic" ELSE crash

\* Variant: LIFO order.
EnqueueFront(p) ==
  /\ runqueue' = <<p>> \o runqueue
  /\ crash' = IF p \in Queued THEN "panic" ELSE crash

Enqueue(p) ==
  /\ runqueue' = Append(runqueue, p)
  /\ crash' = IF p \in Queued THEN "panic" ELSE crash

Unlink(p) ==
  runqueue' = IF p \in Queued THEN SelectSeq(runqueue, LAMBDA q : q # p)
                              ELSE runqueue

----------------------------------------------------------------------------
(* sleep, wakeup and page allocation *)

\* The locked part of sleep() and of the sleeps written out elsewhere; the CPU
\* then stands before sched(), with proc_lock released.
SleepOn(c, ch, tick, at, a) ==
  LET p == proc[c] IN
  /\ state' = [state EXCEPT ![p] = "SLEEPING"]
  /\ chan' = [chan EXCEPT ![p] = ch]
  /\ timed' = [timed EXCEPT ![p] = tick]
  /\ Goto(c, "sched")
  /\ ret' = [ret EXCEPT ![c] = at]
  /\ arg' = [arg EXCEPT ![c] = a]

Sleepers(ch) == {p \in Slots : state[p] = "SLEEPING" /\ chan[p] = ch}

\* The loop body of wakeup(), sched_tick() and signal_wake_locked().
WakeAll(S) ==
  /\ state' = [p \in Slots |-> IF p \in S THEN "RUNNABLE" ELSE state[p]]
  /\ chan' = [p \in Slots |-> IF p \in S THEN NoChan ELSE chan[p]]
  /\ timed' = [p \in Slots |-> IF p \in S THEN FALSE ELSE timed[p]]
  /\ EnqueueAll(S)

OnStack(page) == {c \in CPUs : stack[c] = page}

\* alloc_page returns some free page, cleared.  Pages of the same standing are
\* interchangeable: the lowest stands for all of them.
AllocCandidates ==
  {page \in freePages : \A q \in freePages :
      q < page => (OnStack(q) = {}) # (OnStack(page) = {})}

AllocKstack(p, page) ==
  /\ freePages' = freePages \ {page}
  /\ kstack' = [kstack EXCEPT ![p] = page]
  /\ crash' = IF OnStack(page) # {} THEN "stack" ELSE crash

\* Variants: the page is lost; the test of p->kstack is missing.
FreeKstackLeak(p) ==
  /\ kstack' = [kstack EXCEPT ![p] = NoPage]
  /\ UNCHANGED freePages

FreeKstackUntested(p) ==
  /\ freePages' = freePages \cup {kstack[p]}
  /\ kstack' = [kstack EXCEPT ![p] = NoPage]

FreeKstack(p) ==
  /\ freePages' = freePages \cup ({kstack[p]} \ {NoPage})
  /\ kstack' = [kstack EXCEPT ![p] = NoPage]

\* Variant: a ZOMBIE slot counts as free.
FirstDead(p) ==
  /\ p \in Slots \ {Swapper}
  /\ state[p] \in {"UNUSED", "ZOMBIE"}
  /\ \A q \in 1 .. p - 1 : state[q] \notin {"UNUSED", "ZOMBIE"}

\* proc_alloc takes the first UNUSED slot after the swapper's.
FirstUnused(p) ==
  /\ p \in Slots \ {Swapper}
  /\ state[p] = "UNUSED"
  /\ \A q \in 1 .. p - 1 : state[q] # "UNUSED"

\* memset of the slot, state USED.
ClaimSlot(p) ==
  /\ state' = [state EXCEPT ![p] = "USED"]
  /\ chan' = [chan EXCEPT ![p] = NoChan]
  /\ timed' = [timed EXCEPT ![p] = FALSE]
  /\ parent' = [parent EXCEPT ![p] = NoProc]
  /\ user' = [user EXCEPT ![p] = FALSE]
  /\ kstack' = [kstack EXCEPT ![p] = NoPage]
  /\ context' = [context EXCEPT ![p] = Popped]
  /\ crash' = IF p \in Queued THEN "panic" ELSE crash

\* proc_free
FreeSlot(p) ==
  /\ FreeKstack(p)
  /\ context' = [context EXCEPT ![p] = Popped]
  /\ Unlink(p)
  /\ state' = [state EXCEPT ![p] = "UNUSED"]
  /\ parent' = [parent EXCEPT ![p] = NoProc]
  /\ user' = [user EXCEPT ![p] = FALSE]

----------------------------------------------------------------------------
(* scheduler(), sched() and swtch *)

\* Where kthread_ctx_init and user_ctx_init make a process start.
EntryPoint(p) == IF user[p] THEN "user"
                 ELSE IF p = InitProc THEN "kernel_init"
                 ELSE IF p = KthreaddTask THEN "kthreadd" ELSE "kthread"

\* context_sane.  Of a popped context it compares words of a stack that has
\* changed since, so either answer is possible.
ContextSane(p) ==
  IF context[p] = Popped THEN BOOLEAN
  ELSE {kstack[p] # NoPage /\ context[p].page = kstack[p]}

\* Rebuilding a context writes to the stack.
PrepareContext(p) ==
  \E sane \in ContextSane(p) :
    /\ context' = IF sane THEN context
                  ELSE [context EXCEPT ![p] =
                          Saved(EntryPoint(p), NoProc, kstack[p])]
    /\ crash' = IF state[p] # "RUNNABLE" \/ kstack[p] = NoPage THEN "panic"
                ELSE IF ~sane /\ OnStack(kstack[p]) # {} THEN "stack" ELSE crash

\* scheduler(), from the dequeue to the release of proc_lock.
Schedule(c) ==
  /\ pc[c] = "idle"
  /\ runqueue # <<>>
  /\ LET p == Head(runqueue) IN
     /\ runqueue' = Tail(runqueue)
     /\ PrepareContext(p)
     /\ state' = [state EXCEPT ![p] = "RUNNING"]
     /\ proc' = [proc EXCEPT ![c] = p]
  /\ Goto(c, "swtch")
  /\ UNCHANGED <<chan, timed, parent, user, kstack, ret, arg, stack,
                 last_sched, freePages>>

\* Executing on a stack that another CPU uses, that has been freed, or from a
\* context that is not this process's: what follows is undefined.
Corrupt(p) ==
  LET k == context[p] IN
  \/ k.at \notin ResumePoints
  \/ k.page # kstack[p]
  \/ k.page \in freePages
  \/ OnStack(k.page) # {}

\* context_switch(&c->context, &p->context)
SwitchTo(c) ==
  /\ pc[c] = "swtch"
  /\ LET p == proc[c]
         k == context[p] IN
     IF Corrupt(p)
     THEN /\ crash' = "stack"
          /\ UNCHANGED <<context, pc, arg, stack>>
     ELSE /\ context' = [context EXCEPT ![p] = Popped]
          /\ Goto(c, k.at)
          /\ arg' = [arg EXCEPT ![c] = k.arg]
          /\ stack' = [stack EXCEPT ![c] = k.page]
          /\ UNCHANGED crash
  /\ UNCHANGED <<state, chan, timed, parent, user, kstack, runqueue, proc, ret,
                 last_sched, freePages>>

\* sched(): save the context, unless the process is dead, and load the
\* scheduler's.
Sched(c) ==
  /\ pc[c] = "sched"
  /\ LET p == proc[c] IN
     /\ last_sched' = [last_sched EXCEPT ![c] = p]
     /\ context' = IF state[p] \in {"ZOMBIE", "UNUSED"} THEN context
                   ELSE [context EXCEPT ![p] = Saved(ret[c], arg[c], stack[c])]
  /\ Goto(c, "back")
  /\ ret' = [ret EXCEPT ![c] = "none"]
  /\ arg' = [arg EXCEPT ![c] = NoProc]
  /\ stack' = [stack EXCEPT ![c] = NoPage]
  /\ UNCHANGED <<state, chan, timed, parent, user, kstack, runqueue, proc,
                 freePages, crash>>

\* scheduler() after swtch returns: the test of prev->state takes no lock.
Back(c) ==
  /\ pc[c] = "back"
  /\ proc' = [proc EXCEPT ![c] = NoProc]
  /\ IF state[last_sched[c]] = "UNUSED"
     THEN Goto(c, "reap") /\ UNCHANGED last_sched
     ELSE Goto(c, "idle") /\ last_sched' = [last_sched EXCEPT ![c] = NoProc]
  /\ UNCHANGED <<tableVars, runqueue, ret, arg, stack, freePages, crash>>

\* kthread_reap(prev)
Reap(c) ==
  /\ pc[c] = "reap"
  /\ FreeKstack(last_sched[c])
  /\ last_sched' = [last_sched EXCEPT ![c] = NoProc]
  /\ Goto(c, "idle")
  /\ UNCHANGED <<state, chan, timed, parent, user, context, runqueue, proc,
                 ret, arg, stack, crash>>

----------------------------------------------------------------------------
(* timer interrupt, preemption and yield *)

\* sched_tick, first section.  Which deadlines have passed is left open.
TickWake ==
  \E S \in SUBSET {p \in Slots : state[p] = "SLEEPING" /\ timed[p]} : WakeAll(S)

\* A tick inside scheduler(), the only kernel code with interrupts on.
\* preempt_check finds that the CPU is not on a process's stack and returns.
TickKernel(c) ==
  /\ pc[c] \in {"idle", "swtch"}
  /\ TickWake
  /\ UNCHANGED <<parent, user, kstack, context, cpuVars, freePages>>

TickUser(c) ==
  /\ pc[c] = "user"
  /\ TickWake
  /\ Goto(c, "tick")
  /\ UNCHANGED <<parent, user, kstack, context, proc, ret, arg, stack,
                 last_sched, freePages>>

\* sched_tick, second section: need_resched is set if another process can run.
\* It may also be left over from a tick whose process then blocked, so with an
\* empty queue either value is possible.
TickResched(c) ==
  /\ pc[c] = "tick"
  /\ \E need_resched \in IF runqueue # <<>> THEN {TRUE} ELSE BOOLEAN :
       Goto(c, IF need_resched THEN "preempt" ELSE "user")
  /\ UNCHANGED <<tableVars, runqueue, proc, ret, arg, stack, last_sched,
                 freePages, crash>>

\* preempt_check with need_resched set.
PreemptCheck(c) ==
  /\ pc[c] = "preempt"
  /\ Goto(c, IF runqueue # <<>> THEN "yield" ELSE "user")
  /\ UNCHANGED <<tableVars, runqueue, proc, ret, arg, stack, last_sched,
                 freePages, crash>>

\* yield(), from preempt_check or from a kernel thread.
Yield(c) ==
  /\ pc[c] \in {"yield", "kthread"}
  /\ LET p == proc[c] IN
     /\ state' = [state EXCEPT ![p] = "RUNNABLE"]
     /\ Enqueue(p)
  /\ Goto(c, "sched")
  /\ ret' = [ret EXCEPT ![c] = IF pc[c] = "yield" THEN "user" ELSE "kthread"]
  /\ UNCHANGED <<chan, timed, parent, user, kstack, context, proc, arg, stack,
                 last_sched, freePages>>

\* sleep_ticks: nanosleep from ring 3, or a kernel thread's own call.
SleepTicks(c) ==
  /\ pc[c] \in {"user", "kthread"}
  /\ proc[c] # InitProc
  /\ SleepOn(c, NoChan, TRUE, pc[c], NoProc)
  /\ UNCHANGED <<parent, user, kstack, context, runqueue, proc, stack,
                 last_sched, freePages, crash>>

----------------------------------------------------------------------------
\* The state rest_init leaves when the CPUs enter scheduler().
SchedInit ==
  /\ state = [p \in Slots |-> IF p = Swapper THEN "USED"
                              ELSE IF p \in Threads THEN "RUNNABLE" ELSE "UNUSED"]
  /\ chan = [p \in Slots |-> NoChan]
  /\ timed = [p \in Slots |-> FALSE]
  /\ parent = [p \in Slots |-> IF p \in {Swapper} \cup Threads THEN Swapper
                               ELSE NoProc]
  /\ user = [p \in Slots |-> FALSE]
  /\ kstack = [p \in Slots |-> IF p \in Threads THEN p ELSE NoPage]
  /\ context = [p \in Slots |-> IF p \in Threads
                                THEN Saved(EntryPoint(p), NoProc, p) ELSE Popped]
  /\ runqueue = <<InitProc, KthreaddTask>>
  /\ proc = [c \in CPUs |-> NoProc]
  /\ pc = [c \in CPUs |-> "idle"]
  /\ ret = [c \in CPUs |-> "none"]
  /\ arg = [c \in CPUs |-> NoProc]
  /\ stack = [c \in CPUs |-> NoPage]
  /\ last_sched = [c \in CPUs |-> NoProc]
  /\ freePages = Pages \ Threads
  /\ crash = "none"

SchedStep(c) ==
  \/ Schedule(c) \/ SwitchTo(c) \/ Sched(c) \/ Back(c) \/ Reap(c)
  \/ TickKernel(c) \/ TickUser(c) \/ TickResched(c) \/ PreemptCheck(c)
  \/ Yield(c) \/ SleepTicks(c)
=============================================================================

----------------------------- MODULE KernelSingle -----------------------------
(***************************************************************************)
(* The kernel on one CPU.  A process is always executed on its own stack,  *)
(* scheduler() loads only contexts that sched() or the creation of a       *)
(* process saved, no panic of the scheduler is reached, and neither        *)
(* wait_child nor kthreadd sleeps through what it waits for.               *)
(***************************************************************************)
EXTENDS KernelStacks

USE SchedAssumption, Zenon

\* p need not be loadable: c executes it.
Executed(c, p) == Executes(c) /\ proc[c] = p

\* The invariant, for the only CPU.
LEMMA SingleHere ==
  ASSUME OneCpu, Single, NEW c \in CPUs
  PROVE  /\ \A d \in CPUs : d = c
         /\ pc[c] \notin OffStack => stack[c] = kstack[proc[c]] /\ stack[c] # NoPage
         /\ pc[c] = "exit_wake" \/ Place(c) = "dead" => state[proc[c]] \in {"ZOMBIE", "UNUSED"}
         /\ pc[c] = "reap" => state[last_sched[c]] = "UNUSED"
         /\ pc[c] \in {"fork_publish", "kthreadd_publish"} => Loadable(arg[c])
         /\ \A p \in Slots : state[p] \in Alive /\ ~Executed(c, p) => Loadable(p)
<1>1. \A d \in CPUs : d = c
  BY DEF OneCpu
<1>2. \A p \in Slots : state[p] \in Alive /\ ~Executed(c, p) => Loadable(p)
  BY <1>1 DEF Single, Executed
<1>3. QED BY <1>1, <1>2 DEF Single

\* What a step has to show for the invariant.
LEMMA SingleKept ==
  ASSUME OneCpu, NEW c \in CPUs, crash' = "none",
         pc'[c] \notin OffStack => stack'[c] = kstack'[proc'[c]] /\ stack'[c] # NoPage,
         pc'[c] = "exit_wake" \/ Place(c)' = "dead" => state'[proc'[c]] \in {"ZOMBIE", "UNUSED"},
         pc'[c] = "reap" => state'[last_sched'[c]] = "UNUSED",
         pc'[c] \in {"fork_publish", "kthreadd_publish"} => Loadable(arg[c])',
         \A p \in Slots : state'[p] \in Alive /\ ~Executed(c, p)' => Loadable(p)'
  PROVE  Single'
<1>1. \A d \in CPUs : d = c
  BY DEF OneCpu
<1>2. \A d \in CPUs :
       /\ pc'[d] \notin OffStack => stack'[d] = kstack'[proc'[d]] /\ stack'[d] # NoPage
       /\ pc'[d] = "exit_wake" \/ Place(d)' = "dead" => state'[proc'[d]] \in {"ZOMBIE", "UNUSED"}
       /\ pc'[d] = "reap" => state'[last_sched'[d]] = "UNUSED"
       /\ pc'[d] \in {"fork_publish", "kthreadd_publish"} => Loadable(arg[d])'
  BY <1>1
<1>3. \A p \in Slots : state'[p] \in Alive /\ (\A d \in CPUs : Executes(d)' => proc'[d] # p) =>
        Loadable(p)'
  BY <1>1 DEF Executed
<1>4. QED BY <1>2, <1>3 DEF Single

\* A CPU at a position of a process executes it, on the stack of the process.
LEMMA ExecutesHere ==
  ASSUME NEW c \in CPUs, pc[c] \notin OffStack \cup {"exit_wake", "sched"}, pc[c] # "dead"
  PROVE  Executes(c)
BY DEF Executes, Place

\* The process goes on, or to sched(), and no process becomes alive that cannot be loaded.
LEMMA SingleGoesOn ==
  ASSUME OneCpu, Single, NEW c \in CPUs, Executes(c), UNCHANGED <<kstack, context>>,
         crash' = crash, proc'[c] = proc[c], stack'[c] = stack[c],
         pc'[c] \notin OffStack \cup {"exit_wake", "fork_publish", "kthreadd_publish"},
         Place(c)' # "dead",
         \A p \in Slots : state'[p] \in Alive => state[p] \in Alive \/ Loadable(p)
  PROVE  Single'
<1>1. pc[c] \notin OffStack /\ Executes(c)'
  BY DEF Executes
<1>2. stack'[c] = kstack'[proc'[c]] /\ stack'[c] # NoPage
  BY <1>1, SingleHere
<1>3. \A p \in Slots : Loadable(p) => Loadable(p)'
  BY DEF Loadable
<1>4. ASSUME NEW p \in Slots, state'[p] \in Alive, ~Executed(c, p)' PROVE Loadable(p)'
  <2>1. ~Executed(c, p)
    BY <1>1, <1>4 DEF Executed
  <2>2. QED BY <1>3, <1>4, <2>1, SingleHere
<1>5. crash' = "none" /\ pc'[c] # "reap"
  BY DEF Single, OffStack
<1>6. QED BY <1>2, <1>4, <1>5, SingleKept

\* The process goes on and a slot that is not alive changes.
LEMMA SingleSlot ==
  ASSUME OneCpu, Single, NEW c \in CPUs, Executes(c), NEW q \in Slots, q # proc[c],
         proc[c] \in Slots,
         \A p \in Slots \ {q} : /\ state'[p] = state[p] /\ kstack'[p] = kstack[p]
                                /\ context'[p] = context[p],
         state'[q] \notin Alive, crash' = crash, proc'[c] = proc[c], stack'[c] = stack[c],
         pc'[c] \notin OffStack \cup {"exit_wake", "sched"}, pc'[c] # "dead",
         pc'[c] \in {"fork_publish", "kthreadd_publish"} => Loadable(arg[c])'
  PROVE  Single'
<1>1. pc[c] \notin OffStack /\ Executes(c)' /\ Place(c)' = pc'[c]
  BY DEF Executes, Place
<1>2. stack'[c] = kstack'[proc'[c]] /\ stack'[c] # NoPage
  <2>1. stack[c] = kstack[proc[c]] /\ stack[c] # NoPage
    BY <1>1, SingleHere
  <2>2. kstack'[proc[c]] = kstack[proc[c]]
    OBVIOUS
  <2>3. QED BY <2>1, <2>2
<1>3. \A p \in Slots \ {q} : Loadable(p) => Loadable(p)'
  BY DEF Loadable
<1>4. ASSUME NEW p \in Slots, state'[p] \in Alive, ~Executed(c, p)' PROVE Loadable(p)'
  <2>1. ~Executed(c, p) /\ p # q /\ state[p] \in Alive
    BY <1>1, <1>4 DEF Executed
  <2>2. QED BY <1>3, <1>4, <2>1, SingleHere
<1>5. crash' = "none" /\ pc'[c] # "reap"
  BY DEF Single, OffStack
<1>6. QED BY <1>1, <1>2, <1>4, <1>5, SingleKept

\* No wake-up meets a process that is queued already.
LEMMA WakeSurvives ==
  ASSUME IndInv, NEW S, WakeAll(S), S \subseteq {p \in Slots : state[p] = "SLEEPING"}
  PROVE  crash' = crash
<1>1. S \cap Queued = {}
  BY DEF IndInv, QueueIsRunnable
<1>2. QED BY <1>1 DEF WakeAll, EnqueueAll

\* The steps with a wake-up do not panic, and bring no process to life.
LEMMA WakersSurvive ==
  ASSUME IndInv, NEW c \in CPUs,
         \/ TickKernel(c) \/ TickUser(c) \/ ExitWake(c) \/ SignalSend(c)
         \/ CreateWake(c) \/ KthreaddDone(c)
  PROVE  crash' = crash /\ \A p \in Slots : state'[p] \in Alive => state[p] \in Alive
<1>1. \A p \in Slots : state'[p] \in Alive => state[p] \in Alive
  BY StatesWoken DEF Alive
<1>2. CASE TickKernel(c) \/ TickUser(c)
  <2>1. PICK S : WakeAll(S) /\ S \subseteq {p \in Slots : state[p] = "SLEEPING"}
    BY <1>2, TickWakes DEF TickKernel, TickUser
  <2>2. QED BY <1>1, <2>1, WakeSurvives
<1>3. CASE SignalSend(c)
  <2>1. PICK p \in Slots : state[p] = "SLEEPING" /\ WakeAll({p})
    BY <1>3 DEF SignalSend
  <2>2. {p} \subseteq {r \in Slots : state[r] = "SLEEPING"}
    BY <2>1
  <2>3. QED BY <1>1, <2>1, <2>2, WakeSurvives
<1>4. CASE ExitWake(c)
  <2>1. PICK S : WakeAll(S) /\ S = IF arg[c] = NoProc THEN {} ELSE Sleepers(ProcChan(arg[c]))
    BY <1>4 DEF ExitWake
  <2>2. S \subseteq {p \in Slots : state[p] = "SLEEPING"}
    BY <2>1 DEF Sleepers
  <2>3. QED BY <1>1, <2>1, <2>2, WakeSurvives
<1>5. CASE CreateWake(c) \/ KthreaddDone(c)
  <2>1. PICK S : WakeAll(S) /\ S \in {Sleepers(ListChan), Sleepers(InfoChan(serving))}
    BY <1>5 DEF CreateWake, KthreaddDone
  <2>2. S \subseteq {p \in Slots : state[p] = "SLEEPING"}
    BY <2>1 DEF Sleepers
  <2>3. QED BY <1>1, <2>1, <2>2, WakeSurvives
<1>6. QED BY <1>2, <1>3, <1>4, <1>5

\* A process that is not RUNNABLE can be queued.
LEMMA EnqueueSurvives ==
  ASSUME IndInv, NEW p, state[p] # "RUNNABLE", Enqueue(p)
  PROVE  crash' = crash
BY DEF IndInv, QueueIsRunnable, Enqueue

\* Who gives up the CPU keeps it without a panic, and brings no process to life.
LEMMA YieldersSurvive ==
  ASSUME IndInv, NEW c \in CPUs,
         \/ Yield(c) \/ SleepTicks(c) \/ WaitSleep(c) \/ CreateSleep(c) \/ KthreaddSleep(c)
  PROVE  /\ crash' = crash /\ \A p \in Slots : state'[p] \in Alive => state[p] \in Alive
         /\ UNCHANGED <<kstack, context>> /\ proc'[c] = proc[c] /\ stack'[c] = stack[c]
         /\ pc'[c] = "sched" /\ ret'[c] # "dead" /\ Executes(c)
<1>1. /\ proc[c] \in Slots /\ state[proc[c]] = "RUNNING"
      /\ \/ state' = [state EXCEPT ![proc[c]] = "RUNNABLE"]
         \/ state' = [state EXCEPT ![proc[c]] = "SLEEPING"]
  BY StatesYielded
<1>2. \A p \in Slots : state'[p] \in Alive => state[p] \in Alive
  BY <1>1 DEF IndInv, TypeOK, Alive
<1>3. crash' = crash
  BY <1>1, EnqueueSurvives DEF Yield, SleepTicks, WaitSleep, CreateSleep, KthreaddSleep
<1>4. TypeOK
  BY DEF IndInv
<1>5. /\ UNCHANGED <<kstack, context, proc, stack>>
      /\ pc[c] \in {"yield", "kthread", "user", "wait_sleep", "created", "kthreadd_sleep"}
      /\ pc'[c] = "sched" /\ ret'[c] # "dead"
  <2>1. CASE Yield(c)
    BY <1>4, <2>1 DEF Yield, Goto, TypeOK
  <2>2. CASE SleepTicks(c)
    BY <1>4, <2>2 DEF SleepTicks, SleepOn, Goto, TypeOK
  <2>3. CASE WaitSleep(c)
    BY <1>4, <2>3 DEF WaitSleep, SleepOn, Goto, TypeOK
  <2>4. CASE CreateSleep(c)
    BY <1>4, <2>4 DEF CreateSleep, SleepOn, Goto, TypeOK
  <2>5. CASE KthreaddSleep(c)
    BY <1>4, <2>5 DEF KthreaddSleep, SleepOn, Goto, TypeOK
  <2>6. QED BY <2>1, <2>2, <2>3, <2>4, <2>5
<1>6. Executes(c)
  BY <1>5 DEF Executes, Place, OffStack
<1>7. QED BY <1>2, <1>3, <1>5, <1>6

\* Sleeping and yielding.
LEMMA SingleYield ==
  ASSUME IndInv, OneCpu, Single, NEW c \in CPUs,
         \/ Yield(c) \/ SleepTicks(c) \/ WaitSleep(c) \/ CreateSleep(c) \/ KthreaddSleep(c)
  PROVE  Single'
<1>1. /\ crash' = crash /\ \A p \in Slots : state'[p] \in Alive => state[p] \in Alive
      /\ UNCHANGED <<kstack, context>> /\ proc'[c] = proc[c] /\ stack'[c] = stack[c]
      /\ pc'[c] = "sched" /\ ret'[c] # "dead" /\ Executes(c)
  BY YieldersSurvive
<1>2. Place(c)' # "dead"
  BY <1>1 DEF Place
<1>3. QED BY <1>1, <1>2, SingleGoesOn DEF OffStack

\* scheduler() takes a context that can be loaded, and leaves it as it is.
LEMMA SingleSchedule ==
  ASSUME IndInv, PlaceInv, OneCpu, Single, NEW c \in CPUs, Schedule(c)
  PROVE  Single'
<1> DEFINE p == Head(runqueue)
<1>1. TypeOK
  BY DEF IndInv
<1>2. /\ p \in Slots /\ state[p] = "RUNNABLE" /\ state' = [state EXCEPT ![p] = "RUNNING"]
      /\ UNCHANGED <<kstack, ret>> /\ PrepareContext(p)
      /\ pc[c] = "idle" /\ pc'[c] = "swtch"
  BY <1>1, HeadRunnable DEF Schedule, Goto, TypeOK
<1>3. ~Executes(c) /\ ~Executes(c)'
  BY <1>2 DEF Executes, OffStack
<1>4. Loadable(p)
  BY <1>2, <1>3, SingleHere DEF Executed, Alive
<1>5. context' = context /\ crash' = crash
  <2>1. context[p] # Popped
    <3>1. Popped.at = "popped"
      BY SMT DEF Popped
    <3>2. QED BY <1>4, <3>1 DEF Loadable, ResumePoints
  <2>2. \A sane \in ContextSane(p) : sane
    BY <1>4, <2>1 DEF ContextSane, Loadable
  <2>3. kstack[p] # NoPage
    BY <1>4 DEF Loadable
  <2>4. QED BY <1>2, <2>2, <2>3 DEF PrepareContext
<1>6. \A q \in Slots : Loadable(q) => Loadable(q)'
  BY <1>2, <1>5 DEF Loadable
<1>7. ASSUME NEW q \in Slots, state'[q] \in Alive PROVE Loadable(q)'
  <2>1. state[q] \in Alive
    BY <1>1, <1>2, <1>7 DEF TypeOK, Alive
  <2>2. QED BY <1>3, <1>6, <2>1, SingleHere DEF Executed
<1>8. crash' = "none" /\ Place(c)' = "swtch"
  BY <1>2, <1>5 DEF Single, Place
<1>9. QED BY <1>2, <1>7, <1>8, SingleKept DEF OffStack

\* swtch loads the context on the stack of the process, which no CPU is on.
LEMMA SingleSwitchTo ==
  ASSUME IndInv, PlaceInv, Accounted, OneCpu, Single, NEW c \in CPUs, SwitchTo(c)
  PROVE  Single'
<1> DEFINE p == proc[c]
<1>1. TypeOK /\ OneExecutes
  BY DEF IndInv, PlaceInv
<1>2. /\ pc[c] = "swtch" /\ p \in Slots /\ state[p] = "RUNNING" /\ stack[c] = NoPage
      /\ UNCHANGED <<state, kstack, proc, ret>>
  BY <1>1, RunsHere DEF SwitchTo, OneExecutes, OffStack
<1>3. ~Executes(c)
  BY <1>2 DEF Executes, OffStack
<1>4. Loadable(p)
  BY <1>2, <1>3, SingleHere DEF Executed, Alive
<1>5. ~Corrupt(p)
  <2>1. kstack[p] \notin freePages
    BY <1>1, <1>2, <1>4 DEF Accounted, StacksAccounted, TypeOK, Loadable
  <2>2. OnStack(kstack[p]) = {}
    BY <1>2, <1>4, SingleHere DEF OnStack, Loadable
  <2>3. QED BY <1>4, <2>1, <2>2 DEF Corrupt, Loadable
<1>6. /\ context' = [context EXCEPT ![p] = Popped] /\ crash' = crash
      /\ pc'[c] = context[p].at /\ stack'[c] = kstack[p]
  BY <1>1, <1>4, <1>5 DEF SwitchTo, Goto, TypeOK, Loadable
<1>7. pc'[c] \in ResumePoints
  BY <1>4, <1>6 DEF Loadable
<1>8. Executes(c)' /\ Place(c)' = pc'[c] /\ pc'[c] \notin OffStack /\ pc'[c] # "dead"
      /\ pc'[c] \notin {"exit_wake", "fork_publish", "kthreadd_publish", "reap"}
  BY <1>7 DEF Executes, Place, OffStack, ResumePoints
<1>9. ASSUME NEW q \in Slots, state'[q] \in Alive, ~Executed(c, q)' PROVE Loadable(q)'
  <2>1. q # p /\ state[q] \in Alive
    BY <1>2, <1>8, <1>9 DEF Executed
  <2>2. Loadable(q)
    BY <1>3, <2>1, SingleHere DEF Executed
  <2>3. context'[q] = context[q]
    BY <1>1, <1>6, <2>1 DEF TypeOK
  <2>4. QED BY <1>2, <2>2, <2>3 DEF Loadable
<1>10. crash' = "none"
  BY <1>6 DEF Single
<1>11. stack'[c] = kstack'[proc'[c]] /\ stack'[c] # NoPage
  BY <1>2, <1>4, <1>6 DEF Loadable
<1>12. QED BY <1>8, <1>9, <1>10, <1>11, SingleKept

\* sched() saves the context of a process that goes on; a dead one has none to save.
LEMMA SingleSched ==
  ASSUME IndInv, PlaceInv, OneCpu, Single, NEW c \in CPUs, Sched(c)
  PROVE  Single'
<1> DEFINE p == proc[c]
<1>1. TypeOK
  BY DEF IndInv
<1>2. /\ pc[c] = "sched" /\ p \in Slots /\ pc'[c] = "back" /\ Place(c) = ret[c]
      /\ ret[c] \in ResumePoints \cup {"dead"} /\ UNCHANGED <<state, kstack, crash>>
  BY <1>1 DEF Sched, Goto, TypeOK, IndInv, Placed, Place
<1>3. ASSUME NEW q \in Slots, state'[q] \in Alive PROVE Loadable(q)'
  <2>1. state[q] \in Alive
    BY <1>2, <1>3
  <2>2. CASE q = p
    <3>1. context' = [context EXCEPT ![p] = Saved(ret[c], arg[c], stack[c])]
      BY <2>1, <2>2 DEF Sched, Alive
    <3>2. ret[c] # "dead"
      BY <1>2, <2>1, <2>2, SingleHere DEF Alive
    <3>3. stack[c] = kstack[p] /\ kstack[p] # NoPage
      BY <1>2, SingleHere DEF OffStack
    <3>4. context'[q].at = ret[c] /\ context'[q].page = stack[c]
      BY <1>1, <2>2, <3>1, SMT DEF TypeOK, Saved
    <3>5. QED BY <1>2, <2>2, <3>2, <3>3, <3>4 DEF Loadable
  <2>3. CASE q # p
    <3>1. context'[q] = context[q]
      BY <1>1, <2>3 DEF Sched, TypeOK
    <3>2. Loadable(q)
      BY <2>1, <2>3, SingleHere DEF Executed
    <3>3. QED BY <1>2, <3>1, <3>2 DEF Loadable
  <2>4. QED BY <2>2, <2>3
<1>4. Place(c)' = "back" /\ crash' = "none"
  BY <1>2 DEF Place, Single
<1>5. QED BY <1>2, <1>3, <1>4, SingleKept DEF OffStack

\* The scheduler after swtch, kthread_reap, and a tick inside the scheduler.
LEMMA SingleIdle ==
  ASSUME IndInv, OneCpu, Single, NEW c \in CPUs, Back(c) \/ Reap(c) \/ TickKernel(c)
  PROVE  Single'
<1>1. TypeOK /\ Placed
  BY DEF IndInv
<1>2. /\ pc[c] \in OffStack /\ pc'[c] \in {"idle", "reap", "swtch"} /\ UNCHANGED <<context, ret>>
      /\ pc'[c] = "reap" => state'[last_sched'[c]] = "UNUSED"
  <2>1. CASE Back(c)
    BY <1>1, <2>1 DEF Back, Goto, TypeOK, OffStack, tableVars
  <2>2. CASE Reap(c)
    BY <1>1, <2>2 DEF Reap, Goto, TypeOK, OffStack
  <2>3. CASE TickKernel(c)
    BY <1>1, <2>3 DEF TickKernel, TypeOK, OffStack, cpuVars
  <2>4. QED BY <2>1, <2>2, <2>3
<1>3. crash' = crash /\ \A p \in Slots : state'[p] \in Alive => state[p] \in Alive
  BY WakersSurvive DEF Back, Reap, tableVars
<1>4. ASSUME NEW p \in Slots, state[p] \in Alive PROVE kstack'[p] = kstack[p]
  <2>1. CASE Reap(c)
    <3>1. FreeKstack(last_sched[c]) /\ pc[c] = "reap"
      BY <2>1 DEF Reap
    <3>2. p # last_sched[c]
      BY <1>4, <3>1, SingleHere DEF Alive
    <3>3. QED BY <1>1, <3>1, <3>2 DEF FreeKstack, TypeOK
  <2>2. CASE ~Reap(c)
    BY <2>2 DEF Back, TickKernel, tableVars
  <2>3. QED BY <2>1, <2>2
<1>5. ASSUME NEW p \in Slots, state'[p] \in Alive PROVE Loadable(p)'
  <2>1. state[p] \in Alive
    BY <1>3, <1>5
  <2>2. Loadable(p)
    BY <1>2, <2>1, SingleHere DEF Executed, Executes
  <2>3. QED BY <1>2, <1>4, <2>1, <2>2 DEF Loadable
<1>6. Place(c)' # "dead" /\ crash' = "none"
  BY <1>2, <1>3 DEF Place, Single
<1>7. QED BY <1>2, <1>5, <1>6, SingleKept DEF OffStack

\* A step of the process that changes no stack, no context and no state.
LEMMA SingleUnmoved ==
  ASSUME IndInv, OneCpu, Single, NEW c \in CPUs,
         \/ TickResched(c) \/ PreemptCheck(c) \/ KernelInit(c) \/ WaitNone(c) \/ CreateQueue(c)
         \/ CreateReturn(c) \/ KthreaddEmpty(c) \/ KthreaddTake(c) \/ KthreaddNoSlot(c)
  PROVE  Single'
<1>1. TypeOK
  BY DEF IndInv
<1>2. /\ UNCHANGED <<state, kstack, context, crash, proc, stack>>
      /\ pc[c] \in {"tick", "preempt", "kernel_init", "user", "wait", "kthread", "created",
                    "kthreadd", "kthreadd_alloc"}
      /\ pc'[c] \in {"preempt", "user", "yield", "wait_sleep", "create_wake", "kernel_init",
                     "kthreadd", "kthread", "kthreadd_sleep", "kthreadd_alloc", "kthreadd_done"}
  <2>1. CASE TickResched(c)
    BY <1>1, <2>1 DEF TickResched, Goto, TypeOK, tableVars
  <2>2. CASE PreemptCheck(c)
    BY <1>1, <2>2 DEF PreemptCheck, Goto, TypeOK, tableVars
  <2>3. CASE KernelInit(c)
    BY <1>1, <2>3 DEF KernelInit, Goto, TypeOK
  <2>4. CASE WaitNone(c)
    <3>1. pc[c] \in {"user", "wait"} /\ pc'[c] \in {"user", "wait_sleep"}
      BY <1>1, <2>4 DEF WaitNone, WaitTargets, Goto, TypeOK
    <3>2. QED BY <2>4, <3>1 DEF WaitNone, tableVars
  <2>5. CASE CreateQueue(c)
    BY <1>1, <2>5 DEF CreateQueue, Goto, TypeOK, tableVars
  <2>6. CASE CreateReturn(c)
    BY <1>1, <2>6 DEF CreateReturn, EntryPoint, Goto, TypeOK, tableVars
  <2>7. CASE KthreaddEmpty(c)
    BY <1>1, <2>7 DEF KthreaddEmpty, Goto, TypeOK, tableVars
  <2>8. CASE KthreaddTake(c)
    BY <1>1, <2>8 DEF KthreaddTake, Goto, TypeOK, tableVars
  <2>9. CASE KthreaddNoSlot(c)
    BY <1>1, <2>9 DEF KthreaddNoSlot, Goto, TypeOK, tableVars
  <2>10. QED BY <2>1, <2>2, <2>3, <2>4, <2>5, <2>6, <2>7, <2>8, <2>9
<1>3. Executes(c)
  BY <1>2, ExecutesHere DEF OffStack
<1>4. Place(c)' # "dead"
  BY <1>2 DEF Place
<1>5. QED BY <1>2, <1>3, <1>4, SingleGoesOn DEF OffStack

\* A step of the process with a wake-up, or that makes a filled slot RUNNABLE.
LEMMA SingleWake ==
  ASSUME IndInv, PlaceInv, OneCpu, Single, NEW c \in CPUs,
         \/ TickUser(c) \/ SignalSend(c) \/ CreateWake(c) \/ KthreaddDone(c)
         \/ ForkPublish(c) \/ KthreaddPublish(c)
  PROVE  Single'
<1>1. TypeOK
  BY DEF IndInv
<1>2. /\ UNCHANGED <<kstack, context, proc, stack>>
      /\ pc[c] \in {"user", "create_wake", "kthreadd_done", "fork_publish", "kthreadd_publish"}
      /\ pc'[c] \in {"tick", "user", "created", "kthreadd", "kthreadd_done"}
  <2>1. CASE TickUser(c)
    BY <1>1, <2>1 DEF TickUser, Goto, TypeOK
  <2>2. CASE SignalSend(c)
    BY <1>1, <2>2 DEF SignalSend, cpuVars
  <2>3. CASE CreateWake(c)
    BY <1>1, <2>3 DEF CreateWake, Goto, TypeOK
  <2>4. CASE KthreaddDone(c)
    BY <1>1, <2>4 DEF KthreaddDone, Goto, TypeOK
  <2>5. CASE ForkPublish(c)
    BY <1>1, <2>5 DEF ForkPublish, Goto, TypeOK
  <2>6. CASE KthreaddPublish(c)
    BY <1>1, <2>6 DEF KthreaddPublish, Goto, TypeOK
  <2>7. QED BY <2>1, <2>2, <2>3, <2>4, <2>5, <2>6
<1>3. Executes(c)
  BY <1>2, ExecutesHere DEF OffStack
<1>4. Place(c)' # "dead"
  BY <1>2 DEF Place
<1>5. crash' = crash /\ \A p \in Slots : state'[p] \in Alive => state[p] \in Alive \/ Loadable(p)
  <2>1. CASE ForkPublish(c) \/ KthreaddPublish(c)
    <3>1. /\ pc[c] \in {"fork_publish", "kthreadd_publish"}
          /\ state' = [state EXCEPT ![arg[c]] = "RUNNABLE"] /\ Enqueue(arg[c])
      BY <2>1 DEF ForkPublish, KthreaddPublish
    <3>2. arg[c] \in Slots /\ state[arg[c]] = "USED" /\ Loadable(arg[c])
      BY <3>1, FillingSlot, SingleHere DEF Claiming
    <3>3. crash' = crash
      BY <3>1, <3>2, EnqueueSurvives
    <3>4. \A p \in Slots : state'[p] \in Alive => state[p] \in Alive \/ Loadable(p)
      BY <1>1, <3>1, <3>2 DEF TypeOK
    <3>5. QED BY <3>3, <3>4
  <2>2. CASE TickUser(c) \/ SignalSend(c) \/ CreateWake(c) \/ KthreaddDone(c)
    BY <2>2, WakersSurvive
  <2>3. QED BY <2>1, <2>2
<1>6. QED BY <1>2, <1>3, <1>4, <1>5, SingleGoesOn DEF OffStack

\* proc_alloc.
LEMMA SingleAlloc ==
  ASSUME IndInv, OneCpu, Single, NEW c \in CPUs, ForkAlloc(c) \/ KthreaddAlloc(c)
  PROVE  Single'
<1>1. TypeOK
  BY DEF IndInv
<1>2. PICK q \in Slots : FirstUnused(q) /\ ClaimSlot(q)
  BY DEF ForkAlloc, KthreaddAlloc
<1>3. /\ pc[c] \in {"user", "kthreadd_alloc"} /\ pc'[c] \in {"fork_fill", "kthreadd_fill"}
      /\ UNCHANGED <<proc, stack>>
  BY <1>1 DEF ForkAlloc, KthreaddAlloc, Goto, TypeOK
<1>4. /\ state[q] = "UNUSED" /\ state'[q] = "USED"
      /\ \A p \in Slots \ {q} : /\ state'[p] = state[p] /\ kstack'[p] = kstack[p]
                                /\ context'[p] = context[p]
  BY <1>1, <1>2 DEF FirstUnused, ClaimSlot, TypeOK
<1>5. crash' = crash
  <2>1. q \notin Queued
    BY <1>4 DEF IndInv, QueueIsRunnable
  <2>2. QED BY <1>2, <2>1 DEF ClaimSlot
<1>6. Executes(c)
  BY <1>3, ExecutesHere DEF OffStack
<1>7. proc[c] \in Slots /\ state[proc[c]] = "RUNNING"
  BY <1>3, RunsHere
<1>8. q # proc[c] /\ state'[q] \notin Alive
  BY <1>4, <1>7 DEF Alive
<1>9. QED BY <1>3, <1>4, <1>5, <1>6, <1>7, <1>8, SingleSlot DEF OffStack

\* The new stack is not one that the CPU is on, and the context is built on it.
LEMMA SingleFill ==
  ASSUME IndInv, PlaceInv, Accounted, OneCpu, Single, NEW c \in CPUs,
         ForkFill(c) \/ KthreaddFill(c)
  PROVE  Single'
<1> DEFINE q == arg[c]
<1>1. TypeOK
  BY DEF IndInv
<1>2. /\ pc[c] \in {"fork_fill", "kthreadd_fill"}
      /\ pc'[c] \in {"fork_publish", "kthreadd_publish"} /\ UNCHANGED <<state, arg, proc, stack>>
  BY <1>1 DEF ForkFill, KthreaddFill, Goto, TypeOK
<1>3. q \in Slots /\ state[q] = "USED"
  BY <1>2, FillingSlot DEF Claiming
<1>4. PICK at, page :
        /\ page \in freePages /\ at \in {"user", "kthread"} /\ AllocKstack(q, page)
        /\ context' = [context EXCEPT ![q] = Saved(at, NoProc, page)]
  <2>1. CASE ForkFill(c)
    <3>1. PICK page \in freePages :
            /\ AllocKstack(q, page) /\ context' = [context EXCEPT ![q] = Saved("user", NoProc, page)]
      BY <2>1 DEF ForkFill, AllocCandidates
    <3>2. QED BY <3>1
  <2>2. CASE KthreaddFill(c)
    <3>1. PICK page \in freePages :
            /\ AllocKstack(q, page)
            /\ context' = [context EXCEPT ![q] = Saved("kthread", NoProc, page)]
      BY <2>2 DEF KthreaddFill, AllocCandidates
    <3>2. QED BY <3>1
  <2>3. QED BY <2>1, <2>2
<1>5. Executes(c) /\ proc[c] \in Slots /\ state[proc[c]] = "RUNNING"
  BY <1>2, ExecutesHere, RunsHere DEF OffStack
<1>6. page \in Pages /\ page # NoPage /\ \A p \in Slots : kstack[p] # page
  <2>1. page \in Pages
    BY <1>1, <1>4 DEF TypeOK
  <2>2. page # NoPage
    BY <2>1, SMT DEF Pages, NoPage
  <2>3. QED BY <1>4, <2>1, <2>2 DEF Accounted, StacksAccounted
<1>7. crash' = crash
  <2>1. stack[c] = kstack[proc[c]]
    BY <1>2, SingleHere DEF OffStack
  <2>2. \A d \in CPUs : d = c
    BY SingleHere
  <2>3. stack[c] # page
    BY <1>5, <1>6, <2>1
  <2>4. OnStack(page) = {}
    BY <2>2, <2>3 DEF OnStack
  <2>5. QED BY <1>4, <2>4 DEF AllocKstack
<1>8. /\ kstack'[q] = page /\ context'[q] = Saved(at, NoProc, page)
      /\ \A p \in Slots \ {q} : /\ state'[p] = state[p] /\ kstack'[p] = kstack[p]
                                /\ context'[p] = context[p]
  BY <1>1, <1>2, <1>3, <1>4 DEF AllocKstack, TypeOK
<1>9. Loadable(arg[c])'
  <2>1. context'[q].at = at /\ context'[q].page = page
    BY <1>8, SMT DEF Saved
  <2>2. at \in ResumePoints
    BY <1>4 DEF ResumePoints
  <2>3. QED BY <1>2, <1>6, <1>8, <2>1, <2>2 DEF Loadable
<1>10. q # proc[c] /\ state'[q] \notin Alive
  BY <1>2, <1>3, <1>5 DEF Alive
<1>11. QED BY <1>2, <1>3, <1>5, <1>7, <1>8, <1>9, <1>10, SingleSlot DEF OffStack

\* A slot is given up, or reaped.
LEMMA SingleFree ==
  ASSUME IndInv, PlaceInv, OneCpu, Single, NEW c \in CPUs,
         ForkFail(c) \/ KthreaddFail(c) \/ WaitReap(c)
  PROVE  Single'
<1>1. TypeOK
  BY DEF IndInv
<1>2. /\ pc[c] \in {"fork_fill", "kthreadd_fill", "user", "wait"}
      /\ pc'[c] \in {"user", "kthreadd_done"} /\ UNCHANGED <<proc, stack, crash>>
  <2>1. CASE ForkFail(c)
    BY <1>1, <2>1 DEF ForkFail, Goto, TypeOK
  <2>2. CASE KthreaddFail(c)
    BY <1>1, <2>2 DEF KthreaddFail, Goto, TypeOK
  <2>3. CASE WaitReap(c)
    BY <1>1, <2>3, SMT DEF WaitReap, WaitTargets, Goto, TypeOK
  <2>4. QED BY <2>1, <2>2, <2>3
<1>3. PICK q \in Slots : /\ state[q] \in {"USED", "ZOMBIE"} /\ FreeKstack(q)
                         /\ state' = [state EXCEPT ![q] = "UNUSED"]
                         /\ context' = [context EXCEPT ![q] = Popped]
  <2>1. CASE ForkFail(c) \/ KthreaddFail(c)
    <3>1. Claiming(c) /\ FreeSlot(arg[c])
      BY <2>1 DEF ForkFail, KthreaddFail, Claiming
    <3>2. arg[c] \in Slots /\ state[arg[c]] = "USED"
      BY <3>1, FillingSlot
    <3>3. QED BY <3>1, <3>2 DEF FreeSlot
  <2>2. CASE WaitReap(c)
    BY <2>2, ReapedSlot
  <2>3. QED BY <2>1, <2>2
<1>4. /\ state'[q] = "UNUSED"
      /\ \A p \in Slots \ {q} : /\ state'[p] = state[p] /\ kstack'[p] = kstack[p]
                                /\ context'[p] = context[p]
  BY <1>1, <1>3 DEF FreeKstack, TypeOK
<1>5. Executes(c) /\ proc[c] \in Slots /\ state[proc[c]] = "RUNNING"
  BY <1>2, ExecutesHere, RunsHere DEF OffStack
<1>6. q # proc[c] /\ state'[q] \notin Alive
  BY <1>3, <1>4, <1>5 DEF Alive
<1>7. QED BY <1>2, <1>4, <1>5, <1>6, SingleSlot DEF OffStack

\* exit and kthread_exit go on, on the stack of the dead process.
LEMMA SingleEnd ==
  ASSUME IndInv, OneCpu, Single, NEW c \in CPUs, Exit(c) \/ ExitWake(c) \/ KthreadExit(c)
  PROVE  Single'
<1> DEFINE q == proc[c]
<1>1. TypeOK
  BY DEF IndInv
<1>2. /\ pc[c] \in {"user", "exit_wake", "kthread"} /\ UNCHANGED <<kstack, proc, stack>>
      /\ pc'[c] = "exit_wake" \/ (pc'[c] = "sched" /\ ret'[c] = "dead")
  <2>1. CASE Exit(c)
    BY <1>1, <2>1 DEF Exit, Goto, TypeOK
  <2>2. CASE ExitWake(c)
    BY <1>1, <2>2 DEF ExitWake, Goto, TypeOK
  <2>3. CASE KthreadExit(c)
    BY <1>1, <2>3 DEF KthreadExit, Goto, TypeOK
  <2>4. QED BY <2>1, <2>2, <2>3
<1>3. q \in Slots
  BY <1>1, <1>2 DEF IndInv, Placed, TypeOK
<1>4. crash' = crash
  BY WakersSurvive DEF Exit, KthreadExit
<1>5. state'[q] \in {"ZOMBIE", "UNUSED"}
  <2>1. CASE ExitWake(c)
    <3>1. state[q] \in {"ZOMBIE", "UNUSED"}
      BY <2>1, SingleHere DEF ExitWake
    <3>2. QED BY <1>3, <2>1, <3>1, StatesWoken
  <2>2. CASE Exit(c) \/ KthreadExit(c)
    BY <1>1, <1>3, <2>2 DEF Exit, KthreadExit, TypeOK
  <2>3. QED BY <2>1, <2>2
<1>6. \A p \in Slots \ {q} : /\ state'[p] \in Alive => state[p] \in Alive
                             /\ context'[p] = context[p]
  <2>1. CASE ExitWake(c)
    BY <2>1, WakersSurvive DEF ExitWake
  <2>2. CASE Exit(c) \/ KthreadExit(c)
    BY <1>1, <1>3, <2>2 DEF Exit, KthreadExit, TypeOK
  <2>3. QED BY <2>1, <2>2
<1>7. ASSUME NEW p \in Slots, state'[p] \in Alive PROVE Loadable(p)'
  <2>1. p # q
    BY <1>5, <1>7 DEF Alive
  <2>2. Loadable(p)
    BY <1>6, <1>7, <2>1, SingleHere DEF Executed
  <2>3. QED BY <1>2, <1>6, <2>1, <2>2 DEF Loadable
<1>8. stack'[c] = kstack'[proc'[c]] /\ stack'[c] # NoPage
  BY <1>2, SingleHere DEF OffStack
<1>9. crash' = "none"
  BY <1>4 DEF Single
<1>10. QED BY <1>2, <1>5, <1>7, <1>8, <1>9, SingleKept DEF Place

\* The invariant of one CPU is kept.
LEMMA SingleStep ==
  ASSUME IndInv, PlaceInv, Accounted, OneCpu, Single, [Next]_vars
  PROVE  Single'
<1>1. ASSUME NEW c \in CPUs, SchedStep(c) PROVE Single'
  BY <1>1, SingleSchedule, SingleSwitchTo, SingleSched, SingleIdle, SingleUnmoved, SingleWake,
     SingleYield DEF SchedStep
<1>2. ASSUME NEW c \in CPUs, ProcStep(c) PROVE Single'
  BY <1>2, SingleUnmoved, SingleWake, SingleYield, SingleAlloc, SingleFill, SingleFree, SingleEnd
  DEF ProcStep
<1>3. ASSUME NEW c \in CPUs, KthreadStep(c) PROVE Single'
  BY <1>3, SingleUnmoved, SingleWake, SingleYield, SingleAlloc, SingleFill, SingleFree, SingleEnd
  DEF KthreadStep
<1>4. CASE UNCHANGED vars
  <2>1. UNCHANGED <<crash, state, kstack, context, pc, ret, arg, proc, stack, last_sched>>
    BY <1>4 DEF vars, schedVars, tableVars, cpuVars
  <2>2. QED BY <2>1 DEF Single, Loadable, Executes, Place
<1>5. QED BY <1>1, <1>2, <1>3, <1>4 DEF Next, CpuStep, Stopped

\* rest_init leaves init and kthreadd with a context on their own stack.
LEMMA SingleInit == Init => Single
<1> SUFFICES ASSUME Init PROVE Single
  OBVIOUS
<1>1. /\ state = [p \in Slots |-> IF p = Swapper THEN "USED"
                                  ELSE IF p \in Threads THEN "RUNNABLE" ELSE "UNUSED"]
      /\ kstack = [p \in Slots |-> IF p \in Threads THEN p ELSE NoPage]
      /\ pc = [c \in CPUs |-> "idle"] /\ crash = "none"
      /\ context = [p \in Slots |-> IF p \in Threads
                                    THEN Saved(EntryPoint(p), NoProc, p) ELSE Popped]
  BY DEF Init, SchedInit
<1>2. \A c \in CPUs : pc[c] = "idle" /\ Place(c) = "idle"
  BY <1>1 DEF Place
<1>3. ASSUME NEW p \in Slots, state[p] \in Alive PROVE Loadable(p)
  <2>1. p \in Threads
    BY <1>1, <1>3 DEF Alive
  <2>2. context[p].at = EntryPoint(p) /\ context[p].page = p /\ kstack[p] = p
    BY <1>1, <2>1, SMT DEF Saved
  <2>3. EntryPoint(p) \in ResumePoints
    BY DEF EntryPoint, ResumePoints
  <2>4. p # NoPage
    BY <2>1, SMT DEF Threads, InitProc, KthreaddTask, NoPage
  <2>5. QED BY <2>2, <2>3, <2>4 DEF Loadable
<1>4. QED BY <1>1, <1>2, <1>3 DEF Single, OffStack

\* On one CPU a stack in use is not free: it is the stack of the process.
LEMMA SingleHolds ==
  ASSUME IndInv, PlaceInv, Accounted, Single
  PROVE  StackHeld /\ KernelSurvives
<1>1. ASSUME NEW c \in CPUs PROVE stack[c] \notin freePages
  <2>1. NoPage \notin freePages
    BY SMT DEF IndInv, TypeOK, Pages, NoPage
  <2>2. CASE pc[c] \in OffStack
    BY <2>1, <2>2 DEF PlaceInv, OneExecutes
  <2>3. CASE pc[c] \notin OffStack
    <3>1. stack[c] = kstack[proc[c]] /\ stack[c] # NoPage
      BY <2>3 DEF Single
    <3>2. proc[c] \in Slots
      BY <2>3 DEF IndInv, Placed, TypeOK, OffStack
    <3>3. QED BY <3>1, <3>2 DEF Accounted, StacksAccounted, IndInv, TypeOK
  <2>4. QED BY <2>2, <2>3
<1>2. QED BY <1>1 DEF StackHeld, KernelSurvives, Single

-------------------------------------------------------------------------------
(* wait_child and kthreadd on one CPU. *)

\* The step puts no process to sleep and makes no zombie.
StandsStill ==
  \A p \in Slots :
    /\ state'[p] = "SLEEPING" => /\ state[p] = "SLEEPING" /\ chan'[p] = chan[p]
                                 /\ context'[p] = context[p]
    /\ state'[p] = "ZOMBIE" => state[p] = "ZOMBIE" /\ parent'[p] = parent[p]

\* A wake-up leaves the other sleepers asleep.
LEMMA WakeStill ==
  ASSUME NEW S, WakeAll(S), UNCHANGED <<parent, context>>
  PROVE  StandsStill
BY DEF WakeAll, StandsStill

\* The steps of the scheduler, but for sched() and sleep_ticks.
LEMMA SchedStill ==
  ASSUME IndInv, NEW c \in CPUs, SchedStep(c), ~Sched(c), ~SleepTicks(c)
  PROVE  StandsStill
<1>1. TypeOK
  BY DEF IndInv
<1>2. CASE Schedule(c)
  <2> DEFINE p == Head(runqueue)
  <2>1. /\ p \in Slots /\ state' = [state EXCEPT ![p] = "RUNNING"] /\ UNCHANGED <<chan, parent>>
    BY <1>2, HeadRunnable DEF Schedule
  <2>2. \/ context' = context
        \/ context' = [context EXCEPT ![p] = Saved(EntryPoint(p), NoProc, kstack[p])]
    BY <1>2 DEF Schedule, PrepareContext
  <2>3. \A q \in Slots \ {p} : state'[q] = state[q] /\ context'[q] = context[q]
    BY <1>1, <2>1, <2>2 DEF TypeOK
  <2>4. state'[p] = "RUNNING"
    BY <1>1, <2>1 DEF TypeOK
  <2>5. QED BY <2>1, <2>3, <2>4 DEF StandsStill
<1>3. CASE SwitchTo(c)
  <2>1. /\ proc[c] \in Slots /\ state[proc[c]] = "RUNNING" /\ UNCHANGED <<state, chan, parent>>
    BY <1>3, RunsHere DEF SwitchTo
  <2>2. \A q \in Slots \ {proc[c]} : context'[q] = context[q]
    BY <1>1, <1>3 DEF SwitchTo, TypeOK
  <2>3. QED BY <2>1, <2>2 DEF StandsStill
<1>4. CASE Back(c) \/ Reap(c) \/ TickResched(c) \/ PreemptCheck(c)
  BY <1>4 DEF Back, Reap, TickResched, PreemptCheck, tableVars, StandsStill
<1>5. CASE TickKernel(c) \/ TickUser(c)
  <2>1. PICK S : WakeAll(S)
    BY <1>5, TickWakes DEF TickKernel, TickUser
  <2>2. QED BY <1>5, <2>1, WakeStill DEF TickKernel, TickUser
<1>6. CASE Yield(c)
  <2>1. /\ state' = [state EXCEPT ![proc[c]] = "RUNNABLE"]
        /\ UNCHANGED <<chan, parent, context>>
    BY <1>6 DEF Yield
  <2>2. QED BY <1>1, <2>1 DEF StandsStill, TypeOK
<1>7. QED BY <1>2, <1>3, <1>4, <1>5, <1>6 DEF SchedStep

\* Only one slot changes, and it neither sleeps nor is a zombie after the step.
LEMMA SlotStill ==
  ASSUME NEW q \in Slots, state'[q] \notin {"SLEEPING", "ZOMBIE"},
         \A p \in Slots \ {q} : /\ state'[p] = state[p] /\ chan'[p] = chan[p]
                                /\ context'[p] = context[p] /\ parent'[p] = parent[p]
  PROVE  StandsStill
BY DEF StandsStill

\* Claiming, filling and giving up a slot.
LEMMA FillStill ==
  ASSUME IndInv, PlaceInv, NEW c \in CPUs,
         \/ ForkAlloc(c) \/ ForkFill(c) \/ ForkFail(c) \/ ForkPublish(c)
         \/ KthreaddAlloc(c) \/ KthreaddFill(c) \/ KthreaddFail(c) \/ KthreaddPublish(c)
  PROVE  StandsStill
<1>1. TypeOK
  BY DEF IndInv
<1>2. CASE ForkAlloc(c) \/ KthreaddAlloc(c)
  <2>1. PICK q \in Slots : ClaimSlot(q)
    BY <1>2 DEF ForkAlloc, KthreaddAlloc
  <2>2. /\ state'[q] = "USED"
        /\ \A p \in Slots \ {q} : /\ state'[p] = state[p] /\ chan'[p] = chan[p]
                                  /\ context'[p] = context[p] /\ parent'[p] = parent[p]
    BY <1>1, <2>1 DEF ClaimSlot, TypeOK
  <2>3. QED BY <2>2, SlotStill
<1>3. CASE ~(ForkAlloc(c) \/ KthreaddAlloc(c))
  <2> DEFINE q == arg[c]
  <2>1. Claiming(c)
    BY <1>3 DEF ForkFill, ForkFail, ForkPublish, KthreaddFill, KthreaddFail, KthreaddPublish, Claiming
  <2>2. q \in Slots /\ state[q] = "USED"
    BY <2>1, FillingSlot
  <2>3. CASE ForkFill(c) \/ KthreaddFill(c)
    <3>1. UNCHANGED <<state, chan>>
      BY <2>3 DEF ForkFill, KthreaddFill
    <3>2. \A p \in Slots \ {q} : context'[p] = context[p] /\ parent'[p] = parent[p]
      BY <1>1, <2>2, <2>3 DEF ForkFill, KthreaddFill, TypeOK
    <3>3. QED BY <2>2, <3>1, <3>2, SlotStill
  <2>4. CASE ForkFail(c) \/ KthreaddFail(c)
    <3>1. FreeSlot(q) /\ UNCHANGED chan
      BY <2>4 DEF ForkFail, KthreaddFail
    <3>2. /\ state'[q] = "UNUSED"
          /\ \A p \in Slots \ {q} : /\ state'[p] = state[p] /\ chan'[p] = chan[p]
                                    /\ context'[p] = context[p] /\ parent'[p] = parent[p]
      BY <1>1, <2>2, <3>1 DEF FreeSlot, TypeOK
    <3>3. QED BY <2>2, <3>2, SlotStill
  <2>5. CASE ForkPublish(c) \/ KthreaddPublish(c)
    <3>1. state' = [state EXCEPT ![q] = "RUNNABLE"] /\ UNCHANGED <<chan, context, parent>>
      BY <2>5 DEF ForkPublish, KthreaddPublish
    <3>2. state'[q] = "RUNNABLE" /\ \A p \in Slots \ {q} : state'[p] = state[p]
      BY <1>1, <2>2, <3>1 DEF TypeOK
    <3>3. QED BY <2>2, <3>1, <3>2, SlotStill
  <2>6. QED BY <1>3, <2>3, <2>4, <2>5
<1>4. QED BY <1>2, <1>3

\* The other steps of user processes, but for exit and the sleep of wait_child.
LEMMA ProcStill ==
  ASSUME IndInv, PlaceInv, NEW c \in CPUs, ProcStep(c), ~Exit(c), ~WaitSleep(c)
  PROVE  StandsStill
<1>1. TypeOK
  BY DEF IndInv
<1>2. CASE KernelInit(c) \/ WaitNone(c)
  BY <1>2 DEF KernelInit, WaitNone, tableVars, StandsStill
<1>3. CASE ExitWake(c)
  <2>1. PICK S : WakeAll(S)
    BY <1>3 DEF ExitWake
  <2>2. QED BY <1>3, <2>1, WakeStill DEF ExitWake
<1>4. CASE SignalSend(c)
  <2>1. PICK S : WakeAll(S)
    BY <1>4 DEF SignalSend
  <2>2. QED BY <1>4, <2>1, WakeStill DEF SignalSend
<1>5. CASE WaitReap(c)
  <2>1. PICK q \in Slots : /\ context' = [context EXCEPT ![q] = Popped]
                           /\ state' = [state EXCEPT ![q] = "UNUSED"]
                           /\ parent' = [parent EXCEPT ![q] = NoProc]
    BY <1>5, ReapedSlot
  <2>2. UNCHANGED chan
    BY <1>5 DEF WaitReap
  <2>3. /\ state'[q] = "UNUSED"
        /\ \A p \in Slots \ {q} : /\ state'[p] = state[p] /\ chan'[p] = chan[p]
                                  /\ context'[p] = context[p] /\ parent'[p] = parent[p]
    BY <1>1, <2>1, <2>2 DEF TypeOK
  <2>4. QED BY <2>3, SlotStill
<1>6. QED BY <1>2, <1>3, <1>4, <1>5, FillStill DEF ProcStep

\* The other steps around kthreadd, but for the sleeps.
LEMMA KthreadStill ==
  ASSUME IndInv, PlaceInv, NEW c \in CPUs, KthreadStep(c), ~CreateSleep(c), ~KthreaddSleep(c)
  PROVE  StandsStill
<1>1. TypeOK
  BY DEF IndInv
<1>2. CASE \/ CreateQueue(c) \/ CreateReturn(c) \/ KthreaddEmpty(c) \/ KthreaddTake(c)
           \/ KthreaddNoSlot(c)
  BY <1>2 DEF CreateQueue, CreateReturn, KthreaddEmpty, KthreaddTake, KthreaddNoSlot, tableVars,
              StandsStill
<1>3. CASE CreateWake(c) \/ KthreaddDone(c)
  <2>1. PICK S : WakeAll(S)
    BY <1>3 DEF CreateWake, KthreaddDone
  <2>2. QED BY <1>3, <2>1, WakeStill DEF CreateWake, KthreaddDone
<1>4. CASE KthreadExit(c)
  <2>1. state' = [state EXCEPT ![proc[c]] = "UNUSED"] /\ UNCHANGED <<chan, parent, context>>
    BY <1>4 DEF KthreadExit
  <2>2. QED BY <1>1, <2>1 DEF StandsStill, TypeOK
<1>5. QED BY <1>2, <1>3, <1>4, FillStill DEF KthreadStep

\* The four sleeps: what the process sleeps on; nothing else changes in the table.
LEMMA Sleeps ==
  ASSUME IndInv, NEW c \in CPUs,
         SleepTicks(c) \/ WaitSleep(c) \/ CreateSleep(c) \/ KthreaddSleep(c)
  PROVE  /\ proc[c] \in Slots /\ state'[proc[c]] = "SLEEPING" /\ Executes(c)
         /\ UNCHANGED <<context, parent, proc>> /\ pc'[c] = "sched"
         /\ \A p \in Slots \ {proc[c]} : state'[p] = state[p] /\ chan'[p] = chan[p]
         /\ \/ SleepTicks(c) /\ pc[c] \in {"user", "kthread"} /\ chan'[proc[c]] = NoChan
               /\ ret'[c] = pc[c]
            \/ WaitSleep(c) /\ pc[c] = "wait_sleep" /\ chan'[proc[c]] = ProcChan(proc[c])
               /\ ret'[c] = "wait" /\ arg'[c] = arg[c]
            \/ CreateSleep(c) /\ pc[c] = "created" /\ chan'[proc[c]] = InfoChan(proc[c])
               /\ ret'[c] = "created"
            \/ KthreaddSleep(c) /\ pc[c] = "kthreadd_sleep" /\ chan'[proc[c]] = ListChan
               /\ ret'[c] = "kthreadd"
<1>1. TypeOK
  BY DEF IndInv
<1>2. /\ pc[c] \in {"user", "kthread", "wait_sleep", "created", "kthreadd_sleep"}
  BY DEF SleepTicks, WaitSleep, CreateSleep, KthreaddSleep
<1>3. proc[c] \in Slots /\ Executes(c)
  BY <1>2, RunsHere, ExecutesHere DEF OffStack
<1>4. CASE SleepTicks(c)
  BY <1>1, <1>3, <1>4 DEF SleepTicks, SleepOn, Goto, TypeOK
<1>5. CASE WaitSleep(c)
  BY <1>1, <1>3, <1>5 DEF WaitSleep, SleepOn, Goto, TypeOK
<1>6. CASE CreateSleep(c)
  BY <1>1, <1>3, <1>6 DEF CreateSleep, SleepOn, Goto, TypeOK
<1>7. CASE KthreaddSleep(c)
  BY <1>1, <1>3, <1>7 DEF KthreaddSleep, SleepOn, Goto, TypeOK
<1>8. QED BY <1>4, <1>5, <1>6, <1>7

\* kthreadd is not put to sleep, the list is as before, and no wake-up is under way.
LEMMA KthreaddsKept ==
  ASSUME OneCpu, Kthreadds, NEW c \in CPUs, pc[c] # "create_wake", pc'[c] # "kthreadd_sleep",
         create_list' = create_list,
         state'[KthreaddTask] = "SLEEPING" =>
           state[KthreaddTask] = "SLEEPING" /\ chan'[KthreaddTask] = chan[KthreaddTask]
  PROVE  Kthreadds'
<1>1. \A d \in CPUs : d = c
  BY DEF OneCpu
<1>2. state'[KthreaddTask] = "SLEEPING" =>
        chan'[KthreaddTask] = ListChan /\ create_list' = <<>>
  BY <1>1 DEF Kthreadds, KthreaddSeesRequest
<1>3. QED BY <1>1, <1>2 DEF Kthreadds, KthreaddSeesRequest

\* kthreadd is awake, or its list is empty.
LEMMA KthreaddsSet ==
  ASSUME OneCpu, NEW c \in CPUs,
         pc'[c] = "kthreadd_sleep" => create_list' = <<>>,
         state'[KthreaddTask] = "SLEEPING" =>
           /\ chan'[KthreaddTask] = ListChan
           /\ create_list' = <<>> \/ pc'[c] = "create_wake"
  PROVE  Kthreadds'
<1>1. \A d \in CPUs : d = c
  BY DEF OneCpu
<1>2. QED BY <1>1 DEF Kthreadds, KthreaddSeesRequest

\* kthreadd itself is not one that sleeps for a time, waits for a child or creates.
LEMMA KthreaddsSleep ==
  ASSUME IndInv, PlaceInv, OneCpu, Kthreadds, NEW c \in CPUs, create_list' = create_list,
         SleepTicks(c) \/ WaitSleep(c) \/ CreateSleep(c) \/ KthreaddSleep(c)
  PROVE  Kthreadds'
<1>1. /\ proc[c] \in Slots /\ Executes(c) /\ pc'[c] = "sched"
      /\ \A p \in Slots \ {proc[c]} : state'[p] = state[p] /\ chan'[p] = chan[p]
      /\ \/ pc[c] \in {"user", "kthread", "wait_sleep", "created"}
         \/ pc[c] = "kthreadd_sleep" /\ chan'[proc[c]] = ListChan
  BY Sleeps
<1>2. Place(c) = pc[c] /\ pc[c] # "create_wake"
  BY <1>1 DEF Place
<1>3. Fits(proc[c], pc[c]) /\ ~user[KthreaddTask]
  BY <1>1, <1>2, ExecutesSlot DEF PlaceInv, Kinds
<1>4. CASE pc[c] = "kthreadd_sleep"
  <2>1. proc[c] = KthreaddTask /\ create_list = <<>>
    BY <1>3, <1>4 DEF Fits, KthreaddPlaces, Kthreadds
  <2>2. QED BY <1>1, <1>4, <2>1, KthreaddsSet
<1>5. CASE pc[c] # "kthreadd_sleep"
  <2>1. proc[c] # KthreaddTask
    BY <1>1, <1>3, <1>5 DEF Fits, UserPlaces, AskPlaces, Threads
  <2>2. KthreaddTask \in Slots \ {proc[c]}
    BY <2>1, ThreadSlots
  <2>3. QED BY <1>1, <1>2, <2>2, KthreaddsKept
<1>6. QED BY <1>4, <1>5

\* Steps that leave the list alone and put nobody to sleep.
LEMMA KthreaddsStill ==
  ASSUME OneCpu, Kthreadds, NEW c \in CPUs, create_list' = create_list, StandsStill,
         pc[c] # "create_wake", pc'[c] # "kthreadd_sleep"
  PROVE  Kthreadds'
BY KthreaddsKept, ThreadSlots DEF StandsStill

\* What the steps of the scheduler and of user processes do not do.
LEMMA KthreaddsAway ==
  ASSUME IndInv, NEW c \in CPUs, SchedStep(c) \/ ProcStep(c)
  PROVE  pc[c] # "create_wake" /\ pc'[c] # "kthreadd_sleep"
<1>1. TypeOK
  BY DEF IndInv
<1>2. CASE SwitchTo(c)
  <2>1. pc[c] = "swtch" /\ pc'[c] \in ResumePoints \cup {"swtch"}
    BY <1>1, <1>2 DEF SwitchTo, Corrupt, Goto, TypeOK
  <2>2. QED BY <2>1 DEF ResumePoints
<1>3. CASE Sched(c) \/ Back(c) \/ Reap(c)
  BY <1>1, <1>3 DEF Sched, Back, Reap, Goto, TypeOK
<1>4. CASE \/ Schedule(c) \/ TickKernel(c) \/ TickUser(c) \/ TickResched(c) \/ PreemptCheck(c)
           \/ Yield(c)
  BY <1>1, <1>4 DEF Schedule, TickKernel, TickUser, TickResched, PreemptCheck, Yield, Goto,
                    TypeOK, cpuVars
<1>5. CASE KernelInit(c) \/ ForkAlloc(c) \/ ForkFill(c) \/ ForkFail(c) \/ ForkPublish(c)
  BY <1>1, <1>5 DEF KernelInit, ForkAlloc, ForkFill, ForkFail, ForkPublish, Goto, TypeOK
<1>6. CASE Exit(c) \/ ExitWake(c) \/ SignalSend(c)
  BY <1>1, <1>6 DEF Exit, ExitWake, SignalSend, Goto, TypeOK, cpuVars
<1>7. CASE WaitReap(c)
  BY <1>1, <1>7, SMT DEF WaitReap, WaitTargets, Goto, TypeOK
<1>8. CASE WaitNone(c)
  BY <1>1, <1>8 DEF WaitNone, WaitTargets, Goto, TypeOK
<1>9. CASE SleepTicks(c) \/ WaitSleep(c)
  BY <1>9, Sleeps
<1>10. QED BY <1>2, <1>3, <1>4, <1>5, <1>6, <1>7, <1>8, <1>9 DEF SchedStep, ProcStep

\* A request finds kthreadd awake or wakes it.
LEMMA KthreaddsStep ==
  ASSUME IndInv, PlaceInv, OneCpu, Kthreadds, [Next]_vars
  PROVE  Kthreadds'
<1>1. TypeOK
  BY DEF IndInv
<1>2. ASSUME NEW c \in CPUs, SchedStep(c) \/ ProcStep(c), create_list' = create_list
      PROVE  Kthreadds'
  <2>1. pc[c] # "create_wake" /\ pc'[c] # "kthreadd_sleep"
    BY <1>2, KthreaddsAway
  <2>2. CASE Sched(c) \/ Exit(c)
    <3>1. UNCHANGED chan /\ \A p \in Slots : state'[p] = "SLEEPING" => state[p] = "SLEEPING"
      BY <1>1, <2>2 DEF Sched, Exit, TypeOK
    <3>2. QED BY <1>2, <2>1, <3>1, KthreaddsKept, ThreadSlots
  <2>3. CASE SleepTicks(c) \/ WaitSleep(c)
    BY <1>2, <2>3, KthreaddsSleep
  <2>4. CASE ~(Sched(c) \/ Exit(c) \/ SleepTicks(c) \/ WaitSleep(c))
    BY <1>2, <2>1, <2>4, SchedStill, ProcStill, KthreaddsStill
  <2>5. QED BY <2>2, <2>3, <2>4
<1>3. ASSUME NEW c \in CPUs, KthreadStep(c) PROVE Kthreadds'
  <2>1. CASE CreateSleep(c) \/ KthreaddSleep(c)
    BY <2>1, KthreaddsSleep DEF CreateSleep, KthreaddSleep, kthreadVars
  <2>2. CASE CreateQueue(c)
    <3>1. pc'[c] = "create_wake" /\ pc[c] \in {"kernel_init", "kthread"}
          /\ UNCHANGED <<state, chan>>
      BY <1>1, <2>2 DEF CreateQueue, Goto, TypeOK, tableVars
    <3>2. QED BY <3>1, KthreaddsSet DEF Kthreadds
  <2>3. CASE CreateWake(c)
    <3>1. pc'[c] = "created" /\ WakeAll(Sleepers(ListChan))
      BY <1>1, <2>3 DEF CreateWake, Goto, TypeOK
    <3>2. state'[KthreaddTask] # "SLEEPING"
      BY <3>1, ThreadSlots DEF WakeAll, Sleepers, Kthreadds
    <3>3. QED BY <3>1, <3>2, KthreaddsSet
  <2>4. CASE KthreaddTake(c)
    <3>1. pc[c] = "kthreadd" /\ pc'[c] = "kthreadd_alloc" /\ UNCHANGED state
      BY <1>1, <2>4 DEF KthreaddTake, Goto, TypeOK, tableVars
    <3>2. Executes(c) /\ Place(c) = "kthreadd" /\ state[proc[c]] = "RUNNING"
      BY <3>1, ExecutesHere, RunsHere DEF OffStack, Place
    <3>3. proc[c] = KthreaddTask
      BY <3>2, ExecutesSlot DEF Fits, KthreaddPlaces
    <3>4. QED BY <3>1, <3>2, <3>3, KthreaddsSet
  <2>5. CASE KthreaddEmpty(c)
    <3>1. /\ create_list = <<>> /\ pc[c] = "kthreadd" /\ pc'[c] = "kthreadd_sleep"
          /\ UNCHANGED <<state, chan, create_list>>
      BY <1>1, <2>5 DEF KthreaddEmpty, Goto, TypeOK, tableVars, kthreadVars
    <3>2. QED BY <3>1, KthreaddsSet DEF Kthreadds
  <2>6. CASE CreateReturn(c)
    <3>1. pc[c] = "created" /\ pc'[c] # "kthreadd_sleep" /\ create_list' = create_list
      BY <1>1, <2>6 DEF CreateReturn, EntryPoint, Goto, TypeOK
    <3>2. StandsStill
      BY <2>6 DEF CreateReturn, tableVars, StandsStill
    <3>3. QED BY <3>1, <3>2, KthreaddsStill
  <2>7. CASE \/ KthreaddAlloc(c) \/ KthreaddNoSlot(c) \/ KthreaddFill(c) \/ KthreaddFail(c)
             \/ KthreaddPublish(c) \/ KthreaddDone(c) \/ KthreadExit(c)
    <3>1. pc[c] \in ServePlaces \cup {"kthread"}
      BY <2>7 DEF KthreaddAlloc, KthreaddNoSlot, KthreaddFill, KthreaddFail, KthreaddPublish,
                  KthreaddDone, KthreadExit, ServePlaces
    <3>2. pc'[c] # "kthreadd_sleep"
      BY <1>1, <2>7 DEF KthreaddAlloc, KthreaddNoSlot, KthreaddFill, KthreaddFail,
                        KthreaddPublish, KthreaddDone, KthreadExit, Goto, TypeOK
    <3>3. create_list' = create_list
      BY <2>7 DEF KthreaddAlloc, KthreaddNoSlot, KthreaddFill, KthreaddFail, KthreaddPublish,
                  KthreaddDone, KthreadExit, kthreadVars
    <3>4. ~CreateSleep(c) /\ ~KthreaddSleep(c) /\ pc[c] # "create_wake"
      BY <3>1 DEF CreateSleep, KthreaddSleep, ServePlaces
    <3>5. StandsStill
      BY <1>3, <3>4, KthreadStill
    <3>6. QED BY <3>2, <3>3, <3>4, <3>5, KthreaddsStill
  <2>8. QED BY <1>3, <2>1, <2>2, <2>3, <2>4, <2>5, <2>6, <2>7 DEF KthreadStep
<1>4. CASE UNCHANGED vars
  <2>1. UNCHANGED <<pc, create_list, state, chan>>
    BY <1>4 DEF vars, schedVars, tableVars, cpuVars, kthreadVars
  <2>2. QED BY <2>1 DEF Kthreadds, KthreaddSeesRequest
<1>5. QED BY <1>2, <1>3, <1>4 DEF Next, CpuStep, Stopped, kthreadVars

\* The steps that matter to wait_child have their own lemmas; the others leave alone
\* who sleeps there and which of the children are zombies.
LEMMA WaitsStill ==
  ASSUME OneCpu, Waits, NEW c \in CPUs, StandsStill, pc[c] # "exit_wake",
         GoesToWait(c)' => Zombies(proc[c], arg[c])' = {}
  PROVE  Waits'
<1>1. \A d \in CPUs : d = c
  BY DEF OneCpu
<1>2. ASSUME NEW p \in Slots \ {InitProc}, MissedExit(p)' PROVE FALSE
  <2>1. /\ state'[p] = "SLEEPING" /\ chan'[p] = ProcChan(p) /\ context'[p].at = "wait"
        /\ Zombies(p, context[p].arg)' # {}
    BY <1>2 DEF MissedExit
  <2>2. state[p] = "SLEEPING" /\ chan[p] = ProcChan(p) /\ context'[p] = context[p]
    BY <2>1 DEF StandsStill
  <2>3. PICK q \in Slots : /\ parent'[q] = p /\ state'[q] = "ZOMBIE"
                           /\ Matches(context'[p].arg, q)
    BY <2>1 DEF Zombies, Children, Matches
  <2>4. parent[q] = p /\ state[q] = "ZOMBIE" /\ Matches(context[p].arg, q)
    BY <2>2, <2>3 DEF StandsStill
  <2>5. Zombies(p, context[p].arg) # {}
    BY <2>4 DEF Zombies, Children
  <2>6. MissedExit(p)
    BY <1>1, <2>1, <2>2, <2>5 DEF MissedExit
  <2>7. QED BY <2>6 DEF Waits, WaiterSeesExit
<1>3. QED BY <1>1, <1>2 DEF Waits, WaiterSeesExit

\* Only wait_child goes to sleep in wait_child.
LEMMA WaitsAway ==
  ASSUME IndInv, NEW c \in CPUs, SchedStep(c) \/ ProcStep(c) \/ KthreadStep(c),
         ~WaitNone(c), ~WaitSleep(c)
  PROVE  ~GoesToWait(c)'
<1>1. TypeOK
  BY DEF IndInv
<1> SUFFICES pc'[c] # "wait_sleep" /\ (pc'[c] = "sched" => ret'[c] # "wait")
  BY DEF GoesToWait
<1>2. CASE SwitchTo(c)
  <2>1. pc'[c] \in ResumePoints \cup {"swtch"}
    BY <1>1, <1>2 DEF SwitchTo, Corrupt, Goto, TypeOK
  <2>2. QED BY <2>1 DEF ResumePoints
<1>3. CASE Sched(c) \/ Back(c) \/ Reap(c)
  BY <1>1, <1>3 DEF Sched, Back, Reap, Goto, TypeOK
<1>4. CASE Schedule(c) \/ TickKernel(c) \/ TickUser(c) \/ TickResched(c) \/ PreemptCheck(c)
  BY <1>1, <1>4 DEF Schedule, TickKernel, TickUser, TickResched, PreemptCheck, Goto, TypeOK,
                    cpuVars
<1>5. CASE Yield(c)
  BY <1>1, <1>5 DEF Yield, Goto, TypeOK
<1>6. CASE KernelInit(c) \/ ForkAlloc(c) \/ ForkFill(c) \/ ForkFail(c) \/ ForkPublish(c)
  BY <1>1, <1>6 DEF KernelInit, ForkAlloc, ForkFill, ForkFail, ForkPublish, Goto, TypeOK
<1>7. CASE Exit(c) \/ ExitWake(c) \/ SignalSend(c)
  BY <1>1, <1>7 DEF Exit, ExitWake, SignalSend, Goto, TypeOK, cpuVars
<1>8. CASE SleepTicks(c) \/ CreateSleep(c) \/ KthreaddSleep(c)
  BY <1>1, <1>8 DEF SleepTicks, CreateSleep, KthreaddSleep, SleepOn, Goto, TypeOK
<1>9. CASE WaitReap(c)
  BY <1>1, <1>9 DEF WaitReap, Goto, TypeOK
<1>10. CASE CreateQueue(c) \/ CreateWake(c) \/ CreateReturn(c)
  BY <1>1, <1>10 DEF CreateQueue, CreateWake, CreateReturn, EntryPoint, Goto, TypeOK
<1>11. CASE \/ KthreaddEmpty(c) \/ KthreaddTake(c) \/ KthreaddAlloc(c) \/ KthreaddNoSlot(c)
            \/ KthreaddFill(c) \/ KthreaddFail(c) \/ KthreaddPublish(c) \/ KthreaddDone(c)
            \/ KthreadExit(c)
  BY <1>1, <1>11 DEF KthreaddEmpty, KthreaddTake, KthreaddAlloc, KthreaddNoSlot, KthreaddFill,
                     KthreaddFail, KthreaddPublish, KthreaddDone, KthreadExit, Goto, TypeOK
<1>12. QED BY <1>2, <1>3, <1>4, <1>5, <1>6, <1>7, <1>8, <1>9, <1>10, <1>11
  DEF SchedStep, ProcStep, KthreadStep

\* The step of a process that has exited is the wake-up of its parent.
LEMMA ExitWakesFirst ==
  ASSUME NEW c \in CPUs, pc[c] = "exit_wake", SchedStep(c) \/ ProcStep(c) \/ KthreadStep(c)
  PROVE  ExitWake(c)
<1>1. ~SchedStep(c)
  BY DEF SchedStep, Schedule, SwitchTo, Sched, Back, Reap, TickKernel, TickUser, TickResched,
         PreemptCheck, Yield, SleepTicks
<1>2. ~KthreadStep(c)
  BY DEF KthreadStep, CreateQueue, CreateWake, CreateSleep, CreateReturn, KthreaddEmpty,
         KthreaddSleep, KthreaddTake, KthreaddAlloc, KthreaddNoSlot, KthreaddFill, KthreaddFail,
         KthreaddPublish, KthreaddDone, KthreadExit
<1>3. ~WaitReap(c) /\ ~WaitNone(c)
  BY DEF WaitReap, WaitNone, WaitTargets
<1>4. QED BY <1>1, <1>2, <1>3
  DEF ProcStep, KernelInit, ForkAlloc, ForkFill, ForkFail, ForkPublish, Exit, WaitSleep, SignalSend

\* exit: the parent of the new zombie is about to be woken.
LEMMA WaitsExit ==
  ASSUME IndInv, OneCpu, Waits, NEW c \in CPUs, Exit(c)
  PROVE  Waits'
<1> DEFINE r == proc[c]
<1>1. TypeOK /\ \A d \in CPUs : d = c
  BY DEF IndInv, OneCpu
<1>2. /\ pc[c] = "user" /\ pc'[c] = "exit_wake" /\ arg'[c] = parent[r] /\ Reparent(r)
      /\ UNCHANGED chan
      /\ state' = [state EXCEPT ![r] = "ZOMBIE"] /\ context' = [context EXCEPT ![r] = Popped]
  BY <1>1 DEF Exit, Goto, TypeOK
<1>3. r \in Slots
  BY <1>2, RunsHere
<1>4. \A q \in Slots : parent'[q] \in {parent[q], InitProc}
  BY <1>2 DEF Reparent
<1>5. state'[r] = "ZOMBIE" /\ \A q \in Slots \ {r} : state'[q] = state[q] /\ context'[q] = context[q]
  BY <1>1, <1>2, <1>3 DEF TypeOK
<1>6. ASSUME NEW p \in Slots \ {InitProc}, MissedExit(p)' PROVE FALSE
  <2>1. /\ state'[p] = "SLEEPING" /\ chan'[p] = ProcChan(p) /\ context'[p].at = "wait"
        /\ Zombies(p, context[p].arg)' # {} /\ arg'[c] # p
    BY <1>2, <1>6 DEF MissedExit
  <2>2. /\ state[p] = "SLEEPING" /\ chan[p] = ProcChan(p) /\ context'[p] = context[p]
    BY <1>2, <1>5, <2>1
  <2>3. PICK q \in Slots : /\ parent'[q] = p /\ state'[q] = "ZOMBIE"
                           /\ Matches(context'[p].arg, q)
    BY <2>1 DEF Zombies, Children, Matches
  <2>4. parent[q] = p /\ q # r
    BY <1>2, <1>4, <2>1, <2>3
  <2>5. state[q] = "ZOMBIE" /\ Matches(context[p].arg, q)
    BY <1>5, <2>2, <2>3, <2>4
  <2>6. Zombies(p, context[p].arg) # {}
    BY <2>4, <2>5 DEF Zombies, Children
  <2>7. MissedExit(p)
    BY <1>1, <1>2, <2>1, <2>2, <2>6 DEF MissedExit
  <2>8. QED BY <2>7 DEF Waits, WaiterSeesExit
<1>7. ~GoesToWait(c)'
  BY <1>2 DEF GoesToWait
<1>8. QED BY <1>1, <1>6, <1>7 DEF Waits, WaiterSeesExit

\* wakeup(parent): the parent does not sleep any more.
LEMMA WaitsWake ==
  ASSUME IndInv, OneCpu, Waits, NEW c \in CPUs, ExitWake(c)
  PROVE  Waits'
<1>1. TypeOK /\ \A d \in CPUs : d = c
  BY DEF IndInv, OneCpu
<1>2. /\ pc[c] = "exit_wake" /\ pc'[c] = "sched" /\ ret'[c] = "dead"
      /\ UNCHANGED <<parent, context>>
      /\ WakeAll(IF arg[c] = NoProc THEN {} ELSE Sleepers(ProcChan(arg[c])))
  BY <1>1 DEF ExitWake, Goto, TypeOK
<1>3. StandsStill
  <2>1. PICK S : WakeAll(S)
    BY <1>2
  <2>2. QED BY <1>2, <2>1, WakeStill
<1>4. ASSUME NEW p \in Slots \ {InitProc}, MissedExit(p)' PROVE FALSE
  <2>1. /\ state'[p] = "SLEEPING" /\ chan'[p] = ProcChan(p) /\ context'[p].at = "wait"
        /\ Zombies(p, context[p].arg)' # {}
    BY <1>4 DEF MissedExit
  <2>2. state[p] = "SLEEPING" /\ chan[p] = ProcChan(p)
    BY <1>3, <2>1 DEF StandsStill
  <2>3. PICK q \in Slots : /\ parent'[q] = p /\ state'[q] = "ZOMBIE"
                           /\ Matches(context'[p].arg, q)
    BY <2>1 DEF Zombies, Children, Matches
  <2>4. parent[q] = p /\ state[q] = "ZOMBIE" /\ Matches(context[p].arg, q)
    BY <1>2, <1>3, <2>3 DEF StandsStill
  <2>5. Zombies(p, context[p].arg) # {}
    BY <2>4 DEF Zombies, Children
  <2>6. arg[c] # p
    <3>1. SUFFICES ASSUME arg[c] = p PROVE FALSE
      OBVIOUS
    <3>2. p # NoProc
      BY ThreadSlots
    <3>3. WakeAll(Sleepers(ProcChan(p)))
      BY <1>2, <3>1, <3>2
    <3>4. p \in Sleepers(ProcChan(p))
      BY <2>2 DEF Sleepers
    <3>5. state'[p] = "RUNNABLE"
      BY <3>3, <3>4 DEF WakeAll
    <3>6. QED BY <2>1, <3>5
  <2>7. MissedExit(p)
    BY <1>1, <1>2, <2>1, <2>2, <2>5, <2>6 DEF MissedExit
  <2>8. QED BY <2>7 DEF Waits, WaiterSeesExit
<1>5. ~GoesToWait(c)'
  BY <1>2 DEF GoesToWait
<1>6. QED BY <1>1, <1>4, <1>5 DEF Waits, WaiterSeesExit

\* sched() saves the position in wait_child of a process that has seen no zombie.
LEMMA WaitsSched ==
  ASSUME IndInv, OneCpu, Waits, NEW c \in CPUs, Sched(c)
  PROVE  Waits'
<1> DEFINE r == proc[c]
<1>1. TypeOK /\ \A d \in CPUs : d = c
  BY DEF IndInv, OneCpu
<1>2. /\ pc[c] = "sched" /\ pc'[c] = "back" /\ UNCHANGED <<state, chan, parent>> /\ r \in Slots
      /\ context' = context \/ context' = [context EXCEPT ![r] = Saved(ret[c], arg[c], stack[c])]
  BY <1>1 DEF Sched, Goto, TypeOK, IndInv, Placed
<1>3. ASSUME NEW p \in Slots \ {InitProc}, MissedExit(p)' PROVE FALSE
  <2>1. /\ state[p] = "SLEEPING" /\ chan[p] = ProcChan(p) /\ context'[p].at = "wait"
        /\ Zombies(p, context[p].arg)' # {}
    BY <1>2, <1>3 DEF MissedExit
  <2>2. PICK q \in Slots : /\ parent[q] = p /\ state[q] = "ZOMBIE"
                           /\ Matches(context'[p].arg, q)
    BY <1>2, <2>1 DEF Zombies, Children, Matches
  <2>3. Zombies(p, context'[p].arg) # {}
    BY <2>2 DEF Zombies, Children
  <2>4. CASE context'[p] = context[p]
    <3>1. MissedExit(p)
      BY <1>1, <1>2, <2>1, <2>3, <2>4 DEF MissedExit
    <3>2. QED BY <3>1 DEF Waits, WaiterSeesExit
  <2>5. CASE context'[p] # context[p]
    <3>1. p = r /\ context'[p] = Saved(ret[c], arg[c], stack[c])
      BY <1>1, <1>2, <2>5 DEF TypeOK
    <3>2. context'[p].at = ret[c] /\ context'[p].arg = arg[c]
      BY <3>1, SMT DEF Saved
    <3>3. GoesToWait(c)
      BY <1>2, <2>1, <3>2 DEF GoesToWait
    <3>4. QED BY <2>3, <3>1, <3>2, <3>3 DEF Waits
  <2>6. QED BY <2>4, <2>5
<1>4. ~GoesToWait(c)'
  BY <1>2 DEF GoesToWait
<1>5. QED BY <1>1, <1>3, <1>4 DEF Waits, WaiterSeesExit

\* The scan of wait_child, and its sleep.
LEMMA WaitsSleep ==
  ASSUME IndInv, PlaceInv, OneCpu, Waits, Fresh, NEW c \in CPUs,
         \/ WaitNone(c) \/ WaitSleep(c) \/ SleepTicks(c) \/ CreateSleep(c) \/ KthreaddSleep(c)
  PROVE  Waits'
<1> DEFINE r == proc[c]
<1>1. TypeOK /\ \A d \in CPUs : d = c
  BY DEF IndInv, OneCpu
<1>2. CASE WaitNone(c)
  <2>1. PICK target \in WaitTargets(c) :
          /\ Zombies(proc[c], target) = {}
          /\ IF Children(proc[c]) = {}
             THEN Goto(c, "user") /\ arg' = [arg EXCEPT ![c] = NoProc]
             ELSE Goto(c, "wait_sleep") /\ arg' = [arg EXCEPT ![c] = target]
    BY <1>2 DEF WaitNone
  <2>2. pc'[c] = "user" \/ (pc'[c] = "wait_sleep" /\ arg'[c] = target)
    BY <1>1, <2>1 DEF Goto, TypeOK
  <2>3. UNCHANGED <<state, parent, proc>>
    BY <1>2 DEF WaitNone, tableVars
  <2>4. GoesToWait(c)' => Zombies(proc[c], arg[c])' = {}
    <3>1. SUFFICES ASSUME GoesToWait(c)' PROVE Zombies(proc[c], arg[c])' = {}
      OBVIOUS
    <3>2. arg'[c] = target
      BY <2>2, <3>1 DEF GoesToWait
    <3>3. QED BY <2>1, <2>3, <3>2 DEF Zombies, Children, Matches
  <2>5. StandsStill /\ pc[c] # "exit_wake"
    BY <1>2 DEF WaitNone, WaitTargets, tableVars, StandsStill
  <2>6. QED BY <2>4, <2>5, WaitsStill
<1>3. CASE ~WaitNone(c)
  <2>1. /\ r \in Slots /\ state'[r] = "SLEEPING" /\ Executes(c)
        /\ UNCHANGED <<context, parent, proc>> /\ pc'[c] = "sched"
        /\ \A p \in Slots \ {r} : state'[p] = state[p] /\ chan'[p] = chan[p]
        /\ pc[c] # "exit_wake"
        /\ ret'[c] = "wait" => pc[c] = "wait_sleep" /\ arg'[c] = arg[c]
    <3>1. SleepTicks(c) \/ WaitSleep(c) \/ CreateSleep(c) \/ KthreaddSleep(c)
      BY <1>3
    <3>2. QED BY <3>1, Sleeps
  <2>2. context[r].at # "wait"
    BY <2>1 DEF Fresh
  <2>3. state[r] = "RUNNING"
    BY <1>3, StatesYielded
  <2>4. \A q \in Slots : state'[q] = "ZOMBIE" => state[q] = "ZOMBIE"
    BY <2>1
  <2>5. ASSUME NEW p \in Slots \ {InitProc}, MissedExit(p)' PROVE FALSE
    <3>1. /\ state'[p] = "SLEEPING" /\ chan'[p] = ProcChan(p) /\ context[p].at = "wait"
          /\ Zombies(p, context[p].arg)' # {}
      BY <2>1, <2>5 DEF MissedExit
    <3>2. p # r
      BY <2>2, <3>1
    <3>3. state[p] = "SLEEPING" /\ chan[p] = ProcChan(p)
      BY <2>1, <3>1, <3>2
    <3>4. PICK q \in Slots : /\ parent'[q] = p /\ state'[q] = "ZOMBIE"
                             /\ Matches(context'[p].arg, q)
      BY <3>1 DEF Zombies, Children, Matches
    <3>5. parent[q] = p /\ state[q] = "ZOMBIE" /\ Matches(context[p].arg, q)
      BY <2>1, <2>4, <3>4
    <3>6. Zombies(p, context[p].arg) # {}
      BY <3>5 DEF Zombies, Children
    <3>7. MissedExit(p)
      BY <1>1, <2>1, <3>1, <3>3, <3>6 DEF MissedExit
    <3>8. QED BY <3>7 DEF Waits, WaiterSeesExit
  <2>6. ASSUME GoesToWait(c)', proc'[c] # InitProc PROVE Zombies(proc[c], arg[c])' = {}
    <3>1. pc[c] = "wait_sleep" /\ arg'[c] = arg[c]
      BY <2>1, <2>6 DEF GoesToWait
    <3>2. Zombies(proc[c], arg[c]) = {}
      BY <2>1, <2>6, <3>1 DEF Waits, GoesToWait
    <3>3. QED BY <2>1, <2>4, <3>1, <3>2 DEF Zombies, Children, Matches
  <2>7. QED BY <1>1, <2>5, <2>6 DEF Waits, WaiterSeesExit
<1>4. QED BY <1>2, <1>3

\* wait_child does not sleep through the exit of a child.
LEMMA WaitsStep ==
  ASSUME IndInv, PlaceInv, OneCpu, Waits, Fresh, [Next]_vars
  PROVE  Waits'
<1>1. ASSUME NEW c \in CPUs, SchedStep(c) \/ ProcStep(c) \/ KthreadStep(c) PROVE Waits'
  <2>1. CASE Exit(c) \/ ExitWake(c) \/ Sched(c)
    BY <2>1, WaitsExit, WaitsWake, WaitsSched
  <2>2. CASE WaitNone(c) \/ WaitSleep(c) \/ SleepTicks(c) \/ CreateSleep(c) \/ KthreaddSleep(c)
    BY <2>2, WaitsSleep
  <2>3. CASE /\ ~(Exit(c) \/ ExitWake(c) \/ Sched(c))
             /\ ~(WaitNone(c) \/ WaitSleep(c) \/ SleepTicks(c) \/ CreateSleep(c) \/ KthreaddSleep(c))
    <3>1. StandsStill
      BY <1>1, <2>3, SchedStill, ProcStill, KthreadStill
    <3>2. ~GoesToWait(c)'
      BY <1>1, <2>3, WaitsAway
    <3>3. pc[c] # "exit_wake"
      BY <1>1, <2>3, ExitWakesFirst
    <3>4. QED BY <3>1, <3>2, <3>3, WaitsStill
  <2>4. QED BY <2>1, <2>2, <2>3
<1>2. CASE UNCHANGED vars
  <2>1. UNCHANGED <<pc, ret, proc, arg, state, chan, parent, context>>
    BY <1>2 DEF vars, schedVars, tableVars, cpuVars
  <2>2. QED BY <2>1 DEF Waits, WaiterSeesExit, MissedExit, GoesToWait, Zombies, Children, Matches
<1>3. QED BY <1>1, <1>2 DEF Next, CpuStep, Stopped

\* At the start nobody sleeps.
LEMMA SleepInit == Init => Waits /\ Kthreadds
<1> SUFFICES ASSUME Init PROVE Waits /\ Kthreadds
  OBVIOUS
<1>1. /\ state = [p \in Slots |-> IF p = Swapper THEN "USED"
                                  ELSE IF p \in Threads THEN "RUNNABLE" ELSE "UNUSED"]
      /\ pc = [c \in CPUs |-> "idle"]
  BY DEF Init, SchedInit
<1>2. \A p \in Slots : state[p] # "SLEEPING"
  BY <1>1
<1>3. \A c \in CPUs : pc[c] = "idle"
  BY <1>1
<1>4. QED BY <1>2, <1>3, ThreadSlots
  DEF Waits, WaiterSeesExit, MissedExit, GoesToWait, Kthreadds, KthreaddSeesRequest
===============================================================================

----------------------------- MODULE KernelProofs -----------------------------
(***************************************************************************)
(* The theorems about Kernel.  For any number of CPUs: the invariant, that *)
(* the state of a slot follows the life of a process, that parents outlive *)
(* their children and that creators of kernel threads are served.  For one *)
(* CPU: that no stack is corrupted and no sleep misses what it waits for.  *)
(* The pages of the stacks are accounted for on one CPU, and on several in *)
(* the kernel as it is built.                                              *)
(***************************************************************************)
EXTENDS KernelSteps, KernelRequests, KernelSingle

USE SchedAssumption

\* Every step of every CPU keeps the invariant.
LEMMA StepKeeps ==
  ASSUME IndInv, [Next]_vars
  PROVE  IndInv'
<1>1. CASE UNCHANGED vars
  <2>1. UNCHANGED <<schedVars, kthreadVars, tableVars, cpuVars>>
    BY <1>1 DEF vars, schedVars
  <2>2. crash' \in {"none", "panic", "stack"}
    BY <2>1 DEF schedVars, IndInv, TypeOK
  <2>3. QED BY <2>1, <2>2, StutterKeeps DEF schedVars, tableVars, cpuVars, kthreadVars
<1>2. ASSUME NEW c \in CPUs, SchedStep(c), UNCHANGED kthreadVars
      PROVE  IndInv'
  BY <1>2, ScheduleKeeps, SwitchToKeeps, SchedKeeps, BackKeeps, ReapKeeps,
     TickKernelKeeps, TickUserKeeps, TickReschedKeeps, PreemptCheckKeeps,
     YieldKeeps, SleepTicksKeeps
  DEF SchedStep
<1>3. ASSUME NEW c \in CPUs, ProcStep(c), UNCHANGED kthreadVars
      PROVE  IndInv'
  BY <1>3, KernelInitKeeps, ForkAllocKeeps, ForkFillKeeps, ForkFailKeeps,
     ForkPublishKeeps, ExitKeeps, ExitWakeKeeps, WaitReapKeeps,
     WaitNoneKeeps, WaitSleepKeeps, SignalSendKeeps
  DEF ProcStep
<1>4. ASSUME NEW c \in CPUs, KthreadStep(c)
      PROVE  IndInv'
  BY <1>4, CreateQueueKeeps, CreateWakeKeeps, CreateSleepKeeps,
     CreateReturnKeeps, KthreaddEmptyKeeps, KthreaddSleepKeeps,
     KthreaddTakeKeeps, KthreaddAllocKeeps, KthreaddNoSlotKeeps,
     KthreaddFillKeeps, KthreaddFailKeeps, KthreaddPublishKeeps,
     KthreaddDoneKeeps, KthreadExitKeeps
  DEF KthreadStep
<1>5. QED BY <1>1, <1>2, <1>3, <1>4 DEF Next, CpuStep, Stopped

\* It holds in the state rest_init leaves.
LEMMA InitKeeps == Init => IndInv
<1> SUFFICES ASSUME Init PROVE IndInv
  OBVIOUS
<1>1. Threads \subseteq Slots \ {Swapper} /\ Threads \subseteq Pages
  BY DEF Threads, InitProc, KthreaddTask, Slots, Swapper, Pages
<1>2. /\ runqueue \in Seq(Slots)
      /\ \A i \in DOMAIN runqueue : runqueue[i] = i
      /\ DOMAIN runqueue = Threads
  <2>1. runqueue = <<1, 2>> /\ Threads = {1, 2} /\ 1 \in Slots /\ 2 \in Slots
    BY <1>1 DEF Init, SchedInit, Threads, InitProc, KthreaddTask
  <2>2. QED BY <2>1
<1>3. QueueIsRunnable
  <2>1. Queued = Threads
    BY <1>2 DEF Queued
  <2>2. \A p \in Slots : state[p] = "RUNNABLE" <=> p \in Threads
    BY <1>1 DEF Init, SchedInit
  <2>3. QED BY <1>1, <1>2, <2>1, <2>2 DEF QueueIsRunnable
<1>4. context \in [Slots -> Contexts]
  <2>1. ASSUME NEW p \in Threads PROVE Saved(EntryPoint(p), NoProc, p) \in Contexts
    <3>1. EntryPoint(p) \in ResumePoints
      BY DEF EntryPoint, ResumePoints
    <3>2. QED BY <1>1, <3>1, ContextTypes DEF Args
  <2>2. QED BY <2>1, ContextTypes DEF Init, SchedInit
<1>5. TypeOK
  <2>1. {Swapper, InitProc, KthreaddTask} \subseteq Slots
    BY DEF Swapper, InitProc, KthreaddTask, Slots
  <2>2. parent \in [Slots -> Slots \cup {NoProc}] /\ kstack \in [Slots -> Pages \cup {NoPage}]
    BY <1>1, <2>1 DEF Init, SchedInit
  <2>3. chan \in [Slots -> Chans] /\ state \in [Slots -> States]
    BY DEF Init, SchedInit, Chans, States
  <2>4. create_list \in Seq(Slots) /\ serving = NoProc /\ served = {}
    BY DEF Init, KthreadInit
  <2>5. QED
    BY <1>2, <1>4, <2>2, <2>3, <2>4 DEF TypeOK, Init, SchedInit, Labels, Args
<1>6. Placed /\ Claims /\ RunningOnOneCpu
  BY DEF Init, SchedInit, Placed, Claims, Claiming, RunningOnOneCpu, Active
<1>7. QED BY <1>3, <1>5, <1>6 DEF IndInv

\* IndInv holds in every reachable state, for any table size and CPU count.
THEOREM Invariance == Spec => []IndInv
BY InitKeeps, StepKeeps, PTL DEF Spec

\* Every variable of the scheduler, of fork, exit and wait and of kthreadd keeps
\* the type of its C declaration.
THEOREM TypeCorrect == Spec => []TypeOK
<1>1. IndInv => TypeOK
  BY DEF IndInv
<1>2. QED BY <1>1, Invariance, PTL

\* The run queue of task_queue.c holds exactly the RUNNABLE processes, each
\* once, on any number of CPUs: the panics "already queued" and "dequeued
\* non-runnable proc" cannot happen.
THEOREM QueueCorrect == Spec => []QueueIsRunnable
<1>1. IndInv => QueueIsRunnable
  BY DEF IndInv
<1>2. QED BY <1>1, Invariance, PTL

\* A RUNNING process is the current one of exactly one CPU that has not begun
\* to give it up, although sched() runs after proc_lock is released.
THEOREM RunsOnOneCpu == Spec => []RunningOnOneCpu
<1>1. IndInv => RunningOnOneCpu
  BY DEF IndInv
<1>2. QED BY <1>1, Invariance, PTL

\* A wake-up moves processes from SLEEPING to RUNNABLE only.
LEMMA WakeCycles ==
  ASSUME TypeOK, NEW S, WakeAll(S), S \subseteq {p \in Slots : state[p] = "SLEEPING"}
  PROVE  Cycle
BY DEF WakeAll, TypeOK, Cycle, LifeSteps

\* The steps of the scheduler follow the life cycle.
LEMMA SchedCycles ==
  ASSUME IndInv, NEW c \in CPUs, SchedStep(c)
  PROVE  Cycle
<1>1. TypeOK /\ Placed /\ Claims /\ QueueIsRunnable /\ RunningOnOneCpu
  BY DEF IndInv
<1>2. CASE Schedule(c)
  <2>1. /\ Head(runqueue) \in Slots /\ state[Head(runqueue)] = "RUNNABLE"
        /\ state' = [state EXCEPT ![Head(runqueue)] = "RUNNING"]
    BY <1>1, <1>2, HeadTail DEF Schedule
  <2>2. QED BY <1>1, <2>1 DEF TypeOK, Cycle, LifeSteps
<1>3. CASE SwitchTo(c) \/ Sched(c) \/ Back(c) \/ Reap(c) \/ TickResched(c) \/ PreemptCheck(c)
  <2>1. state' = state
    BY <1>3 DEF SwitchTo, Sched, Back, Reap, TickResched, PreemptCheck, tableVars
  <2>2. QED BY <2>1 DEF Cycle
<1>4. CASE TickKernel(c) \/ TickUser(c)
  BY <1>1, <1>4, TickWakeRuns, WakeCycles DEF TickKernel, TickUser
<1>5. CASE Yield(c) \/ SleepTicks(c)
  <2>1. proc[c] \in Slots /\ state[proc[c]] = "RUNNING"
    BY <1>1, <1>5, ActiveRuns DEF Yield, SleepTicks
  <2>2. PICK to \in {"RUNNABLE", "SLEEPING"} : state' = [state EXCEPT ![proc[c]] = to]
    BY <1>5 DEF Yield, SleepTicks, SleepOn
  <2>3. QED BY <1>1, <2>1, <2>2 DEF TypeOK, Cycle, LifeSteps
<1>6. QED BY <1>2, <1>3, <1>4, <1>5 DEF SchedStep

\* The steps of fork, exit, waitpid and kill follow it.
LEMMA ProcCycles ==
  ASSUME IndInv, NEW c \in CPUs, ProcStep(c)
  PROVE  Cycle
<1>1. TypeOK /\ Placed /\ Claims /\ QueueIsRunnable /\ RunningOnOneCpu
  BY DEF IndInv
<1>2. CASE KernelInit(c) \/ ForkFill(c) \/ WaitNone(c)
  <2>1. state' = state
    BY <1>2 DEF KernelInit, ForkFill, WaitNone, tableVars
  <2>2. QED BY <2>1 DEF Cycle
<1>3. CASE ForkAlloc(c)
  <2>1. PICK np \in Slots : state[np] = "UNUSED" /\ state' = [state EXCEPT ![np] = "USED"]
    BY <1>3 DEF ForkAlloc, FirstUnused, ClaimSlot
  <2>2. QED BY <1>1, <2>1 DEF TypeOK, Cycle, LifeSteps
<1>4. CASE ForkFail(c) \/ ForkPublish(c)
  <2>1. arg[c] \in Slots /\ state[arg[c]] = "USED"
    BY <1>1, <1>4 DEF ForkFail, ForkPublish, Claims, Claiming
  <2>2. PICK to \in {"UNUSED", "RUNNABLE"} : state' = [state EXCEPT ![arg[c]] = to]
    BY <1>4 DEF ForkFail, ForkPublish, FreeSlot
  <2>3. QED BY <1>1, <2>1, <2>2 DEF TypeOK, Cycle, LifeSteps
<1>5. CASE Exit(c) \/ WaitSleep(c)
  <2>1. proc[c] \in Slots /\ state[proc[c]] = "RUNNING"
    BY <1>1, <1>5, ActiveRuns DEF Exit, WaitSleep
  <2>2. PICK to \in {"ZOMBIE", "SLEEPING"} : state' = [state EXCEPT ![proc[c]] = to]
    BY <1>5 DEF Exit, WaitSleep, SleepOn
  <2>3. QED BY <1>1, <2>1, <2>2 DEF TypeOK, Cycle, LifeSteps
<1>6. CASE ExitWake(c) \/ SignalSend(c)
  BY <1>1, <1>6, WakeCycles DEF ExitWake, SignalSend, Sleepers
<1>7. CASE WaitReap(c)
  <2>1. PICK q \in Slots : state[q] = "ZOMBIE" /\ state' = [state EXCEPT ![q] = "UNUSED"]
    BY <1>7 DEF WaitReap, Zombies, Children
  <2>2. QED BY <1>1, <2>1 DEF TypeOK, Cycle, LifeSteps
<1>8. QED BY <1>2, <1>3, <1>4, <1>5, <1>6, <1>7 DEF ProcStep

\* The steps of kthread_create, kthreadd and kthread_exit follow it.
LEMMA KthreadCycles ==
  ASSUME IndInv, NEW c \in CPUs, KthreadStep(c)
  PROVE  Cycle
<1>1. TypeOK /\ Placed /\ Claims /\ QueueIsRunnable /\ RunningOnOneCpu
  BY DEF IndInv
<1>2. CASE \/ CreateQueue(c) \/ CreateReturn(c) \/ KthreaddEmpty(c) \/ KthreaddTake(c)
           \/ KthreaddNoSlot(c) \/ KthreaddFill(c)
  <2>1. state' = state
    BY <1>2 DEF CreateQueue, CreateReturn, KthreaddEmpty, KthreaddTake, KthreaddNoSlot,
       KthreaddFill, tableVars
  <2>2. QED BY <2>1 DEF Cycle
<1>3. CASE CreateWake(c) \/ KthreaddDone(c)
  BY <1>1, <1>3, WakeCycles DEF CreateWake, KthreaddDone, Sleepers
<1>4. CASE CreateSleep(c) \/ KthreaddSleep(c) \/ KthreadExit(c)
  <2>1. proc[c] \in Slots /\ state[proc[c]] = "RUNNING"
    BY <1>1, <1>4, ActiveRuns DEF CreateSleep, KthreaddSleep, KthreadExit
  <2>2. PICK to \in {"UNUSED", "SLEEPING"} : state' = [state EXCEPT ![proc[c]] = to]
    BY <1>4 DEF CreateSleep, KthreaddSleep, KthreadExit, SleepOn
  <2>3. QED BY <1>1, <2>1, <2>2 DEF TypeOK, Cycle, LifeSteps
<1>5. CASE KthreaddAlloc(c)
  <2>1. PICK np \in Slots : state[np] = "UNUSED" /\ state' = [state EXCEPT ![np] = "USED"]
    BY <1>5 DEF KthreaddAlloc, FirstUnused, ClaimSlot
  <2>2. QED BY <1>1, <2>1 DEF TypeOK, Cycle, LifeSteps
<1>6. CASE KthreaddFail(c) \/ KthreaddPublish(c)
  <2>1. arg[c] \in Slots /\ state[arg[c]] = "USED"
    BY <1>1, <1>6 DEF KthreaddFail, KthreaddPublish, Claims, Claiming
  <2>2. PICK to \in {"UNUSED", "RUNNABLE"} : state' = [state EXCEPT ![arg[c]] = to]
    BY <1>6 DEF KthreaddFail, KthreaddPublish, FreeSlot
  <2>3. QED BY <1>1, <2>1, <2>2 DEF TypeOK, Cycle, LifeSteps
<1>7. QED BY <1>2, <1>3, <1>4, <1>5, <1>6 DEF KthreadStep

\* Whoever writes the state of a slot moves it along the life of a process: no
\* claimed slot is taken twice, no sleeper is freed, no zombie is woken.
THEOREM FollowsLifeCycle == Spec => LifeCycle
<1>1. IndInv /\ [Next]_vars => [Cycle]_vars
  BY SchedCycles, ProcCycles, KthreadCycles DEF Next, CpuStep, Stopped
<1>2. QED BY <1>1, Invariance, PTL DEF Spec, LifeCycle

\* Wherever a CPU is, it executes its process alone and on the stack of the
\* process, and the process is of the kind whose code it executes: PlaceInv holds
\* in every reachable state, for any table size and CPU count.
THEOREM PlacesInvariance == Spec => [](IndInv /\ PlaceInv)
<1>1. Init => IndInv /\ PlaceInv
  BY InitKeeps, PlacesInit
<1>2. IndInv /\ PlaceInv /\ [Next]_vars => (IndInv /\ PlaceInv)'
  BY StepKeeps, PlacesStep
<1>3. QED BY <1>1, <1>2, PTL DEF Spec

\* The parent of a process in use is never dead, nor is its slot free: exit hands
\* every child to init before the slot is given up, zombies included, and nothing
\* else takes a parent away, on any number of CPUs.
THEOREM ParentsLive == Spec => []ParentAlive
<1>1. Init => Parents
  <2> SUFFICES ASSUME Init PROVE Parents
    OBVIOUS
  <2>1. \A p \in Slots : parent[p] \in {Swapper, NoProc}
    BY DEF Init, SchedInit
  <2>2. QED BY <2>1 DEF Parents, Lasts
<1>2. IndInv /\ PlaceInv /\ Parents => ParentAlive
  <2> SUFFICES ASSUME IndInv, PlaceInv, Parents,
                      NEW p \in Slots, state[p] # "UNUSED", parent[p] # NoProc
               PROVE  state[parent[p]] \notin {"UNUSED", "ZOMBIE"}
    BY DEF ParentAlive
  <2>1. Lasts(parent[p]) /\ state[Swapper] = "USED"
    BY DEF Parents, PlaceInv, Kinds
  <2>2. QED BY <2>1 DEF Lasts, Alive
<1>3. IndInv /\ PlaceInv /\ Parents /\ [Next]_vars => Parents'
  BY ParentsStep
<1>4. QED BY <1>1, <1>2, <1>3, PlacesInvariance, PTL DEF Spec

\* A creator that sleeps in kthread_create_via_kthreadd has a request that is still
\* listed or being served, however many creators and CPUs there are: the wake-up on
\* info->done is never lost.
THEOREM CreatorsServed == Spec => []CreatorServed
<1>1. Init => Requests
  BY RequestsInit
<1>2. Requests => CreatorServed
  BY DEF Requests
<1>3. IndInv /\ PlaceInv /\ Requests /\ (IndInv /\ PlaceInv)' /\ [Next]_vars => Requests'
  BY RequestsStep
<1>4. QED BY <1>1, <1>2, <1>3, PlacesInvariance, PTL DEF Spec

\* A page of a kernel stack is free or belongs to one slot, and fork, wait_child and
\* kthread_reap lose none and give none back twice: on one CPU, and on any number as
\* long as nobody calls kthread_create after rest_init.
THEOREM PagesAccounted ==
  ASSUME ~KthreadClients \/ OneCpu
  PROVE  Spec => []StacksAccounted
<1>1. Init => Accounted /\ (KthreadClients \/ NoKthreads)
  BY StacksInit
<1>2. /\ IndInv /\ PlaceInv /\ Accounted /\ (KthreadClients \/ NoKthreads) /\ [Next]_vars
      => (Accounted /\ (KthreadClients \/ NoKthreads))'
  <2> SUFFICES ASSUME IndInv, PlaceInv, Accounted, KthreadClients \/ NoKthreads, [Next]_vars
               PROVE  Accounted' /\ (KthreadClients \/ NoKthreads')
    OBVIOUS
  <2>1. KthreadClients \/ NoKthreads'
    BY NoKthreadsStep
  <2>2. NoKthreads \/ OneCpu
    OBVIOUS
  <2>3. Accounted'
    BY <2>2, AccountedStep
  <2>4. QED BY <2>1, <2>3
<1>3. Accounted => StacksAccounted
  BY DEF Accounted
<1>4. QED BY <1>1, <1>2, <1>3, PlacesInvariance, PTL DEF Spec

\* The invariant of one CPU, whatever the number of slots and of pages.
THEOREM SingleInvariance ==
  ASSUME OneCpu
  PROVE  Spec => [](IndInv /\ PlaceInv /\ Accounted /\ Single)
<1>1. Init => Accounted /\ Single
  BY StacksInit, SingleInit
<1>2. IndInv /\ PlaceInv /\ Accounted /\ Single /\ [Next]_vars => (Accounted /\ Single)'
  BY AccountedStep, SingleStep
<1>3. QED BY <1>1, <1>2, PlacesInvariance, PTL DEF Spec

\* On one CPU scheduler() never panics and no kernel stack is corrupted: an exiting
\* thread is UNUSED while it still runs on its stack, but nobody else can run then.
THEOREM Survives ==
  ASSUME OneCpu
  PROVE  Spec => []KernelSurvives
<1>1. IndInv /\ PlaceInv /\ Accounted /\ Single => KernelSurvives
  BY SingleHolds
<1>2. QED BY <1>1, SingleInvariance, PTL

\* On one CPU no page is given back while the CPU executes on it, neither by
\* wait_child nor by kthread_reap.
THEOREM StacksHeld ==
  ASSUME OneCpu
  PROVE  Spec => []StackHeld
<1>1. IndInv /\ PlaceInv /\ Accounted /\ Single => StackHeld
  BY SingleHolds
<1>2. QED BY <1>1, SingleInvariance, PTL

\* On one CPU wait_child does not sleep through the exit of a child, although it
\* releases proc_lock between its scan and its sleep.
THEOREM WaitersSeeExits ==
  ASSUME OneCpu
  PROVE  Spec => []WaiterSeesExit
<1>1. Init => Waits /\ Requests
  BY SleepInit, RequestsInit
<1>2. IndInv /\ PlaceInv /\ Requests /\ (IndInv /\ PlaceInv)' /\ [Next]_vars => Requests'
  BY RequestsStep
<1>3. Single /\ Requests => Fresh
  BY DEF Single, Requests
<1>4. IndInv /\ PlaceInv /\ Waits /\ Fresh /\ [Next]_vars => Waits'
  BY WaitsStep
<1>5. Waits => WaiterSeesExit
  BY DEF Waits
<1>6. QED BY <1>1, <1>2, <1>3, <1>4, <1>5, PlacesInvariance, SingleInvariance, PTL DEF Spec

\* On one CPU kthreadd does not sleep on a request, although it tests its list
\* before it takes proc_lock to sleep.
THEOREM KthreaddWakes ==
  ASSUME OneCpu
  PROVE  Spec => []KthreaddSeesRequest
<1>1. Init => Kthreadds
  BY SleepInit
<1>2. IndInv /\ PlaceInv /\ Kthreadds /\ [Next]_vars => Kthreadds'
  BY KthreaddsStep
<1>3. Kthreadds => KthreaddSeesRequest
  BY DEF Kthreadds
<1>4. QED BY <1>1, <1>2, <1>3, PlacesInvariance, PTL DEF Spec
=============================================================================

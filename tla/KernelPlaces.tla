----------------------------- MODULE KernelPlaces -----------------------------
(***************************************************************************)
(* Where a process is.  On any number of CPUs and as long as no stack is   *)
(* corrupted, at most one CPU executes the code of a process, and that     *)
(* code is what the process was made for: a user program, kernel_init,     *)
(* kthreadd or a kernel thread.  From this follow the theorems about the   *)
(* parents of processes, the requests to kthreadd and the stack pages.     *)
(***************************************************************************)
EXTENDS KernelPredicates, TLAPS

USE SchedAssumption, Zenon

\* A step of c concerns no other CPU.
OnlyCpu(c) ==
  \A d \in CPUs \ {c} :
    /\ pc'[d] = pc[d] /\ ret'[d] = ret[d] /\ proc'[d] = proc[d]
    /\ stack'[d] = stack[d] /\ arg'[d] = arg[d]

\* p ends in this step of c.
Ends(c, p) == Executes(c) /\ p = proc[c] /\ ~Executes(c)' /\ p \notin Threads

\* What a step of c does to processes that are alive.
SparesOthers(c) ==
  \A p \in Slots : state[p] \in Alive =>
    /\ kstack'[p] \in {kstack[p], NoPage}
    /\ \/ Ends(c, p)
       \/ state'[p] \in Alive /\ (user'[p] = user[p] \/ (user'[p] /\ p = InitProc))

\* What c executes after its step is alive, fits, and is executed by no other CPU.
ExecutesWell(c) ==
  Executes(c)' =>
    /\ state'[proc'[c]] \in Alive /\ Fits(proc[c], Place(c))'
    /\ kstack'[proc'[c]] \in {stack'[c], NoPage}
    /\ \A d \in CPUs \ {c} : Executes(d) => proc[d] # proc'[c]

\* A CPU at a position of a process has that process RUNNING.
LEMMA RunsHere ==
  ASSUME IndInv, NEW c \in CPUs,
         pc[c] \notin {"idle", "reap", "sched", "exit_wake", "back"}
  PROVE  proc[c] \in Slots /\ state[proc[c]] = "RUNNING"
BY SMT DEF IndInv, TypeOK, Placed, RunningOnOneCpu, Active, Windows

\* scheduler() takes a RUNNABLE process from the queue.
LEMMA HeadRunnable ==
  ASSUME IndInv, runqueue # <<>>
  PROVE  Head(runqueue) \in Slots /\ state[Head(runqueue)] = "RUNNABLE"
<1>1. runqueue \in Seq(Slots) /\ 1 \in DOMAIN runqueue /\ Head(runqueue) = runqueue[1]
  BY SMT DEF IndInv, TypeOK
<1>2. QED BY <1>1, SMT DEF IndInv, QueueIsRunnable, Queued

\* The wake-up of the sleepers of a tick concerns sleepers only.
LEMMA TickWakes ==
  ASSUME IndInv, TickWake
  PROVE  \E S : WakeAll(S) /\ S \subseteq {p \in Slots : state[p] = "SLEEPING"}
BY DEF IndInv, TypeOK, TickWake

\* The processes of rest_init are slots, and not the swapper's.
LEMMA ThreadSlots ==
  /\ InitProc \in Slots /\ KthreaddTask \in Slots /\ Swapper \in Slots
  /\ Threads = {InitProc, KthreaddTask} /\ InitProc # KthreaddTask
  /\ Swapper \notin Threads /\ NoProc \notin Slots
BY SMT DEF Threads, InitProc, KthreaddTask, Swapper, Slots, NoProc

\* The step rule: what one CPU does to itself and to the processes that are alive
\* decides whether PlaceInv survives.
LEMMA PlacesKept ==
  ASSUME IndInv, PlaceInv, NEW c \in CPUs, OnlyCpu(c), SparesOthers(c), ExecutesWell(c),
         state'[Swapper] = "USED",
         \A p \in Slots : Fits(p, context[p].at)',
         pc'[c] \in {"kthreadd_fill", "kthreadd_publish"} => ~user'[arg'[c]],
         \A d \in CPUs \ {c} : pc[d] \in {"kthreadd_fill", "kthreadd_publish"} => ~user'[arg[d]],
         pc'[c] \in OffStack => stack'[c] = NoPage
  PROVE  PlaceInv'
<1>1. TypeOK /\ Placed /\ Kinds /\ OneExecutes
  BY DEF IndInv, PlaceInv
<1>2. \A d \in CPUs \ {c} : (Executes(d)' <=> Executes(d)) /\ Place(d)' = Place(d)
  BY DEF OnlyCpu, Executes, Place
<1>3. \A d \in CPUs : Executes(d) => proc[d] \in Slots
  BY <1>1 DEF TypeOK, Placed, Executes, OffStack
<1>4. \A d \in CPUs \ {c} : Executes(d) => ~Ends(c, proc[d])
  BY <1>1, <1>3 DEF Ends, OneExecutes
<1>5. ASSUME NEW p \in Threads
      PROVE  state'[p] \in Alive /\ (user'[p] = user[p] \/ (user'[p] /\ p = InitProc))
  BY <1>1, ThreadSlots DEF Kinds, SparesOthers, Ends
<1>6. ASSUME NEW d \in CPUs, Executes(d)'
      PROVE  state'[proc'[d]] \in Alive /\ Fits(proc[d], Place(d))'
  <2>1. CASE d = c
    BY <1>6, <2>1 DEF ExecutesWell
  <2>2. CASE d # c
    <3>1. Executes(d) /\ Place(d)' = Place(d) /\ proc'[d] = proc[d] /\ proc[d] \in Slots
      BY <1>2, <1>3, <1>6, <2>2 DEF OnlyCpu
    <3>2. state[proc[d]] \in Alive /\ Fits(proc[d], Place(d)) /\ ~Ends(c, proc[d])
      BY <1>1, <1>4, <2>2, <3>1 DEF Kinds
    <3>3. /\ state'[proc[d]] \in Alive
          /\ user'[proc[d]] = user[proc[d]] \/ (user'[proc[d]] /\ proc[d] = InitProc)
      BY <3>1, <3>2 DEF SparesOthers
    <3>4. Fits(proc[d], Place(d))'
      BY <3>1, <3>2, <3>3, ThreadSlots DEF Fits
    <3>5. QED BY <3>1, <3>3, <3>4
  <2>3. QED BY <2>1, <2>2
<1>7. Kinds'
  <2>1. ~user'[KthreaddTask]
    BY <1>1, <1>5, ThreadSlots DEF Kinds
  <2>2. \A d \in CPUs : pc'[d] \in {"kthreadd_fill", "kthreadd_publish"} => ~user'[arg'[d]]
    BY DEF OnlyCpu
  <2>3. QED BY <1>5, <1>6, <2>1, <2>2 DEF Kinds
<1>8. OneExecutes'
  <2>1. \A d \in CPUs : Executes(d)' => kstack'[proc'[d]] \in {stack'[d], NoPage}
    <3> SUFFICES ASSUME NEW d \in CPUs \ {c}, Executes(d)
                 PROVE  kstack'[proc[d]] \in {stack[d], NoPage}
      BY <1>2 DEF ExecutesWell, OnlyCpu
    <3>1. state[proc[d]] \in Alive /\ kstack[proc[d]] \in {stack[d], NoPage}
      BY <1>1 DEF Kinds, OneExecutes
    <3>2. QED BY <1>3, <3>1 DEF SparesOthers
  <2>2. \A d, e \in CPUs : Executes(d)' /\ Executes(e)' /\ proc'[d] = proc'[e] => d = e
    BY <1>1, <1>2 DEF OneExecutes, ExecutesWell, OnlyCpu
  <2>3. \A d \in CPUs : pc'[d] \in OffStack => stack'[d] = NoPage
    BY <1>1 DEF OneExecutes, OnlyCpu
  <2>4. QED BY <2>1, <2>2, <2>3 DEF OneExecutes
<1>9. QED BY <1>7, <1>8 DEF PlaceInv

\* A step that neither ends a process nor touches contexts, stacks and address
\* spaces.
QuietTable ==
  /\ UNCHANGED <<user, kstack, context>>
  /\ state'[Swapper] = "USED"
  /\ \A p \in Slots : state[p] \in Alive => state'[p] \in Alive

\* A process goes on, or goes to sched(), with nothing but its own CPU moved.
LEMMA QuietKeeps ==
  ASSUME IndInv, PlaceInv, NEW c \in CPUs, OnlyCpu(c), QuietTable,
         Executes(c) \/ ~Executes(c)', proc'[c] = proc[c],
         stack'[c] = stack[c], pc'[c] \in OffStack => pc[c] \in OffStack,
         Executes(c)' => Fits(proc[c], Place(c)'),
         pc'[c] \in {"kthreadd_fill", "kthreadd_publish"} => ~user[arg'[c]]
  PROVE  PlaceInv'
<1>1. TypeOK /\ Placed /\ Kinds /\ OneExecutes
  BY DEF IndInv, PlaceInv
<1>2. Executes(c) => proc[c] \in Slots
  BY <1>1 DEF TypeOK, Placed, Executes, OffStack
<1>3. SparesOthers(c)
  BY DEF QuietTable, SparesOthers
<1>4. ExecutesWell(c)
  <2> SUFFICES ASSUME Executes(c)'
               PROVE  /\ state'[proc'[c]] \in Alive /\ Fits(proc[c], Place(c))'
                      /\ kstack'[proc'[c]] \in {stack'[c], NoPage}
                      /\ \A d \in CPUs \ {c} : Executes(d) => proc[d] # proc'[c]
    BY DEF ExecutesWell
  <2>1. Executes(c) /\ state[proc[c]] \in Alive
    BY <1>1 DEF Kinds
  <2>2. Fits(proc[c], Place(c))'
    BY DEF QuietTable, Fits
  <2>3. QED BY <1>1, <1>2, <2>1, <2>2 DEF QuietTable, OneExecutes
<1>5. \A p \in Slots : Fits(p, context[p].at)'
  BY <1>1 DEF QuietTable, Kinds, Fits
<1>6. QED BY <1>1, <1>3, <1>4, <1>5, PlacesKept DEF QuietTable, Kinds, OneExecutes

\* A wake-up of sleepers is quiet.
LEMMA WakeQuiet ==
  ASSUME TypeOK, Kinds, NEW S, WakeAll(S), S \subseteq {p \in Slots : state[p] = "SLEEPING"},
         UNCHANGED <<user, kstack, context>>
  PROVE  QuietTable
BY ThreadSlots DEF WakeAll, TypeOK, Kinds, QuietTable, Alive

\* So is a change of the state of one process that is alive, or becomes it.
LEMMA StateQuiet ==
  ASSUME TypeOK, Kinds, NEW p \in Slots \ {Swapper}, NEW to \in Alive,
         state' = [state EXCEPT ![p] = to], UNCHANGED <<user, kstack, context>>
  PROVE  QuietTable
BY ThreadSlots DEF TypeOK, Kinds, QuietTable

\* What a CPU executes has its own slot.
LEMMA ExecutesSlot ==
  ASSUME IndInv, PlaceInv, NEW c \in CPUs, Executes(c)
  PROVE  /\ proc[c] \in Slots \ {Swapper} /\ state[proc[c]] \in Alive
         /\ Fits(proc[c], Place(c))
BY ThreadSlots, SMT DEF IndInv, TypeOK, Placed, Executes, OffStack, PlaceInv, Kinds, Alive

\* A step of the scheduler moves no other CPU.
LEMMA SchedOnlyCpu ==
  ASSUME TypeOK, NEW c \in CPUs, SchedStep(c)
  PROVE  OnlyCpu(c)
<1>1. CASE Schedule(c)
  BY <1>1 DEF TypeOK, OnlyCpu, Schedule, Goto
<1>2. CASE SwitchTo(c)
  BY <1>2 DEF TypeOK, OnlyCpu, SwitchTo, Goto
<1>3. CASE Sched(c)
  BY <1>3 DEF TypeOK, OnlyCpu, Sched, Goto
<1>4. CASE Back(c)
  BY <1>4 DEF TypeOK, OnlyCpu, Back, Goto
<1>5. CASE Reap(c)
  BY <1>5 DEF TypeOK, OnlyCpu, Reap, Goto
<1>6. CASE TickKernel(c)
  BY <1>6 DEF TypeOK, OnlyCpu, TickKernel, Goto, cpuVars
<1>7. CASE TickUser(c)
  BY <1>7 DEF TypeOK, OnlyCpu, TickUser, Goto
<1>8. CASE TickResched(c)
  BY <1>8 DEF TypeOK, OnlyCpu, TickResched, Goto
<1>9. CASE PreemptCheck(c)
  BY <1>9 DEF TypeOK, OnlyCpu, PreemptCheck, Goto
<1>10. CASE Yield(c)
  BY <1>10 DEF TypeOK, OnlyCpu, Yield, Goto
<1>11. CASE SleepTicks(c)
  BY <1>11 DEF TypeOK, OnlyCpu, SleepTicks, Goto, SleepOn
<1>12. QED BY <1>1, <1>2, <1>3, <1>4, <1>5, <1>6, <1>7, <1>8, <1>9, <1>10, <1>11 DEF SchedStep

\* A step of fork, exit, waitpid and kill moves no other CPU.
LEMMA ProcOnlyCpu ==
  ASSUME TypeOK, NEW c \in CPUs, ProcStep(c)
  PROVE  OnlyCpu(c)
<1>1. CASE KernelInit(c)
  BY <1>1 DEF TypeOK, OnlyCpu, KernelInit, Goto
<1>2. CASE ForkAlloc(c)
  BY <1>2 DEF TypeOK, OnlyCpu, ForkAlloc, Goto
<1>3. CASE ForkFill(c)
  BY <1>3, SMT DEF TypeOK, OnlyCpu, ForkFill, Goto
<1>4. CASE ForkFail(c)
  BY <1>4 DEF TypeOK, OnlyCpu, ForkFail, Goto
<1>5. CASE ForkPublish(c)
  BY <1>5 DEF TypeOK, OnlyCpu, ForkPublish, Goto
<1>6. CASE Exit(c)
  BY <1>6 DEF TypeOK, OnlyCpu, Exit, Goto
<1>7. CASE ExitWake(c)
  BY <1>7 DEF TypeOK, OnlyCpu, ExitWake, Goto
<1>8. CASE WaitReap(c)
  BY <1>8, SMT DEF TypeOK, OnlyCpu, WaitReap, Goto
<1>9. CASE WaitNone(c)
  BY <1>9, SMT DEF TypeOK, OnlyCpu, WaitNone, Goto
<1>10. CASE WaitSleep(c)
  BY <1>10 DEF TypeOK, OnlyCpu, WaitSleep, Goto, SleepOn
<1>11. CASE SignalSend(c)
  BY <1>11 DEF TypeOK, OnlyCpu, SignalSend, Goto, cpuVars
<1>12. QED BY <1>1, <1>2, <1>3, <1>4, <1>5, <1>6, <1>7, <1>8, <1>9, <1>10, <1>11 DEF ProcStep

\* A step of kthread_create, kthreadd and kthread_exit moves no other CPU.
LEMMA KthreadOnlyCpu ==
  ASSUME TypeOK, NEW c \in CPUs, KthreadStep(c)
  PROVE  OnlyCpu(c)
<1>1. CASE CreateQueue(c)
  BY <1>1 DEF TypeOK, OnlyCpu, CreateQueue, Goto
<1>2. CASE CreateWake(c)
  BY <1>2 DEF TypeOK, OnlyCpu, CreateWake, Goto
<1>3. CASE CreateSleep(c)
  BY <1>3 DEF TypeOK, OnlyCpu, CreateSleep, Goto, SleepOn
<1>4. CASE CreateReturn(c)
  BY <1>4 DEF TypeOK, OnlyCpu, CreateReturn, Goto
<1>5. CASE KthreaddEmpty(c)
  BY <1>5 DEF TypeOK, OnlyCpu, KthreaddEmpty, Goto
<1>6. CASE KthreaddSleep(c)
  BY <1>6 DEF TypeOK, OnlyCpu, KthreaddSleep, Goto, SleepOn
<1>7. CASE KthreaddTake(c)
  BY <1>7 DEF TypeOK, OnlyCpu, KthreaddTake, Goto
<1>8. CASE KthreaddAlloc(c)
  BY <1>8 DEF TypeOK, OnlyCpu, KthreaddAlloc, Goto
<1>9. CASE KthreaddNoSlot(c)
  BY <1>9 DEF TypeOK, OnlyCpu, KthreaddNoSlot, Goto
<1>10. CASE KthreaddFill(c)
  BY <1>10 DEF TypeOK, OnlyCpu, KthreaddFill, Goto
<1>11. CASE KthreaddFail(c)
  BY <1>11 DEF TypeOK, OnlyCpu, KthreaddFail, Goto
<1>12. CASE KthreaddPublish(c)
  BY <1>12 DEF TypeOK, OnlyCpu, KthreaddPublish, Goto
<1>13. CASE KthreaddDone(c)
  BY <1>13 DEF TypeOK, OnlyCpu, KthreaddDone, Goto
<1>14. CASE KthreadExit(c)
  BY <1>14 DEF TypeOK, OnlyCpu, KthreadExit, Goto
<1>15. QED BY <1>1, <1>2, <1>3, <1>4, <1>5, <1>6, <1>7, <1>8, <1>9, <1>10, <1>11, <1>12, <1>13, <1>14 DEF KthreadStep

\* The steps of the scheduler that leave contexts and stacks alone.
LEMMA QuietSched ==
  ASSUME IndInv, PlaceInv, NEW c \in CPUs,
         TickKernel(c) \/ TickUser(c) \/ TickResched(c) \/ PreemptCheck(c) \/ Yield(c)
           \/ SleepTicks(c)
  PROVE  PlaceInv'
<1>1. TypeOK /\ Placed /\ Claims /\ QueueIsRunnable /\ RunningOnOneCpu /\ Kinds
  BY DEF IndInv, PlaceInv
<1>2. OnlyCpu(c) /\ proc' = proc /\ stack' = stack
  <2>1. OnlyCpu(c)
    BY <1>1, SchedOnlyCpu DEF SchedStep
  <2>2. proc' = proc /\ stack' = stack
    BY DEF TickKernel, TickUser, TickResched, PreemptCheck, Yield, SleepTicks, cpuVars
  <2>3. QED BY <2>1, <2>2
<1>3. CASE TickKernel(c)
  <2>1. QuietTable
    BY <1>1, <1>3, TickWakes, WakeQuiet DEF TickKernel
  <2>2. ~Executes(c) /\ ~Executes(c)' /\ pc' = pc /\ pc[c] \in OffStack
    BY <1>3 DEF TickKernel, Executes, OffStack, cpuVars
  <2>3. QED BY <1>2, <2>1, <2>2, QuietKeeps DEF OffStack
<1>4. CASE TickUser(c)
  <2>1. QuietTable
    BY <1>1, <1>4, TickWakes, WakeQuiet DEF TickUser
  <2>2. pc[c] = "user" /\ pc'[c] = "tick"
    BY <1>1, <1>4 DEF TickUser, Goto, TypeOK
  <2>3. QED BY <1>2, <2>1, <2>2, QuietKeeps, ExecutesSlot
        DEF Executes, Place, OffStack, Fits, UserPlaces, KthreaddPlaces, ServePlaces, AskPlaces
<1>5. CASE TickResched(c) \/ PreemptCheck(c)
  <2>1. QuietTable
    BY <1>1, <1>5 DEF TickResched, PreemptCheck, tableVars, QuietTable, Kinds
  <2>2. pc[c] \in {"tick", "preempt"} /\ pc'[c] \in {"preempt", "yield", "user"}
    BY <1>1, <1>5 DEF TickResched, PreemptCheck, Goto, TypeOK
  <2>3. QED BY <1>2, <2>1, <2>2, QuietKeeps, ExecutesSlot
        DEF Executes, Place, OffStack, Fits, UserPlaces, KthreaddPlaces, ServePlaces, AskPlaces
<1>6. CASE Yield(c) \/ SleepTicks(c)
  <2>1. pc[c] \in {"yield", "user", "kthread"} /\ pc'[c] = "sched"
    BY <1>1, <1>6 DEF Yield, SleepTicks, SleepOn, Goto, TypeOK
  <2>2. ret'[c] = IF pc[c] = "kthread" THEN "kthread" ELSE "user"
    BY <1>1, <1>6 DEF Yield, SleepTicks, SleepOn, TypeOK
  <2>3. Executes(c)
    BY <2>1 DEF Executes, Place, OffStack
  <2>4. QuietTable
    BY <1>1, <1>6, <2>3, ExecutesSlot, StateQuiet DEF Yield, SleepTicks, SleepOn, Alive
  <2>5. QED BY <1>2, <2>1, <2>2, <2>3, <2>4, QuietKeeps, ExecutesSlot
        DEF Executes, Place, OffStack, Fits, UserPlaces, KthreaddPlaces, ServePlaces, AskPlaces
<1>7. QED BY <1>3, <1>4, <1>5, <1>6

\* The steps of fork, exit, waitpid and kill that leave contexts and stacks alone.
LEMMA QuietProc ==
  ASSUME IndInv, PlaceInv, NEW c \in CPUs,
         ForkPublish(c) \/ ExitWake(c) \/ WaitNone(c) \/ WaitSleep(c) \/ SignalSend(c)
  PROVE  PlaceInv'
<1>1. TypeOK /\ Placed /\ Claims /\ QueueIsRunnable /\ RunningOnOneCpu /\ Kinds
  BY DEF IndInv, PlaceInv
<1>2. OnlyCpu(c) /\ proc' = proc /\ stack' = stack
  <2>1. OnlyCpu(c)
    BY <1>1, ProcOnlyCpu DEF ProcStep
  <2>2. proc' = proc /\ stack' = stack
    BY DEF ForkPublish, ExitWake, WaitNone, WaitSleep, SignalSend, cpuVars
  <2>3. QED BY <2>1, <2>2
<1>3. CASE ForkPublish(c)
  <2>1. pc[c] = "fork_publish" /\ pc'[c] = "user"
    BY <1>1, <1>3 DEF ForkPublish, Goto, TypeOK
  <2>2. QuietTable
    BY <1>1, <1>3, <2>1, StateQuiet DEF ForkPublish, Claims, Claiming, Alive
  <2>3. QED BY <1>2, <2>1, <2>2, QuietKeeps, ExecutesSlot
        DEF Executes, Place, OffStack, Fits, UserPlaces, KthreaddPlaces, ServePlaces, AskPlaces
<1>4. CASE ExitWake(c)
  <2>1. pc[c] = "exit_wake" /\ pc'[c] = "sched" /\ ret'[c] = "dead"
    BY <1>1, <1>4 DEF ExitWake, Goto, TypeOK
  <2>2. QuietTable
    BY <1>1, <1>4, WakeQuiet DEF ExitWake, Sleepers
  <2>3. QED BY <1>2, <2>1, <2>2, QuietKeeps DEF Executes, Place, OffStack
<1>5. CASE WaitNone(c)
  <2>1. pc[c] \in {"user", "wait"} /\ pc'[c] \in {"user", "wait_sleep"}
    BY <1>1, <1>5 DEF WaitNone, WaitTargets, Goto, TypeOK
  <2>2. QuietTable
    BY <1>1, <1>5 DEF WaitNone, tableVars, QuietTable, Kinds
  <2>3. QED BY <1>2, <2>1, <2>2, QuietKeeps, ExecutesSlot
        DEF Executes, Place, OffStack, Fits, UserPlaces, KthreaddPlaces, ServePlaces, AskPlaces
<1>6. CASE WaitSleep(c)
  <2>1. pc[c] = "wait_sleep" /\ pc'[c] = "sched" /\ ret'[c] = "wait"
    BY <1>1, <1>6 DEF WaitSleep, SleepOn, Goto, TypeOK
  <2>2. Executes(c)
    BY <2>1 DEF Executes, Place, OffStack
  <2>3. QuietTable
    BY <1>1, <1>6, <2>2, ExecutesSlot, StateQuiet DEF WaitSleep, SleepOn, Alive
  <2>4. QED BY <1>2, <2>1, <2>2, <2>3, QuietKeeps, ExecutesSlot
        DEF Executes, Place, OffStack, Fits, UserPlaces, KthreaddPlaces, ServePlaces, AskPlaces
<1>7. CASE SignalSend(c)
  <2>1. pc[c] = "user" /\ pc' = pc
    BY <1>7 DEF SignalSend, cpuVars
  <2>2. QuietTable
    BY <1>1, <1>7, WakeQuiet DEF SignalSend
  <2>3. QED BY <1>2, <2>1, <2>2, QuietKeeps, ExecutesSlot
        DEF Executes, Place, OffStack, Fits, UserPlaces, KthreaddPlaces, ServePlaces, AskPlaces
<1>8. QED BY <1>3, <1>4, <1>5, <1>6, <1>7

\* The steps of kthread_create and kthreadd that leave contexts and stacks alone.
LEMMA QuietKthread ==
  ASSUME IndInv, PlaceInv, NEW c \in CPUs,
         \/ CreateQueue(c) \/ CreateWake(c) \/ CreateSleep(c) \/ CreateReturn(c)
         \/ KthreaddEmpty(c) \/ KthreaddSleep(c) \/ KthreaddTake(c) \/ KthreaddNoSlot(c)
         \/ KthreaddPublish(c) \/ KthreaddDone(c)
  PROVE  PlaceInv'
<1>1. TypeOK /\ Placed /\ Claims /\ QueueIsRunnable /\ RunningOnOneCpu /\ Kinds
  BY DEF IndInv, PlaceInv
<1>2. OnlyCpu(c) /\ proc' = proc /\ stack' = stack
  <2>1. OnlyCpu(c)
    BY <1>1, KthreadOnlyCpu DEF KthreadStep
  <2>2. proc' = proc /\ stack' = stack
    BY DEF CreateQueue, CreateWake, CreateSleep, CreateReturn, KthreaddEmpty, KthreaddSleep,
       KthreaddTake, KthreaddNoSlot, KthreaddPublish, KthreaddDone
  <2>3. QED BY <2>1, <2>2
<1>3. CASE CreateQueue(c)
  <2>1. pc[c] \in {"kernel_init", "kthread"} /\ pc'[c] = "create_wake"
    BY <1>1, <1>3 DEF CreateQueue, Goto, TypeOK
  <2>2. QuietTable
    BY <1>1, <1>3 DEF CreateQueue, tableVars, QuietTable, Kinds
  <2>3. QED BY <1>2, <2>1, <2>2, QuietKeeps, ExecutesSlot, ThreadSlots, SMT
        DEF Executes, Place, OffStack, Fits, UserPlaces, KthreaddPlaces, ServePlaces, AskPlaces
<1>4. CASE CreateWake(c)
  <2>1. pc[c] = "create_wake" /\ pc'[c] = "created"
    BY <1>1, <1>4 DEF CreateWake, Goto, TypeOK
  <2>2. QuietTable
    BY <1>1, <1>4, WakeQuiet DEF CreateWake, Sleepers
  <2>3. QED BY <1>2, <2>1, <2>2, QuietKeeps, ExecutesSlot
        DEF Executes, Place, OffStack, Fits, UserPlaces, KthreaddPlaces, ServePlaces, AskPlaces
<1>5. CASE CreateSleep(c) \/ KthreaddSleep(c)
  <2>1. /\ pc[c] \in {"created", "kthreadd_sleep"} /\ pc'[c] = "sched"
        /\ ret'[c] = IF pc[c] = "created" THEN "created" ELSE "kthreadd"
    BY <1>1, <1>5, SMT DEF CreateSleep, KthreaddSleep, SleepOn, Goto, TypeOK
  <2>2. Executes(c)
    BY <2>1 DEF Executes, Place, OffStack
  <2>3. QuietTable
    BY <1>1, <1>5, <2>2, ExecutesSlot, StateQuiet DEF CreateSleep, KthreaddSleep, SleepOn, Alive
  <2>4. QED BY <1>2, <2>1, <2>2, <2>3, QuietKeeps, ExecutesSlot
        DEF Executes, Place, OffStack, Fits, UserPlaces, KthreaddPlaces, ServePlaces, AskPlaces
<1>6. CASE CreateReturn(c)
  <2>1. pc[c] = "created" /\ pc'[c] = EntryPoint(proc[c])
    BY <1>1, <1>6 DEF CreateReturn, Goto, TypeOK
  <2>2. QuietTable
    BY <1>1, <1>6 DEF CreateReturn, tableVars, QuietTable, Kinds
  <2>3. Executes(c) /\ proc[c] # KthreaddTask
    BY <2>1, ExecutesSlot DEF Executes, Place, OffStack, Fits, UserPlaces, KthreaddPlaces, ServePlaces, AskPlaces
  <2>4. Fits(proc[c], EntryPoint(proc[c])) /\ EntryPoint(proc[c]) \in {"user", "kernel_init", "kthread"}
    BY <2>3, ThreadSlots DEF EntryPoint, Fits, UserPlaces, KthreaddPlaces, ServePlaces, AskPlaces
  <2>5. QED BY <1>2, <2>1, <2>2, <2>3, <2>4, QuietKeeps DEF Place, OffStack
<1>7. CASE KthreaddEmpty(c) \/ KthreaddTake(c) \/ KthreaddNoSlot(c)
  <2>1. pc[c] \in KthreaddPlaces /\ pc'[c] \in {"kthreadd_sleep", "kthreadd_alloc", "kthreadd_done"}
    BY <1>1, <1>7 DEF KthreaddEmpty, KthreaddTake, KthreaddNoSlot, Goto, TypeOK, KthreaddPlaces,
       ServePlaces
  <2>2. QuietTable
    BY <1>1, <1>7 DEF KthreaddEmpty, KthreaddTake, KthreaddNoSlot, tableVars, QuietTable, Kinds
  <2>3. QED BY <1>2, <2>1, <2>2, QuietKeeps, ExecutesSlot
        DEF Executes, Place, OffStack, Fits, UserPlaces, KthreaddPlaces, ServePlaces, AskPlaces
<1>8. CASE KthreaddPublish(c)
  <2>1. pc[c] = "kthreadd_publish" /\ pc'[c] = "kthreadd_done"
    BY <1>1, <1>8 DEF KthreaddPublish, Goto, TypeOK
  <2>2. QuietTable
    BY <1>1, <1>8, <2>1, StateQuiet DEF KthreaddPublish, Claims, Claiming, Alive
  <2>3. QED BY <1>2, <2>1, <2>2, QuietKeeps, ExecutesSlot
        DEF Executes, Place, OffStack, Fits, UserPlaces, KthreaddPlaces, ServePlaces, AskPlaces
<1>9. CASE KthreaddDone(c)
  <2>1. pc[c] = "kthreadd_done" /\ pc'[c] = "kthreadd"
    BY <1>1, <1>9 DEF KthreaddDone, Goto, TypeOK
  <2>2. QuietTable
    BY <1>1, <1>9, WakeQuiet DEF KthreaddDone, Sleepers
  <2>3. QED BY <1>2, <2>1, <2>2, QuietKeeps, ExecutesSlot
        DEF Executes, Place, OffStack, Fits, UserPlaces, KthreaddPlaces, ServePlaces, AskPlaces
<1>10. QED BY <1>3, <1>4, <1>5, <1>6, <1>7, <1>8, <1>9

\* A process goes on after a step that changes one slot q, which no process has.
LEMMA SlotKeeps ==
  ASSUME IndInv, PlaceInv, NEW c \in CPUs, OnlyCpu(c), Executes(c),
         NEW q \in Slots \ {Swapper}, state[q] \notin Alive,
         \A p \in Slots \ {q} : /\ state'[p] = state[p] /\ user'[p] = user[p]
                                /\ kstack'[p] = kstack[p] /\ context'[p] = context[p],
         Fits(q, context[q].at)',
         proc'[c] = proc[c], stack'[c] = stack[c], pc'[c] \notin OffStack,
         Fits(proc[c], Place(c)'),
         pc'[c] \in {"kthreadd_fill", "kthreadd_publish"} => ~user'[arg'[c]],
         \A d \in CPUs \ {c} : pc[d] \in {"kthreadd_fill", "kthreadd_publish"} =>
           arg[d] \in Slots \ {q} \/ ~user'[arg[d]]
  PROVE  PlaceInv'
<1>1. TypeOK /\ Placed /\ Kinds /\ OneExecutes
  BY DEF IndInv, PlaceInv
<1>2. proc[c] \in Slots \ {q} /\ state[proc[c]] \in Alive
  BY <1>1, ExecutesSlot
<1>3. SparesOthers(c)
  BY DEF SparesOthers
<1>4. ExecutesWell(c)
  <2> SUFFICES ASSUME Executes(c)'
               PROVE  /\ state'[proc'[c]] \in Alive /\ Fits(proc[c], Place(c))'
                      /\ kstack'[proc'[c]] \in {stack'[c], NoPage}
                      /\ \A d \in CPUs \ {c} : Executes(d) => proc[d] # proc'[c]
    BY DEF ExecutesWell
  <2>1. Fits(proc[c], Place(c))'
    BY <1>2 DEF Fits
  <2>2. QED BY <1>1, <1>2, <2>1 DEF OneExecutes
<1>5. \A p \in Slots : Fits(p, context[p].at)'
  <2> SUFFICES ASSUME NEW p \in Slots \ {q} PROVE Fits(p, context[p].at)'
    OBVIOUS
  <2>1. QED BY <1>1, SMT DEF Kinds, Fits
<1>6. \A d \in CPUs \ {c} : pc[d] \in {"kthreadd_fill", "kthreadd_publish"} => ~user'[arg[d]]
  BY <1>1 DEF Kinds
<1>7. state'[Swapper] = "USED"
  BY <1>1, ThreadSlots DEF Kinds
<1>8. QED BY <1>3, <1>4, <1>5, <1>6, <1>7, PlacesKept

\* What a process is made to start with fits it, and so does a popped context.
LEMMA EntryFits ==
  ASSUME NEW p \in Slots
  PROVE  Fits(p, EntryPoint(p)) /\ Fits(p, "popped") /\ Fits(p, "dead")
BY DEF EntryPoint, Threads, Fits, UserPlaces, KthreaddPlaces, ServePlaces, AskPlaces

\* scheduler() picks a process.
LEMMA SchedulePlaces ==
  ASSUME IndInv, PlaceInv, NEW c \in CPUs, Schedule(c)
  PROVE  PlaceInv'
<1> DEFINE p == Head(runqueue)
<1>1. TypeOK /\ Placed /\ Claims /\ QueueIsRunnable /\ RunningOnOneCpu /\ Kinds /\ OneExecutes
  BY DEF IndInv, PlaceInv
<1>2. /\ p \in Slots /\ state[p] = "RUNNABLE" /\ state' = [state EXCEPT ![p] = "RUNNING"]
      /\ UNCHANGED <<user, kstack, stack>>
  BY <1>1, HeadRunnable DEF Schedule
<1>3. pc[c] = "idle" /\ pc'[c] = "swtch"
  BY <1>1 DEF Schedule, Goto, TypeOK
<1>4. OnlyCpu(c)
  BY <1>1, SchedOnlyCpu DEF SchedStep
<1>5. \A q \in Slots : Fits(q, context[q].at)'
  <2>1. \/ context' = context
        \/ context' = [context EXCEPT ![p] = Saved(EntryPoint(p), NoProc, kstack[p])]
    BY DEF Schedule, PrepareContext
  <2>2. ASSUME NEW q \in Slots PROVE Fits(q, context'[q].at)
    BY <1>1, <1>2, <2>1, EntryFits, SMT DEF Kinds, TypeOK, Saved
  <2>3. QED BY <1>2, <2>2 DEF Fits
<1>6. SparesOthers(c) /\ state'[Swapper] = "USED"
  BY <1>1, <1>2, ThreadSlots DEF SparesOthers, TypeOK, Kinds, Alive
<1>7. ExecutesWell(c)
  BY <1>3 DEF ExecutesWell, Executes, OffStack
<1>8. QED BY <1>1, <1>2, <1>3, <1>4, <1>5, <1>6, <1>7, PlacesKept DEF Kinds, OneExecutes, OffStack

\* swtch to a process whose stack no CPU uses, or a corrupted stack.
LEMMA SwitchToPlaces ==
  ASSUME IndInv, PlaceInv, NEW c \in CPUs, SwitchTo(c)
  PROVE  PlaceInv'
<1> DEFINE p == proc[c]
           k == context[p]
<1>1. TypeOK /\ Placed /\ Claims /\ QueueIsRunnable /\ RunningOnOneCpu /\ Kinds /\ OneExecutes
  BY DEF IndInv, PlaceInv
<1>2. /\ pc[c] = "swtch" /\ p \in Slots /\ state[p] = "RUNNING" /\ stack[c] = NoPage
      /\ UNCHANGED <<state, user, kstack, proc, ret>>
  BY <1>1, RunsHere DEF SwitchTo, OneExecutes, OffStack
<1>3. OnlyCpu(c) /\ SparesOthers(c)
  BY <1>1, <1>2, SchedOnlyCpu DEF SchedStep, SparesOthers
<1>4. CASE Corrupt(p)
  <2>1. UNCHANGED <<context, pc, arg, stack>>
    BY <1>4 DEF SwitchTo
  <2>2. QuietTable /\ ~Executes(c)' /\ pc'[c] = "swtch"
    BY <1>1, <1>2, <2>1 DEF QuietTable, Kinds, Executes, OffStack
  <2>3. QED BY <1>2, <1>3, <2>1, <2>2, QuietKeeps DEF OffStack
<1>5. CASE ~Corrupt(p)
  <2>1. /\ k.at \in ResumePoints /\ k.page = kstack[p]
        /\ \A d \in CPUs : stack[d] # kstack[p]
    BY <1>5 DEF Corrupt, OnStack
  <2>2. /\ context' = [context EXCEPT ![p] = Popped]
        /\ pc'[c] = k.at /\ stack'[c] = kstack[p]
        /\ arg' = [arg EXCEPT ![c] = k.arg]
    BY <1>1, <1>5, <2>1 DEF SwitchTo, Goto, TypeOK
  <2>3. pc'[c] \notin OffStack \cup {"sched", "kthreadd_fill", "kthreadd_publish"}
    BY <2>1, <2>2 DEF ResumePoints, OffStack
  <2>4. Place(c)' = k.at
    BY <2>2, <2>3 DEF Place
  <2>5. ExecutesWell(c)
    <3>1. Fits(p, k.at)
      BY <1>1, <1>2 DEF Kinds
    <3>2. \A d \in CPUs \ {c} : Executes(d) => proc[d] # p
      BY <1>1, <1>2, <2>1 DEF OneExecutes
    <3>3. Fits(proc[c], Place(c))'
      BY <1>2, <2>4, <3>1 DEF Fits
    <3>4. QED BY <1>2, <2>2, <3>2, <3>3 DEF ExecutesWell, Alive
  <2>6. \A q \in Slots : Fits(q, context[q].at)'
    <3>1. ASSUME NEW q \in Slots PROVE Fits(q, context'[q].at)
      BY <1>1, <2>2, EntryFits DEF Kinds, TypeOK, Popped
    <3>2. QED BY <1>2, <3>1 DEF Fits
  <2>7. QED BY <1>1, <1>2, <1>3, <2>3, <2>5, <2>6, PlacesKept DEF Kinds
<1>6. QED BY <1>4, <1>5

\* sched() saves where the process will go on.
LEMMA SchedPlaces ==
  ASSUME IndInv, PlaceInv, NEW c \in CPUs, Sched(c)
  PROVE  PlaceInv'
<1> DEFINE p == proc[c]
<1>1. TypeOK /\ Placed /\ Claims /\ QueueIsRunnable /\ RunningOnOneCpu /\ Kinds /\ OneExecutes
  BY DEF IndInv, PlaceInv
<1>2. /\ pc[c] = "sched" /\ p \in Slots /\ pc'[c] = "back" /\ stack'[c] = NoPage
      /\ UNCHANGED <<state, user, kstack, proc>>
      /\ context' = context \/ context' = [context EXCEPT ![p] = Saved(ret[c], arg[c], stack[c])]
  BY <1>1 DEF Sched, Goto, TypeOK, Placed
<1>3. OnlyCpu(c) /\ SparesOthers(c)
  BY <1>1, <1>2, SchedOnlyCpu DEF SchedStep, SparesOthers
<1>4. Fits(p, ret[c])
  <2>1. CASE ret[c] = "dead"
    BY <1>2, <2>1, EntryFits
  <2>2. CASE ret[c] # "dead"
    <3>1. Executes(c) /\ Place(c) = ret[c]
      BY <1>2, <2>2 DEF Executes, Place, OffStack
    <3>2. QED BY <1>1, <3>1 DEF Kinds
  <2>3. QED BY <2>1, <2>2
<1>5. \A q \in Slots : Fits(q, context[q].at)'
  <2>1. ASSUME NEW q \in Slots PROVE Fits(q, context'[q].at)
    <3>1. context'[q] = context[q] \/ (q = p /\ context'[q].at = ret[c])
      BY <1>1, <1>2, SMT DEF TypeOK, Saved
    <3>2. QED BY <1>1, <1>4, <3>1 DEF Kinds
  <2>2. QED BY <1>2, <2>1 DEF Fits
<1>6. ExecutesWell(c)
  BY <1>2 DEF ExecutesWell, Executes, OffStack
<1>7. QED BY <1>1, <1>2, <1>3, <1>5, <1>6, PlacesKept DEF Kinds

\* scheduler() after the switch, and kthread_reap.
LEMMA BackPlaces ==
  ASSUME IndInv, PlaceInv, NEW c \in CPUs, Back(c) \/ Reap(c)
  PROVE  PlaceInv'
<1>1. TypeOK /\ Placed /\ Claims /\ QueueIsRunnable /\ RunningOnOneCpu /\ Kinds /\ OneExecutes
  BY DEF IndInv, PlaceInv
<1>2. /\ pc[c] \in {"back", "reap"} /\ pc'[c] \in {"idle", "reap"}
      /\ UNCHANGED <<state, user, context, stack>>
  BY <1>1 DEF Back, Reap, Goto, TypeOK, tableVars
<1>3. \A p \in Slots : kstack'[p] \in {kstack[p], NoPage}
  BY <1>1 DEF Back, Reap, FreeKstack, TypeOK, tableVars
<1>4. OnlyCpu(c) /\ SparesOthers(c)
  BY <1>1, <1>2, <1>3, SchedOnlyCpu DEF SchedStep, SparesOthers
<1>5. ExecutesWell(c)
  BY <1>2 DEF ExecutesWell, Executes, OffStack
<1>6. \A q \in Slots : Fits(q, context[q].at)'
  BY <1>1, <1>2 DEF Kinds, Fits
<1>7. QED BY <1>1, <1>2, <1>4, <1>5, <1>6, PlacesKept DEF Kinds, OneExecutes, OffStack

\* kernel_init enters ring 3.
LEMMA KernelInitPlaces ==
  ASSUME IndInv, PlaceInv, NEW c \in CPUs, KernelInit(c)
  PROVE  PlaceInv'
<1>1. TypeOK /\ Placed /\ Claims /\ RunningOnOneCpu /\ Kinds /\ OneExecutes
  BY DEF IndInv, PlaceInv
<1>2. /\ pc[c] = "kernel_init" /\ pc'[c] = "user"
      /\ user' = [user EXCEPT ![proc[c]] = TRUE]
      /\ UNCHANGED <<state, kstack, context, proc, stack, arg>>
  BY <1>1 DEF KernelInit, Goto, TypeOK
<1>3. Executes(c) /\ Place(c) = "kernel_init" /\ Place(c)' = "user"
  BY <1>2 DEF Executes, Place, OffStack
<1>4. proc[c] = InitProc /\ state[InitProc] \in Alive
  BY <1>1, <1>3, ExecutesSlot DEF Fits
<1>5. /\ \A p \in Slots \ {InitProc} : user'[p] = user[p]
      /\ user'[InitProc]
  BY <1>1, <1>2, <1>4, ThreadSlots DEF TypeOK
<1>6. OnlyCpu(c) /\ SparesOthers(c)
  <2>1. OnlyCpu(c)
    BY <1>1, ProcOnlyCpu DEF ProcStep
  <2>2. ASSUME NEW p \in Slots, state[p] \in Alive
        PROVE  state'[p] \in Alive /\ (user'[p] = user[p] \/ (user'[p] /\ p = InitProc))
    <3>1. state'[p] \in Alive
      BY <1>2, <2>2
    <3>2. user'[p] = user[p] \/ (user'[p] /\ p = InitProc)
      BY <1>5
    <3>3. QED BY <3>1, <3>2
  <2>3. \A p \in Slots : kstack'[p] = kstack[p]
    BY <1>2
  <2>4. QED BY <2>1, <2>2, <2>3 DEF SparesOthers
<1>7. ExecutesWell(c)
  <2>1. Fits(proc[c], Place(c))'
    BY <1>2, <1>3, <1>4, <1>5 DEF Fits, KthreaddPlaces, ServePlaces, AskPlaces
  <2>2. QED BY <1>1, <1>2, <1>3, <1>4, <2>1 DEF ExecutesWell, OneExecutes
<1>8. \A p \in Slots : Fits(p, context[p].at)'
  <2> SUFFICES ASSUME NEW p \in Slots PROVE Fits(p, context[p].at)'
    OBVIOUS
  <2>1. Fits(p, context[p].at) /\ context'[p] = context[p]
    BY <1>1, <1>2 DEF Kinds
  <2>2. CASE p = InitProc
    BY <1>5, <2>1, <2>2, ThreadSlots DEF Fits
  <2>3. CASE p # InitProc
    BY <1>5, <2>1, <2>3 DEF Fits
  <2>4. QED BY <2>2, <2>3
<1>9. \A d \in CPUs : pc[d] \in {"kthreadd_fill", "kthreadd_publish"} => ~user'[arg[d]]
  <2>1. \A d \in CPUs : pc[d] \in {"kthreadd_fill", "kthreadd_publish"} =>
          arg[d] \in Slots \ {InitProc}
    BY <1>1, <1>4 DEF Claims, Claiming, Alive
  <2>2. QED BY <1>1, <1>5, <2>1 DEF Kinds
<1>10. QED BY <1>1, <1>2, <1>6, <1>7, <1>8, <1>9, PlacesKept DEF Kinds, OffStack

\* proc_alloc, of fork and of kthread_create_sync.
LEMMA AllocPlaces ==
  ASSUME IndInv, PlaceInv, NEW c \in CPUs, ForkAlloc(c) \/ KthreaddAlloc(c)
  PROVE  PlaceInv'
<1>1. TypeOK /\ Placed /\ Claims /\ RunningOnOneCpu /\ Kinds /\ OneExecutes
  BY DEF IndInv, PlaceInv
<1>2. PICK q \in Slots : FirstUnused(q) /\ ClaimSlot(q) /\ arg' = [arg EXCEPT ![c] = q]
  BY DEF ForkAlloc, KthreaddAlloc
<1>3. /\ \/ pc[c] = "user" /\ pc'[c] = "fork_fill"
         \/ pc[c] = "kthreadd_alloc" /\ pc'[c] = "kthreadd_fill"
      /\ UNCHANGED <<proc, stack>>
  BY <1>1 DEF ForkAlloc, KthreaddAlloc, Goto, TypeOK
<1>4. /\ q \in Slots \ {Swapper} /\ state[q] \notin Alive
      /\ ~user'[q] /\ context'[q] = Popped /\ arg'[c] = q
      /\ \A p \in Slots \ {q} : /\ state'[p] = state[p] /\ user'[p] = user[p]
                                /\ kstack'[p] = kstack[p] /\ context'[p] = context[p]
  BY <1>1, <1>2 DEF FirstUnused, ClaimSlot, TypeOK, Alive
<1>5. Executes(c) /\ pc'[c] \notin OffStack /\ Fits(proc[c], Place(c)')
  BY <1>3, ExecutesSlot
  DEF Executes, Place, OffStack, Fits, UserPlaces, KthreaddPlaces, ServePlaces, AskPlaces
<1>6. Fits(q, context[q].at)'
  <2>1. context'[q].at = "popped"
    BY <1>4, SMT DEF Popped
  <2>2. QED BY <2>1 DEF Fits, UserPlaces, KthreaddPlaces, ServePlaces, AskPlaces
<1>7. OnlyCpu(c)
  BY <1>1, ProcOnlyCpu, KthreadOnlyCpu DEF ProcStep, KthreadStep
<1>8. \A d \in CPUs \ {c} : pc[d] \in {"kthreadd_fill", "kthreadd_publish"} =>
        arg[d] \in Slots \ {q} \/ ~user'[arg[d]]
  BY <1>1, <1>4 DEF Claims, Claiming
<1>9. QED BY <1>3, <1>4, <1>5, <1>6, <1>7, <1>8, SlotKeeps

\* The slot that a CPU is filling, and its own process, are different.
LEMMA FillingSlot ==
  ASSUME IndInv, PlaceInv, NEW c \in CPUs, Claiming(c)
  PROVE  /\ arg[c] \in Slots \ ({Swapper} \cup Threads) /\ state[arg[c]] = "USED"
         /\ \A d \in CPUs \ {c} : Claiming(d) => arg[d] \in Slots \ {arg[c]}
BY ThreadSlots DEF IndInv, PlaceInv, Claims, Kinds, Alive

\* The rest of fork_copy and kthread_create_sync, or their failure.
LEMMA FillPlaces ==
  ASSUME IndInv, PlaceInv, NEW c \in CPUs,
         ForkFill(c) \/ ForkFail(c) \/ KthreaddFill(c) \/ KthreaddFail(c)
  PROVE  PlaceInv'
<1>1. TypeOK /\ Placed /\ Claims /\ RunningOnOneCpu /\ Kinds /\ OneExecutes
  BY DEF IndInv, PlaceInv
<1>2. /\ pc[c] \in {"fork_fill", "kthreadd_fill"} /\ UNCHANGED <<proc, stack>>
      /\ pc[c] = "fork_fill" => pc'[c] \in {"fork_publish", "user"}
      /\ pc[c] = "kthreadd_fill" => pc'[c] \in {"kthreadd_publish", "kthreadd_done"}
      /\ pc'[c] = "kthreadd_publish" => KthreaddFill(c)
  BY <1>1 DEF ForkFill, ForkFail, KthreaddFill, KthreaddFail, Goto, TypeOK
<1>3. Claiming(c)
  BY <1>2 DEF Claiming
<1>4. PICK q \in Slots \ ({Swapper} \cup Threads) :
        /\ q = arg[c] /\ state[q] \notin Alive
        /\ \A d \in CPUs \ {c} : Claiming(d) => arg[d] \in Slots \ {q}
  BY <1>3, FillingSlot DEF Alive
<1>5. \A p \in Slots \ {q} : /\ state'[p] = state[p] /\ user'[p] = user[p]
                             /\ kstack'[p] = kstack[p] /\ context'[p] = context[p]
  <2>1. CASE ForkFill(c)
    BY <1>1, <1>4, <2>1, SMT DEF ForkFill, AllocKstack, TypeOK
  <2>2. CASE KthreaddFill(c)
    BY <1>1, <1>4, <2>2 DEF KthreaddFill, AllocKstack, TypeOK
  <2>3. CASE ForkFail(c) \/ KthreaddFail(c)
    BY <1>1, <1>4, <2>3 DEF ForkFail, KthreaddFail, FreeSlot, FreeKstack, TypeOK
  <2>4. QED BY <2>1, <2>2, <2>3
<1>6. /\ Fits(q, context[q].at)'
      /\ pc'[c] \in {"kthreadd_fill", "kthreadd_publish"} => ~user'[arg'[c]]
  <2>1. CASE ForkFill(c)
    <3>1. context'[q].at = "user" /\ user'[q] /\ arg' = arg
      BY <1>1, <1>4, <2>1, SMT DEF ForkFill, TypeOK, Saved
    <3>2. pc'[c] = "fork_publish"
      BY <1>1, <2>1, SMT DEF ForkFill, Goto, TypeOK
    <3>3. QED BY <3>1, <3>2 DEF Fits, KthreaddPlaces, ServePlaces, AskPlaces
  <2>2. CASE KthreaddFill(c)
    <3>1. context'[q].at = "kthread" /\ user' = user /\ arg' = arg
      BY <1>1, <1>4, <2>2, SMT DEF KthreaddFill, TypeOK, Saved
    <3>2. ~user[q]
      BY <1>1, <1>4, <2>2 DEF KthreaddFill, Kinds
    <3>3. QED BY <1>4, <3>1, <3>2 DEF Fits, UserPlaces, KthreaddPlaces, ServePlaces, AskPlaces
  <2>3. CASE ForkFail(c) \/ KthreaddFail(c)
    <3>1. context'[q] = Popped
      BY <1>1, <1>4, <2>3 DEF ForkFail, KthreaddFail, FreeSlot, TypeOK
    <3>2. context'[q].at = "popped"
      BY <3>1, SMT DEF Popped
    <3>3. pc'[c] \in {"user", "kthreadd_done"}
      BY <1>1, <2>3 DEF ForkFail, KthreaddFail, Goto, TypeOK
    <3>4. QED BY <3>2, <3>3 DEF Fits, UserPlaces, KthreaddPlaces, ServePlaces, AskPlaces
  <2>4. QED BY <2>1, <2>2, <2>3
<1>7. Executes(c) /\ pc'[c] \notin OffStack /\ Fits(proc[c], Place(c)')
  BY <1>2, ExecutesSlot
  DEF Executes, Place, OffStack, Fits, UserPlaces, KthreaddPlaces, ServePlaces, AskPlaces
<1>8. OnlyCpu(c)
  BY <1>1, ProcOnlyCpu, KthreadOnlyCpu DEF ProcStep, KthreadStep
<1>9. \A d \in CPUs \ {c} : pc[d] \in {"kthreadd_fill", "kthreadd_publish"} =>
        arg[d] \in Slots \ {q} \/ ~user'[arg[d]]
  BY <1>4 DEF Claiming
<1>10. QED BY <1>2, <1>4, <1>5, <1>6, <1>7, <1>8, <1>9, SlotKeeps

\* What waitpid frees is the slot of a zombie.
LEMMA ReapedSlot ==
  ASSUME NEW c \in CPUs, WaitReap(c)
  PROVE  \E q \in Slots :
           /\ state[q] = "ZOMBIE"
           /\ Unlink(q) /\ FreeKstack(q)
           /\ context' = [context EXCEPT ![q] = Popped]
           /\ state' = [state EXCEPT ![q] = "UNUSED"]
           /\ parent' = [parent EXCEPT ![q] = NoProc]
           /\ user' = [user EXCEPT ![q] = FALSE]
<1> DEFINE Freed(q) == /\ Unlink(q) /\ FreeKstack(q)
                       /\ context' = [context EXCEPT ![q] = Popped]
                       /\ state' = [state EXCEPT ![q] = "UNUSED"]
                       /\ parent' = [parent EXCEPT ![q] = NoProc]
                       /\ user' = [user EXCEPT ![q] = FALSE]
<1>1. PICK target \in WaitTargets(c) : \E q \in Zombies(proc[c], target) : Freed(q)
  BY DEF WaitReap
<1>2. PICK q \in Zombies(proc[c], target) : Freed(q)
  BY <1>1
<1>3. q \in Slots /\ state[q] = "ZOMBIE"
  BY <1>2 DEF Zombies, Children
<1>4. QED BY <1>2, <1>3

\* waitpid frees the slot of a zombie.
LEMMA WaitReapPlaces ==
  ASSUME IndInv, PlaceInv, NEW c \in CPUs, WaitReap(c)
  PROVE  PlaceInv'
<1>1. TypeOK /\ Placed /\ Claims /\ RunningOnOneCpu /\ Kinds /\ OneExecutes
  BY DEF IndInv, PlaceInv
<1>2. PICK q \in Slots :
        /\ state[q] = "ZOMBIE"
        /\ Unlink(q) /\ FreeKstack(q)
        /\ context' = [context EXCEPT ![q] = Popped]
        /\ state' = [state EXCEPT ![q] = "UNUSED"]
        /\ parent' = [parent EXCEPT ![q] = NoProc]
        /\ user' = [user EXCEPT ![q] = FALSE]
  BY ReapedSlot
<1>3. pc[c] \in {"user", "wait"} /\ pc'[c] = "user" /\ UNCHANGED <<proc, stack>>
  BY <1>1, SMT DEF WaitReap, WaitTargets, Goto, TypeOK
<1>4. /\ q \in Slots \ {Swapper} /\ state[q] \notin Alive /\ context'[q].at = "popped"
      /\ ~user'[q]
      /\ \A p \in Slots \ {q} : /\ state'[p] = state[p] /\ user'[p] = user[p]
                                /\ kstack'[p] = kstack[p] /\ context'[p] = context[p]
  BY <1>1, <1>2, ThreadSlots, SMT DEF FreeKstack, TypeOK, Alive, Kinds, Popped
<1>5. Executes(c) /\ pc'[c] \notin OffStack /\ Fits(proc[c], Place(c)')
  BY <1>3, ExecutesSlot
  DEF Executes, Place, OffStack, Fits, UserPlaces, KthreaddPlaces, ServePlaces, AskPlaces
<1>6. Fits(q, context[q].at)'
  BY <1>4 DEF Fits, UserPlaces, KthreaddPlaces, ServePlaces, AskPlaces
<1>7. OnlyCpu(c)
  BY <1>1, ProcOnlyCpu DEF ProcStep
<1>8. \A d \in CPUs \ {c} : pc[d] \in {"kthreadd_fill", "kthreadd_publish"} =>
        arg[d] \in Slots \ {q} \/ ~user'[arg[d]]
  BY <1>1, <1>2 DEF Claims, Claiming
<1>9. QED BY <1>3, <1>4, <1>5, <1>6, <1>7, <1>8, SlotKeeps

\* exit and kthread_exit.
LEMMA ExitPlaces ==
  ASSUME IndInv, PlaceInv, NEW c \in CPUs, Exit(c) \/ KthreadExit(c)
  PROVE  PlaceInv'
<1> DEFINE p == proc[c]
<1>1. TypeOK /\ Placed /\ Claims /\ RunningOnOneCpu /\ Kinds /\ OneExecutes
  BY DEF IndInv, PlaceInv
<1>2. /\ \/ pc[c] = "user" /\ p # InitProc /\ pc'[c] = "exit_wake"
         \/ pc[c] = "kthread" /\ pc'[c] = "sched" /\ ret'[c] = "dead"
      /\ UNCHANGED <<kstack, proc, stack>>
      /\ \E to \in {"ZOMBIE", "UNUSED"} : state' = [state EXCEPT ![p] = to]
      /\ user' = user \/ user' = [user EXCEPT ![p] = FALSE]
      /\ context' = context \/ context' = [context EXCEPT ![p] = Popped]
  BY <1>1 DEF Exit, KthreadExit, Goto, TypeOK
<1>3. Executes(c) /\ ~Executes(c)'
  BY <1>2 DEF Executes, Place, OffStack
<1>4. p \in Slots \ ({Swapper} \cup Threads)
  <2>1. Fits(p, pc[c]) /\ p \in Slots \ {Swapper}
    BY <1>2, <1>3, ExecutesSlot DEF Place
  <2>2. QED BY <1>1, <1>2, <2>1, ThreadSlots DEF Fits, UserPlaces, Kinds
<1>5. OnlyCpu(c)
  BY <1>1, ProcOnlyCpu, KthreadOnlyCpu DEF ProcStep, KthreadStep
<1>6. \A q \in Slots \ {p} : /\ state'[q] = state[q] /\ user'[q] = user[q]
                             /\ context'[q] = context[q]
  BY <1>1, <1>2 DEF TypeOK
<1>7. SparesOthers(c) /\ ExecutesWell(c) /\ state'[Swapper] = "USED"
  BY <1>1, <1>2, <1>3, <1>4, <1>6, ThreadSlots DEF SparesOthers, Ends, ExecutesWell, Kinds
<1>8. \A q \in Slots : Fits(q, context[q].at)'
  <2> SUFFICES ASSUME NEW q \in Slots PROVE Fits(q, context[q].at)'
    OBVIOUS
  <2>1. CASE q # p
    BY <1>1, <1>6, <2>1, SMT DEF Kinds, Fits
  <2>2. CASE q = p /\ KthreadExit(c)
    BY <1>1, <2>2 DEF Kinds, Fits, KthreadExit
  <2>3. CASE q = p /\ Exit(c)
    <3>1. context'[q] = Popped
      BY <1>1, <2>3 DEF Exit, TypeOK
    <3>2. context'[q].at = "popped"
      BY <3>1, SMT DEF Popped
    <3>3. QED BY <3>2 DEF Fits, UserPlaces, KthreaddPlaces, ServePlaces, AskPlaces
  <2>4. QED BY <2>1, <2>2, <2>3
<1>9. \A d \in CPUs : pc[d] \in {"kthreadd_fill", "kthreadd_publish"} => ~user'[arg[d]]
  <2>1. \A d \in CPUs : pc[d] \in {"kthreadd_fill", "kthreadd_publish"} =>
          arg[d] \in Slots /\ ~user[arg[d]]
    BY <1>1 DEF Claims, Claiming, Kinds
  <2>2. QED BY <1>1, <1>2, <1>4, <2>1, SMT DEF TypeOK
<1>10. pc'[c] \notin OffStack \cup {"kthreadd_fill", "kthreadd_publish"}
  BY <1>2 DEF OffStack
<1>11. QED BY <1>5, <1>7, <1>8, <1>9, <1>10, PlacesKept

\* Every step of every CPU keeps PlaceInv.
LEMMA PlacesStep ==
  ASSUME IndInv, PlaceInv, [Next]_vars
  PROVE  PlaceInv'
<1>1. CASE UNCHANGED vars
  <2>1. UNCHANGED <<state, user, kstack, context, proc, pc, ret, arg, stack>>
    BY <1>1 DEF vars, schedVars, tableVars, cpuVars
  <2>2. Kinds'
    BY <2>1 DEF PlaceInv, Kinds, Executes, Place, Fits
  <2>3. OneExecutes'
    BY <2>1 DEF PlaceInv, OneExecutes, Executes, Place
  <2>4. QED BY <2>2, <2>3 DEF PlaceInv
<1>2. ASSUME NEW c \in CPUs, SchedStep(c)
      PROVE  PlaceInv'
  BY <1>2, QuietSched, SchedulePlaces, SwitchToPlaces, SchedPlaces, BackPlaces DEF SchedStep
<1>3. ASSUME NEW c \in CPUs, ProcStep(c)
      PROVE  PlaceInv'
  BY <1>3, QuietProc, KernelInitPlaces, AllocPlaces, FillPlaces, WaitReapPlaces, ExitPlaces
  DEF ProcStep
<1>4. ASSUME NEW c \in CPUs, KthreadStep(c)
      PROVE  PlaceInv'
  BY <1>4, QuietKthread, AllocPlaces, FillPlaces, ExitPlaces DEF KthreadStep
<1>5. QED BY <1>1, <1>2, <1>3, <1>4 DEF Next, CpuStep, Stopped

\* It holds when the CPUs enter scheduler().
LEMMA PlacesInit == Init => PlaceInv
<1> SUFFICES ASSUME Init PROVE PlaceInv
  OBVIOUS
<1>1. OneExecutes
  BY DEF Init, SchedInit, OneExecutes, Executes, OffStack
<1>2. \A p \in Slots : Fits(p, context[p].at)
  <2> SUFFICES ASSUME NEW p \in Slots PROVE Fits(p, context[p].at)
    OBVIOUS
  <2>1. context[p].at \in {EntryPoint(p), "popped"}
    BY DEF Init, SchedInit, Saved, Popped
  <2>2. QED BY <2>1, EntryFits
<1>3. Kinds
  BY <1>2, ThreadSlots DEF Init, SchedInit, Kinds, Alive, Executes, OffStack
<1>4. QED BY <1>1, <1>3 DEF PlaceInv

-------------------------------------------------------------------------------
(* The parents of processes. *)

\* The step rule for Parents.
LEMMA ParentsKept ==
  ASSUME TypeOK, Parents,
         \A p \in Slots : Lasts(p) => Lasts(p)',
         \A p \in Slots : state'[p] # "UNUSED" /\ parent'[p] # NoProc =>
           (state[p] # "UNUSED" /\ parent'[p] = parent[p]) \/ Lasts(parent[p])'
  PROVE  Parents'
<1> SUFFICES ASSUME NEW p \in Slots, state'[p] # "UNUSED", parent'[p] # NoProc
             PROVE  Lasts(parent[p])'
  BY DEF Parents
<1>1. CASE state[p] # "UNUSED" /\ parent'[p] = parent[p]
  <2>1. parent[p] \in Slots /\ Lasts(parent[p])
    BY <1>1 DEF TypeOK, Parents
  <2>2. PICK q \in Slots : q = parent[p] /\ Lasts(q)'
    BY <2>1
  <2>3. QED BY <1>1, <2>2 DEF Lasts
<1>2. QED BY <1>1

\* A step that changes states only, and ends no process.
LEMMA ParentsQuiet ==
  ASSUME TypeOK, Parents, UNCHANGED <<parent, user>>,
         \A p \in Slots : /\ state[p] \in Alive => state'[p] \in Alive
                          /\ state[p] = "UNUSED" => state'[p] = "UNUSED"
  PROVE  Parents'
<1>1. \A p \in Slots : Lasts(p) => Lasts(p)'
  BY DEF Lasts
<1>2. QED BY <1>1, ParentsKept

\* The steps that touch neither states, parents nor address spaces.
LEMMA StatesUnmoved ==
  ASSUME NEW c \in CPUs,
         \/ SwitchTo(c) \/ Sched(c) \/ Back(c) \/ Reap(c)
         \/ TickResched(c) \/ PreemptCheck(c) \/ WaitNone(c) \/ CreateQueue(c)
         \/ CreateReturn(c) \/ KthreaddEmpty(c) \/ KthreaddTake(c) \/ KthreaddNoSlot(c)
  PROVE  UNCHANGED <<state, parent, user>>
<1>1. CASE SwitchTo(c)
  BY <1>1 DEF SwitchTo, tableVars
<1>2. CASE Sched(c)
  BY <1>2 DEF Sched, tableVars
<1>3. CASE Back(c)
  BY <1>3 DEF Back, tableVars
<1>4. CASE Reap(c)
  BY <1>4 DEF Reap, tableVars
<1>5. CASE TickResched(c)
  BY <1>5 DEF TickResched, tableVars
<1>6. CASE PreemptCheck(c)
  BY <1>6 DEF PreemptCheck, tableVars
<1>7. CASE WaitNone(c)
  BY <1>7 DEF WaitNone, tableVars
<1>8. CASE CreateQueue(c)
  BY <1>8 DEF CreateQueue, tableVars
<1>9. CASE CreateReturn(c)
  BY <1>9 DEF CreateReturn, tableVars
<1>10. CASE KthreaddEmpty(c)
  BY <1>10 DEF KthreaddEmpty, tableVars
<1>11. CASE KthreaddTake(c)
  BY <1>11 DEF KthreaddTake, tableVars
<1>12. CASE KthreaddNoSlot(c)
  BY <1>12 DEF KthreaddNoSlot, tableVars
<1>13. QED BY <1>1, <1>2, <1>3, <1>4, <1>5, <1>6, <1>7, <1>8, <1>9, <1>10, <1>11, <1>12

\* The steps that wake sleepers, and touch neither parents nor address spaces.
LEMMA StatesWoken ==
  ASSUME IndInv, NEW c \in CPUs,
         \/ TickKernel(c) \/ TickUser(c) \/ ExitWake(c) \/ SignalSend(c)
         \/ CreateWake(c) \/ KthreaddDone(c)
  PROVE  /\ UNCHANGED <<parent, user>>
         /\ \A p \in Slots : \/ state'[p] = state[p]
                             \/ state[p] = "SLEEPING" /\ state'[p] = "RUNNABLE"
<1>1. TypeOK /\ QueueIsRunnable
  BY DEF IndInv
<1>2. UNCHANGED <<parent, user>>
  BY DEF TickKernel, TickUser, ExitWake, SignalSend, CreateWake, KthreaddDone
<1>3. \E S : WakeAll(S) /\ S \subseteq {p \in Slots : state[p] = "SLEEPING"}
  <2>1. CASE TickKernel(c) \/ TickUser(c)
    BY <1>1, <2>1, TickWakes DEF TickKernel, TickUser
  <2>2. CASE ExitWake(c)
    BY <2>2 DEF ExitWake, Sleepers
  <2>3. CASE SignalSend(c)
    BY <2>3 DEF SignalSend
  <2>4. CASE CreateWake(c) \/ KthreaddDone(c)
    BY <2>4 DEF CreateWake, KthreaddDone, Sleepers
  <2>5. QED BY <2>1, <2>2, <2>3, <2>4
<1>4. QED BY <1>1, <1>2, <1>3 DEF WakeAll, TypeOK

\* A process gives up its CPU, and touches neither parents nor address spaces.
LEMMA StatesYielded ==
  ASSUME IndInv, NEW c \in CPUs,
         \/ Yield(c) \/ SleepTicks(c) \/ WaitSleep(c) \/ CreateSleep(c)
         \/ KthreaddSleep(c)
  PROVE  /\ UNCHANGED <<parent, user>> /\ proc[c] \in Slots /\ state[proc[c]] = "RUNNING"
         /\ \/ state' = [state EXCEPT ![proc[c]] = "RUNNABLE"]
            \/ state' = [state EXCEPT ![proc[c]] = "SLEEPING"]
<1>1. TypeOK /\ Placed /\ RunningOnOneCpu
  BY DEF IndInv
<1>2. CASE Yield(c)
  BY <1>1, <1>2, RunsHere DEF Yield
<1>3. CASE SleepTicks(c)
  BY <1>1, <1>3, RunsHere DEF SleepTicks, SleepOn
<1>4. CASE WaitSleep(c)
  BY <1>1, <1>4, RunsHere DEF WaitSleep, SleepOn
<1>5. CASE CreateSleep(c)
  BY <1>1, <1>5, RunsHere DEF CreateSleep, SleepOn
<1>6. CASE KthreaddSleep(c)
  BY <1>1, <1>6, RunsHere DEF KthreaddSleep, SleepOn
<1>7. QED BY <1>2, <1>3, <1>4, <1>5, <1>6

\* The steps that change states at most, and end no process.
LEMMA ParentsUnmoved ==
  ASSUME IndInv, Parents, NEW c \in CPUs,
         \/ SchedStep(c)
         \/ ForkPublish(c) \/ ExitWake(c) \/ WaitNone(c) \/ WaitSleep(c) \/ SignalSend(c)
         \/ CreateQueue(c) \/ CreateWake(c) \/ CreateSleep(c) \/ CreateReturn(c)
         \/ KthreaddEmpty(c) \/ KthreaddSleep(c) \/ KthreaddTake(c) \/ KthreaddNoSlot(c)
         \/ KthreaddPublish(c) \/ KthreaddDone(c)
  PROVE  Parents'
<1>1. TypeOK /\ Placed /\ Claims /\ QueueIsRunnable /\ RunningOnOneCpu
  BY DEF IndInv
<1>2. CASE \/ SwitchTo(c) \/ Sched(c) \/ Back(c) \/ Reap(c)
           \/ TickResched(c) \/ PreemptCheck(c) \/ WaitNone(c) \/ CreateQueue(c)
           \/ CreateReturn(c) \/ KthreaddEmpty(c) \/ KthreaddTake(c) \/ KthreaddNoSlot(c)
  <2>1. UNCHANGED <<state, parent, user>>
    BY <1>2, StatesUnmoved
  <2>2. QED BY <1>1, <2>1, ParentsQuiet
<1>3. CASE \/ TickKernel(c) \/ TickUser(c) \/ ExitWake(c) \/ SignalSend(c)
           \/ CreateWake(c) \/ KthreaddDone(c)
  <2>1. /\ UNCHANGED <<parent, user>>
        /\ \A p \in Slots : \/ state'[p] = state[p]
                            \/ state[p] = "SLEEPING" /\ state'[p] = "RUNNABLE"
    BY <1>3, StatesWoken
  <2>2. QED BY <1>1, <2>1, ParentsQuiet DEF Alive
<1>4. ASSUME NEW q \in Slots, state[q] # "UNUSED", NEW to \in Alive,
             state' = [state EXCEPT ![q] = to], UNCHANGED <<parent, user>>
      PROVE  Parents'
  BY <1>1, <1>4, ParentsQuiet DEF TypeOK
<1>5. CASE \/ Yield(c) \/ SleepTicks(c) \/ WaitSleep(c) \/ CreateSleep(c)
           \/ KthreaddSleep(c)
  BY <1>4, <1>5, StatesYielded DEF Alive
<1>6. CASE Schedule(c)
  <2>1. /\ Head(runqueue) \in Slots /\ state[Head(runqueue)] = "RUNNABLE"
        /\ state' = [state EXCEPT ![Head(runqueue)] = "RUNNING"]
        /\ UNCHANGED <<parent, user>>
    BY <1>1, <1>6, HeadRunnable DEF Schedule
  <2>2. "RUNNING" \in Alive
    BY DEF Alive
  <2>3. QED BY <1>4, <2>1, <2>2
<1>7. CASE ForkPublish(c) \/ KthreaddPublish(c)
  <2>1. /\ arg[c] \in Slots /\ state[arg[c]] = "USED"
        /\ state' = [state EXCEPT ![arg[c]] = "RUNNABLE"]
        /\ UNCHANGED <<parent, user>>
    BY <1>1, <1>7 DEF ForkPublish, KthreaddPublish, Claims, Claiming
  <2>2. "RUNNABLE" \in Alive
    BY DEF Alive
  <2>3. QED BY <1>4, <2>1, <2>2
<1>8. QED BY <1>2, <1>3, <1>5, <1>6, <1>7 DEF SchedStep

\* The steps of fork, of kthread_create_sync and of waitpid, which set parents.
LEMMA ParentsSet ==
  ASSUME IndInv, PlaceInv, Parents, NEW c \in CPUs,
         \/ KernelInit(c) \/ ForkAlloc(c) \/ ForkFill(c) \/ ForkFail(c) \/ WaitReap(c)
         \/ KthreaddAlloc(c) \/ KthreaddFill(c) \/ KthreaddFail(c)
  PROVE  Parents'
<1>1. TypeOK /\ Placed /\ Claims /\ QueueIsRunnable /\ RunningOnOneCpu /\ Kinds
  BY DEF IndInv, PlaceInv
<1>2. CASE KernelInit(c)
  <2>1. UNCHANGED <<state, parent>> /\ \A p \in Slots : user[p] => user'[p]
    BY <1>1, <1>2 DEF KernelInit, TypeOK
  <2>2. \A p \in Slots : Lasts(p) => Lasts(p)'
    BY <2>1 DEF Lasts
  <2>3. QED BY <1>1, <2>1, <2>2, ParentsKept DEF TypeOK
<1>3. ASSUME NEW q \in Slots, state[q] \notin Alive,
             \A p \in Slots \ {q} : /\ state'[p] = state[p] /\ user'[p] = user[p]
                                    /\ parent'[p] = parent[p],
             state'[q] = "UNUSED" \/ parent'[q] = NoProc \/ Lasts(parent[q])'
      PROVE  Parents'
  <2>1. \A p \in Slots : Lasts(p) => Lasts(p)'
    BY <1>3 DEF Lasts
  <2>2. QED BY <1>1, <1>3, <2>1, ParentsKept
<1>4. CASE ForkAlloc(c) \/ KthreaddAlloc(c)
  <2>1. PICK q \in Slots : FirstUnused(q) /\ ClaimSlot(q)
    BY <1>4 DEF ForkAlloc, KthreaddAlloc
  <2>2. /\ state[q] \notin Alive /\ parent'[q] = NoProc
        /\ \A p \in Slots \ {q} : /\ state'[p] = state[p] /\ user'[p] = user[p]
                                  /\ parent'[p] = parent[p]
    BY <1>1, <2>1 DEF FirstUnused, ClaimSlot, TypeOK, Alive
  <2>3. QED BY <1>3, <2>2
<1>5. CASE WaitReap(c)
  <2>1. PICK q \in Slots :
          /\ state[q] = "ZOMBIE"
          /\ Unlink(q) /\ FreeKstack(q)
          /\ context' = [context EXCEPT ![q] = Popped]
          /\ state' = [state EXCEPT ![q] = "UNUSED"]
          /\ parent' = [parent EXCEPT ![q] = NoProc]
          /\ user' = [user EXCEPT ![q] = FALSE]
    BY <1>5, ReapedSlot
  <2>2. /\ state[q] \notin Alive /\ parent'[q] = NoProc
        /\ \A p \in Slots \ {q} : /\ state'[p] = state[p] /\ user'[p] = user[p]
                                  /\ parent'[p] = parent[p]
    BY <1>1, <2>1 DEF TypeOK, Alive
  <2>3. QED BY <1>3, <2>2
<1>6. CASE ForkFill(c) \/ ForkFail(c) \/ KthreaddFill(c) \/ KthreaddFail(c)
  <2>1. Claiming(c)
    <3>1. CASE ForkFill(c) \/ ForkFail(c)
      BY <3>1 DEF ForkFill, ForkFail, Claiming
    <3>2. CASE KthreaddFill(c) \/ KthreaddFail(c)
      BY <3>2 DEF KthreaddFill, KthreaddFail, Claiming
    <3>3. QED BY <1>6, <3>1, <3>2
  <2>2. PICK q \in Slots \ Threads : q = arg[c] /\ state[q] = "USED"
    BY <2>1, FillingSlot
  <2>3. \A p \in Slots \ {q} : /\ state'[p] = state[p] /\ user'[p] = user[p]
                               /\ parent'[p] = parent[p]
    BY <1>1, <1>6, <2>2 DEF ForkFill, ForkFail, KthreaddFill, KthreaddFail, FreeSlot, TypeOK
  <2>4. state'[q] = "UNUSED" \/ parent'[q] = NoProc \/ Lasts(parent[q])'
    <3>1. CASE ForkFail(c) \/ KthreaddFail(c)
      BY <1>1, <2>2, <3>1 DEF ForkFail, KthreaddFail, FreeSlot, TypeOK
    <3>2. CASE ForkFill(c)
      <4>1. pc[c] = "fork_fill" /\ parent'[q] = proc[c]
        BY <1>1, <2>2, <3>2 DEF ForkFill, TypeOK
      <4>2. Executes(c) /\ Place(c) = "fork_fill"
        BY <4>1 DEF Executes, Place, OffStack
      <4>3. /\ proc[c] \in Slots \ {q}
            /\ state[proc[c]] \in Alive /\ user[proc[c]]
        BY <2>2, <4>2, ExecutesSlot DEF Fits, UserPlaces, Alive
      <4>4. QED BY <2>3, <4>1, <4>3 DEF Lasts
    <3>3. CASE KthreaddFill(c)
      <4>1. parent'[q] = KthreaddTask
        BY <1>1, <2>2, <3>3 DEF KthreaddFill, TypeOK
      <4>2. state'[KthreaddTask] \in Alive
        BY <1>1, <2>2, <2>3, ThreadSlots DEF Kinds
      <4>3. QED BY <4>1, <4>2, ThreadSlots DEF Lasts
    <3>4. QED BY <1>6, <3>1, <3>2, <3>3
  <2>5. QED BY <1>3, <2>2, <2>3, <2>4 DEF Alive
<1>7. QED BY <1>2, <1>4, <1>5, <1>6

\* exit hands the children on before it gives up the slot; a kernel thread that
\* exits is nobody's parent.
LEMMA ParentsExit ==
  ASSUME IndInv, PlaceInv, Parents, NEW c \in CPUs, Exit(c) \/ KthreadExit(c)
  PROVE  Parents'
<1> DEFINE p == proc[c]
<1>1. TypeOK /\ Kinds
  BY DEF IndInv, PlaceInv
<1>2. CASE KthreadExit(c)
  <2>1. /\ pc[c] = "kthread" /\ UNCHANGED <<parent, user>>
        /\ state' = [state EXCEPT ![p] = "UNUSED"]
    BY <1>2 DEF KthreadExit
  <2>2. Executes(c) /\ Place(c) = "kthread"
    BY <2>1 DEF Executes, Place, OffStack
  <2>3. p \in Slots \ {Swapper} /\ ~Lasts(p)
    BY <2>2, ExecutesSlot DEF Fits, Lasts
  <2>4. \A q \in Slots \ {p} : state'[q] = state[q]
    BY <1>1, <2>1 DEF TypeOK
  <2>5. \A q \in Slots : Lasts(q) => Lasts(q)'
    <3> SUFFICES ASSUME NEW q \in Slots, Lasts(q) PROVE Lasts(q)'
      OBVIOUS
    <3>1. q # p
      BY <2>3
    <3>2. QED BY <2>1, <2>4, <3>1 DEF Lasts
  <2>6. \A q \in Slots : state'[q] # "UNUSED" => state[q] # "UNUSED"
    BY <1>1, <2>1, <2>3 DEF TypeOK
  <2>7. QED BY <1>1, <2>1, <2>5, <2>6, ParentsKept
<1>3. CASE Exit(c)
  <2>1. /\ pc[c] = "user" /\ Reparent(p)
        /\ user' = [user EXCEPT ![p] = FALSE]
        /\ state' = [state EXCEPT ![p] = "ZOMBIE"]
    BY <1>3 DEF Exit
  <2>2. Executes(c)
    BY <2>1 DEF Executes, Place, OffStack
  <2>3. p \in Slots \ {Swapper, InitProc}
    BY <1>3, <2>2, ExecutesSlot DEF Exit
  <2>4. \A q \in Slots \ {p} : Lasts(q) => state'[q] = state[q] /\ user'[q] = user[q]
    BY <1>1, <2>1 DEF TypeOK
  <2>5. Lasts(InitProc)'
    BY <1>1, <2>1, <2>3, ThreadSlots DEF Lasts, Kinds, TypeOK
  <2> SUFFICES ASSUME NEW r \in Slots, state'[r] # "UNUSED", parent'[r] # NoProc
               PROVE  Lasts(parent[r])'
    BY DEF Parents
  <2>6. state[r] # "UNUSED"
    <3>1. CASE r = p
      <4>1. state[p] \in Alive
        BY <2>2, ExecutesSlot
      <4>2. QED BY <3>1, <4>1 DEF Alive
    <3>2. CASE r # p
      BY <1>1, <2>1, <3>2 DEF TypeOK
    <3>3. QED BY <3>1, <3>2
  <2>7. CASE parent[r] = p
    <3>1. parent'[r] = InitProc
      BY <2>1, <2>6, <2>7 DEF Reparent
    <3>2. QED BY <2>5, <3>1 DEF Lasts
  <2>8. CASE parent[r] # p
    <3>1. parent'[r] = parent[r]
      BY <2>1, <2>8 DEF Reparent
    <3>2. parent[r] \in Slots \ {p} /\ Lasts(parent[r])
      BY <1>1, <2>6, <2>8, <3>1 DEF Parents, TypeOK
    <3>3. QED BY <2>4, <3>1, <3>2 DEF Lasts
  <2>9. QED BY <2>7, <2>8
<1>4. QED BY <1>2, <1>3

\* Every step keeps Parents.
LEMMA ParentsStep ==
  ASSUME IndInv, PlaceInv, Parents, [Next]_vars
  PROVE  Parents'
<1>1. CASE UNCHANGED vars
  BY <1>1 DEF vars, schedVars, tableVars, Parents, Lasts
<1>2. ASSUME NEW c \in CPUs, SchedStep(c)
      PROVE  Parents'
  BY <1>2, ParentsUnmoved
<1>3. ASSUME NEW c \in CPUs, ProcStep(c)
      PROVE  Parents'
  BY <1>3, ParentsUnmoved, ParentsSet, ParentsExit DEF ProcStep
<1>4. ASSUME NEW c \in CPUs, KthreadStep(c)
      PROVE  Parents'
  BY <1>4, ParentsUnmoved, ParentsSet, ParentsExit DEF KthreadStep
<1>5. QED BY <1>1, <1>2, <1>3, <1>4 DEF Next, CpuStep, Stopped

===============================================================================

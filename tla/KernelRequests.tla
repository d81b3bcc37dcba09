---------------------------- MODULE KernelRequests ----------------------------
(***************************************************************************)
(* The requests to kthreadd: a creator that sleeps has a request that is   *)
(* still to be served.                                                     *)
(***************************************************************************)
EXTENDS KernelPlaces

USE SchedAssumption, Zenon

\* The channels of different sleeps are different.
LEMMA ChansDiffer ==
  ASSUME NEW p \in Slots, NEW q \in Slots
  PROVE  /\ InfoChan(p) \notin {NoChan, ListChan, ProcChan(q)}
         /\ InfoChan(p) = InfoChan(q) => p = q
BY DEF InfoChan, NoChan, ListChan, ProcChan

\* No process falls asleep on its request in this step.
NoneAsks ==
  \A p \in Slots : state'[p] = "SLEEPING" /\ chan'[p] = InfoChan(p) =>
                     state[p] = "SLEEPING" /\ chan[p] = InfoChan(p)

\* The step of c begins no request, and ends no service.
GoesOn(c) ==
  /\ Executes(c)' => /\ Executes(c) /\ proc'[c] = proc[c]
                     /\ Place(c)' \in AskPlaces => Place(c) \in AskPlaces
  /\ pc[c] \in ServePlaces => pc'[c] \in ServePlaces

\* Contexts that change are not those of processes being executed.
ContextsApart ==
  \A p \in Slots :
    \/ context'[p].at \in {context[p].at, "popped", "dead"}
    \/ /\ context'[p].at # "created"
       /\ crash' = "none" => \A d \in CPUs : Executes(d)' => proc'[d] # p

\* The step rule for steps that leave the requests alone.
LEMMA RequestsKept ==
  ASSUME IndInv, IndInv', PlaceInv, Requests, crash = "none", NEW c \in CPUs, OnlyCpu(c), GoesOn(c),
         ContextsApart, NoneAsks, UNCHANGED kthreadVars
  PROVE  Requests'
<1>1. UNCHANGED <<create_list, serving, served>> /\ Pending' = Pending
  BY DEF kthreadVars, Pending, Listed
<1>2. \A d \in CPUs : Executes(d)' => /\ Executes(d) /\ proc'[d] = proc[d] /\ proc[d] \in Slots
                                      /\ Place(d)' \in AskPlaces => Place(d) \in AskPlaces
  <2> SUFFICES ASSUME NEW d \in CPUs, Executes(d)'
               PROVE  /\ Executes(d) /\ proc'[d] = proc[d]
                      /\ Place(d)' \in AskPlaces => Place(d) \in AskPlaces
    BY ExecutesSlot
  <2>1. CASE d = c
    BY <2>1 DEF GoesOn
  <2>2. CASE d # c
    BY <2>2 DEF OnlyCpu, Executes, Place
  <2>3. QED BY <2>1, <2>2
<1>3. crash' = "none" => Fresh'
  <2> SUFFICES ASSUME crash' = "none", NEW d \in CPUs, Executes(d)'
               PROVE  context'[proc'[d]].at \in {"popped", "dead"}
    BY DEF Fresh
  <2>1. proc[d] \in Slots /\ proc'[d] = proc[d] /\ context[proc[d]].at \in {"popped", "dead"}
    BY <1>2 DEF Requests, Fresh
  <2>2. QED BY <2>1 DEF ContextsApart
<1>4. \A d \in CPUs : Executes(d)' /\ Place(d)' \in AskPlaces => proc'[d] \in Pending
  BY <1>2 DEF Requests
<1>5. \A p \in Slots : context'[p].at = "created" => p \in Pending
  BY DEF Requests, ContextsApart
<1>6. serving # NoProc => \E d \in CPUs : pc'[d] \in ServePlaces
  <2> SUFFICES ASSUME NEW d \in CPUs, pc[d] \in ServePlaces PROVE pc'[d] \in ServePlaces
    BY DEF Requests
  <2>1. CASE d = c
    BY <2>1 DEF GoesOn
  <2>2. CASE d # c
    BY <2>2 DEF OnlyCpu
  <2>3. QED BY <2>1, <2>2
<1>7. CreatorServed'
  <2> SUFFICES ASSUME NEW p \in Slots, state'[p] = "SLEEPING", chan'[p] = InfoChan(p)
               PROVE  /\ p \notin served
                      /\ p = serving \/ \E i \in DOMAIN create_list : create_list[i] = p
    BY <1>1 DEF CreatorServed, InfoChan
  <2>1. QED BY DEF NoneAsks, Requests, CreatorServed
<1>8. QED BY <1>1, <1>3, <1>4, <1>5, <1>6, <1>7 DEF Requests

\* The usual moves: c stays in code that asks for nothing, or goes to sched().
LEMMA MovesOn ==
  ASSUME NEW c \in CPUs, pc[c] \notin OffStack \cup {"sched", "exit_wake", "dead"}, proc'[c] = proc[c],
         pc'[c] \in AskPlaces => pc[c] \in AskPlaces,
         pc'[c] = "sched" => ret'[c] \notin AskPlaces,
         pc[c] \in ServePlaces => pc'[c] \in ServePlaces
  PROVE  GoesOn(c)
<1>1. Executes(c) /\ Place(c) = pc[c]
  BY DEF Executes, Place
<1>2. QED BY <1>1 DEF GoesOn, Place

\* Where c executes no process after the step.
LEMMA MovesOff ==
  ASSUME NEW c \in CPUs, ~Executes(c)', pc[c] \notin ServePlaces
  PROVE  GoesOn(c)
BY DEF GoesOn

\* Steps after which no process sleeps on its request that did not before.
LEMMA NoneAsksSame ==
  ASSUME UNCHANGED <<state, chan>>
  PROVE  NoneAsks
BY DEF NoneAsks

\* A wake-up puts nobody to sleep.
LEMMA NoneAsksWake ==
  ASSUME NEW S, WakeAll(S)
  PROVE  NoneAsks
BY DEF NoneAsks, WakeAll

\* Nor does taking a free slot.
LEMMA NoneAsksClaim ==
  ASSUME TypeOK, NEW q \in Slots, ClaimSlot(q)
  PROVE  NoneAsks
BY DEF NoneAsks, ClaimSlot, TypeOK

\* Steps that leave the contexts, or drop one.
LEMMA ContextsSame ==
  ASSUME UNCHANGED context
  PROVE  ContextsApart
BY DEF ContextsApart

\* scheduler() does not rebuild the context of a process that a CPU still executes
\* unless it panics or corrupts the stack.
LEMMA ContextsSchedule ==
  ASSUME IndInv, PlaceInv, PlaceInv', NEW c \in CPUs, Schedule(c)
  PROVE  ContextsApart
<1> DEFINE p == Head(runqueue)
<1>1. TypeOK /\ QueueIsRunnable /\ OneExecutes
  BY DEF IndInv, PlaceInv
<1>2. p \in Slots /\ UNCHANGED <<kstack, stack, user>> /\ pc'[c] = "swtch"
  BY <1>1, HeadRunnable DEF Schedule, Goto, TypeOK
<1>3. PICK sane \in ContextSane(p) :
        /\ context' = IF sane THEN context
                      ELSE [context EXCEPT ![p] = Saved(EntryPoint(p), NoProc, kstack[p])]
        /\ crash' = IF state[p] # "RUNNABLE" \/ kstack[p] = NoPage THEN "panic"
                    ELSE IF ~sane /\ OnStack(kstack[p]) # {} THEN "stack" ELSE crash
  BY DEF Schedule, PrepareContext
<1>4. CASE sane
  BY <1>3, <1>4, ContextsSame
<1>5. CASE ~sane
  <2>1. /\ \A q \in Slots \ {p} : context'[q] = context[q]
        /\ context'[p].at = EntryPoint(p) /\ EntryPoint(p) # "created"
    BY <1>1, <1>2, <1>3, <1>5 DEF TypeOK, Saved, EntryPoint
  <2>2. ASSUME crash' = "none", NEW d \in CPUs, Executes(d)', proc'[d] = p
        PROVE  FALSE
    <3>1. d # c
      BY <1>2, <2>2 DEF Executes, OffStack
    <3>2. OnlyCpu(c)
      BY <1>1, SchedOnlyCpu DEF SchedStep
    <3>3. Executes(d) /\ proc[d] = p
      BY <2>2, <3>1, <3>2 DEF OnlyCpu, Executes, Place
    <3>4. kstack[p] \in {stack[d], NoPage}
      BY <1>1, <3>3 DEF OneExecutes
    <3>5. kstack[p] = NoPage \/ OnStack(kstack[p]) # {}
      BY <3>4 DEF OnStack
    <3>6. QED BY <1>3, <1>5, <2>2, <3>5
  <2>3. QED BY <2>1, <2>2 DEF ContextsApart
<1>6. QED BY <1>4, <1>5

\* fork_copy and kthread_create_sync make the context of a process that does not
\* run yet.
LEMMA ContextsFill ==
  ASSUME IndInv, IndInv', PlaceInv, PlaceInv', NEW c \in CPUs, ForkFill(c) \/ KthreaddFill(c)
  PROVE  ContextsApart
<1>1. TypeOK
  BY DEF IndInv
<1>2. Claiming(c)
  BY DEF ForkFill, KthreaddFill, Claiming
<1>3. PICK q \in Slots : q = arg[c] /\ state[q] = "USED"
  BY <1>2, FillingSlot
<1>4. PICK at, page : at \in {"user", "kthread"} /\ context' = [context EXCEPT ![q] = Saved(at, NoProc, page)]
  BY <1>3, SMT DEF ForkFill, KthreaddFill
<1>5. state'[q] = "USED"
  BY <1>3 DEF ForkFill, KthreaddFill
<1>6. \A d \in CPUs : Executes(d)' => proc'[d] # q
  BY <1>5 DEF PlaceInv, Kinds, Alive
<1>7. /\ context'[q].at # "created" /\ \A p \in Slots \ {q} : context'[p] = context[p]
  BY <1>1, <1>4 DEF TypeOK, Saved
<1>8. QED BY <1>6, <1>7 DEF ContextsApart

\* The steps of the scheduler outside swtch leave the requests alone.
LEMMA RequestsSched ==
  ASSUME IndInv, IndInv', PlaceInv, PlaceInv', Requests, crash = "none", NEW c \in CPUs,
         UNCHANGED kthreadVars, SchedStep(c), ~SwitchTo(c), ~Sched(c)
  PROVE  Requests'
<1>1. TypeOK /\ Placed /\ Claims /\ QueueIsRunnable /\ RunningOnOneCpu
  BY DEF IndInv
<1>2. OnlyCpu(c)
  BY <1>1, SchedOnlyCpu DEF SchedStep
<1>3. CASE Schedule(c)
  <2>1. pc[c] = "idle" /\ pc'[c] = "swtch"
    BY <1>1, <1>3 DEF Schedule, Goto, TypeOK
  <2>2. GoesOn(c)
    BY <2>1, MovesOff DEF Executes, Place, OffStack, ServePlaces
  <2>3. ContextsApart
    BY <1>3, ContextsSchedule
  <2>4. NoneAsks
    <3>1. /\ Head(runqueue) \in Slots /\ chan' = chan
          /\ state' = [state EXCEPT ![Head(runqueue)] = "RUNNING"]
      BY <1>1, <1>3, HeadRunnable DEF Schedule
    <3>2. QED BY <1>1, <3>1 DEF NoneAsks, TypeOK
  <2>5. QED BY <1>2, <2>2, <2>3, <2>4, RequestsKept
<1>4. CASE Back(c)
  <2>1. pc[c] = "back" /\ pc'[c] \in {"idle", "reap"}
    BY <1>1, <1>4 DEF Back, Goto, TypeOK
  <2>2. GoesOn(c)
    BY <2>1, MovesOff DEF Executes, Place, OffStack, ServePlaces
  <2>3. ContextsApart
    BY <1>4, ContextsSame DEF Back, tableVars
  <2>4. NoneAsks
    BY <1>4, NoneAsksSame DEF Back, tableVars
  <2>5. QED BY <1>2, <2>2, <2>3, <2>4, RequestsKept
<1>5. CASE Reap(c)
  <2>1. pc[c] = "reap" /\ pc'[c] = "idle"
    BY <1>1, <1>5 DEF Reap, Goto, TypeOK
  <2>2. GoesOn(c)
    BY <2>1, MovesOff DEF Executes, Place, OffStack, ServePlaces
  <2>3. ContextsApart
    BY <1>5, ContextsSame DEF Reap
  <2>4. NoneAsks
    BY <1>5, NoneAsksSame DEF Reap
  <2>5. QED BY <1>2, <2>2, <2>3, <2>4, RequestsKept
<1>6. CASE TickKernel(c)
  <2>1. pc[c] \in {"idle", "swtch"} /\ pc' = pc
    BY <1>1, <1>6 DEF TickKernel, Goto, TypeOK, cpuVars
  <2>2. GoesOn(c)
    BY <2>1, MovesOff DEF Executes, Place, OffStack, ServePlaces
  <2>3. ContextsApart
    BY <1>6, ContextsSame DEF TickKernel
  <2>4. NoneAsks
    BY <1>6, NoneAsksWake DEF TickKernel, TickWake
  <2>5. QED BY <1>2, <2>2, <2>3, <2>4, RequestsKept
<1>7. CASE TickUser(c)
  <2>1. pc[c] = "user" /\ pc'[c] = "tick" /\ proc'[c] = proc[c]
    BY <1>1, <1>7 DEF TickUser, Goto, TypeOK
  <2>2. GoesOn(c)
    BY <2>1, MovesOn DEF OffStack, AskPlaces, ServePlaces
  <2>3. ContextsApart
    BY <1>7, ContextsSame DEF TickUser
  <2>4. NoneAsks
    BY <1>7, NoneAsksWake DEF TickUser, TickWake
  <2>5. QED BY <1>2, <2>2, <2>3, <2>4, RequestsKept
<1>8. CASE TickResched(c)
  <2>1. pc[c] = "tick" /\ pc'[c] \in {"preempt", "user"} /\ proc'[c] = proc[c]
    BY <1>1, <1>8 DEF TickResched, Goto, TypeOK
  <2>2. GoesOn(c)
    BY <2>1, MovesOn DEF OffStack, AskPlaces, ServePlaces
  <2>3. ContextsApart
    BY <1>8, ContextsSame DEF TickResched, tableVars
  <2>4. NoneAsks
    BY <1>8, NoneAsksSame DEF TickResched, tableVars
  <2>5. QED BY <1>2, <2>2, <2>3, <2>4, RequestsKept
<1>9. CASE PreemptCheck(c)
  <2>1. pc[c] = "preempt" /\ pc'[c] \in {"yield", "user"} /\ proc'[c] = proc[c]
    BY <1>1, <1>9 DEF PreemptCheck, Goto, TypeOK
  <2>2. GoesOn(c)
    BY <2>1, MovesOn DEF OffStack, AskPlaces, ServePlaces
  <2>3. ContextsApart
    BY <1>9, ContextsSame DEF PreemptCheck, tableVars
  <2>4. NoneAsks
    BY <1>9, NoneAsksSame DEF PreemptCheck, tableVars
  <2>5. QED BY <1>2, <2>2, <2>3, <2>4, RequestsKept
<1>10. CASE Yield(c)
  <2>1. /\ pc[c] \in {"yield", "kthread"} /\ pc'[c] = "sched" /\ proc'[c] = proc[c]
        /\ ret'[c] \in {"user", "kthread"}
    BY <1>1, <1>10 DEF Yield, Goto, TypeOK
  <2>2. GoesOn(c)
    BY <2>1, MovesOn DEF OffStack, AskPlaces, ServePlaces
  <2>3. ContextsApart
    BY <1>10, ContextsSame DEF Yield
  <2>4. NoneAsks
    <3>1. proc[c] \in Slots
      BY <1>1, <2>1, RunsHere
    <3>2. chan' = chan /\ state' = [state EXCEPT ![proc[c]] = "RUNNABLE"]
      BY <1>10 DEF Yield
    <3>3. QED BY <1>1, <3>1, <3>2 DEF NoneAsks, TypeOK
  <2>5. QED BY <1>2, <2>2, <2>3, <2>4, RequestsKept
<1>11. CASE SleepTicks(c)
  <2>1. /\ pc[c] \in {"user", "kthread"} /\ pc'[c] = "sched" /\ proc'[c] = proc[c]
        /\ ret'[c] \in {"user", "kthread"}
    BY <1>1, <1>11 DEF SleepTicks, Goto, TypeOK, SleepOn
  <2>2. GoesOn(c)
    BY <2>1, MovesOn DEF OffStack, AskPlaces, ServePlaces
  <2>3. ContextsApart
    BY <1>11, ContextsSame DEF SleepTicks
  <2>4. NoneAsks
    <3>1. proc[c] \in Slots
      BY <1>1, <2>1, RunsHere
    <3>2. /\ state' = [state EXCEPT ![proc[c]] = "SLEEPING"]
          /\ chan' = [chan EXCEPT ![proc[c]] = NoChan] /\ NoChan # InfoChan(proc[c])
      BY <1>11, <3>1, ChansDiffer DEF SleepTicks, SleepOn
    <3>3. QED BY <1>1, <3>1, <3>2 DEF NoneAsks, TypeOK
  <2>5. QED BY <1>2, <2>2, <2>3, <2>4, RequestsKept
<1>12. QED BY <1>3, <1>4, <1>5, <1>6, <1>7, <1>8, <1>9, <1>10, <1>11 DEF SchedStep

\* The steps of fork, exit, waitpid and kill leave the requests alone.
LEMMA RequestsProc ==
  ASSUME IndInv, IndInv', PlaceInv, PlaceInv', Requests, crash = "none", NEW c \in CPUs,
         UNCHANGED kthreadVars, ProcStep(c)
  PROVE  Requests'
<1>1. TypeOK /\ Placed /\ Claims /\ QueueIsRunnable /\ RunningOnOneCpu
  BY DEF IndInv
<1>2. OnlyCpu(c)
  BY <1>1, ProcOnlyCpu DEF ProcStep
<1>3. CASE KernelInit(c)
  <2>1. pc[c] = "kernel_init" /\ pc'[c] = "user" /\ proc'[c] = proc[c]
    BY <1>1, <1>3 DEF KernelInit, Goto, TypeOK
  <2>2. GoesOn(c)
    BY <2>1, MovesOn DEF OffStack, AskPlaces, ServePlaces
  <2>3. ContextsApart
    BY <1>3, ContextsSame DEF KernelInit
  <2>4. NoneAsks
    BY <1>3, NoneAsksSame DEF KernelInit
  <2>5. QED BY <1>2, <2>2, <2>3, <2>4, RequestsKept
<1>4. CASE ForkAlloc(c)
  <2>1. pc[c] = "user" /\ pc'[c] = "fork_fill" /\ proc'[c] = proc[c]
    BY <1>1, <1>4 DEF ForkAlloc, Goto, TypeOK
  <2>2. GoesOn(c)
    BY <2>1, MovesOn DEF OffStack, AskPlaces, ServePlaces
  <2>3. ContextsApart
    <3>1. PICK q \in Slots : ClaimSlot(q)
      BY <1>4 DEF ForkAlloc
    <3>2. QED BY <1>1, <3>1 DEF ClaimSlot, ContextsApart, TypeOK, Popped
  <2>4. NoneAsks
    BY <1>1, <1>4, NoneAsksClaim DEF ForkAlloc
  <2>5. QED BY <1>2, <2>2, <2>3, <2>4, RequestsKept
<1>5. CASE ForkFill(c)
  <2>1. pc[c] = "fork_fill" /\ pc'[c] = "fork_publish" /\ proc'[c] = proc[c]
    BY <1>1, <1>5 DEF ForkFill, Goto, TypeOK
  <2>2. GoesOn(c)
    BY <2>1, MovesOn DEF OffStack, AskPlaces, ServePlaces
  <2>3. ContextsApart
    BY <1>5, ContextsFill
  <2>4. NoneAsks
    BY <1>5, NoneAsksSame DEF ForkFill
  <2>5. QED BY <1>2, <2>2, <2>3, <2>4, RequestsKept
<1>6. CASE ForkFail(c)
  <2>1. pc[c] = "fork_fill" /\ pc'[c] = "user" /\ proc'[c] = proc[c]
    BY <1>1, <1>6 DEF ForkFail, Goto, TypeOK
  <2>2. GoesOn(c)
    BY <2>1, MovesOn DEF OffStack, AskPlaces, ServePlaces
  <2>3. ContextsApart
    <3>1. arg[c] \in Slots
      BY <1>1, <2>1 DEF Claims, Claiming
    <3>2. context' = [context EXCEPT ![arg[c]] = Popped]
      BY <1>6 DEF ForkFail, FreeSlot
    <3>3. QED BY <1>1, <3>1, <3>2 DEF ContextsApart, TypeOK, Popped
  <2>4. NoneAsks
    <3>1. arg[c] \in Slots
      BY <1>1, <2>1 DEF Claims, Claiming
    <3>2. chan' = chan /\ state' = [state EXCEPT ![arg[c]] = "UNUSED"]
      BY <1>6 DEF ForkFail, FreeSlot
    <3>3. QED BY <1>1, <3>1, <3>2 DEF NoneAsks, TypeOK
  <2>5. QED BY <1>2, <2>2, <2>3, <2>4, RequestsKept
<1>7. CASE ForkPublish(c)
  <2>1. pc[c] = "fork_publish" /\ pc'[c] = "user" /\ proc'[c] = proc[c]
    BY <1>1, <1>7 DEF ForkPublish, Goto, TypeOK
  <2>2. GoesOn(c)
    BY <2>1, MovesOn DEF OffStack, AskPlaces, ServePlaces
  <2>3. ContextsApart
    BY <1>7, ContextsSame DEF ForkPublish
  <2>4. NoneAsks
    <3>1. arg[c] \in Slots
      BY <1>1, <2>1 DEF Claims, Claiming
    <3>2. chan' = chan /\ state' = [state EXCEPT ![arg[c]] = "RUNNABLE"]
      BY <1>7 DEF ForkPublish
    <3>3. QED BY <1>1, <3>1, <3>2 DEF NoneAsks, TypeOK
  <2>5. QED BY <1>2, <2>2, <2>3, <2>4, RequestsKept
<1>8. CASE Exit(c)
  <2>1. pc[c] = "user" /\ pc'[c] = "exit_wake"
    BY <1>1, <1>8 DEF Exit, Goto, TypeOK
  <2>2. GoesOn(c)
    BY <2>1, MovesOff DEF Executes, Place, OffStack, ServePlaces
  <2>3. ContextsApart
    <3>1. proc[c] \in Slots
      BY <1>1, <2>1, RunsHere
    <3>2. context' = [context EXCEPT ![proc[c]] = Popped]
      BY <1>8 DEF Exit
    <3>3. QED BY <1>1, <3>1, <3>2 DEF ContextsApart, TypeOK, Popped
  <2>4. NoneAsks
    <3>1. proc[c] \in Slots
      BY <1>1, <2>1, RunsHere
    <3>2. chan' = chan /\ state' = [state EXCEPT ![proc[c]] = "ZOMBIE"]
      BY <1>8 DEF Exit
    <3>3. QED BY <1>1, <3>1, <3>2 DEF NoneAsks, TypeOK
  <2>5. QED BY <1>2, <2>2, <2>3, <2>4, RequestsKept
<1>9. CASE ExitWake(c)
  <2>1. pc[c] = "exit_wake" /\ pc'[c] = "sched" /\ ret'[c] = "dead"
    BY <1>1, <1>9 DEF ExitWake, Goto, TypeOK
  <2>2. GoesOn(c)
    BY <2>1, MovesOff DEF Executes, Place, OffStack, ServePlaces
  <2>3. ContextsApart
    BY <1>9, ContextsSame DEF ExitWake
  <2>4. NoneAsks
    BY <1>9, NoneAsksWake DEF ExitWake
  <2>5. QED BY <1>2, <2>2, <2>3, <2>4, RequestsKept
<1>10. CASE WaitReap(c)
  <2>1. pc[c] \in {"user", "wait"} /\ pc'[c] = "user" /\ proc'[c] = proc[c]
    BY <1>1, <1>10, SMT DEF WaitReap, Goto, TypeOK, WaitTargets
  <2>2. GoesOn(c)
    BY <2>1, MovesOn DEF OffStack, AskPlaces, ServePlaces
  <2>3. ContextsApart
    <3>1. PICK q \in Slots :
            /\ state[q] = "ZOMBIE"
            /\ Unlink(q) /\ FreeKstack(q)
            /\ context' = [context EXCEPT ![q] = Popped]
            /\ state' = [state EXCEPT ![q] = "UNUSED"]
            /\ parent' = [parent EXCEPT ![q] = NoProc]
            /\ user' = [user EXCEPT ![q] = FALSE]
      BY <1>10, ReapedSlot
    <3>2. QED BY <1>1, <3>1 DEF ContextsApart, TypeOK, Popped
  <2>4. NoneAsks
    <3>1. PICK q \in Slots :
            /\ state[q] = "ZOMBIE"
            /\ Unlink(q) /\ FreeKstack(q)
            /\ context' = [context EXCEPT ![q] = Popped]
            /\ state' = [state EXCEPT ![q] = "UNUSED"]
            /\ parent' = [parent EXCEPT ![q] = NoProc]
            /\ user' = [user EXCEPT ![q] = FALSE]
      BY <1>10, ReapedSlot
    <3>2. chan' = chan
      BY <1>10 DEF WaitReap
    <3>3. QED BY <1>1, <3>1, <3>2 DEF NoneAsks, TypeOK
  <2>5. QED BY <1>2, <2>2, <2>3, <2>4, RequestsKept
<1>11. CASE WaitNone(c)
  <2>1. pc[c] \in {"user", "wait"} /\ pc'[c] \in {"user", "wait_sleep"} /\ proc'[c] = proc[c]
    BY <1>1, <1>11 DEF WaitNone, Goto, TypeOK, WaitTargets
  <2>2. GoesOn(c)
    BY <2>1, MovesOn DEF OffStack, AskPlaces, ServePlaces
  <2>3. ContextsApart
    BY <1>11, ContextsSame DEF WaitNone, tableVars
  <2>4. NoneAsks
    BY <1>11, NoneAsksSame DEF WaitNone, tableVars
  <2>5. QED BY <1>2, <2>2, <2>3, <2>4, RequestsKept
<1>12. CASE WaitSleep(c)
  <2>1. /\ pc[c] = "wait_sleep" /\ pc'[c] = "sched" /\ proc'[c] = proc[c]
        /\ ret'[c] = "wait"
    BY <1>1, <1>12 DEF WaitSleep, Goto, TypeOK, SleepOn
  <2>2. GoesOn(c)
    BY <2>1, MovesOn DEF OffStack, AskPlaces, ServePlaces
  <2>3. ContextsApart
    BY <1>12, ContextsSame DEF WaitSleep
  <2>4. NoneAsks
    <3>1. proc[c] \in Slots
      BY <1>1, <2>1, RunsHere
    <3>2. /\ state' = [state EXCEPT ![proc[c]] = "SLEEPING"]
          /\ chan' = [chan EXCEPT ![proc[c]] = ProcChan(proc[c])] /\ ProcChan(proc[c]) # InfoChan(proc[c])
      BY <1>12, <3>1, ChansDiffer DEF WaitSleep, SleepOn
    <3>3. QED BY <1>1, <3>1, <3>2 DEF NoneAsks, TypeOK
  <2>5. QED BY <1>2, <2>2, <2>3, <2>4, RequestsKept
<1>13. CASE SignalSend(c)
  <2>1. pc[c] = "user" /\ pc' = pc /\ proc'[c] = proc[c]
    BY <1>1, <1>13 DEF SignalSend, Goto, TypeOK, cpuVars
  <2>2. GoesOn(c)
    BY <2>1, MovesOn DEF OffStack, AskPlaces, ServePlaces
  <2>3. ContextsApart
    BY <1>13, ContextsSame DEF SignalSend
  <2>4. NoneAsks
    BY <1>13, NoneAsksWake DEF SignalSend
  <2>5. QED BY <1>2, <2>2, <2>3, <2>4, RequestsKept
<1>14. QED BY <1>3, <1>4, <1>5, <1>6, <1>7, <1>8, <1>9, <1>10, <1>11, <1>12, <1>13 DEF ProcStep

\* The steps of kthread_create and kthreadd that neither queue, take nor answer a
\* request.
LEMMA RequestsKthread ==
  ASSUME IndInv, IndInv', PlaceInv, PlaceInv', Requests, crash = "none", NEW c \in CPUs,
         \/ CreateWake(c) \/ KthreaddEmpty(c) \/ KthreaddSleep(c) \/ KthreaddAlloc(c)
         \/ KthreaddNoSlot(c) \/ KthreaddFill(c) \/ KthreaddFail(c) \/ KthreaddPublish(c)
         \/ KthreadExit(c)
  PROVE  Requests'
<1>1. TypeOK /\ Placed /\ Claims /\ QueueIsRunnable /\ RunningOnOneCpu
  BY DEF IndInv
<1>2. OnlyCpu(c) /\ UNCHANGED kthreadVars
  <2>1. OnlyCpu(c)
    BY <1>1, KthreadOnlyCpu DEF KthreadStep
  <2>2. CASE CreateWake(c) \/ KthreaddEmpty(c) \/ KthreaddSleep(c) \/ KthreaddAlloc(c)
    BY <2>1, <2>2 DEF CreateWake, KthreaddEmpty, KthreaddSleep, KthreaddAlloc
  <2>3. CASE KthreaddNoSlot(c) \/ KthreaddFill(c) \/ KthreaddFail(c)
    BY <2>1, <2>3 DEF KthreaddNoSlot, KthreaddFill, KthreaddFail
  <2>4. CASE KthreaddPublish(c) \/ KthreadExit(c)
    BY <2>1, <2>4 DEF KthreaddPublish, KthreadExit
  <2>5. QED BY <2>1, <2>2, <2>3, <2>4
<1>3. CASE CreateWake(c)
  <2>1. pc[c] = "create_wake" /\ pc'[c] = "created" /\ proc'[c] = proc[c]
    BY <1>1, <1>3 DEF CreateWake, Goto, TypeOK
  <2>2. GoesOn(c)
    BY <2>1, MovesOn DEF OffStack, AskPlaces, ServePlaces
  <2>3. ContextsApart
    BY <1>3, ContextsSame DEF CreateWake
  <2>4. NoneAsks
    BY <1>3, NoneAsksWake DEF CreateWake
  <2>5. QED BY <1>2, <2>2, <2>3, <2>4, RequestsKept
<1>4. CASE KthreaddEmpty(c)
  <2>1. pc[c] = "kthreadd" /\ pc'[c] = "kthreadd_sleep" /\ proc'[c] = proc[c]
    BY <1>1, <1>4 DEF KthreaddEmpty, Goto, TypeOK
  <2>2. GoesOn(c)
    BY <2>1, MovesOn DEF OffStack, AskPlaces, ServePlaces
  <2>3. ContextsApart
    BY <1>4, ContextsSame DEF KthreaddEmpty, tableVars
  <2>4. NoneAsks
    BY <1>4, NoneAsksSame DEF KthreaddEmpty, tableVars
  <2>5. QED BY <1>2, <2>2, <2>3, <2>4, RequestsKept
<1>5. CASE KthreaddSleep(c)
  <2>1. /\ pc[c] = "kthreadd_sleep" /\ pc'[c] = "sched" /\ proc'[c] = proc[c]
        /\ ret'[c] = "kthreadd"
    BY <1>1, <1>5 DEF KthreaddSleep, Goto, TypeOK, SleepOn
  <2>2. GoesOn(c)
    BY <2>1, MovesOn DEF OffStack, AskPlaces, ServePlaces
  <2>3. ContextsApart
    BY <1>5, ContextsSame DEF KthreaddSleep
  <2>4. NoneAsks
    <3>1. proc[c] \in Slots
      BY <1>1, <2>1, RunsHere
    <3>2. /\ state' = [state EXCEPT ![proc[c]] = "SLEEPING"]
          /\ chan' = [chan EXCEPT ![proc[c]] = ListChan] /\ ListChan # InfoChan(proc[c])
      BY <1>5, <3>1, ChansDiffer DEF KthreaddSleep, SleepOn
    <3>3. QED BY <1>1, <3>1, <3>2 DEF NoneAsks, TypeOK
  <2>5. QED BY <1>2, <2>2, <2>3, <2>4, RequestsKept
<1>6. CASE KthreaddAlloc(c)
  <2>1. pc[c] = "kthreadd_alloc" /\ pc'[c] = "kthreadd_fill" /\ proc'[c] = proc[c]
    BY <1>1, <1>6 DEF KthreaddAlloc, Goto, TypeOK
  <2>2. GoesOn(c)
    BY <2>1, MovesOn DEF OffStack, AskPlaces, ServePlaces
  <2>3. ContextsApart
    <3>1. PICK q \in Slots : ClaimSlot(q)
      BY <1>6 DEF KthreaddAlloc
    <3>2. QED BY <1>1, <3>1 DEF ClaimSlot, ContextsApart, TypeOK, Popped
  <2>4. NoneAsks
    BY <1>1, <1>6, NoneAsksClaim DEF KthreaddAlloc
  <2>5. QED BY <1>2, <2>2, <2>3, <2>4, RequestsKept
<1>7. CASE KthreaddNoSlot(c)
  <2>1. pc[c] = "kthreadd_alloc" /\ pc'[c] = "kthreadd_done" /\ proc'[c] = proc[c]
    BY <1>1, <1>7 DEF KthreaddNoSlot, Goto, TypeOK
  <2>2. GoesOn(c)
    BY <2>1, MovesOn DEF OffStack, AskPlaces, ServePlaces
  <2>3. ContextsApart
    BY <1>7, ContextsSame DEF KthreaddNoSlot, tableVars
  <2>4. NoneAsks
    BY <1>7, NoneAsksSame DEF KthreaddNoSlot, tableVars
  <2>5. QED BY <1>2, <2>2, <2>3, <2>4, RequestsKept
<1>8. CASE KthreaddFill(c)
  <2>1. pc[c] = "kthreadd_fill" /\ pc'[c] = "kthreadd_publish" /\ proc'[c] = proc[c]
    BY <1>1, <1>8 DEF KthreaddFill, Goto, TypeOK
  <2>2. GoesOn(c)
    BY <2>1, MovesOn DEF OffStack, AskPlaces, ServePlaces
  <2>3. ContextsApart
    BY <1>8, ContextsFill
  <2>4. NoneAsks
    BY <1>8, NoneAsksSame DEF KthreaddFill
  <2>5. QED BY <1>2, <2>2, <2>3, <2>4, RequestsKept
<1>9. CASE KthreaddFail(c)
  <2>1. pc[c] = "kthreadd_fill" /\ pc'[c] = "kthreadd_done" /\ proc'[c] = proc[c]
    BY <1>1, <1>9 DEF KthreaddFail, Goto, TypeOK
  <2>2. GoesOn(c)
    BY <2>1, MovesOn DEF OffStack, AskPlaces, ServePlaces
  <2>3. ContextsApart
    <3>1. arg[c] \in Slots
      BY <1>1, <2>1 DEF Claims, Claiming
    <3>2. context' = [context EXCEPT ![arg[c]] = Popped]
      BY <1>9 DEF KthreaddFail, FreeSlot
    <3>3. QED BY <1>1, <3>1, <3>2 DEF ContextsApart, TypeOK, Popped
  <2>4. NoneAsks
    <3>1. arg[c] \in Slots
      BY <1>1, <2>1 DEF Claims, Claiming
    <3>2. chan' = chan /\ state' = [state EXCEPT ![arg[c]] = "UNUSED"]
      BY <1>9 DEF KthreaddFail, FreeSlot
    <3>3. QED BY <1>1, <3>1, <3>2 DEF NoneAsks, TypeOK
  <2>5. QED BY <1>2, <2>2, <2>3, <2>4, RequestsKept
<1>10. CASE KthreaddPublish(c)
  <2>1. pc[c] = "kthreadd_publish" /\ pc'[c] = "kthreadd_done" /\ proc'[c] = proc[c]
    BY <1>1, <1>10 DEF KthreaddPublish, Goto, TypeOK
  <2>2. GoesOn(c)
    BY <2>1, MovesOn DEF OffStack, AskPlaces, ServePlaces
  <2>3. ContextsApart
    BY <1>10, ContextsSame DEF KthreaddPublish
  <2>4. NoneAsks
    <3>1. arg[c] \in Slots
      BY <1>1, <2>1 DEF Claims, Claiming
    <3>2. chan' = chan /\ state' = [state EXCEPT ![arg[c]] = "RUNNABLE"]
      BY <1>10 DEF KthreaddPublish
    <3>3. QED BY <1>1, <3>1, <3>2 DEF NoneAsks, TypeOK
  <2>5. QED BY <1>2, <2>2, <2>3, <2>4, RequestsKept
<1>11. CASE KthreadExit(c)
  <2>1. pc[c] = "kthread" /\ pc'[c] = "sched" /\ ret'[c] = "dead"
    BY <1>1, <1>11 DEF KthreadExit, Goto, TypeOK
  <2>2. GoesOn(c)
    BY <2>1, MovesOff DEF Executes, Place, OffStack, ServePlaces
  <2>3. ContextsApart
    BY <1>11, ContextsSame DEF KthreadExit
  <2>4. NoneAsks
    <3>1. proc[c] \in Slots
      BY <1>1, <2>1, RunsHere
    <3>2. chan' = chan /\ state' = [state EXCEPT ![proc[c]] = "UNUSED"]
      BY <1>11 DEF KthreadExit
    <3>3. QED BY <1>1, <3>1, <3>2 DEF NoneAsks, TypeOK
  <2>5. QED BY <1>2, <2>2, <2>3, <2>4, RequestsKept
<1>12. QED BY <1>3, <1>4, <1>5, <1>6, <1>7, <1>8, <1>9, <1>10, <1>11

\* swtch and sched() carry a request from the context to the CPU and back.
LEMMA RequestsSwitch ==
  ASSUME IndInv, IndInv', PlaceInv, PlaceInv', Requests, crash = "none", NEW c \in CPUs,
         UNCHANGED kthreadVars, SwitchTo(c) \/ Sched(c)
  PROVE  Requests'
<1> DEFINE p == proc[c]
<1>1. TypeOK /\ Placed /\ RunningOnOneCpu /\ OneExecutes /\ OnlyCpu(c)
  BY SchedOnlyCpu DEF IndInv, PlaceInv, SchedStep
<1>2. /\ UNCHANGED <<create_list, serving, served, state, chan, proc>>
      /\ Pending' = Pending /\ Listed' = Listed
  BY SMT DEF kthreadVars, Pending, Listed, SwitchTo, Sched
<1>3. p \in Slots /\ pc[c] \notin ServePlaces
  BY <1>1 DEF SwitchTo, Sched, Placed, TypeOK, ServePlaces
<1>4. CreatorServed'
  BY <1>2 DEF Requests, CreatorServed, InfoChan
<1>5. serving' # NoProc => \E d \in CPUs : pc'[d] \in ServePlaces
  BY <1>1, <1>2, <1>3 DEF Requests, OnlyCpu
<1>6. \A d \in CPUs \ {c} : (Executes(d)' <=> Executes(d)) /\ Place(d)' = Place(d)
  BY <1>1 DEF OnlyCpu, Executes, Place
<1>7. CASE SwitchTo(c) /\ Corrupt(p)
  <2>1. pc' = pc /\ context' = context /\ crash' = "stack" /\ pc[c] = "swtch"
    BY <1>7 DEF SwitchTo
  <2>2. ~Executes(c)'
    BY <2>1 DEF Executes, OffStack
  <2>3. \A d \in CPUs : Executes(d)' /\ Place(d)' \in AskPlaces => proc'[d] \in Pending
    BY <1>2, <1>6, <2>2 DEF Requests
  <2>4. QED BY <1>2, <1>4, <1>5, <2>1, <2>3 DEF Requests
<1>8. CASE SwitchTo(c) /\ ~Corrupt(p)
  <2>1. /\ context' = [context EXCEPT ![p] = Popped] /\ pc'[c] = context[p].at
        /\ context[p].at \in ResumePoints
    BY <1>1, <1>8 DEF SwitchTo, Corrupt, Goto, TypeOK
  <2>2. Executes(c)' /\ Place(c)' = context[p].at
    BY <2>1 DEF Executes, Place, OffStack, ResumePoints
  <2>3. context'[p].at = "popped" /\ \A q \in Slots \ {p} : context'[q] = context[q]
    BY <1>1, <1>3, <2>1 DEF TypeOK, Popped
  <2>4. crash' = "none" => Fresh'
    BY <1>2, <1>6, <2>3, ExecutesSlot DEF Fresh, Requests
  <2>5. \A d \in CPUs : Executes(d)' /\ Place(d)' \in AskPlaces => proc'[d] \in Pending
    <3>1. context[p].at \in AskPlaces => p \in Pending
      BY <1>3, <2>1 DEF Requests, AskPlaces, ResumePoints
    <3>2. QED BY <1>2, <1>6, <2>2, <3>1 DEF Requests
  <2>6. \A q \in Slots : context'[q].at = "created" => q \in Pending
    BY <2>3 DEF Requests
  <2>7. QED BY <1>2, <1>4, <1>5, <2>4, <2>5, <2>6 DEF Requests
<1>9. CASE Sched(c)
  <2>1. /\ pc[c] = "sched" /\ pc'[c] = "back" /\ crash' = crash
        /\ \/ context' = context
           \/ context' = [context EXCEPT ![p] = Saved(ret[c], arg[c], stack[c])]
    BY <1>1, <1>9 DEF Sched, Goto, TypeOK
  <2>2. ~Executes(c)'
    BY <2>1 DEF Executes, OffStack
  <2>3. \A q \in Slots : context'[q] = context[q] \/ (q = p /\ context'[q].at = ret[c])
    BY <1>1, <1>3, <2>1, SMT DEF TypeOK, Saved
  <2>4. ret[c] # "dead" => Executes(c) /\ Place(c) = ret[c]
    BY <2>1 DEF Executes, Place, OffStack
  <2>5. Fresh'
    <3> SUFFICES ASSUME NEW d \in CPUs, Executes(d)'
                 PROVE  context'[proc'[d]].at \in {"popped", "dead"}
      BY DEF Fresh
    <3>1. d # c /\ Executes(d) /\ proc'[d] = proc[d] /\ proc[d] \in Slots
      BY <1>2, <1>6, <2>2, ExecutesSlot
    <3>2. context[proc[d]].at \in {"popped", "dead"}
      BY <3>1 DEF Requests, Fresh
    <3>3. proc[d] = p => ret[c] = "dead"
      BY <1>1, <2>4, <3>1 DEF OneExecutes
    <3>4. QED BY <2>3, <3>1, <3>2, <3>3
  <2>6. \A d \in CPUs : Executes(d)' /\ Place(d)' \in AskPlaces => proc'[d] \in Pending
    BY <1>2, <1>6, <2>2 DEF Requests
  <2>7. \A q \in Slots : context'[q].at = "created" => q \in Pending
    BY <2>3, <2>4 DEF Requests, AskPlaces
  <2>8. QED BY <1>2, <1>4, <1>5, <2>5, <2>6, <2>7 DEF Requests
<1>10. QED BY <1>7, <1>8, <1>9

\* The step rule for steps that change the requests: only a process that c executes
\* may cease to be pending, by going back to its code.
LEMMA RequestsChanged ==
  ASSUME IndInv, PlaceInv, Requests, crash = "none", NEW c \in CPUs, OnlyCpu(c),
         UNCHANGED <<context, proc>>, Executes(c), CreatorServed',
         \A p \in Slots : p \in Pending => p \in Pending' \/ (p = proc[c] /\ Place(c)' \notin AskPlaces),
         Place(c)' \in AskPlaces => proc[c] \in Pending',
         serving' # NoProc => \E d \in CPUs : pc'[d] \in ServePlaces
  PROVE  Requests'
<1>1. \A d \in CPUs \ {c} : (Executes(d)' <=> Executes(d)) /\ Place(d)' = Place(d)
  BY DEF OnlyCpu, Executes, Place
<1>2. Fresh
  BY DEF Requests
<1>3. Fresh'
  BY <1>1, <1>2 DEF Fresh
<1>4. \A d \in CPUs : Executes(d)' /\ Place(d)' \in AskPlaces => proc'[d] \in Pending'
  <2> SUFFICES ASSUME NEW d \in CPUs \ {c}, Executes(d)', Place(d)' \in AskPlaces
               PROVE  proc[d] \in Pending'
    OBVIOUS
  <2>1. Executes(d) /\ proc[d] \in Pending /\ proc[d] \in Slots
    BY <1>1, ExecutesSlot DEF Requests
  <2>2. proc[d] # proc[c]
    BY <2>1 DEF PlaceInv, OneExecutes
  <2>3. QED BY <2>1, <2>2
<1>5. \A p \in Slots : context'[p].at = "created" => p \in Pending'
  <2> SUFFICES ASSUME NEW p \in Slots, context[p].at = "created"
               PROVE  p \in Pending'
    OBVIOUS
  <2>1. p \in Pending
    BY DEF Requests
  <2>2. context[proc[c]].at # "created"
    BY <1>2 DEF Fresh
  <2>3. QED BY <2>1, <2>2
<1>6. QED BY <1>3, <1>4, <1>5 DEF Requests

\* kthread_create_via_kthreadd adds its request to the list and drops none.
LEMMA ListedAppend ==
  ASSUME create_list \in Seq(Slots), NEW p \in Slots, create_list' = Append(create_list, p)
  PROVE  Listed' = Listed \cup {p}
<1>1. /\ DOMAIN create_list = 1 .. Len(create_list) /\ Len(create_list) \in Nat
      /\ DOMAIN create_list' = 1 .. (Len(create_list) + 1)
      /\ \A i \in DOMAIN create_list : create_list'[i] = create_list[i]
      /\ create_list'[Len(create_list) + 1] = p
  BY SMT
<1>2. QED BY <1>1, SMT DEF Listed

\* kthreadd takes the first request off its list; the others stay listed.
LEMMA ListedTail ==
  ASSUME create_list \in Seq(Slots), create_list # <<>>, create_list' = Tail(create_list)
  PROVE  /\ Listed = Listed' \cup {Head(create_list)}
         /\ Head(create_list) \in Slots
<1>1. /\ DOMAIN create_list = 1 .. Len(create_list) /\ Len(create_list) \in Nat \ {0}
      /\ DOMAIN create_list' = 1 .. (Len(create_list) - 1)
      /\ \A i \in 1 .. (Len(create_list) - 1) : create_list'[i] = create_list[i + 1]
      /\ Head(create_list) = create_list[1]
      /\ \A i \in DOMAIN create_list : create_list[i] \in Slots
  BY SMT
<1>2. ASSUME NEW p PROVE p \in Listed <=> p \in Listed' \/ p = create_list[1]
  <2>1. ASSUME NEW i \in DOMAIN create_list, p = create_list[i], i # 1
        PROVE  i - 1 \in DOMAIN create_list' /\ create_list'[i - 1] = p
    BY <1>1, <2>1, SMT
  <2>2. ASSUME NEW i \in DOMAIN create_list', p = create_list'[i]
        PROVE  i + 1 \in DOMAIN create_list /\ create_list[i + 1] = p
    BY <1>1, <2>2, SMT
  <2>3. 1 \in DOMAIN create_list
    BY <1>1, SMT
  <2>4. QED BY <2>1, <2>2, <2>3 DEF Listed
<1>3. 1 \in DOMAIN create_list
  BY <1>1, SMT
<1>4. QED BY <1>1, <1>2, <1>3

\* A sleeping creator is listed or served.
LEMMA CreatorListed ==
  CreatorServed <=> \A p \in Slots : state[p] = "SLEEPING" /\ chan[p] = InfoChan(p) =>
                      p \notin served /\ (p = serving \/ p \in Listed)
BY DEF CreatorServed, Listed

\* kthread_create_via_kthreadd: the request is listed, the creator sleeps only
\* while it is unanswered, and takes the answer.
LEMMA RequestsCreate ==
  ASSUME IndInv, PlaceInv, Requests, crash = "none", NEW c \in CPUs,
         CreateQueue(c) \/ CreateSleep(c) \/ CreateReturn(c)
  PROVE  Requests'
<1>1. TypeOK /\ OnlyCpu(c) /\ CreatorServed
  BY KthreadOnlyCpu DEF IndInv, KthreadStep, Requests
<1>2. UNCHANGED <<context, proc, serving>> /\ pc[c] \notin ServePlaces
  BY DEF CreateQueue, CreateSleep, CreateReturn, tableVars, kthreadVars, ServePlaces
<1>3. Executes(c) /\ proc[c] \in Slots
  BY ExecutesSlot DEF CreateQueue, CreateSleep, CreateReturn, Executes, Place, OffStack
<1>4. serving' # NoProc => \E d \in CPUs : pc'[d] \in ServePlaces
  BY <1>1, <1>2 DEF Requests, OnlyCpu
<1>5. CASE CreateQueue(c)
  <2>1. Listed' = Listed \cup {proc[c]} /\ UNCHANGED <<state, chan, served>>
    BY <1>1, <1>3, <1>5, ListedAppend DEF TypeOK, CreateQueue, tableVars
  <2>2. Pending \subseteq Pending' /\ proc[c] \in Pending'
    BY <1>2, <2>1 DEF Pending
  <2>3. CreatorServed'
    <3> SUFFICES ASSUME NEW p \in Slots, state[p] = "SLEEPING", chan[p] = InfoChan(p)
                 PROVE  p \notin served /\ (p = serving \/ p \in Listed')
      BY <1>2, <2>1 DEF CreatorServed, Listed
    <3>1. QED BY <1>1, <2>1, CreatorListed
  <2>4. QED BY <1>1, <1>2, <1>3, <1>4, <2>2, <2>3, RequestsChanged
<1>6. CASE CreateSleep(c)
  <2>1. /\ UNCHANGED <<create_list, served>> /\ proc[c] \notin served
        /\ \A q \in Slots \ {proc[c]} : state'[q] = state[q] /\ chan'[q] = chan[q]
    BY <1>1, <1>3, <1>6 DEF TypeOK, CreateSleep, SleepOn, kthreadVars
  <2>2. Pending' = Pending /\ Listed' = Listed
    BY <1>2, <2>1 DEF Pending, Listed
  <2>3. proc[c] \in Pending
    BY <1>3, <1>6 DEF CreateSleep, Requests, Place, AskPlaces
  <2>4. CreatorServed'
    <3> SUFFICES ASSUME NEW p \in Slots, state'[p] = "SLEEPING", chan'[p] = InfoChan(p)
                 PROVE  p \notin served /\ (p = serving \/ p \in Listed)
      BY <1>2, <2>1, <2>2 DEF CreatorServed, Listed
    <3>1. CASE p = proc[c]
      BY <2>1, <2>3, <3>1 DEF Pending
    <3>2. CASE p # proc[c]
      BY <1>1, <2>1, <3>2, CreatorListed
    <3>3. QED BY <3>1, <3>2
  <2>5. QED BY <1>1, <1>2, <1>3, <1>4, <2>2, <2>3, <2>4, RequestsChanged
<1>7. CASE CreateReturn(c)
  <2>1. served' = served \ {proc[c]} /\ UNCHANGED <<create_list, state, chan>>
    BY <1>7 DEF CreateReturn, tableVars
  <2>2. \A p \in Slots : p \in Pending => p \in Pending' \/ p = proc[c]
    BY <1>2, <2>1 DEF Pending, Listed
  <2>3. pc'[c] = EntryPoint(proc[c])
    BY <1>1, <1>7 DEF CreateReturn, Goto, TypeOK
  <2>4. Place(c)' \notin AskPlaces
    BY <2>3 DEF Place, EntryPoint, AskPlaces
  <2>5. CreatorServed'
    BY <1>1, <1>2, <2>1 DEF CreatorServed
  <2>6. QED BY <1>1, <1>2, <1>3, <1>4, <2>2, <2>4, <2>5, RequestsChanged
<1>8. QED BY <1>5, <1>6, <1>7

\* kthreadd takes a request when it serves none, and wakes the creator when it has
\* served it.
LEMMA RequestsServe ==
  ASSUME IndInv, PlaceInv, Requests, crash = "none", NEW c \in CPUs,
         KthreaddTake(c) \/ KthreaddDone(c)
  PROVE  Requests'
<1>1. TypeOK /\ OnlyCpu(c) /\ CreatorServed
  BY KthreadOnlyCpu DEF IndInv, KthreadStep, Requests
<1>2. UNCHANGED <<context, proc>>
  BY DEF KthreaddTake, KthreaddDone, tableVars
<1>3. Executes(c) /\ proc[c] = KthreaddTask
  <2>1. Executes(c) /\ Place(c) \in KthreaddPlaces
    BY DEF KthreaddTake, KthreaddDone, Executes, Place, OffStack, KthreaddPlaces, ServePlaces
  <2>2. QED BY <2>1, ExecutesSlot DEF Fits
<1>4. CASE KthreaddTake(c)
  <2>1. serving = NoProc
    <3>1. ASSUME NEW d \in CPUs, pc[d] \in ServePlaces
          PROVE  FALSE
      <4>1. Executes(d) /\ Place(d) \in KthreaddPlaces
        BY <3>1 DEF Executes, Place, OffStack, KthreaddPlaces, ServePlaces
      <4>2. proc[d] = KthreaddTask
        BY <4>1, ExecutesSlot DEF Fits
      <4>3. d = c
        BY <1>3, <4>1, <4>2 DEF PlaceInv, OneExecutes
      <4>4. QED BY <1>4, <3>1, <4>3 DEF KthreaddTake, ServePlaces
    <3>2. QED BY <3>1 DEF Requests
  <2>2. /\ Listed = Listed' \cup {serving'} /\ serving' \in Slots
        /\ UNCHANGED <<state, chan, served>>
    BY <1>1, <1>4, ListedTail DEF TypeOK, KthreaddTake, tableVars
  <2>3. NoProc \notin Slots
    BY SMT DEF NoProc, Slots
  <2>4. \A p \in Slots : p \in Pending => p \in Pending'
    BY <2>1, <2>2, <2>3 DEF Pending
  <2>5. pc'[c] = "kthreadd_alloc"
    BY <1>1, <1>4 DEF KthreaddTake, Goto, TypeOK
  <2>6. pc'[c] \in ServePlaces /\ Place(c)' \notin AskPlaces
    BY <2>5 DEF Place, ServePlaces, AskPlaces
  <2>7. CreatorServed'
    BY <1>1, <2>1, <2>2, <2>3, CreatorListed DEF CreatorServed, Listed
  <2>8. QED BY <1>1, <1>2, <1>3, <2>4, <2>6, <2>7, RequestsChanged
<1>5. CASE KthreaddDone(c)
  <2>1. /\ served' = served \cup {serving} /\ serving' = NoProc /\ create_list' = create_list
        /\ WakeAll(Sleepers(InfoChan(serving)))
    BY <1>5 DEF KthreaddDone
  <2>2. Pending \subseteq Pending'
    BY <2>1 DEF Pending, Listed
  <2>3. pc'[c] = "kthreadd"
    BY <1>1, <1>5 DEF KthreaddDone, Goto, TypeOK
  <2>4. Place(c)' \notin AskPlaces
    BY <2>3 DEF Place, AskPlaces
  <2>5. CreatorServed'
    <3> SUFFICES ASSUME NEW p \in Slots, state'[p] = "SLEEPING", chan'[p] = InfoChan(p)
                 PROVE  p \notin served' /\ \E i \in DOMAIN create_list' : create_list'[i] = p
      BY DEF CreatorServed
    <3>1. p \notin Sleepers(InfoChan(serving)) /\ state[p] = "SLEEPING" /\ chan[p] = InfoChan(p)
      BY <2>1 DEF WakeAll
    <3>2. p # serving
      BY <3>1 DEF Sleepers
    <3>3. QED BY <1>1, <2>1, <3>1, <3>2 DEF CreatorServed
  <2>6. QED BY <1>1, <1>2, <1>3, <2>1, <2>2, <2>4, <2>5, RequestsChanged
<1>6. QED BY <1>4, <1>5

\* Every step keeps Requests.
LEMMA RequestsStep ==
  ASSUME IndInv, IndInv', PlaceInv, PlaceInv', Requests, [Next]_vars
  PROVE  Requests'
<1>1. CASE UNCHANGED vars
  <2>1. /\ UNCHANGED <<state, chan, context, proc, pc, ret, crash>>
        /\ UNCHANGED <<create_list, serving, served>>
    BY <1>1 DEF vars, schedVars, tableVars, cpuVars, kthreadVars
  <2>2. \A c \in CPUs : (Executes(c)' <=> Executes(c)) /\ Place(c)' = Place(c)
    BY <2>1 DEF Executes, Place
  <2>3. (Fresh' <=> Fresh) /\ (CreatorServed' <=> CreatorServed) /\ Pending' = Pending
    BY <2>1, <2>2 DEF Fresh, CreatorServed, Pending, Listed
  <2>4. QED BY <2>1, <2>2, <2>3 DEF Requests
<1>2. ASSUME crash = "none", NEW c \in CPUs, SchedStep(c), UNCHANGED kthreadVars
      PROVE  Requests'
  BY <1>2, RequestsSched, RequestsSwitch DEF SchedStep
<1>3. ASSUME crash = "none", NEW c \in CPUs, ProcStep(c), UNCHANGED kthreadVars
      PROVE  Requests'
  BY <1>3, RequestsProc DEF ProcStep
<1>4. ASSUME crash = "none", NEW c \in CPUs, KthreadStep(c)
      PROVE  Requests'
  BY <1>4, RequestsKthread, RequestsCreate, RequestsServe DEF KthreadStep
<1>5. QED BY <1>1, <1>2, <1>3, <1>4 DEF Next, CpuStep, Stopped, Running

\* It holds when the CPUs enter scheduler().
LEMMA RequestsInit == Init => Requests
<1> SUFFICES ASSUME Init PROVE Requests
  OBVIOUS
<1>1. \A c \in CPUs : ~Executes(c)
  BY DEF Init, SchedInit, Executes, OffStack
<1>2. \A p \in Slots : context[p].at # "created" /\ state[p] # "SLEEPING"
  BY DEF Init, SchedInit, Saved, Popped, EntryPoint
<1>3. serving = NoProc
  BY DEF Init, KthreadInit
<1>4. QED BY <1>1, <1>2, <1>3 DEF Requests, Fresh, CreatorServed
===============================================================================

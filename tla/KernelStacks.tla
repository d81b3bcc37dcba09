----------------------------- MODULE KernelStacks -----------------------------
(***************************************************************************)
(* The pages of the kernel stacks.  On one CPU, and on several as long as  *)
(* no kernel thread exits, each page is free or is the stack of one slot.  *)
(***************************************************************************)
EXTENDS KernelPlaces

USE SchedAssumption, Zenon

\* The part of StacksAccounted that is about the pages alone.
PagesApart ==
  /\ \A p, q \in Slots : kstack[p] # NoPage /\ kstack[p] = kstack[q] => p = q
  /\ \A page \in Pages : page \in freePages <=> \A p \in Slots : kstack[p] # page

\* An UNUSED slot still has a stack: the scheduler has not left it yet.
Leaving(p) ==
  \E c \in CPUs : \/ pc[c] \in {"sched", "back"} /\ proc[c] = p
                  \/ pc[c] = "reap" /\ last_sched[c] = p

\* free_page of a kernel stack keeps the other pages where they are.
LEMMA FreeApart ==
  ASSUME TypeOK, PagesApart, NEW q \in Slots, FreeKstack(q)
  PROVE  PagesApart' /\ kstack'[q] = NoPage /\ \A p \in Slots \ {q} : kstack'[p] = kstack[p]
<1>1. kstack' = [kstack EXCEPT ![q] = NoPage] /\ freePages' = freePages \cup ({kstack[q]} \ {NoPage})
  BY DEF FreeKstack
<1>2. kstack'[q] = NoPage /\ \A p \in Slots \ {q} : kstack'[p] = kstack[p]
  BY <1>1 DEF TypeOK
<1>3. \A p, r \in Slots : kstack'[p] # NoPage /\ kstack'[p] = kstack'[r] => p = r
  BY <1>2, SMT DEF PagesApart
<1>4. ASSUME NEW page \in Pages
      PROVE  page \in freePages' <=> \A p \in Slots : kstack'[p] # page
  <2>1. page # NoPage
    BY SMT DEF Pages, NoPage
  <2>2. page \in freePages' <=> page \in freePages \/ page = kstack[q]
    BY <1>1, <2>1
  <2>3. CASE page = kstack[q]
    BY <1>2, <2>1, <2>2, <2>3, SMT DEF PagesApart
  <2>4. CASE page # kstack[q]
    BY <1>2, <2>1, <2>2, <2>4 DEF PagesApart
  <2>5. QED BY <2>3, <2>4
<1>5. QED BY <1>2, <1>3, <1>4 DEF PagesApart

\* alloc_page of a kernel stack, for a slot that has none.
LEMMA AllocApart ==
  ASSUME TypeOK, PagesApart, NEW q \in Slots, NEW page \in freePages, AllocKstack(q, page),
         kstack[q] = NoPage
  PROVE  PagesApart' /\ kstack'[q] = page /\ \A p \in Slots \ {q} : kstack'[p] = kstack[p]
<1>1. kstack' = [kstack EXCEPT ![q] = page] /\ freePages' = freePages \ {page}
  BY DEF AllocKstack
<1>2. kstack'[q] = page /\ \A p \in Slots \ {q} : kstack'[p] = kstack[p]
  BY <1>1 DEF TypeOK
<1>3. page \in Pages /\ \A p \in Slots : kstack[p] # page
  BY DEF TypeOK, PagesApart
<1>4. \A p, r \in Slots : kstack'[p] # NoPage /\ kstack'[p] = kstack'[r] => p = r
  BY <1>2, <1>3, SMT DEF PagesApart
<1>5. ASSUME NEW other \in Pages
      PROVE  other \in freePages' <=> \A p \in Slots : kstack'[p] # other
  <2>1. other # NoPage
    BY SMT DEF Pages, NoPage
  <2>2. CASE other = page
    BY <1>1, <1>2, <2>2
  <2>3. CASE other # page
    BY <1>1, <1>2, <2>1, <2>3, SMT DEF PagesApart
  <2>4. QED BY <2>2, <2>3
<1>6. QED BY <1>2, <1>4, <1>5 DEF PagesApart

\* What a step of c has to show for the invariant of the stacks.
LEMMA AccountedKept ==
  ASSUME IndInv, Accounted, NEW c \in CPUs, OnlyCpu(c), PagesApart',
         \A d \in CPUs \ {c} : last_sched'[d] = last_sched[d],
         pc'[c] \in {"fork_fill", "kthreadd_fill"} => kstack'[arg'[c]] = NoPage,
         \A d \in CPUs \ {c} : pc[d] \in {"fork_fill", "kthreadd_fill"} =>
           kstack'[arg[d]] = NoPage,
         pc'[c] = "back" => proc'[c] = last_sched'[c],
         \A p \in Slots : state'[p] = "UNUSED" /\ kstack'[p] # NoPage =>
           \/ Leaving(p)'
           \/ /\ state[p] = "UNUSED" /\ kstack[p] # NoPage
              /\ ~(pc[c] \in {"sched", "back"} /\ proc[c] = p)
              /\ ~(pc[c] = "reap" /\ last_sched[c] = p)
  PROVE  Accounted'
<1>1. \A d \in CPUs : pc'[d] \in {"fork_fill", "kthreadd_fill"} => kstack'[arg'[d]] = NoPage
  BY SMT DEF OnlyCpu
<1>2. \A d \in CPUs : pc'[d] = "back" => proc'[d] = last_sched'[d]
  BY SMT DEF OnlyCpu, Accounted
<1>3. ASSUME NEW p \in Slots, state'[p] = "UNUSED", kstack'[p] # NoPage PROVE Leaving(p)'
  <2>1. CASE Leaving(p)'
    BY <2>1
  <2>2. CASE ~Leaving(p)'
    <3>1. PICK d \in CPUs : \/ pc[d] \in {"sched", "back"} /\ proc[d] = p
                            \/ pc[d] = "reap" /\ last_sched[d] = p
      BY <1>3, <2>2 DEF Accounted, StacksAccounted
    <3>2. d # c
      BY <1>3, <2>2, <3>1
    <3>3. QED BY <3>1, <3>2 DEF Leaving, OnlyCpu
  <2>3. QED BY <2>1, <2>2
<1>4. StacksAccounted'
  BY <1>3 DEF PagesApart, StacksAccounted, Leaving
<1>5. QED BY <1>1, <1>2, <1>4 DEF Accounted

\* The step neither takes nor gives a stack, nor does it free a slot.
KeepsStacks(c) ==
  /\ UNCHANGED <<kstack, freePages, last_sched>>
  /\ pc[c] \notin {"sched", "back", "reap"}
  /\ pc'[c] \notin {"back", "fork_fill", "kthreadd_fill"}
  /\ \A p \in Slots : state'[p] = "UNUSED" => state[p] = "UNUSED"

\* Such a step keeps the invariant.
LEMMA StacksKept ==
  ASSUME IndInv, Accounted, NEW c \in CPUs, OnlyCpu(c), KeepsStacks(c)
  PROVE  Accounted'
<1>1. PagesApart'
  BY DEF Accounted, StacksAccounted, PagesApart, KeepsStacks
<1>2. \A d \in CPUs \ {c} : pc[d] \in {"fork_fill", "kthreadd_fill"} => kstack'[arg[d]] = NoPage
  BY DEF Accounted, KeepsStacks
<1>3. QED BY <1>1, <1>2, AccountedKept DEF KeepsStacks

\* The process of a step that makes it sleep or yield was RUNNING and is not UNUSED after.
LEMMA YieldFreesNone ==
  ASSUME IndInv, NEW c \in CPUs,
         \/ Yield(c) \/ SleepTicks(c) \/ WaitSleep(c) \/ CreateSleep(c) \/ KthreaddSleep(c)
  PROVE  \A p \in Slots : state'[p] = "UNUSED" => state[p] = "UNUSED"
<1>1. /\ proc[c] \in Slots
      /\ \/ state' = [state EXCEPT ![proc[c]] = "RUNNABLE"]
         \/ state' = [state EXCEPT ![proc[c]] = "SLEEPING"]
  BY StatesYielded
<1>2. QED BY <1>1 DEF IndInv, TypeOK

\* Wake-ups free no slot.
LEMMA WakeFreesNone ==
  ASSUME IndInv, NEW c \in CPUs,
         \/ TickKernel(c) \/ TickUser(c) \/ ExitWake(c) \/ SignalSend(c)
         \/ CreateWake(c) \/ KthreaddDone(c)
  PROVE  \A p \in Slots : state'[p] = "UNUSED" => state[p] = "UNUSED"
BY StatesWoken

\* The steps of the scheduler and of the timer that keep the stacks.
LEMMA SchedKeepsStacks ==
  ASSUME IndInv, NEW c \in CPUs,
         \/ Schedule(c) \/ SwitchTo(c) \/ TickKernel(c) \/ TickUser(c) \/ TickResched(c)
         \/ PreemptCheck(c) \/ Yield(c) \/ SleepTicks(c)
  PROVE  KeepsStacks(c)
<1>1. TypeOK
  BY DEF IndInv
<1>2. CASE Schedule(c)
  <2>1. \A p \in Slots : state'[p] = "UNUSED" => state[p] = "UNUSED"
    BY <1>1, <1>2, HeadRunnable DEF Schedule, TypeOK
  <2>2. QED BY <1>1, <1>2, <2>1 DEF Schedule, Goto, KeepsStacks, TypeOK
<1>3. CASE SwitchTo(c)
  <2>1. pc'[c] = "swtch" \/ pc'[c] \in ResumePoints
    BY <1>1, <1>3 DEF SwitchTo, Corrupt, Goto, TypeOK
  <2>2. QED BY <1>3, <2>1 DEF SwitchTo, KeepsStacks, ResumePoints
<1>4. CASE TickKernel(c)
  BY <1>4, WakeFreesNone DEF TickKernel, KeepsStacks, cpuVars
<1>5. CASE TickUser(c)
  BY <1>1, <1>5, WakeFreesNone DEF TickUser, Goto, KeepsStacks, TypeOK
<1>6. CASE TickResched(c)
  BY <1>1, <1>6 DEF TickResched, Goto, KeepsStacks, TypeOK, tableVars
<1>7. CASE PreemptCheck(c)
  BY <1>1, <1>7 DEF PreemptCheck, Goto, KeepsStacks, TypeOK, tableVars
<1>8. CASE Yield(c)
  BY <1>1, <1>8, YieldFreesNone DEF Yield, Goto, KeepsStacks, TypeOK
<1>9. CASE SleepTicks(c)
  BY <1>1, <1>9, YieldFreesNone DEF SleepTicks, SleepOn, Goto, KeepsStacks, TypeOK
<1>10. QED BY <1>2, <1>3, <1>4, <1>5, <1>6, <1>7, <1>8, <1>9

\* The steps of user processes that keep the stacks.
LEMMA ProcKeepsStacks ==
  ASSUME IndInv, NEW c \in CPUs,
         \/ KernelInit(c) \/ ForkPublish(c) \/ Exit(c) \/ ExitWake(c) \/ WaitNone(c)
         \/ WaitSleep(c) \/ SignalSend(c)
  PROVE  KeepsStacks(c)
<1>1. TypeOK
  BY DEF IndInv
<1>2. CASE KernelInit(c)
  BY <1>1, <1>2 DEF KernelInit, Goto, KeepsStacks, TypeOK
<1>3. CASE ForkPublish(c)
  <2>1. \A p \in Slots : state'[p] = "UNUSED" => state[p] = "UNUSED"
    BY <1>1, <1>3 DEF ForkPublish, TypeOK
  <2>2. QED BY <1>1, <1>3, <2>1 DEF ForkPublish, Goto, KeepsStacks, TypeOK
<1>4. CASE Exit(c)
  <2>1. \A p \in Slots : state'[p] = "UNUSED" => state[p] = "UNUSED"
    BY <1>1, <1>4 DEF Exit, TypeOK
  <2>2. QED BY <1>1, <1>4, <2>1 DEF Exit, Goto, KeepsStacks, TypeOK
<1>5. CASE ExitWake(c)
  BY <1>1, <1>5, WakeFreesNone DEF ExitWake, Goto, KeepsStacks, TypeOK
<1>6. CASE WaitNone(c)
  <2>1. pc[c] \in {"user", "wait"} /\ pc'[c] \in {"user", "wait_sleep"}
    BY <1>1, <1>6 DEF WaitNone, WaitTargets, Goto, TypeOK
  <2>2. QED BY <1>6, <2>1 DEF WaitNone, KeepsStacks, tableVars
<1>7. CASE WaitSleep(c)
  BY <1>1, <1>7, YieldFreesNone DEF WaitSleep, SleepOn, Goto, KeepsStacks, TypeOK
<1>8. CASE SignalSend(c)
  BY <1>8, WakeFreesNone DEF SignalSend, KeepsStacks, cpuVars
<1>9. QED BY <1>2, <1>3, <1>4, <1>5, <1>6, <1>7, <1>8

\* The steps around kthreadd that keep the stacks.
LEMMA KthreadKeepsStacks ==
  ASSUME IndInv, NEW c \in CPUs,
         \/ CreateQueue(c) \/ CreateWake(c) \/ CreateSleep(c) \/ CreateReturn(c)
         \/ KthreaddEmpty(c) \/ KthreaddSleep(c) \/ KthreaddTake(c) \/ KthreaddNoSlot(c)
         \/ KthreaddPublish(c) \/ KthreaddDone(c)
  PROVE  KeepsStacks(c)
<1>1. TypeOK
  BY DEF IndInv
<1>2. CASE CreateQueue(c)
  BY <1>1, <1>2 DEF CreateQueue, Goto, KeepsStacks, TypeOK, tableVars
<1>3. CASE CreateWake(c)
  BY <1>1, <1>3, WakeFreesNone DEF CreateWake, Goto, KeepsStacks, TypeOK
<1>4. CASE CreateSleep(c)
  BY <1>1, <1>4, YieldFreesNone DEF CreateSleep, SleepOn, Goto, KeepsStacks, TypeOK
<1>5. CASE CreateReturn(c)
  BY <1>1, <1>5 DEF CreateReturn, EntryPoint, Goto, KeepsStacks, TypeOK, tableVars
<1>6. CASE KthreaddEmpty(c)
  BY <1>1, <1>6 DEF KthreaddEmpty, Goto, KeepsStacks, TypeOK, tableVars
<1>7. CASE KthreaddSleep(c)
  BY <1>1, <1>7, YieldFreesNone DEF KthreaddSleep, SleepOn, Goto, KeepsStacks, TypeOK
<1>8. CASE KthreaddTake(c)
  BY <1>1, <1>8 DEF KthreaddTake, Goto, KeepsStacks, TypeOK, tableVars
<1>9. CASE KthreaddNoSlot(c)
  BY <1>1, <1>9 DEF KthreaddNoSlot, Goto, KeepsStacks, TypeOK, tableVars
<1>10. CASE KthreaddPublish(c)
  <2>1. \A p \in Slots : state'[p] = "UNUSED" => state[p] = "UNUSED"
    BY <1>1, <1>10 DEF KthreaddPublish, TypeOK
  <2>2. QED BY <1>1, <1>10, <2>1 DEF KthreaddPublish, Goto, KeepsStacks, TypeOK
<1>11. CASE KthreaddDone(c)
  BY <1>1, <1>11, WakeFreesNone DEF KthreaddDone, Goto, KeepsStacks, TypeOK
<1>12. QED BY <1>2, <1>3, <1>4, <1>5, <1>6, <1>7, <1>8, <1>9, <1>10, <1>11

\* sched(), the scheduler after it, and kthread_reap.
LEMMA BackStacks ==
  ASSUME IndInv, Accounted, NEW c \in CPUs, OnlyCpu(c), Sched(c) \/ Back(c) \/ Reap(c)
  PROVE  Accounted'
<1>1. TypeOK /\ Placed /\ PagesApart
  BY DEF IndInv, Accounted, StacksAccounted, PagesApart
<1>2. CASE Sched(c)
  <2>1. /\ pc[c] = "sched" /\ pc'[c] = "back" /\ last_sched'[c] = proc[c]
        /\ \A d \in CPUs \ {c} : last_sched'[d] = last_sched[d]
        /\ UNCHANGED <<state, kstack, proc, freePages>>
    BY <1>1, <1>2 DEF Sched, Goto, TypeOK
  <2>2. PagesApart'
    BY <1>1, <2>1 DEF PagesApart
  <2>3. \A d \in CPUs \ {c} : pc[d] \in {"fork_fill", "kthreadd_fill"} =>
          kstack'[arg[d]] = NoPage
    BY <2>1 DEF Accounted
  <2>4. ASSUME NEW p \in Slots, state'[p] = "UNUSED", kstack'[p] # NoPage
        PROVE  \/ Leaving(p)'
               \/ /\ state[p] = "UNUSED" /\ kstack[p] # NoPage
                  /\ ~(pc[c] \in {"sched", "back"} /\ proc[c] = p)
                  /\ ~(pc[c] = "reap" /\ last_sched[c] = p)
    BY <2>1, <2>4 DEF Leaving
  <2>5. QED BY <2>1, <2>2, <2>3, <2>4, AccountedKept
<1>3. CASE Back(c)
  <2>1. /\ pc[c] = "back" /\ pc'[c] \in {"idle", "reap"} /\ proc[c] = last_sched[c]
        /\ last_sched[c] \in Slots
        /\ state[last_sched[c]] = "UNUSED" => pc'[c] = "reap" /\ UNCHANGED last_sched
        /\ \A d \in CPUs \ {c} : last_sched'[d] = last_sched[d]
        /\ UNCHANGED <<state, kstack, freePages>>
    BY <1>1, <1>3 DEF Back, Goto, TypeOK, tableVars, Accounted, Placed
  <2>2. PagesApart'
    BY <1>1, <2>1 DEF PagesApart
  <2>3. \A d \in CPUs \ {c} : pc[d] \in {"fork_fill", "kthreadd_fill"} =>
          kstack'[arg[d]] = NoPage
    BY <2>1 DEF Accounted
  <2>4. ASSUME NEW p \in Slots, state'[p] = "UNUSED", kstack'[p] # NoPage
        PROVE  \/ Leaving(p)'
               \/ /\ state[p] = "UNUSED" /\ kstack[p] # NoPage
                  /\ ~(pc[c] \in {"sched", "back"} /\ proc[c] = p)
                  /\ ~(pc[c] = "reap" /\ last_sched[c] = p)
    <3>1. CASE p = last_sched[c]
      BY <2>1, <2>4, <3>1 DEF Leaving
    <3>2. CASE p # last_sched[c]
      BY <2>1, <2>4, <3>2
    <3>3. QED BY <3>1, <3>2
  <2>5. QED BY <2>1, <2>2, <2>3, <2>4, AccountedKept
<1>4. CASE Reap(c)
  <2> DEFINE q == last_sched[c]
  <2>1. /\ pc[c] = "reap" /\ pc'[c] = "idle" /\ q \in Slots /\ FreeKstack(q)
        /\ \A d \in CPUs \ {c} : last_sched'[d] = last_sched[d]
        /\ UNCHANGED state
    BY <1>1, <1>4 DEF Reap, Goto, TypeOK, Placed
  <2>2. PagesApart' /\ kstack'[q] = NoPage /\ \A p \in Slots \ {q} : kstack'[p] = kstack[p]
    BY <1>1, <2>1, FreeApart
  <2>3. ASSUME NEW d \in CPUs \ {c}, pc[d] \in {"fork_fill", "kthreadd_fill"}
        PROVE  kstack'[arg[d]] = NoPage
    <3>1. arg[d] \in Slots /\ kstack[arg[d]] = NoPage
      BY <2>3 DEF Accounted, IndInv, Claims, Claiming
    <3>2. QED BY <2>2, <3>1
  <2>4. ASSUME NEW p \in Slots, state'[p] = "UNUSED", kstack'[p] # NoPage
        PROVE  /\ state[p] = "UNUSED" /\ kstack[p] # NoPage
               /\ ~(pc[c] \in {"sched", "back"} /\ proc[c] = p)
               /\ ~(pc[c] = "reap" /\ last_sched[c] = p)
    BY <2>1, <2>2, <2>4
  <2>5. QED BY <2>1, <2>2, <2>3, <2>4, AccountedKept
<1>5. QED BY <1>2, <1>3, <1>4

\* proc_alloc takes a slot without a stack: it is the only place that forgets one.
LEMMA AllocStacks ==
  ASSUME IndInv, PlaceInv, Accounted, NoKthreads \/ OneCpu, NEW c \in CPUs, OnlyCpu(c),
         ForkAlloc(c) \/ KthreaddAlloc(c)
  PROVE  Accounted'
<1>1. TypeOK /\ PagesApart
  BY DEF IndInv, Accounted, StacksAccounted, PagesApart
<1>2. /\ pc[c] \in {"user", "kthreadd_alloc"} /\ pc'[c] \in {"fork_fill", "kthreadd_fill"}
      /\ UNCHANGED <<proc, last_sched, freePages>>
  BY <1>1 DEF ForkAlloc, KthreaddAlloc, Goto, TypeOK
<1>3. PICK np \in Slots : FirstUnused(np) /\ ClaimSlot(np) /\ arg' = [arg EXCEPT ![c] = np]
  BY DEF ForkAlloc, KthreaddAlloc
<1>4. /\ state[np] = "UNUSED" /\ arg'[c] = np
       /\ state' = [state EXCEPT ![np] = "USED"] /\ kstack' = [kstack EXCEPT ![np] = NoPage]
  BY <1>1, <1>3 DEF FirstUnused, ClaimSlot, TypeOK
<1>5. kstack[np] = NoPage
  <2>1. CASE NoKthreads
    BY <1>4, <2>1 DEF NoKthreads
  <2>2. CASE OneCpu
    <3>1. \A d \in CPUs : d = c
      BY <2>2 DEF OneCpu
    <3>2. QED BY <1>2, <1>4, <3>1 DEF Accounted, StacksAccounted
  <2>3. QED BY <2>1, <2>2
<1>6. kstack' = kstack
  BY <1>1, <1>4, <1>5, SMT DEF TypeOK
<1>7. PagesApart'
  BY <1>1, <1>2, <1>6 DEF PagesApart
<1>8. \A d \in CPUs \ {c} : pc[d] \in {"fork_fill", "kthreadd_fill"} => kstack'[arg[d]] = NoPage
  BY <1>6 DEF Accounted
<1>9. ASSUME NEW p \in Slots, state'[p] = "UNUSED", kstack'[p] # NoPage
      PROVE  /\ state[p] = "UNUSED" /\ kstack[p] # NoPage
             /\ ~(pc[c] \in {"sched", "back"} /\ proc[c] = p)
             /\ ~(pc[c] = "reap" /\ last_sched[c] = p)
  BY <1>1, <1>2, <1>4, <1>6, <1>9 DEF TypeOK
<1>10. QED BY <1>2, <1>4, <1>5, <1>6, <1>7, <1>8, <1>9, AccountedKept

\* fork_copy and kthread_create_sync take a stack for the slot, or give the slot up.
LEMMA FillStacks ==
  ASSUME IndInv, PlaceInv, Accounted, NEW c \in CPUs, OnlyCpu(c),
         ForkFill(c) \/ ForkFail(c) \/ KthreaddFill(c) \/ KthreaddFail(c)
  PROVE  Accounted'
<1> DEFINE np == arg[c]
<1>1. TypeOK /\ PagesApart
  BY DEF IndInv, Accounted, StacksAccounted, PagesApart
<1>2. /\ pc[c] \in {"fork_fill", "kthreadd_fill"}
      /\ pc'[c] \in {"fork_publish", "kthreadd_publish", "user", "kthreadd_done"}
      /\ UNCHANGED <<proc, last_sched>>
  BY <1>1 DEF ForkFill, ForkFail, KthreaddFill, KthreaddFail, Goto, TypeOK
<1>3. /\ np \in Slots /\ state[np] = "USED" /\ kstack[np] = NoPage
      /\ \A d \in CPUs \ {c} : Claiming(d) => arg[d] \in Slots \ {np}
  BY <1>2, FillingSlot DEF Claiming, Accounted
<1>4. CASE ForkFill(c) \/ KthreaddFill(c)
  <2>1. PICK page \in freePages : AllocKstack(np, page)
    BY <1>4 DEF ForkFill, KthreaddFill, AllocCandidates
  <2>2. PagesApart' /\ \A p \in Slots \ {np} : kstack'[p] = kstack[p]
    BY <1>1, <1>3, <2>1, AllocApart
  <2>3. \A d \in CPUs \ {c} : pc[d] \in {"fork_fill", "kthreadd_fill"} =>
          kstack'[arg[d]] = NoPage
    BY <1>3, <2>2 DEF Claiming, Accounted
  <2>4. UNCHANGED state
    BY <1>4 DEF ForkFill, KthreaddFill
  <2>5. ASSUME NEW p \in Slots, state'[p] = "UNUSED", kstack'[p] # NoPage
        PROVE  /\ state[p] = "UNUSED" /\ kstack[p] # NoPage
               /\ ~(pc[c] \in {"sched", "back"} /\ proc[c] = p)
               /\ ~(pc[c] = "reap" /\ last_sched[c] = p)
    BY <1>2, <1>3, <2>2, <2>4, <2>5
  <2>6. QED BY <1>2, <2>2, <2>3, <2>5, AccountedKept
<1>5. CASE ForkFail(c) \/ KthreaddFail(c)
  <2>1. FreeKstack(np) /\ state' = [state EXCEPT ![np] = "UNUSED"]
    BY <1>5 DEF ForkFail, KthreaddFail, FreeSlot
  <2>2. PagesApart' /\ kstack'[np] = NoPage /\ \A p \in Slots \ {np} : kstack'[p] = kstack[p]
    BY <1>1, <1>3, <2>1, FreeApart
  <2>3. \A d \in CPUs \ {c} : pc[d] \in {"fork_fill", "kthreadd_fill"} =>
          kstack'[arg[d]] = NoPage
    BY <1>3, <2>2 DEF Claiming, Accounted
  <2>4. ASSUME NEW p \in Slots, state'[p] = "UNUSED", kstack'[p] # NoPage
        PROVE  /\ state[p] = "UNUSED" /\ kstack[p] # NoPage
               /\ ~(pc[c] \in {"sched", "back"} /\ proc[c] = p)
               /\ ~(pc[c] = "reap" /\ last_sched[c] = p)
    BY <1>1, <1>2, <1>3, <2>1, <2>2, <2>4 DEF TypeOK
  <2>5. QED BY <1>2, <2>2, <2>3, <2>4, AccountedKept
<1>6. QED BY <1>4, <1>5

\* A slot is freed: by wait_child with its stack, by kthread_exit without.
LEMMA EndStacks ==
  ASSUME IndInv, PlaceInv, Accounted, NEW c \in CPUs, OnlyCpu(c), WaitReap(c) \/ KthreadExit(c)
  PROVE  Accounted'
<1>1. TypeOK /\ PagesApart
  BY DEF IndInv, Accounted, StacksAccounted, PagesApart
<1>2. CASE WaitReap(c)
  <2>1. PICK q \in Slots : FreeKstack(q) /\ state' = [state EXCEPT ![q] = "UNUSED"]
    BY <1>2, ReapedSlot
  <2>2. pc[c] \in {"user", "wait"} /\ pc'[c] = "user" /\ UNCHANGED last_sched
    BY <1>1, <1>2, SMT DEF WaitReap, WaitTargets, Goto, TypeOK
  <2>3. PagesApart' /\ kstack'[q] = NoPage /\ \A p \in Slots \ {q} : kstack'[p] = kstack[p]
    BY <1>1, <2>1, FreeApart
  <2>4. ASSUME NEW d \in CPUs \ {c}, pc[d] \in {"fork_fill", "kthreadd_fill"}
        PROVE  kstack'[arg[d]] = NoPage
    <3>1. arg[d] \in Slots /\ kstack[arg[d]] = NoPage
      BY <2>4 DEF Accounted, IndInv, Claims, Claiming
    <3>2. QED BY <2>3, <3>1
  <2>5. ASSUME NEW p \in Slots, state'[p] = "UNUSED", kstack'[p] # NoPage
        PROVE  /\ state[p] = "UNUSED" /\ kstack[p] # NoPage
               /\ ~(pc[c] \in {"sched", "back"} /\ proc[c] = p)
               /\ ~(pc[c] = "reap" /\ last_sched[c] = p)
    BY <1>1, <2>1, <2>2, <2>3, <2>5 DEF TypeOK
  <2>6. QED BY <2>2, <2>3, <2>4, <2>5, AccountedKept
<1>3. CASE KthreadExit(c)
  <2>1. /\ pc[c] = "kthread" /\ pc'[c] = "sched" /\ proc[c] \in Slots
        /\ state' = [state EXCEPT ![proc[c]] = "UNUSED"]
        /\ UNCHANGED <<kstack, freePages, proc, last_sched>>
    BY <1>1, <1>3, RunsHere DEF KthreadExit, Goto, TypeOK
  <2>2. PagesApart'
    BY <1>1, <2>1 DEF PagesApart
  <2>3. \A d \in CPUs \ {c} : pc[d] \in {"fork_fill", "kthreadd_fill"} =>
          kstack'[arg[d]] = NoPage
    BY <2>1 DEF Accounted
  <2>4. ASSUME NEW p \in Slots, state'[p] = "UNUSED", kstack'[p] # NoPage
        PROVE  \/ Leaving(p)'
               \/ /\ state[p] = "UNUSED" /\ kstack[p] # NoPage
                  /\ ~(pc[c] \in {"sched", "back"} /\ proc[c] = p)
                  /\ ~(pc[c] = "reap" /\ last_sched[c] = p)
    <3>1. CASE p = proc[c]
      BY <2>1, <3>1 DEF Leaving
    <3>2. CASE p # proc[c]
      BY <1>1, <2>1, <2>4, <3>2 DEF TypeOK
    <3>3. QED BY <3>1, <3>2
  <2>5. QED BY <2>1, <2>2, <2>3, <2>4, AccountedKept
<1>4. QED BY <1>2, <1>3

\* The pages of the stacks stay accounted for, on one CPU or without kernel threads.
LEMMA AccountedStep ==
  ASSUME IndInv, PlaceInv, Accounted, NoKthreads \/ OneCpu, [Next]_vars
  PROVE  Accounted'
<1>1. TypeOK
  BY DEF IndInv
<1>2. ASSUME NEW c \in CPUs, SchedStep(c) PROVE Accounted'
  BY <1>1, <1>2, SchedOnlyCpu, SchedKeepsStacks, StacksKept, BackStacks DEF SchedStep
<1>3. ASSUME NEW c \in CPUs, ProcStep(c) PROVE Accounted'
  BY <1>1, <1>3, ProcOnlyCpu, ProcKeepsStacks, StacksKept, AllocStacks, FillStacks, EndStacks
     DEF ProcStep
<1>4. ASSUME NEW c \in CPUs, KthreadStep(c) PROVE Accounted'
  BY <1>1, <1>4, KthreadOnlyCpu, KthreadKeepsStacks, StacksKept, AllocStacks, FillStacks,
     EndStacks DEF KthreadStep
<1>5. CASE UNCHANGED vars
  BY <1>5 DEF vars, schedVars, tableVars, cpuVars, Accounted, StacksAccounted
<1>6. QED BY <1>2, <1>3, <1>4, <1>5 DEF Next, CpuStep, Stopped

-------------------------------------------------------------------------------
(* No kernel threads, as the kernel is built. *)

KthreadPlaces == ServePlaces \cup AskPlaces \cup {"kthread"}

\* What a step has to show so that there are still no kernel threads.
LEMMA NoKthreadsKept ==
  ASSUME NoKthreads, NEW c \in CPUs, OnlyCpu(c), create_list' = create_list,
         Place(c)' \notin KthreadPlaces,
         \A p \in Slots : context'[p].at \notin {"kthread", "created"},
         \A p \in Slots \ Threads : state'[p] \in Alive => user'[p],
         pc'[c] = "fork_publish" => user'[arg'[c]],
         \A d \in CPUs \ {c} : pc[d] = "fork_publish" => user'[arg[d]],
         \A p \in Slots : state'[p] = "UNUSED" => kstack'[p] = NoPage
  PROVE  NoKthreads'
<1>1. \A d \in CPUs : Place(d)' \notin KthreadPlaces
  <2>1. ASSUME NEW d \in CPUs, d # c PROVE Place(d)' = Place(d)
    BY <2>1 DEF OnlyCpu, Place
  <2>2. QED BY <2>1 DEF NoKthreads, KthreadPlaces
<1>2. \A d \in CPUs : pc'[d] = "fork_publish" => user'[arg'[d]]
  <2>1. ASSUME NEW d \in CPUs, d # c, pc'[d] = "fork_publish" PROVE user'[arg'[d]]
    BY <2>1 DEF OnlyCpu
  <2>2. QED BY <2>1
<1>3. QED BY <1>1, <1>2 DEF NoKthreads, KthreadPlaces

\* The step creates no process and saves no context.
LEMMA NoKthreadsQuiet ==
  ASSUME NoKthreads, NEW c \in CPUs, OnlyCpu(c), create_list' = create_list,
         UNCHANGED <<user, context>>,
         Place(c)' \notin KthreadPlaces, pc'[c] # "fork_publish",
         \A p \in Slots : /\ state'[p] \in Alive => state[p] \in Alive \/ user[p]
                          /\ state'[p] = "UNUSED" => state[p] = "UNUSED"
                          /\ kstack'[p] \in {kstack[p], NoPage}
  PROVE  NoKthreads'
<1>1. \A p \in Slots : context'[p].at \notin {"kthread", "created"}
  BY DEF NoKthreads
<1>2. \A p \in Slots \ Threads : state'[p] \in Alive => user'[p]
  BY DEF NoKthreads
<1>3. \A d \in CPUs \ {c} : pc[d] = "fork_publish" => user'[arg[d]]
  BY DEF NoKthreads
<1>4. \A p \in Slots : state'[p] = "UNUSED" => kstack'[p] = NoPage
  BY DEF NoKthreads
<1>5. QED BY <1>1, <1>2, <1>3, <1>4, NoKthreadsKept

\* Wake-ups, and the process of the step going to sleep or yielding.
LEMMA NoKthreadsSleep ==
  ASSUME IndInv, NoKthreads, NEW c \in CPUs, OnlyCpu(c), create_list' = create_list,
         UNCHANGED <<kstack, context>>,
         Place(c)' \notin KthreadPlaces, pc'[c] # "fork_publish",
         \/ TickKernel(c) \/ TickUser(c) \/ Yield(c) \/ SleepTicks(c) \/ ExitWake(c)
         \/ WaitSleep(c) \/ SignalSend(c) \/ KthreaddSleep(c)
  PROVE  NoKthreads'
<1>1. UNCHANGED user
  BY StatesWoken, StatesYielded
<1>2. \A p \in Slots : state'[p] = "UNUSED" => state[p] = "UNUSED"
  BY WakeFreesNone, YieldFreesNone
<1>3. \A p \in Slots : state'[p] \in Alive => state[p] \in Alive
  <2>1. CASE TickKernel(c) \/ TickUser(c) \/ ExitWake(c) \/ SignalSend(c)
    BY <2>1, StatesWoken DEF Alive
  <2>2. CASE Yield(c) \/ SleepTicks(c) \/ WaitSleep(c) \/ KthreaddSleep(c)
    <3>1. /\ proc[c] \in Slots /\ state[proc[c]] = "RUNNING"
          /\ \/ state' = [state EXCEPT ![proc[c]] = "RUNNABLE"]
             \/ state' = [state EXCEPT ![proc[c]] = "SLEEPING"]
      BY <2>2, StatesYielded
    <3>2. QED BY <3>1 DEF IndInv, TypeOK, Alive
  <2>3. QED BY <2>1, <2>2
<1>4. QED BY <1>1, <1>2, <1>3, NoKthreadsQuiet

\* The steps of the scheduler make no kernel thread.
LEMMA NoKthreadsSched ==
  ASSUME IndInv, PlaceInv, NoKthreads, NEW c \in CPUs, SchedStep(c), create_list' = create_list
  PROVE  NoKthreads'
<1>1. TypeOK /\ Placed /\ OnlyCpu(c)
  BY SchedOnlyCpu DEF IndInv
<1>2. Place(c) \notin KthreadPlaces
  BY DEF NoKthreads, KthreadPlaces
<1>3. CASE Schedule(c)
  <2> DEFINE p == Head(runqueue)
  <2>1. /\ p \in Slots /\ state[p] = "RUNNABLE" /\ state' = [state EXCEPT ![p] = "RUNNING"]
        /\ pc'[c] = "swtch" /\ UNCHANGED <<user, kstack>>
    BY <1>1, <1>3, HeadRunnable DEF Schedule, Goto, TypeOK
  <2>2. EntryPoint(p) \notin {"kthread", "created"}
    BY <2>1 DEF NoKthreads, EntryPoint, Alive, Threads
  <2>3. \A q \in Slots : context'[q].at \notin {"kthread", "created"}
    <3>1. \/ context' = context
          \/ context' = [context EXCEPT ![p] = Saved(EntryPoint(p), NoProc, kstack[p])]
      BY <1>3 DEF Schedule, PrepareContext
    <3>2. ASSUME NEW q \in Slots
          PROVE  context'[q] = context[q] \/ context'[q].at = EntryPoint(p)
      BY <1>1, <2>1, <3>1, SMT DEF TypeOK, Saved
    <3>3. QED BY <2>2, <3>2 DEF NoKthreads
  <2>4. \A q \in Slots \ Threads : state'[q] \in Alive => user'[q]
    BY <1>1, <2>1 DEF NoKthreads, TypeOK, Alive
  <2>5. \A q \in Slots : state'[q] = "UNUSED" => kstack'[q] = NoPage
    BY <1>1, <2>1 DEF NoKthreads, TypeOK
  <2>6. Place(c)' \notin KthreadPlaces
    BY <2>1 DEF Place, KthreadPlaces, ServePlaces, AskPlaces
  <2>7. QED BY <1>1, <2>1, <2>3, <2>4, <2>5, <2>6, NoKthreadsKept DEF NoKthreads
<1>4. CASE SwitchTo(c)
  <2> DEFINE p == proc[c]
  <2>1. p \in Slots /\ UNCHANGED <<state, user, kstack, ret>>
    BY <1>4, RunsHere DEF SwitchTo
  <2>2. \/ pc'[c] = "swtch" /\ context' = context
        \/ /\ pc'[c] = context[p].at /\ context[p].at \in ResumePoints
           /\ context' = [context EXCEPT ![p] = Popped]
    BY <1>1, <1>4 DEF SwitchTo, Corrupt, Goto, TypeOK
  <2>3. Place(c)' \notin KthreadPlaces /\ pc'[c] # "fork_publish"
    BY <2>1, <2>2 DEF Place, KthreadPlaces, ServePlaces, AskPlaces, ResumePoints, NoKthreads
  <2>4. ASSUME NEW q \in Slots PROVE context'[q] = context[q] \/ context'[q].at = "popped"
    BY <1>1, <2>2, SMT DEF TypeOK, Popped
  <2>5. \A q \in Slots : context'[q].at \notin {"kthread", "created"}
    BY <2>4 DEF NoKthreads
  <2>6. QED BY <1>1, <2>1, <2>3, <2>5, NoKthreadsKept DEF NoKthreads
<1>5. CASE Sched(c)
  <2> DEFINE p == proc[c]
  <2>1. /\ pc[c] = "sched" /\ p \in Slots /\ pc'[c] = "back" /\ UNCHANGED <<state, user, kstack>>
        /\ context' = context \/ context' = [context EXCEPT ![p] = Saved(ret[c], arg[c], stack[c])]
    BY <1>1, <1>5 DEF Sched, Goto, TypeOK, Placed
  <2>2. ASSUME NEW q \in Slots PROVE context'[q] = context[q] \/ context'[q].at = ret[c]
    BY <1>1, <2>1, SMT DEF TypeOK, Saved
  <2>3. ret[c] \notin {"kthread", "created"}
    BY <1>2, <2>1 DEF Place, KthreadPlaces, AskPlaces
  <2>4. \A q \in Slots : context'[q].at \notin {"kthread", "created"}
    BY <2>2, <2>3 DEF NoKthreads
  <2>5. Place(c)' \notin KthreadPlaces
    BY <2>1 DEF Place, KthreadPlaces, ServePlaces, AskPlaces
  <2>6. QED BY <1>1, <2>1, <2>4, <2>5, NoKthreadsKept DEF NoKthreads
<1>6. CASE Back(c) \/ Reap(c)
  <2>1. pc'[c] \in {"idle", "reap"} /\ UNCHANGED <<state, user, context>>
    BY <1>1, <1>6 DEF Back, Reap, Goto, TypeOK, tableVars
  <2>2. \A p \in Slots : kstack'[p] \in {kstack[p], NoPage}
    BY <1>1, <1>6 DEF Back, Reap, FreeKstack, TypeOK, tableVars
  <2>3. Place(c)' \notin KthreadPlaces
    BY <2>1 DEF Place, KthreadPlaces, ServePlaces, AskPlaces
  <2>4. QED BY <1>1, <2>1, <2>2, <2>3, NoKthreadsQuiet
<1>7. CASE TickResched(c) \/ PreemptCheck(c)
  <2>1. pc'[c] \in {"preempt", "user", "yield"} /\ UNCHANGED <<state, user, context, kstack>>
    BY <1>1, <1>7 DEF TickResched, PreemptCheck, Goto, TypeOK, tableVars
  <2>2. Place(c)' \notin KthreadPlaces
    BY <2>1 DEF Place, KthreadPlaces, ServePlaces, AskPlaces
  <2>3. QED BY <1>1, <2>1, <2>2, NoKthreadsQuiet
<1>8. CASE TickKernel(c)
  <2>1. UNCHANGED <<kstack, context, pc, ret>> /\ pc[c] \in {"idle", "swtch"}
    BY <1>8 DEF TickKernel, cpuVars
  <2>2. Place(c)' \notin KthreadPlaces
    BY <2>1 DEF Place, KthreadPlaces, ServePlaces, AskPlaces
  <2>3. QED BY <1>1, <1>8, <2>1, <2>2, NoKthreadsSleep
<1>9. CASE TickUser(c)
  <2>1. UNCHANGED <<kstack, context>> /\ pc'[c] = "tick"
    BY <1>1, <1>9 DEF TickUser, Goto, TypeOK
  <2>2. Place(c)' \notin KthreadPlaces
    BY <2>1 DEF Place, KthreadPlaces, ServePlaces, AskPlaces
  <2>3. QED BY <1>1, <1>9, <2>1, <2>2, NoKthreadsSleep
<1>10. CASE Yield(c) \/ SleepTicks(c)
  <2>1. pc[c] # "kthread"
    BY <1>2, <1>10 DEF Place, KthreadPlaces
  <2>2. UNCHANGED <<kstack, context>> /\ pc'[c] = "sched" /\ ret'[c] = "user"
    BY <1>1, <1>10, <2>1 DEF Yield, SleepTicks, SleepOn, Goto, TypeOK
  <2>3. Place(c)' \notin KthreadPlaces
    BY <2>2 DEF Place, KthreadPlaces, ServePlaces, AskPlaces
  <2>4. QED BY <1>1, <1>10, <2>2, <2>3, NoKthreadsSleep
<1>11. QED BY <1>3, <1>4, <1>5, <1>6, <1>7, <1>8, <1>9, <1>10 DEF SchedStep

\* The slot that c claims, fills, gives up or reaps; nothing else changes in the table.
LEMMA NoKthreadsSlot ==
  ASSUME IndInv, NoKthreads, NEW c \in CPUs, OnlyCpu(c), create_list' = create_list,
         NEW q \in Slots,
         \A p \in Slots \ {q} : /\ state'[p] = state[p] /\ user'[p] = user[p]
                                /\ kstack'[p] = kstack[p] /\ context'[p] = context[p],
         context'[q].at \in {"popped", "user"}, state'[q] \notin Alive,
         state'[q] = "UNUSED" => kstack'[q] = NoPage,
         \A d \in CPUs \ {c} : Claiming(d) => arg[d] # q,
         Place(c)' \notin KthreadPlaces,
         pc'[c] = "fork_publish" => user'[arg'[c]]
  PROVE  NoKthreads'
<1>1. \A p \in Slots : context'[p].at \notin {"kthread", "created"}
  BY DEF NoKthreads
<1>2. \A p \in Slots \ Threads : state'[p] \in Alive => user'[p]
  BY DEF NoKthreads
<1>3. ASSUME NEW p \in Slots, state'[p] = "UNUSED" PROVE kstack'[p] = NoPage
  <2>1. CASE p = q
    BY <1>3, <2>1
  <2>2. CASE p # q
    BY <1>3, <2>2, SMT DEF NoKthreads
  <2>3. QED BY <2>1, <2>2
<1>4. \A d \in CPUs \ {c} : pc[d] = "fork_publish" => user'[arg[d]]
  BY DEF NoKthreads, Claiming, IndInv, Claims
<1>5. QED BY <1>1, <1>2, <1>3, <1>4, NoKthreadsKept

\* User processes make no kernel thread.
LEMMA NoKthreadsProc ==
  ASSUME IndInv, PlaceInv, NoKthreads, NEW c \in CPUs, ProcStep(c), create_list' = create_list
  PROVE  NoKthreads'
<1>1. TypeOK /\ Placed /\ Claims /\ OnlyCpu(c)
  BY ProcOnlyCpu DEF IndInv
<1>2. CASE KernelInit(c)
  <2>1. /\ pc'[c] = "user" /\ UNCHANGED <<state, kstack, context>>
        /\ \A p \in Slots : user[p] => user'[p]
    BY <1>1, <1>2 DEF KernelInit, Goto, TypeOK
  <2>2. Place(c)' \notin KthreadPlaces
    BY <2>1 DEF Place, KthreadPlaces, ServePlaces, AskPlaces
  <2>3. \A d \in CPUs : pc[d] = "fork_publish" => user'[arg[d]]
    BY <1>1, <2>1 DEF NoKthreads, Claims, Claiming
  <2>4. QED BY <1>1, <2>1, <2>2, <2>3, NoKthreadsKept DEF NoKthreads
<1>3. CASE ForkAlloc(c)
  <2>1. PICK q \in Slots : FirstUnused(q) /\ ClaimSlot(q)
    BY <1>3 DEF ForkAlloc
  <2>2. /\ state[q] = "UNUSED" /\ state'[q] = "USED" /\ context'[q] = Popped
        /\ \A p \in Slots \ {q} : /\ state'[p] = state[p] /\ user'[p] = user[p]
                                  /\ kstack'[p] = kstack[p] /\ context'[p] = context[p]
    BY <1>1, <2>1 DEF FirstUnused, ClaimSlot, TypeOK
  <2>3. context'[q].at = "popped"
    BY <2>2, SMT DEF Popped
  <2>4. pc'[c] = "fork_fill"
    BY <1>1, <1>3 DEF ForkAlloc, Goto, TypeOK
  <2>5. Place(c)' \notin KthreadPlaces
    BY <2>4 DEF Place, KthreadPlaces, ServePlaces, AskPlaces
  <2>6. \A d \in CPUs : Claiming(d) => arg[d] # q
    BY <1>1, <2>2 DEF Claims
  <2>7. QED BY <1>1, <2>2, <2>3, <2>4, <2>5, <2>6, NoKthreadsSlot DEF Alive
<1>4. CASE ForkFill(c)
  <2> DEFINE q == arg[c]
  <2>1. /\ pc[c] = "fork_fill" /\ pc'[c] = "fork_publish" /\ UNCHANGED <<state, arg>>
        /\ user' = [user EXCEPT ![q] = TRUE]
    BY <1>1, <1>4 DEF ForkFill, Goto, TypeOK
  <2>2. PICK page : /\ kstack' = [kstack EXCEPT ![q] = page]
                    /\ context' = [context EXCEPT ![q] = Saved("user", NoProc, page)]
    BY <1>4 DEF ForkFill, AllocKstack
  <2>3. /\ q \in Slots /\ state[q] = "USED"
        /\ \A d \in CPUs \ {c} : Claiming(d) => arg[d] \in Slots \ {q}
    BY <2>1, FillingSlot DEF Claiming
  <2>4. /\ user'[q] /\ context'[q] = Saved("user", NoProc, page)
        /\ \A p \in Slots \ {q} : /\ state'[p] = state[p] /\ user'[p] = user[p]
                                  /\ kstack'[p] = kstack[p] /\ context'[p] = context[p]
    BY <1>1, <2>1, <2>2, <2>3 DEF TypeOK
  <2>5. context'[q].at = "user"
    BY <2>4, SMT DEF Saved
  <2>6. Place(c)' \notin KthreadPlaces
    BY <2>1 DEF Place, KthreadPlaces, ServePlaces, AskPlaces
  <2>7. QED BY <1>1, <2>1, <2>3, <2>4, <2>5, <2>6, NoKthreadsSlot DEF Alive
<1>5. CASE ForkFail(c)
  <2> DEFINE q == arg[c]
  <2>1. pc[c] = "fork_fill" /\ pc'[c] = "user" /\ FreeSlot(q)
    BY <1>1, <1>5 DEF ForkFail, Goto, TypeOK
  <2>2. /\ q \in Slots /\ state[q] = "USED"
        /\ \A d \in CPUs \ {c} : Claiming(d) => arg[d] \in Slots \ {q}
    BY <2>1, FillingSlot DEF Claiming
  <2>3. /\ state'[q] = "UNUSED" /\ kstack'[q] = NoPage /\ context'[q] = Popped
        /\ \A p \in Slots \ {q} : /\ state'[p] = state[p] /\ user'[p] = user[p]
                                  /\ kstack'[p] = kstack[p] /\ context'[p] = context[p]
    BY <1>1, <2>1, <2>2 DEF FreeSlot, FreeKstack, TypeOK
  <2>4. context'[q].at = "popped"
    BY <2>3, SMT DEF Popped
  <2>5. Place(c)' \notin KthreadPlaces
    BY <2>1 DEF Place, KthreadPlaces, ServePlaces, AskPlaces
  <2>6. QED BY <1>1, <2>1, <2>2, <2>3, <2>4, <2>5, NoKthreadsSlot DEF Alive
<1>6. CASE ForkPublish(c)
  <2> DEFINE q == arg[c]
  <2>1. /\ pc[c] = "fork_publish" /\ pc'[c] = "user" /\ UNCHANGED <<user, kstack, context>>
        /\ state' = [state EXCEPT ![q] = "RUNNABLE"]
    BY <1>1, <1>6 DEF ForkPublish, Goto, TypeOK
  <2>2. q \in Slots /\ user[q]
    BY <2>1, FillingSlot DEF Claiming, NoKthreads
  <2>3. \A p \in Slots : /\ state'[p] \in Alive => state[p] \in Alive \/ user[p]
                         /\ state'[p] = "UNUSED" => state[p] = "UNUSED"
    BY <1>1, <2>1, <2>2 DEF TypeOK
  <2>4. Place(c)' \notin KthreadPlaces
    BY <2>1 DEF Place, KthreadPlaces, ServePlaces, AskPlaces
  <2>5. QED BY <1>1, <2>1, <2>3, <2>4, NoKthreadsQuiet
<1>7. CASE Exit(c)
  <2> DEFINE q == proc[c]
  <2>1. /\ pc[c] = "user" /\ pc'[c] = "exit_wake" /\ UNCHANGED kstack
        /\ user' = [user EXCEPT ![q] = FALSE] /\ context' = [context EXCEPT ![q] = Popped]
        /\ state' = [state EXCEPT ![q] = "ZOMBIE"]
    BY <1>1, <1>7 DEF Exit, Goto, TypeOK
  <2>2. q \in Slots /\ state[q] = "RUNNING"
    BY <2>1, RunsHere
  <2>3. /\ state'[q] = "ZOMBIE" /\ context'[q] = Popped
        /\ \A p \in Slots \ {q} : /\ state'[p] = state[p] /\ user'[p] = user[p]
                                  /\ kstack'[p] = kstack[p] /\ context'[p] = context[p]
    BY <1>1, <2>1, <2>2 DEF TypeOK
  <2>4. context'[q].at = "popped"
    BY <2>3, SMT DEF Popped
  <2>5. Place(c)' \notin KthreadPlaces
    BY <2>1 DEF Place, KthreadPlaces, ServePlaces, AskPlaces
  <2>6. \A d \in CPUs : Claiming(d) => arg[d] # q
    BY <1>1, <2>2 DEF Claims
  <2>7. QED BY <1>1, <2>1, <2>2, <2>3, <2>4, <2>5, <2>6, NoKthreadsSlot DEF Alive
<1>8. CASE ExitWake(c)
  <2>1. UNCHANGED <<kstack, context>> /\ pc'[c] = "sched" /\ ret'[c] = "dead"
    BY <1>1, <1>8 DEF ExitWake, Goto, TypeOK
  <2>2. Place(c)' \notin KthreadPlaces
    BY <2>1 DEF Place, KthreadPlaces, ServePlaces, AskPlaces
  <2>3. QED BY <1>1, <1>8, <2>1, <2>2, NoKthreadsSleep
<1>9. CASE WaitReap(c)
  <2>1. PICK q \in Slots :
          /\ state[q] = "ZOMBIE" /\ FreeKstack(q) /\ context' = [context EXCEPT ![q] = Popped]
          /\ state' = [state EXCEPT ![q] = "UNUSED"] /\ user' = [user EXCEPT ![q] = FALSE]
    BY <1>9, ReapedSlot
  <2>2. /\ state'[q] = "UNUSED" /\ kstack'[q] = NoPage /\ context'[q] = Popped
        /\ \A p \in Slots \ {q} : /\ state'[p] = state[p] /\ user'[p] = user[p]
                                  /\ kstack'[p] = kstack[p] /\ context'[p] = context[p]
    BY <1>1, <2>1 DEF FreeKstack, TypeOK
  <2>3. context'[q].at = "popped"
    BY <2>2, SMT DEF Popped
  <2>4. pc'[c] = "user"
    BY <1>1, <1>9 DEF WaitReap, Goto, TypeOK
  <2>5. Place(c)' \notin KthreadPlaces
    BY <2>4 DEF Place, KthreadPlaces, ServePlaces, AskPlaces
  <2>6. \A d \in CPUs : Claiming(d) => arg[d] # q
    BY <1>1, <2>1 DEF Claims
  <2>7. QED BY <1>1, <2>2, <2>3, <2>4, <2>5, <2>6, NoKthreadsSlot DEF Alive
<1>10. CASE WaitNone(c)
  <2>1. pc'[c] \in {"user", "wait_sleep"} /\ UNCHANGED <<state, user, context, kstack>>
    BY <1>1, <1>10 DEF WaitNone, Goto, TypeOK, tableVars
  <2>2. Place(c)' \notin KthreadPlaces
    BY <2>1 DEF Place, KthreadPlaces, ServePlaces, AskPlaces
  <2>3. QED BY <1>1, <2>1, <2>2, NoKthreadsQuiet
<1>11. CASE WaitSleep(c)
  <2>1. UNCHANGED <<kstack, context>> /\ pc'[c] = "sched" /\ ret'[c] = "wait"
    BY <1>1, <1>11 DEF WaitSleep, SleepOn, Goto, TypeOK
  <2>2. Place(c)' \notin KthreadPlaces
    BY <2>1 DEF Place, KthreadPlaces, ServePlaces, AskPlaces
  <2>3. QED BY <1>1, <1>11, <2>1, <2>2, NoKthreadsSleep
<1>12. CASE SignalSend(c)
  <2>1. UNCHANGED <<kstack, context, pc, ret>> /\ pc[c] = "user"
    BY <1>12 DEF SignalSend, cpuVars
  <2>2. Place(c)' \notin KthreadPlaces
    BY <2>1 DEF Place, KthreadPlaces, ServePlaces, AskPlaces
  <2>3. QED BY <1>1, <1>12, <2>1, <2>2, NoKthreadsSleep
<1>13. QED BY <1>2, <1>3, <1>4, <1>5, <1>6, <1>7, <1>8, <1>9, <1>10, <1>11, <1>12 DEF ProcStep

\* Without clients kthreadd finds its list empty and sleeps.
LEMMA NoKthreadsKthread ==
  ASSUME IndInv, PlaceInv, NoKthreads, ~KthreadClients, NEW c \in CPUs, KthreadStep(c)
  PROVE  NoKthreads'
<1>1. TypeOK /\ OnlyCpu(c)
  BY KthreadOnlyCpu DEF IndInv
<1>2. Place(c) \notin KthreadPlaces /\ create_list = <<>>
  BY DEF NoKthreads, KthreadPlaces
<1>3. KthreaddEmpty(c) \/ KthreaddSleep(c)
  <2>1. pc[c] \notin KthreadPlaces
    BY <1>2 DEF Place, KthreadPlaces, ServePlaces, AskPlaces
  <2>2. QED BY <1>2, <2>1
    DEF KthreadStep, CreateQueue, CreateWake, CreateSleep, CreateReturn, KthreaddTake,
        KthreaddAlloc, KthreaddNoSlot, KthreaddFill, KthreaddFail, KthreaddPublish,
        KthreaddDone, KthreadExit, KthreadPlaces, ServePlaces, AskPlaces
<1>4. CASE KthreaddEmpty(c)
  <2>1. pc'[c] = "kthreadd_sleep" /\ UNCHANGED <<state, user, context, kstack, create_list>>
    BY <1>1, <1>4 DEF KthreaddEmpty, Goto, TypeOK, tableVars, kthreadVars
  <2>2. Place(c)' \notin KthreadPlaces
    BY <2>1 DEF Place, KthreadPlaces, ServePlaces, AskPlaces
  <2>3. QED BY <1>1, <2>1, <2>2, NoKthreadsQuiet
<1>5. CASE KthreaddSleep(c)
  <2>1. /\ UNCHANGED <<kstack, context, create_list>>
        /\ pc'[c] = "sched" /\ ret'[c] = "kthreadd"
    BY <1>1, <1>5 DEF KthreaddSleep, SleepOn, Goto, TypeOK, kthreadVars
  <2>2. Place(c)' \notin KthreadPlaces
    BY <2>1 DEF Place, KthreadPlaces, ServePlaces, AskPlaces
  <2>3. QED BY <1>1, <1>5, <2>1, <2>2, NoKthreadsSleep
<1>6. QED BY <1>3, <1>4, <1>5

\* As the kernel is built there is never a kernel thread to exit.
LEMMA NoKthreadsStep ==
  ASSUME IndInv, PlaceInv, NoKthreads, ~KthreadClients, [Next]_vars
  PROVE  NoKthreads'
<1>1. ASSUME NEW c \in CPUs, CpuStep(c) PROVE NoKthreads'
  BY <1>1, NoKthreadsSched, NoKthreadsProc, NoKthreadsKthread DEF CpuStep, kthreadVars
<1>2. CASE UNCHANGED vars
  <2>1. UNCHANGED <<create_list, state, user, kstack, context, pc, ret, arg>>
    BY <1>2 DEF vars, schedVars, tableVars, cpuVars, kthreadVars
  <2>2. QED BY <2>1 DEF NoKthreads, Place
<1>3. QED BY <1>1, <1>2 DEF Next, Stopped

\* rest_init makes init and kthreadd, which are on their own stacks.
LEMMA StacksInit == Init => Accounted /\ NoKthreads
<1> SUFFICES ASSUME Init PROVE Accounted /\ NoKthreads
  OBVIOUS
<1>1. /\ state = [p \in Slots |-> IF p = Swapper THEN "USED"
                                  ELSE IF p \in Threads THEN "RUNNABLE" ELSE "UNUSED"]
      /\ kstack = [p \in Slots |-> IF p \in Threads THEN p ELSE NoPage]
      /\ freePages = Pages \ Threads
      /\ pc = [c \in CPUs |-> "idle"] /\ create_list = <<>>
      /\ user = [p \in Slots |-> FALSE]
      /\ context = [p \in Slots |-> IF p \in Threads
                                    THEN Saved(EntryPoint(p), NoProc, p) ELSE Popped]
  BY DEF Init, SchedInit, KthreadInit
<1>2. \A c \in CPUs : pc[c] = "idle" /\ Place(c) = "idle"
  BY <1>1 DEF Place
<1>3. \A p \in Slots : state[p] = "UNUSED" => kstack[p] = NoPage
  BY <1>1
<1>4. \A p \in Slots \ Threads : state[p] \notin Alive
  BY <1>1 DEF Alive
<1>5. ASSUME NEW p \in Slots PROVE context[p].at \notin {"kthread", "created"}
  <2>1. CASE p \in Threads
    <3>1. context[p].at = EntryPoint(p)
      BY <1>1, <2>1, SMT DEF Saved
    <3>2. EntryPoint(p) \in {"user", "kernel_init", "kthreadd"}
      BY <2>1 DEF EntryPoint, Threads
    <3>3. QED BY <3>1, <3>2
  <2>2. CASE p \notin Threads
    BY <1>1, <2>2, SMT DEF Popped
  <2>3. QED BY <2>1, <2>2
<1>6. NoKthreads
  BY <1>1, <1>2, <1>3, <1>4, <1>5 DEF NoKthreads, ServePlaces, AskPlaces
<1>7. \A p, q \in Slots : kstack[p] # NoPage /\ kstack[p] = kstack[q] => p = q
  BY <1>1, SMT DEF Threads, InitProc, KthreaddTask, NoPage
<1>8. ASSUME NEW page \in Pages
      PROVE  page \in freePages <=> \A p \in Slots : kstack[p] # page
  <2>1. page # NoPage
    BY SMT DEF Pages, NoPage
  <2>2. CASE page \in Threads
    <3>1. page \in Slots
      BY <2>2, ThreadSlots
    <3>2. QED BY <1>1, <2>2, <3>1
  <2>3. CASE page \notin Threads
    BY <1>1, <2>1, <2>3
  <2>4. QED BY <2>2, <2>3
<1>9. QED BY <1>2, <1>3, <1>6, <1>7, <1>8 DEF Accounted, StacksAccounted
===============================================================================

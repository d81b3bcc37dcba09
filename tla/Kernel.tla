------------------------------- MODULE Kernel -------------------------------
(***************************************************************************)
(* The scheduler, the user processes and the kernel threads together.      *)
(***************************************************************************)
EXTENDS Proc, Kthread

vars == <<schedVars, kthreadVars>>

Init == SchedInit /\ KthreadInit

Running == crash = "none"

CpuStep(c) ==
  \/ SchedStep(c) /\ UNCHANGED kthreadVars
  \/ ProcStep(c) /\ UNCHANGED kthreadVars
  \/ KthreadStep(c)

\* After a panic, or once a stack is corrupted, the model goes no further.
Stopped == ~Running /\ UNCHANGED vars

Next == (Running /\ \E c \in CPUs : CpuStep(c)) \/ Stopped

Spec == Init /\ [][Next]_vars

----------------------------------------------------------------------------
(* Properties that hold for any number of CPUs. *)

\* The CPU executes its process: neither in the scheduler nor past the point
\* where the process gave up its RUNNING state.
Windows == {"sched", "exit_wake", "back"}
Active(c) == proc[c] # NoProc /\ pc[c] \notin Windows

Labels == ResumePoints \cup Windows \cup
  {"idle", "swtch", "reap", "tick", "preempt", "yield", "fork_fill",
   "fork_publish", "wait_sleep", "create_wake", "kthreadd_sleep",
   "kthreadd_alloc", "kthreadd_fill", "kthreadd_publish", "kthreadd_done"}

\* Every variable keeps the shape the C declarations give it.
TypeOK ==
  /\ state \in [Slots -> States]
  /\ chan \in [Slots -> Chans]
  /\ timed \in [Slots -> BOOLEAN]
  /\ parent \in [Slots -> Slots \cup {NoProc}]
  /\ user \in [Slots -> BOOLEAN]
  /\ kstack \in [Slots -> Pages \cup {NoPage}]
  /\ context \in [Slots -> Contexts]
  /\ runqueue \in Seq(Slots)
  /\ proc \in [CPUs -> Slots \cup {NoProc}]
  /\ pc \in [CPUs -> Labels]
  /\ ret \in [CPUs -> ResumePoints \cup {"none", "dead"}]
  /\ arg \in [CPUs -> Args]
  /\ stack \in [CPUs -> Pages \cup {NoPage}]
  /\ last_sched \in [CPUs -> Slots \cup {NoProc}]
  /\ freePages \subseteq Pages
  /\ crash \in {"none", "panic", "stack"}
  /\ create_list \in Seq(Slots)
  /\ serving \in Slots \cup {NoProc}
  /\ served \subseteq Slots \cup {NoProc}

\* The run queue holds exactly the RUNNABLE processes, each once: no enqueue
\* meets "already queued", no dequeue a process that is not RUNNABLE, and no
\* RUNNABLE process is forgotten.
QueueIsRunnable ==
  /\ \A i, j \in DOMAIN runqueue : runqueue[i] = runqueue[j] => i = j
  /\ Queued = {p \in Slots : state[p] = "RUNNABLE"}

\* A RUNNING process is the current process of exactly one CPU that has not
\* begun to give it up, and only RUNNING processes are.
RunningOnOneCpu ==
  /\ \A c \in CPUs : Active(c) => state[proc[c]] = "RUNNING"
  /\ \A c, d \in CPUs : Active(c) /\ Active(d) /\ proc[c] = proc[d] => c = d
  /\ \A p \in Slots : state[p] = "RUNNING" => \E c \in CPUs : Active(c) /\ proc[c] = p

\* The parent of a process in use can still wait for it: reparent and exit
\* leave no child behind with a parent that is dead or whose slot is free.
ParentAlive ==
  \A p \in Slots : state[p] # "UNUSED" /\ parent[p] # NoProc =>
    state[parent[p]] \notin {"UNUSED", "ZOMBIE"}

\* A creator sleeping in kthread_create_via_kthreadd has a request that is
\* still listed or being served: the wake-up on info->done is never lost.
CreatorServed ==
  \A p \in Slots : state[p] = "SLEEPING" /\ chan[p] = InfoChan(p) =>
    /\ p \notin served
    /\ p = serving \/ \E i \in DOMAIN create_list : create_list[i] = p

\* The life of a process.  kthread_exit leaves RUNNING for UNUSED directly.
LifeSteps ==
  {<<"UNUSED", "USED">>, <<"USED", "RUNNABLE">>, <<"USED", "UNUSED">>,
   <<"RUNNABLE", "RUNNING">>, <<"RUNNING", "RUNNABLE">>, <<"RUNNING", "SLEEPING">>,
   <<"SLEEPING", "RUNNABLE">>, <<"RUNNING", "ZOMBIE">>, <<"ZOMBIE", "UNUSED">>,
   <<"RUNNING", "UNUSED">>}

Cycle == \A p \in Slots : state'[p] = state[p] \/ <<state[p], state'[p]>> \in LifeSteps

\* The state of a slot moves only along the life of a process, whoever writes
\* it: no sleeper is freed, no zombie is woken, no claimed slot is taken twice.
LifeCycle == [][Cycle]_vars

----------------------------------------------------------------------------
(* Properties of a machine with one CPU; StacksAccounted also holds on      *)
(* several as long as no kernel thread exits.                               *)

\* No panic of the scheduler and no corrupted kernel stack.
KernelSurvives == crash = "none"

\* A kernel stack page is free or belongs to one slot, and an UNUSED slot keeps
\* one only until the scheduler has left the stack of the thread that exited.
StacksAccounted ==
  /\ \A p, q \in Slots : kstack[p] # NoPage /\ kstack[p] = kstack[q] => p = q
  /\ \A page \in Pages : page \in freePages <=> \A p \in Slots : kstack[p] # page
  /\ \A p \in Slots : state[p] = "UNUSED" /\ kstack[p] # NoPage =>
       \E c \in CPUs : \/ pc[c] \in {"sched", "back"} /\ proc[c] = p
                       \/ pc[c] = "reap" /\ last_sched[c] = p

\* A CPU never executes on a kernel stack page that has been given back.
StackHeld == \A c \in CPUs : stack[c] \notin freePages

\* p sleeps in wait_child although a child it waits for has become a zombie,
\* and no exiting child is still to wake it.
MissedExit(p) ==
  /\ state[p] = "SLEEPING"
  /\ chan[p] = ProcChan(p)
  /\ context[p].at = "wait"
  /\ Zombies(p, context[p].arg) # {}
  /\ ~\E c \in CPUs : pc[c] = "exit_wake" /\ arg[c] = p

\* wait_child sleeps only while no child it waits for has exited.
WaiterSeesExit == \A p \in Slots \ {InitProc} : ~MissedExit(p)

\* init does not sleep while an orphan handed to it is a zombie.
InitSeesOrphans == ~MissedExit(InitProc)

\* kthreadd does not sleep on a request: a listed request finds it awake or is
\* about to wake it.
KthreaddSeesRequest ==
  state[KthreaddTask] = "SLEEPING" /\ create_list # <<>> =>
    \E c \in CPUs : pc[c] = "create_wake"

----------------------------------------------------------------------------
(* Liveness.  Code that runs with interrupts off goes on.  The scheduler's   *)
(* loop is interrupted by the timer, whose period leaves it time to go on.  *)
(* A timer interrupt that comes while interrupts are off stays pending until *)
(* the return to ring 3, so a process cannot stay clear of it by making      *)
(* system calls.                                                             *)

Uninterrupted(c) ==
  \/ /\ \/ Sched(c) \/ Back(c) \/ Reap(c)
        \/ TickResched(c) \/ PreemptCheck(c) \/ Yield(c)
        \/ pc[c] # "user" /\ ProcStep(c)
     /\ UNCHANGED kthreadVars
  \/ KthreadStep(c)

Fairness ==
  \A c \in CPUs :
    /\ WF_vars(Running /\ Uninterrupted(c))
    /\ SF_vars(Running /\ Schedule(c) /\ UNCHANGED kthreadVars)
    /\ SF_vars(Running /\ SwitchTo(c) /\ UNCHANGED kthreadVars)
    /\ SF_vars(Running /\ TickUser(c) /\ UNCHANGED kthreadVars)

FairSpec == Spec /\ Fairness

\* A RUNNABLE process runs again: FIFO order and the timer suffice.
RunnableRuns == \A p \in Slots : state[p] = "RUNNABLE" ~> state[p] = "RUNNING"

\* waitpid returns once a child that it waits for has exited.
InWait(p) == context[p].at = "wait" /\ Zombies(p, context[p].arg) # {}
InUser(p) == \E c \in CPUs : proc[c] = p /\ pc[c] = "user"
WaitReturns == \A p \in Slots \ {InitProc} : InWait(p) ~> InUser(p)

\* A queued request for a kernel thread is served, whether or not a slot and a
\* stack can be had.
RequestServed ==
  \A p \in Slots : (\E i \in DOMAIN create_list : create_list[i] = p) ~> p \in served
=============================================================================

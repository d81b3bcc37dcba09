--------------------------- MODULE KernelPredicates ---------------------------
(***************************************************************************)
(* The inductive invariants of Kernel.                                     *)
(***************************************************************************)
EXTENDS Kernel

\* Where a CPU is and what it holds agree: it has a process except in the idle
\* loop and while it reaps, it leaves for sched() with a place to go on, and
\* scheduler() looks at last_sched only after sched() has set it.
Placed ==
  \A c \in CPUs : /\ proc[c] = NoProc <=> pc[c] \in {"idle", "reap"}
                  /\ pc[c] = "sched" => ret[c] \in ResumePoints \cup {"dead"}
                  /\ pc[c] \in {"back", "reap"} => last_sched[c] \in Slots

\* The CPU fills a slot that proc_alloc gave it, outside proc_lock.
Claiming(c) ==
  pc[c] \in {"fork_fill", "fork_publish", "kthreadd_fill", "kthreadd_publish"}

\* A slot being filled is USED, is not the swapper's, and one CPU fills it.
Claims ==
  /\ \A c \in CPUs : Claiming(c) =>
        arg[c] \in Slots \ {Swapper} /\ state[arg[c]] = "USED"
  /\ \A c, d \in CPUs : Claiming(c) /\ Claiming(d) /\ arg[c] = arg[d] => c = d

\* The inductive invariant.  Claims makes the enqueue at the end of fork and of
\* kthread_create_sync safe, Placed ties positions to processes; neither of
\* the two properties proved from it is inductive without them.
IndInv == TypeOK /\ Placed /\ Claims /\ QueueIsRunnable /\ RunningOnOneCpu

-------------------------------------------------------------------------------
(* Where a process is, and what for. *)

Alive == {"RUNNABLE", "RUNNING", "SLEEPING"}

\* The positions of a CPU on its boot stack.
OffStack == {"idle", "swtch", "back", "reap"}

\* A CPU that stands before sched() is where its process will go on.  It executes
\* the process until sched(), unless the process is dead.
Place(c) == IF pc[c] = "sched" THEN ret[c] ELSE pc[c]
Executes(c) == pc[c] \notin OffStack \cup {"exit_wake"} /\ Place(c) # "dead"

UserPlaces == {"user", "wait", "tick", "preempt", "yield", "fork_fill", "fork_publish",
               "wait_sleep"}
ServePlaces == {"kthreadd_alloc", "kthreadd_fill", "kthreadd_publish", "kthreadd_done"}
KthreaddPlaces == ServePlaces \cup {"kthreadd", "kthreadd_sleep"}
AskPlaces == {"create_wake", "created"}

\* p is one of those that get to a place.
Fits(p, at) ==
  /\ at \in UserPlaces => user[p]
  /\ at = "kernel_init" => p = InitProc
  /\ at = "kthread" => ~user[p] /\ p \notin Threads
  /\ at \in KthreaddPlaces => p = KthreaddTask
  /\ at \in AskPlaces => p # KthreaddTask

\* Code is executed for, and contexts are saved of, the processes it is made for;
\* the threads of rest_init never end.
Kinds ==
  /\ state[Swapper] = "USED" /\ ~user[KthreaddTask]
  /\ \A p \in Threads : state[p] \in Alive
  /\ \A c \in CPUs : Executes(c) => state[proc[c]] \in Alive /\ Fits(proc[c], Place(c))
  /\ \A p \in Slots : Fits(p, context[p].at)
  /\ \A c \in CPUs : pc[c] \in {"kthreadd_fill", "kthreadd_publish"} => ~user[arg[c]]

\* One CPU executes a process, on the stack of the process.  (kthread_reap may
\* take the stack from a process that has got the slot of a dead thread.)
OneExecutes ==
  /\ \A c, d \in CPUs : Executes(c) /\ Executes(d) /\ proc[c] = proc[d] => c = d
  /\ \A c \in CPUs : Executes(c) => kstack[proc[c]] \in {stack[c], NoPage}
  /\ \A c \in CPUs : pc[c] \in OffStack => stack[c] = NoPage

\* The inductive invariant, with IndInv.
PlaceInv == Kinds /\ OneExecutes

\* p will be there to wait for a child: exit hands the children of a user process
\* to init, and the threads of rest_init do not exit.
Lasts(p) == p = Swapper \/ (state[p] \in Alive /\ (user[p] \/ p \in Threads))

Parents == \A p \in Slots : state[p] # "UNUSED" /\ parent[p] # NoProc => Lasts(parent[p])

-------------------------------------------------------------------------------
(* The requests to kthreadd. *)

Listed == {create_list[i] : i \in DOMAIN create_list}

\* The creators whose request is not answered, or whose answer is not seen.
Pending == Listed \cup {serving} \cup served

\* The saved context of a process that a CPU executes is not usable.
Fresh == \A c \in CPUs : Executes(c) => context[proc[c]].at \in {"popped", "dead"}

\* The inductive invariant, with IndInv and PlaceInv: who is in
\* kthread_create_via_kthreadd has a request, and kthreadd serves one at a time.
Requests ==
  /\ crash = "none" => Fresh
  /\ \A c \in CPUs : Executes(c) /\ Place(c) \in AskPlaces => proc[c] \in Pending
  /\ \A p \in Slots : context[p].at = "created" => p \in Pending
  /\ serving # NoProc => \E c \in CPUs : pc[c] \in ServePlaces
  /\ CreatorServed

-------------------------------------------------------------------------------
(* Kernel stacks. *)

OneCpu == \A c, d \in CPUs : c = d

\* As the kernel is built nobody calls kthread_create after rest_init: there is no
\* kernel thread that could exit, so a free slot has given its stack back.
NoKthreads ==
  /\ create_list = <<>>
  /\ \A c \in CPUs : Place(c) \notin ServePlaces \cup AskPlaces \cup {"kthread"}
  /\ \A p \in Slots : context[p].at \notin {"kthread", "created"}
  /\ \A p \in Slots \ Threads : state[p] \in Alive => user[p]
  /\ \A c \in CPUs : pc[c] = "fork_publish" => user[arg[c]]
  /\ \A p \in Slots : state[p] = "UNUSED" => kstack[p] = NoPage

\* The inductive invariant for the stack pages, with IndInv and PlaceInv.
Accounted ==
  /\ \A c \in CPUs : pc[c] \in {"fork_fill", "kthreadd_fill"} => kstack[arg[c]] = NoPage
  /\ \A c \in CPUs : pc[c] = "back" => proc[c] = last_sched[c]
  /\ StacksAccounted

\* swtch can load the context of p: it is that of a suspended execution on the
\* kernel stack of p.
Loadable(p) ==
  context[p].at \in ResumePoints /\ context[p].page = kstack[p] /\ kstack[p] # NoPage

\* The inductive invariant of one CPU, with Accounted: the CPU executes on the stack
\* of its process, and every other living process waits to be loaded.
Single ==
  /\ crash = "none"
  /\ \A c \in CPUs :
       /\ pc[c] \notin OffStack => stack[c] = kstack[proc[c]] /\ stack[c] # NoPage
       /\ pc[c] = "exit_wake" \/ Place(c) = "dead" => state[proc[c]] \in {"ZOMBIE", "UNUSED"}
       /\ pc[c] = "reap" => state[last_sched[c]] = "UNUSED"
       /\ pc[c] \in {"fork_publish", "kthreadd_publish"} => Loadable(arg[c])
  /\ \A p \in Slots : state[p] \in Alive /\ (\A c \in CPUs : Executes(c) => proc[c] # p) =>
       Loadable(p)

-------------------------------------------------------------------------------
(* Sleeping on one CPU. *)

\* The process of c has seen no zombie and is on its way to sleep.
GoesToWait(c) == pc[c] = "wait_sleep" \/ (pc[c] = "sched" /\ ret[c] = "wait")

\* The inductive invariant of wait_child on one CPU: between the scan and the sleep
\* no other process runs.
Waits ==
  /\ \A c \in CPUs : GoesToWait(c) /\ proc[c] # InitProc => Zombies(proc[c], arg[c]) = {}
  /\ WaiterSeesExit

\* The same of kthreadd, which sleeps on its list and on nothing else.
Kthreadds ==
  /\ \A c \in CPUs : pc[c] = "kthreadd_sleep" => create_list = <<>>
  /\ state[KthreaddTask] = "SLEEPING" => chan[KthreaddTask] = ListChan
  /\ KthreaddSeesRequest
===============================================================================

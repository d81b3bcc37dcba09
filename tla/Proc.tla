-------------------------------- MODULE Proc --------------------------------
(***************************************************************************)
(* User processes: kernel_init, fork, exit, waitpid and the wake-up part   *)
(* of kill (arch/x86/kernel/proc.c, init.c, sysproc.c, ipc/signal.c).      *)
(*                                                                         *)
(* A pid is unique, so the pid a caller waits for is represented by the    *)
(* slot of that child, by AnyChild for -1, and by NoProc for a pid that is *)
(* not one of its children.                                                *)
(***************************************************************************)
EXTENDS Sched

\* kernel_init: kernel_execve gives init its address space and enters ring 3.
KernelInit(c) ==
  /\ pc[c] = "kernel_init"
  /\ user' = [user EXCEPT ![proc[c]] = TRUE]
  /\ Goto(c, "user")
  /\ UNCHANGED <<state, chan, timed, parent, kstack, context, runqueue, proc,
                 ret, arg, stack, last_sched, freePages, crash>>

----------------------------------------------------------------------------
(* fork_copy *)

\* proc_alloc.  With no UNUSED slot fork returns -1 and nothing changes.
ForkAlloc(c) ==
  /\ pc[c] = "user"
  /\ \E np \in Slots :
       /\ FirstUnused(np)
       /\ ClaimSlot(np)
       /\ arg' = [arg EXCEPT ![c] = np]
  /\ Goto(c, "fork_fill")
  /\ UNCHANGED <<runqueue, proc, ret, stack, last_sched, freePages>>

\* Variant: the context is not set up.
ForkFillNoContext(c) ==
  /\ pc[c] = "fork_fill"
  /\ \E page \in AllocCandidates :
       /\ user' = [user EXCEPT ![arg[c]] = TRUE]
       /\ parent' = [parent EXCEPT ![arg[c]] = proc[c]]
       /\ AllocKstack(arg[c], page)
  /\ Goto(c, "fork_publish")
  /\ UNCHANGED <<state, chan, timed, context, runqueue, proc, ret, arg, stack,
                 last_sched>>

\* Address space, parent, kernel stack, trap frame, files, signals, context.
ForkFill(c) ==
  /\ pc[c] = "fork_fill"
  /\ LET np == arg[c] IN
     \E page \in AllocCandidates :
       /\ user' = [user EXCEPT ![np] = TRUE]
       /\ parent' = [parent EXCEPT ![np] = proc[c]]
       /\ AllocKstack(np, page)
       /\ context' = [context EXCEPT ![np] = Saved("user", NoProc, page)]
  /\ Goto(c, "fork_publish")
  /\ UNCHANGED <<state, chan, timed, runqueue, proc, ret, arg, stack,
                 last_sched>>

\* mm_create, uvmcopy or alloc_page fails.  proc_free takes back what was set.
ForkFail(c) ==
  /\ pc[c] = "fork_fill"
  /\ FreeSlot(arg[c])
  /\ Goto(c, "user")
  /\ arg' = [arg EXCEPT ![c] = NoProc]
  /\ UNCHANGED <<chan, timed, proc, ret, stack, last_sched, crash>>

\* Variant: the child is queued and its state left USED.
ForkPublishUsed(c) ==
  /\ pc[c] = "fork_publish"
  /\ Enqueue(arg[c])
  /\ Goto(c, "user")
  /\ arg' = [arg EXCEPT ![c] = NoProc]
  /\ UNCHANGED <<state, chan, timed, parent, user, kstack, context, proc, ret,
                 stack, last_sched, freePages>>

ForkPublish(c) ==
  /\ pc[c] = "fork_publish"
  /\ state' = [state EXCEPT ![arg[c]] = "RUNNABLE"]
  /\ Enqueue(arg[c])
  /\ Goto(c, "user")
  /\ arg' = [arg EXCEPT ![c] = NoProc]
  /\ UNCHANGED <<chan, timed, parent, user, kstack, context, proc, ret, stack,
                 last_sched, freePages>>

----------------------------------------------------------------------------
(* exit_with_xstate: exit(status) and exit_signal(sig).  User init never    *)
(* exits.                                                                   *)

\* Variant: children that have already exited are passed over.
ReparentLiving(p) ==
  parent' = [q \in Slots |->
    IF parent[q] = p /\ state[q] \notin {"UNUSED", "ZOMBIE"}
    THEN InitProc ELSE parent[q]]

\* reparent(p)
Reparent(p) ==
  parent' = [q \in Slots |-> IF parent[q] = p /\ state[q] # "UNUSED"
                             THEN InitProc ELSE parent[q]]

\* Variant: the exiting process frees its own stack.
ExitFreesStack(c) ==
  /\ pc[c] = "user"
  /\ LET p == proc[c] IN
     /\ p # InitProc
     /\ arg' = [arg EXCEPT ![c] = parent[p]]
     /\ Reparent(p)
     /\ Unlink(p)
     /\ FreeKstack(p)
     /\ user' = [user EXCEPT ![p] = FALSE]
     /\ context' = [context EXCEPT ![p] = Popped]
     /\ state' = [state EXCEPT ![p] = "ZOMBIE"]
  /\ Goto(c, "exit_wake")
  /\ UNCHANGED <<chan, timed, proc, ret, stack, last_sched, crash>>

\* Files, cwd and address space are given up, then the section under proc_lock.
Exit(c) ==
  /\ pc[c] = "user"
  /\ LET p == proc[c] IN
     /\ p # InitProc
     /\ arg' = [arg EXCEPT ![c] = parent[p]]
     /\ Reparent(p)
     /\ Unlink(p)
     /\ user' = [user EXCEPT ![p] = FALSE]
     /\ context' = [context EXCEPT ![p] = Popped]
     /\ state' = [state EXCEPT ![p] = "ZOMBIE"]
  /\ Goto(c, "exit_wake")
  /\ UNCHANGED <<chan, timed, kstack, proc, ret, stack, last_sched, freePages,
                 crash>>

\* Variant: the parent is not woken.
ExitSilent(c) ==
  /\ pc[c] = "exit_wake"
  /\ Goto(c, "sched")
  /\ ret' = [ret EXCEPT ![c] = "dead"]
  /\ arg' = [arg EXCEPT ![c] = NoProc]
  /\ UNCHANGED <<tableVars, runqueue, proc, stack, last_sched, freePages, crash>>

\* wakeup(parent), with the parent read above.
ExitWake(c) ==
  /\ pc[c] = "exit_wake"
  /\ WakeAll(IF arg[c] = NoProc THEN {} ELSE Sleepers(ProcChan(arg[c])))
  /\ Goto(c, "sched")
  /\ ret' = [ret EXCEPT ![c] = "dead"]
  /\ arg' = [arg EXCEPT ![c] = NoProc]
  /\ UNCHANGED <<parent, user, kstack, context, proc, stack, last_sched,
                 freePages>>

----------------------------------------------------------------------------
(* wait_child *)

Children(p) == {q \in Slots : parent[q] = p /\ state[q] # "UNUSED"}

Matches(target, q) == target \in {AnyChild, q}

Zombies(p, target) ==
  {q \in Children(p) : state[q] = "ZOMBIE" /\ Matches(target, q)}

\* A call from ring 3, or the loop after a sleep.  User init only calls
\* waitpid(-1).
WaitTargets(c) ==
  LET p == proc[c] IN
  {t \in Args : \/ pc[c] = "wait" /\ t = arg[c]
                \/ pc[c] = "user" /\ t = AnyChild
                \/ pc[c] = "user" /\ p # InitProc /\ t \in Children(p) \cup {NoProc}}

\* The scan finds a matching zombie: zombie_reap_locked and return.
WaitReap(c) ==
  /\ \E target \in WaitTargets(c) : \E q \in Zombies(proc[c], target) :
       /\ \A r \in Zombies(proc[c], target) : q <= r
       /\ Unlink(q)
       /\ FreeKstack(q)
       /\ context' = [context EXCEPT ![q] = Popped]
       /\ state' = [state EXCEPT ![q] = "UNUSED"]
       /\ parent' = [parent EXCEPT ![q] = NoProc]
       /\ user' = [user EXCEPT ![q] = FALSE]
  /\ Goto(c, "user")
  /\ arg' = [arg EXCEPT ![c] = NoProc]
  /\ UNCHANGED <<chan, timed, proc, ret, stack, last_sched, crash>>

\* The scan finds none: -1 without children, else proc_lock is released before
\* sleep(parent) takes it again.
WaitNone(c) ==
  /\ \E target \in WaitTargets(c) :
       /\ Zombies(proc[c], target) = {}
       /\ IF Children(proc[c]) = {}
          THEN Goto(c, "user") /\ arg' = [arg EXCEPT ![c] = NoProc]
          ELSE Goto(c, "wait_sleep") /\ arg' = [arg EXCEPT ![c] = target]
  /\ UNCHANGED <<tableVars, runqueue, proc, ret, stack, last_sched, freePages,
                 crash>>

\* Variant: no channel.
WaitSleepNoChan(c) ==
  /\ pc[c] = "wait_sleep"
  /\ SleepOn(c, NoChan, FALSE, "wait", arg[c])
  /\ UNCHANGED <<parent, user, kstack, context, runqueue, proc, stack,
                 last_sched, freePages, crash>>

WaitSleep(c) ==
  /\ pc[c] = "wait_sleep"
  /\ SleepOn(c, ProcChan(proc[c]), FALSE, "wait", arg[c])
  /\ UNCHANGED <<parent, user, kstack, context, runqueue, proc, stack,
                 last_sched, freePages, crash>>

----------------------------------------------------------------------------
\* Variant: the target need not be asleep.
SignalSendAny(c) ==
  /\ pc[c] = "user"
  /\ \E p \in Slots :
       /\ state[p] \in {"SLEEPING", "RUNNING"} /\ user[p]
       /\ WakeAll({p})
  /\ UNCHANGED <<parent, user, kstack, context, cpuVars, freePages>>

\* signal_send to a process with an address space: it sets a pending bit,
\* which this module does not represent, and wakes the process.
SignalSend(c) ==
  /\ pc[c] = "user"
  /\ \E p \in Slots :
       /\ state[p] = "SLEEPING" /\ user[p]
       /\ WakeAll({p})
  /\ UNCHANGED <<parent, user, kstack, context, cpuVars, freePages>>

ProcStep(c) ==
  \/ KernelInit(c)
  \/ ForkAlloc(c) \/ ForkFill(c) \/ ForkFail(c) \/ ForkPublish(c)
  \/ Exit(c) \/ ExitWake(c)
  \/ WaitReap(c) \/ WaitNone(c) \/ WaitSleep(c)
  \/ SignalSend(c)
=============================================================================

------------------------------ MODULE Kthread ------------------------------
(***************************************************************************)
(* Kernel threads: kthread_create through kthreadd, and kthread_exit       *)
(* (arch/x86/kernel/proc.c).  A request is represented by the slot of its  *)
(* creator, which waits until the request is served.                       *)
(*                                                                         *)
(* The kernel itself creates no thread after rest_init; the callers in the *)
(* repository are those of test/kernel_test.c, which are switched off.     *)
(* With KthreadClients, kernel_init and the threads it makes are such      *)
(* callers; without, the model is the kernel as it is built.               *)
(***************************************************************************)
EXTENDS Sched

VARIABLES
  create_list,   \* kthread_create_list
  serving,       \* the request kthreadd has taken off the list
  served         \* creators whose info->done is set and not yet seen

kthreadVars == <<create_list, serving, served>>

KthreadInit == create_list = <<>> /\ serving = NoProc /\ served = {}

----------------------------------------------------------------------------
(* kthread_create_via_kthreadd *)

CreateQueue(c) ==
  /\ KthreadClients
  /\ pc[c] \in {"kernel_init", "kthread"}
  /\ create_list' = Append(create_list, proc[c])
  /\ Goto(c, "create_wake")
  /\ UNCHANGED <<tableVars, runqueue, proc, ret, arg, stack, last_sched,
                 freePages, crash, serving, served>>

\* Variant: kthreadd is not woken.
CreateSilent(c) ==
  /\ pc[c] = "create_wake"
  /\ Goto(c, "created")
  /\ UNCHANGED <<tableVars, runqueue, proc, ret, arg, stack, last_sched,
                 freePages, crash, kthreadVars>>

\* wakeup(&kthread_create_list)
CreateWake(c) ==
  /\ pc[c] = "create_wake"
  /\ WakeAll(Sleepers(ListChan))
  /\ Goto(c, "created")
  /\ UNCHANGED <<parent, user, kstack, context, proc, ret, arg, stack,
                 last_sched, freePages, kthreadVars>>

\* Variant: info->done is not tested.
CreateSleepBlind(c) ==
  /\ pc[c] = "created"
  /\ SleepOn(c, InfoChan(proc[c]), FALSE, "created", NoProc)
  /\ UNCHANGED <<parent, user, kstack, context, runqueue, proc, stack,
                 last_sched, freePages, crash, kthreadVars>>

\* The test of info->done and the sleep are one section under proc_lock.
CreateSleep(c) ==
  /\ pc[c] = "created"
  /\ proc[c] \notin served
  /\ SleepOn(c, InfoChan(proc[c]), FALSE, "created", NoProc)
  /\ UNCHANGED <<parent, user, kstack, context, runqueue, proc, stack,
                 last_sched, freePages, crash, kthreadVars>>

CreateReturn(c) ==
  /\ pc[c] = "created"
  /\ proc[c] \in served
  /\ served' = served \ {proc[c]}
  /\ Goto(c, EntryPoint(proc[c]))
  /\ UNCHANGED <<tableVars, runqueue, proc, ret, arg, stack, last_sched,
                 freePages, crash, create_list, serving>>

----------------------------------------------------------------------------
(* kthreadd *)

KthreaddEmpty(c) ==
  /\ pc[c] = "kthreadd"
  /\ create_list = <<>>
  /\ Goto(c, "kthreadd_sleep")
  /\ UNCHANGED <<tableVars, runqueue, proc, ret, arg, stack, last_sched,
                 freePages, crash, kthreadVars>>

KthreaddSleep(c) ==
  /\ pc[c] = "kthreadd_sleep"
  /\ SleepOn(c, ListChan, FALSE, "kthreadd", NoProc)
  /\ UNCHANGED <<parent, user, kstack, context, runqueue, proc, stack,
                 last_sched, freePages, crash, kthreadVars>>

KthreaddTake(c) ==
  /\ pc[c] = "kthreadd"
  /\ create_list # <<>>
  /\ serving' = Head(create_list)
  /\ create_list' = Tail(create_list)
  /\ Goto(c, "kthreadd_alloc")
  /\ UNCHANGED <<tableVars, runqueue, proc, ret, arg, stack, last_sched,
                 freePages, crash, served>>

\* kthread_create_sync: proc_alloc
KthreaddAlloc(c) ==
  /\ pc[c] = "kthreadd_alloc"
  /\ \E np \in Slots :
       /\ FirstUnused(np)
       /\ ClaimSlot(np)
       /\ arg' = [arg EXCEPT ![c] = np]
  /\ Goto(c, "kthreadd_fill")
  /\ UNCHANGED <<runqueue, proc, ret, stack, last_sched, freePages,
                 kthreadVars>>

\* Variant: the failed request is dropped.
KthreaddNoSlotDrop(c) ==
  /\ pc[c] = "kthreadd_alloc"
  /\ \A np \in Slots \ {Swapper} : state[np] # "UNUSED"
  /\ Goto(c, "kthreadd")
  /\ UNCHANGED <<tableVars, runqueue, proc, ret, arg, stack, last_sched,
                 freePages, crash, kthreadVars>>

KthreaddNoSlot(c) ==
  /\ pc[c] = "kthreadd_alloc"
  /\ \A np \in Slots \ {Swapper} : state[np] # "UNUSED"
  /\ Goto(c, "kthreadd_done")
  /\ UNCHANGED <<tableVars, runqueue, proc, ret, arg, stack, last_sched,
                 freePages, crash, kthreadVars>>

\* kthread_create_sync: kernel stack, parent, kthread_ctx_init
KthreaddFill(c) ==
  /\ pc[c] = "kthreadd_fill"
  /\ LET np == arg[c] IN
     \E page \in AllocCandidates :
       /\ AllocKstack(np, page)
       /\ parent' = [parent EXCEPT ![np] = KthreaddTask]
       /\ context' = [context EXCEPT ![np] = Saved("kthread", NoProc, page)]
  /\ Goto(c, "kthreadd_publish")
  /\ UNCHANGED <<state, chan, timed, user, runqueue, proc, ret, arg, stack,
                 last_sched, kthreadVars>>

\* alloc_page fails: proc_free
KthreaddFail(c) ==
  /\ pc[c] = "kthreadd_fill"
  /\ FreeSlot(arg[c])
  /\ Goto(c, "kthreadd_done")
  /\ arg' = [arg EXCEPT ![c] = NoProc]
  /\ UNCHANGED <<chan, timed, proc, ret, stack, last_sched, crash,
                 kthreadVars>>

KthreaddPublish(c) ==
  /\ pc[c] = "kthreadd_publish"
  /\ state' = [state EXCEPT ![arg[c]] = "RUNNABLE"]
  /\ Enqueue(arg[c])
  /\ Goto(c, "kthreadd_done")
  /\ arg' = [arg EXCEPT ![c] = NoProc]
  /\ UNCHANGED <<chan, timed, parent, user, kstack, context, proc, ret, stack,
                 last_sched, freePages, kthreadVars>>

\* info->done = 1 and the wake-up of the creator, in one section.
KthreaddDone(c) ==
  /\ pc[c] = "kthreadd_done"
  /\ served' = served \cup {serving}
  /\ WakeAll(Sleepers(InfoChan(serving)))
  /\ serving' = NoProc
  /\ Goto(c, "kthreadd")
  /\ UNCHANGED <<parent, user, kstack, context, proc, ret, arg, stack,
                 last_sched, freePages, create_list>>

----------------------------------------------------------------------------
\* kthread_exit: the slot is UNUSED before sched() has left its stack.
KthreadExit(c) ==
  /\ pc[c] = "kthread"
  /\ state' = [state EXCEPT ![proc[c]] = "UNUSED"]
  /\ Goto(c, "sched")
  /\ ret' = [ret EXCEPT ![c] = "dead"]
  /\ UNCHANGED <<chan, timed, parent, user, kstack, context, runqueue, proc,
                 arg, stack, last_sched, freePages, crash, kthreadVars>>

KthreadStep(c) ==
  \/ CreateQueue(c) \/ CreateWake(c) \/ CreateSleep(c) \/ CreateReturn(c)
  \/ KthreaddEmpty(c) \/ KthreaddSleep(c) \/ KthreaddTake(c) \/ KthreaddAlloc(c)
  \/ KthreaddNoSlot(c) \/ KthreaddFill(c) \/ KthreaddFail(c) \/ KthreaddPublish(c)
  \/ KthreaddDone(c) \/ KthreadExit(c)
=============================================================================

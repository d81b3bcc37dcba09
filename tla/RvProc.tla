-------------------------------- MODULE RvProc --------------------------------
(***************************************************************************)
(* Processes of the RISC-V kernel: fork, exit, wait, kill, sleep, wakeup,  *)
(* yield and the scheduler of arch/riscv/kernel/proc.c, the traps that     *)
(* call them (trap.c) and their system calls (sysproc.c).                  *)
(*                                                                         *)
(* Every process has a spin lock, p->lock; a CPU spins with interrupts off *)
(* until it gets the lock it wants.  A step takes at most one lock it      *)
(* keeps, or is a whole section under a lock it gives back.  wait and exit *)
(* read the parent field of other processes without their lock.            *)
(* Memory, files and the current directory are in other modules.           *)
(***************************************************************************)
EXTENDS Integers, FiniteSets

CONSTANTS
  NPROC,         \* slots of the process table; slot 0 is initproc
  NCPU

RvProcAssumption == NPROC \in Nat \ {0} /\ NCPU \in Nat \ {0}

VARIABLES
  rp,            \* proc[]: state and the place in the kernel
  plock          \* the process that holds p->lock, NOONE if it is free

rvProcVars == <<rp, plock>>

Slots == 0 .. NPROC - 1
initproc == 0
NOONE == NPROC

\* pc: where the process is; other: the slot fork fills or exit's original
\* parent; next and havekids: the loop of wait.
FreeSlot == [state |-> "UNUSED", parent |-> NOONE, chan |-> "none", killed |-> FALSE,
             pc |-> "user", other |-> NOONE, next |-> 0, havekids |-> FALSE]

Unlocked(s) == plock[s] = NOONE
Runs(p) == rp[p].state = "RUNNING"
At(p, where) == Runs(p) /\ rp[p].pc = where
Children(p) == {s \in Slots : rp[s].parent = p}

\* wakeup1(p), with p->lock held: only a process in wait sleeps on itself.
Wakeup1(procs, p) ==
  IF procs[p].state = "SLEEPING" /\ procs[p].chan = "wait"
  THEN [procs EXCEPT ![p].state = "RUNNABLE"] ELSE procs

----------------------------------------------------------------------------
(* scheduling *)

\* scheduler: swtch to p with p->lock held.  p goes on in forkret, yield or
\* sleep, which give the lock back, or in wait, which keeps it and scans again.
scheduler(p) ==
  /\ rp[p].state = "RUNNABLE" /\ Unlocked(p)
  /\ Cardinality({q \in Slots : Runs(q)}) < NCPU
  /\ rp' = [rp EXCEPT ![p] = [@ EXCEPT !.state = "RUNNING", !.chan = "none",
                                       !.next = 0, !.havekids = FALSE]]
  /\ plock' = IF rp[p].pc = "wait" THEN [plock EXCEPT ![p] = p] ELSE plock

\* yield, from usertrap or kerneltrap: a timer interrupt arrives only while the
\* process holds no lock (in sys_sleep it holds tickslock).
yield(p) ==
  /\ Runs(p) /\ rp[p].pc # "nap_sleep" /\ Unlocked(p) /\ \A s \in Slots : plock[s] # p
  /\ rp' = [rp EXCEPT ![p].state = "RUNNABLE"]
  /\ UNCHANGED plock

----------------------------------------------------------------------------
(* fork *)

\* allocproc returns a slot with its lock held: the first that is unused when its
\* scan comes to it.  It does not touch killed.
allocproc(p, s) ==
  /\ At(p, "user") /\ ~rp[p].killed
  /\ rp[s].state = "UNUSED" /\ Unlocked(s)
  /\ plock' = [plock EXCEPT ![s] = p]
  /\ rp' = [rp EXCEPT ![p] = [@ EXCEPT !.pc = "fork", !.other = s]]

\* Back to user mode.
Returned(procs, p) ==
  [procs EXCEPT ![p] = [@ EXCEPT !.pc = "user", !.other = NOONE, !.next = 0,
                                 !.havekids = FALSE]]

fork(p) ==
  LET s == rp[p].other
  IN  /\ At(p, "fork")
      /\ rp' = Returned([rp EXCEPT ![s] = [@ EXCEPT !.state = "RUNNABLE",
                                                    !.parent = p]], p)
      /\ plock' = [plock EXCEPT ![s] = NOONE]

\* There is no page for the trapframe, and the slot is left as it is; or later
\* steps of allocproc or uvmcopy fail, and freeproc clears it.
ForkFails(p) ==
  LET s == rp[p].other
  IN  /\ At(p, "fork")
      /\ \E slot \in {rp[s], FreeSlot} : rp' = Returned([rp EXCEPT ![s] = slot], p)
      /\ plock' = [plock EXCEPT ![s] = NOONE]

----------------------------------------------------------------------------
(* exit *)

Goto(p, pc) == [rp EXCEPT ![p].pc = pc]

\* The call, or usertrap when it finds p->killed.  init never calls it.
StartExit(p) ==
  /\ p # initproc /\ At(p, "user")
  /\ rp' = Goto(p, "exit_init")
  /\ UNCHANGED plock

ExitWakeInit(p) ==
  /\ At(p, "exit_init") /\ Unlocked(initproc)
  /\ rp' = Wakeup1(Goto(p, "exit_parent"), initproc)
  /\ UNCHANGED plock

\* original_parent = p->parent, under p->lock.
ExitReadParent(p) ==
  /\ At(p, "exit_parent") /\ Unlocked(p)
  /\ rp' = [rp EXCEPT ![p] = [@ EXCEPT !.pc = "exit_lock", !.other = rp[p].parent]]
  /\ UNCHANGED plock

\* Variant: the process locks itself before its parent.
ExitLockSelfFirst(p) ==
  \/ /\ At(p, "exit_lock") /\ Unlocked(p)
     /\ plock' = [plock EXCEPT ![p] = p] /\ rp' = Goto(p, "exit_self")
  \/ /\ At(p, "exit_self") /\ Unlocked(rp[p].other)
     /\ plock' = [plock EXCEPT ![rp[p].other] = p] /\ rp' = Goto(p, "reparent")

\* The parent's lock, then its own.
ExitLock(p) ==
  \/ /\ At(p, "exit_lock") /\ Unlocked(rp[p].other)
     /\ plock' = [plock EXCEPT ![rp[p].other] = p] /\ rp' = Goto(p, "exit_self")
  \/ /\ At(p, "exit_self") /\ Unlocked(p)
     /\ plock' = [plock EXCEPT ![p] = p] /\ rp' = Goto(p, "reparent")

\* One child: its lock is taken and given back.
reparent(p) ==
  /\ At(p, "reparent")
  /\ LET s == CHOOSE c \in Children(p) : \A d \in Children(p) : c <= d
     IN  /\ Children(p) # {} /\ Unlocked(s)
         /\ rp' = [rp EXCEPT ![s].parent = initproc]
  /\ UNCHANGED plock

\* The end of exit: wake the parent, become a zombie; sched leaves p->lock to
\* the scheduler, which releases it.
ExitSwitch(p) ==
  /\ At(p, "reparent") /\ Children(p) = {}
  /\ rp' = [Wakeup1(rp, rp[p].other) EXCEPT
              ![p] = [@ EXCEPT !.state = "ZOMBIE", !.pc = "user", !.other = NOONE]]
  /\ plock' = [plock EXCEPT ![rp[p].other] = NOONE, ![p] = NOONE]

----------------------------------------------------------------------------
(* wait *)

WaitLock(p) ==
  /\ At(p, "user") /\ ~rp[p].killed /\ Unlocked(p)
  /\ plock' = [plock EXCEPT ![p] = p]
  /\ rp' = Goto(p, "wait")

\* One turn of the scan, with p->lock held: a zombie child is freed, or its
\* status cannot be copied out.
WaitScanSlot(p) ==
  LET s == rp[p].next
      child == rp[s].parent = p
  IN  /\ At(p, "wait") /\ s \in Slots
      /\ child => Unlocked(s)
      /\ IF child /\ rp[s].state = "ZOMBIE"
         THEN /\ \/ rp' = Returned([rp EXCEPT ![s] = FreeSlot], p)
                 \/ rp' = Returned(rp, p)
              /\ plock' = [plock EXCEPT ![p] = NOONE]
         ELSE /\ rp' = [rp EXCEPT ![p] = [@ EXCEPT !.next = @ + 1,
                                                  !.havekids = @ \/ child]]
              /\ UNCHANGED plock

\* After the scan: give up, or sleep(p, &p->lock).
WaitSleeps(p) ==
  /\ At(p, "wait") /\ rp[p].next = NPROC
  /\ rp' = IF ~rp[p].havekids \/ rp[p].killed THEN Returned(rp, p)
           ELSE [rp EXCEPT ![p] = [@ EXCEPT !.state = "SLEEPING", !.chan = "wait",
                                            !.next = 0, !.havekids = FALSE]]
  /\ plock' = [plock EXCEPT ![p] = NOONE]

----------------------------------------------------------------------------
(* sys_sleep and the clock, kill *)

\* The loop of sys_sleep tests killed without p->lock ...
NapTest(p) ==
  /\ \/ At(p, "user") /\ ~rp[p].killed
     \/ At(p, "nap")
  /\ rp' = IF rp[p].killed THEN Returned(rp, p) ELSE Goto(p, "nap_sleep")
  /\ UNCHANGED plock

\* ... and then sleeps on &ticks.
NapSleep(p) ==
  /\ At(p, "nap_sleep") /\ Unlocked(p)
  /\ rp' = [rp EXCEPT ![p] = [@ EXCEPT !.state = "SLEEPING", !.chan = "ticks",
                                       !.pc = "nap"]]
  /\ UNCHANGED plock

\* Enough ticks have passed.
NapEnds(p) == At(p, "nap") /\ rp' = Returned(rp, p) /\ UNCHANGED plock

\* wakeup(&ticks) reaches s.
clockintr(s) ==
  /\ rp[s].state = "SLEEPING" /\ rp[s].chan = "ticks" /\ Unlocked(s)
  /\ rp' = [rp EXCEPT ![s].state = "RUNNABLE"]
  /\ UNCHANGED plock

\* Variant: a sleeping process is not woken.
KillNoWake(p, s) ==
  /\ At(p, "user") /\ ~rp[p].killed /\ s # initproc /\ Unlocked(s)
  /\ rp' = [rp EXCEPT ![s].killed = TRUE]
  /\ UNCHANGED plock

\* kill(pid) of a process other than init, or of pid 0, which every unused slot
\* has.
kill(p, s) ==
  /\ At(p, "user") /\ ~rp[p].killed /\ s # initproc /\ Unlocked(s)
  /\ rp' = [rp EXCEPT ![s] = [@ EXCEPT !.killed = TRUE,
                                !.state = IF @ = "SLEEPING" THEN "RUNNABLE" ELSE @]]
  /\ UNCHANGED plock

RvProcInit ==
  /\ rp = [s \in Slots |-> IF s = initproc THEN [FreeSlot EXCEPT !.state = "RUNNABLE"]
                                           ELSE FreeSlot]
  /\ plock = [s \in Slots |-> NOONE]

RvProcNext ==
  \E p \in Slots :
    \/ scheduler(p) \/ yield(p) \/ fork(p) \/ ForkFails(p)
    \/ StartExit(p) \/ ExitWakeInit(p) \/ ExitReadParent(p) \/ ExitLock(p)
    \/ reparent(p) \/ ExitSwitch(p) \/ WaitLock(p) \/ WaitScanSlot(p) \/ WaitSleeps(p)
    \/ NapTest(p) \/ NapSleep(p) \/ NapEnds(p) \/ clockintr(p)
    \/ \E s \in Slots : allocproc(p, s) \/ kill(p, s)

RvProcSpec == RvProcInit /\ [][RvProcNext]_rvProcVars

----------------------------------------------------------------------------

\* wait and exit: a process other than init that sleeps in wait has neither a
\* zombie child nor a kill to see.  (init may sleep on a child that was given
\* to it after the child had read its parent.)
RvWaiterNotified ==
  \A p \in Slots \ {initproc} :
    rp[p].state = "SLEEPING" /\ rp[p].chan = "wait" =>
      ~rp[p].killed /\ \A s \in Children(p) : rp[s].state # "ZOMBIE"

\* The lock a running process spins for.
Wants(p) ==
  IF ~Runs(p) THEN NOONE
  ELSE CASE rp[p].pc = "exit_init" -> initproc
         [] rp[p].pc \in {"exit_parent", "exit_self", "nap_sleep"} -> p
         [] rp[p].pc = "exit_lock" -> rp[p].other
         [] rp[p].pc = "reparent" /\ Children(p) # {} ->
              CHOOSE c \in Children(p) : \A d \in Children(p) : c <= d
         [] rp[p].pc = "wait" /\ rp[p].next \in Slots /\ rp[rp[p].next].parent = p ->
              rp[p].next
         [] OTHER -> NOONE
WaitsFor(p) == IF Wants(p) = NOONE THEN NOONE ELSE plock[Wants(p)]

\* exit, reparent and wait keep the parent-then-child rule of proc.c: no set of
\* processes spins for p->locks that members of the set hold.
RvNoSpinCycle ==
  \A S \in SUBSET Slots \ {{}} : \E p \in S : WaitsFor(p) \notin S
==============================================================================

----------------------------- MODULE KernelSteps -----------------------------
(***************************************************************************)
(* Every step of fork, exit, waitpid, kill, kthread_create and kthreadd keeps *)
(* the invariant of KernelInvariant.                                       *)
(***************************************************************************)
EXTENDS KernelInvariant

USE SchedAssumption

\* KernelInit keeps the invariant.
LEMMA KernelInitKeeps ==
  ASSUME IndInv, NEW c \in CPUs, KernelInit(c), UNCHANGED kthreadVars
  PROVE  IndInv'
<1>1. TypeOK
  BY DEF IndInv
<1>2. /\ pc[c] \notin Elsewhere
      /\ \E label \in Moves : pc' = [pc EXCEPT ![c] = label]
  BY DEF KernelInit, Goto, Moves, Labels, ResumePoints, Windows, Elsewhere, ClaimLabels
<1>3. UNCHANGED <<state, chan, timed, parent, kstack, context, runqueue, proc, ret,
                  stack, last_sched, freePages, crash>>
  BY DEF KernelInit, tableVars
<1>4. /\ arg' \in [CPUs -> Args] /\ \A d \in CPUs \ {c} : arg'[d] = arg[d]
      /\ user' \in [Slots -> BOOLEAN] /\ create_list' \in Seq(Slots)
      /\ serving' \in Slots \cup {NoProc} /\ served' \subseteq Slots \cup {NoProc}
  BY <1>1 DEF TypeOK, KernelInit, tableVars, kthreadVars
<1>5. QED BY <1>2, <1>3, <1>4, MoveKeeps

\* ForkAlloc keeps the invariant.
LEMMA ForkAllocKeeps ==
  ASSUME IndInv, NEW c \in CPUs, ForkAlloc(c), UNCHANGED kthreadVars
  PROVE  IndInv'
<1>1. TypeOK /\ Placed /\ Claims /\ QueueIsRunnable /\ RunningOnOneCpu
  BY DEF IndInv
<1>2. PICK np \in Slots : FirstUnused(np) /\ ClaimSlot(np) /\ arg' = [arg EXCEPT ![c] = np]
  BY DEF ForkAlloc
<1>3. /\ pc[c] = "user"
      /\ pc' = [pc EXCEPT ![c] = "fork_fill"]
      /\ UNCHANGED <<runqueue, proc, ret, stack, last_sched, freePages,
                     create_list, serving, served>>
  BY DEF ForkAlloc, Goto, kthreadVars
<1>4. np # Swapper /\ state[np] = "UNUSED" /\ state' = [state EXCEPT ![np] = "USED"]
  BY <1>2 DEF FirstUnused, ClaimSlot
<1>5. Active(c)
  BY <1>1, <1>3, ActiveRuns
<1>6. TypeOK'
  BY <1>1, <1>2, <1>3, <1>4, ContextTypes
  DEF ClaimSlot, TypeOK, Labels, States, Args, Chans
<1>7. Placed'
  BY <1>1, <1>3 DEF TypeOK, Placed
<1>8. Others(c)
  BY <1>1, <1>2, <1>3 DEF TypeOK, Others
<1>9. Claims'
  <2>1. /\ state'[np] = "USED" /\ arg'[c] = np
        /\ \A p \in Slots \ {np} : state'[p] = state[p]
    BY <1>1, <1>2, <1>4 DEF TypeOK
  <2>2. QED BY <1>1, <1>4, <1>8, <2>1, ClaimsTaken
<1>10. RunningOnOneCpu'
  <2>1. KeepsRunning(c)
    BY <1>1, <1>3, <1>4, <1>5 DEF TypeOK, KeepsRunning, Active, Windows
  <2>2. QED BY <1>1, <1>8, <2>1, RunningKept
<1>11. QueueIsRunnable'
  BY <1>1, <1>3, <1>4, SameQueue DEF TypeOK
<1>12. QED BY <1>6, <1>7, <1>9, <1>10, <1>11 DEF IndInv

\* ForkFill keeps the invariant.
LEMMA ForkFillKeeps ==
  ASSUME IndInv, NEW c \in CPUs, ForkFill(c), UNCHANGED kthreadVars
  PROVE  IndInv'
<1> DEFINE np == arg[c]
<1>1. TypeOK /\ Placed /\ Claims /\ QueueIsRunnable /\ RunningOnOneCpu
  BY DEF IndInv
<1>2. PICK page \in AllocCandidates :
        /\ AllocKstack(np, page)
        /\ parent' = [parent EXCEPT ![np] = proc[c]]
        /\ context' = [context EXCEPT ![np] = Saved("user", NoProc, page)]
  BY DEF ForkFill
<1>3. /\ pc[c] = "fork_fill"
      /\ pc' = [pc EXCEPT ![c] = "fork_publish"]
      /\ user' = [user EXCEPT ![np] = TRUE]
      /\ UNCHANGED <<state, chan, timed, runqueue, proc, ret, arg, stack, last_sched,
                     create_list, serving, served>>
  BY DEF ForkFill, Goto, kthreadVars
<1>4. Active(c) /\ proc[c] \in Slots
  BY <1>1, <1>3, ActiveRuns
<1>5. np \in Slots /\ page \in Pages
  BY <1>1, <1>3 DEF TypeOK, Claims, Claiming, AllocCandidates
<1>6. TypeOK'
  <2>1. Saved("user", NoProc, page) \in Contexts
    BY <1>5, ContextTypes DEF ResumePoints, Args
  <2>2. /\ freePages' \subseteq Pages
        /\ kstack' \in [Slots -> Pages \cup {NoPage}]
        /\ crash' \in {"none", "panic", "stack"}
    BY <1>1, <1>2, <1>5 DEF AllocKstack, TypeOK
  <2>3. /\ context' \in [Slots -> Contexts]
        /\ parent' \in [Slots -> Slots \cup {NoProc}]
    BY <1>1, <1>2, <1>4, <2>1 DEF TypeOK
  <2>4. QED BY <1>1, <1>3, <2>2, <2>3 DEF TypeOK, Labels
<1>7. Placed'
  BY <1>1, <1>3 DEF TypeOK, Placed
<1>8. Others(c) /\ KeepsClaims(c)
  BY <1>1, <1>3 DEF TypeOK, Others, KeepsClaims, Claiming
<1>9. KeepsRunning(c)
  BY <1>1, <1>3, <1>4 DEF TypeOK, KeepsRunning, Active, Windows
<1>10. QueueIsRunnable'
  BY <1>1, <1>3, SameQueue
<1>11. QED BY <1>1, <1>6, <1>7, <1>8, <1>9, <1>10, ClaimsKept, RunningKept DEF IndInv

\* ForkFail keeps the invariant.
LEMMA ForkFailKeeps ==
  ASSUME IndInv, NEW c \in CPUs, ForkFail(c), UNCHANGED kthreadVars
  PROVE  IndInv'
BY UnclaimKeeps
DEF ForkFail, Claiming, Labels, ResumePoints, Elsewhere, ClaimLabels, Goto

\* ForkPublish keeps the invariant.
LEMMA ForkPublishKeeps ==
  ASSUME IndInv, NEW c \in CPUs, ForkPublish(c), UNCHANGED kthreadVars
  PROVE  IndInv'
BY PublishKeeps
DEF ForkPublish, Claiming, Labels, ResumePoints, Elsewhere, ClaimLabels, Goto

\* Exit keeps the invariant.
LEMMA ExitKeeps ==
  ASSUME IndInv, NEW c \in CPUs, Exit(c), UNCHANGED kthreadVars
  PROVE  IndInv'
<1> DEFINE p == proc[c]
<1>1. TypeOK /\ Placed /\ Claims /\ QueueIsRunnable /\ RunningOnOneCpu
  BY DEF IndInv
<1>2. /\ pc[c] = "user"
      /\ pc' = [pc EXCEPT ![c] = "exit_wake"]
      /\ arg' = [arg EXCEPT ![c] = parent[p]]
      /\ Reparent(p) /\ Unlink(p)
      /\ user' = [user EXCEPT ![p] = FALSE]
      /\ context' = [context EXCEPT ![p] = Popped]
      /\ state' = [state EXCEPT ![p] = "ZOMBIE"]
      /\ UNCHANGED <<chan, timed, kstack, proc, ret, stack, last_sched, freePages, crash,
                     create_list, serving, served>>
  BY DEF Exit, Goto, kthreadVars
<1>3. Active(c) /\ p \in Slots /\ state[p] = "RUNNING"
  BY <1>1, <1>2, ActiveRuns
<1>4. runqueue' = runqueue
  BY <1>1, <1>2, <1>3, NotQueued DEF Unlink
<1>5. TypeOK'
  <2>1. parent' \in [Slots -> Slots \cup {NoProc}]
    <3>1. InitProc \in Slots
      BY DEF InitProc, Slots
    <3>2. QED BY <1>1, <1>2, <3>1 DEF TypeOK, Reparent
  <2>2. QED BY <1>1, <1>2, <1>3, <1>4, <2>1, ContextTypes DEF TypeOK, Labels,
     Windows, States, Args
<1>6. Placed'
  BY <1>1, <1>2 DEF TypeOK, Placed
<1>7. Others(c) /\ KeepsClaims(c)
  BY <1>1, <1>2, <1>3 DEF TypeOK, Others, KeepsClaims, Claiming
<1>8. LeavesRunning(c)
  BY <1>1, <1>2, <1>3 DEF TypeOK, LeavesRunning, Active, Windows
<1>9. QueueIsRunnable'
  BY <1>1, <1>2, <1>3, <1>4, SameQueue DEF TypeOK
<1>10. QED BY <1>1, <1>5, <1>6, <1>7, <1>8, <1>9, ClaimsKept, RunningLeft DEF IndInv

\* ExitWake keeps the invariant.
LEMMA ExitWakeKeeps ==
  ASSUME IndInv, NEW c \in CPUs, ExitWake(c), UNCHANGED kthreadVars
  PROVE  IndInv'
<1>1. PICK S : WakeAll(S) /\ S \subseteq {p \in Slots : state[p] = "SLEEPING"}
  BY DEF ExitWake, IndInv, Sleepers
<1>2. /\ pc' \in [CPUs -> Labels] /\ arg' \in [CPUs -> Args]
      /\ ret' \in [CPUs -> ResumePoints \cup {"none", "dead"}]
      /\ \A d \in CPUs \ {c} : pc'[d] = pc[d] /\ ret'[d] = ret[d] /\ arg'[d] = arg[d]
  BY DEF ExitWake, IndInv, TypeOK, Labels, Windows, ResumePoints, Args, Goto, cpuVars
<1>3. /\ pc'[c] \notin ClaimLabels
      /\ \/ pc'[c] = pc[c] /\ ret'[c] = ret[c]
         \/ pc[c] \notin Elsewhere /\ pc'[c] \notin Elsewhere
         \/ pc[c] = "exit_wake" /\ pc'[c] = "sched" /\ ret'[c] = "dead"
  BY DEF ExitWake, IndInv, TypeOK, ClaimLabels, Elsewhere, Goto, cpuVars
<1>4. /\ UNCHANGED <<parent, user, kstack, context, proc, stack, last_sched, freePages,
                     create_list>>
      /\ serving' \in Slots \cup {NoProc} /\ served' \subseteq Slots \cup {NoProc}
  BY DEF ExitWake, IndInv, TypeOK, cpuVars, kthreadVars
<1>5. QED BY <1>1, <1>2, <1>3, <1>4, WakeKeeps

\* WaitReap keeps the invariant.
LEMMA WaitReapKeeps ==
  ASSUME IndInv, NEW c \in CPUs, WaitReap(c), UNCHANGED kthreadVars
  PROVE  IndInv'
<1>1. TypeOK /\ Placed /\ Claims /\ QueueIsRunnable /\ RunningOnOneCpu
  BY DEF IndInv
<1>2. PICK q \in Slots :
        /\ state[q] = "ZOMBIE"
        /\ Unlink(q) /\ FreeKstack(q)
        /\ context' = [context EXCEPT ![q] = Popped]
        /\ state' = [state EXCEPT ![q] = "UNUSED"]
        /\ parent' = [parent EXCEPT ![q] = NoProc]
        /\ user' = [user EXCEPT ![q] = FALSE]
  BY DEF WaitReap, Zombies, Children
<1>3. /\ pc[c] \in {"wait", "user"}
      /\ pc' = [pc EXCEPT ![c] = "user"]
      /\ arg' = [arg EXCEPT ![c] = NoProc]
      /\ UNCHANGED <<chan, timed, proc, ret, stack, last_sched, crash,
                     create_list, serving, served>>
  BY DEF WaitReap, WaitTargets, Goto, kthreadVars
<1>4. Active(c) /\ proc[c] \in Slots
  BY <1>1, <1>3, ActiveRuns
<1>5. runqueue' = runqueue
  BY <1>1, <1>2, NotQueued DEF Unlink
<1>6. TypeOK'
  <2>1. /\ freePages' \subseteq Pages
        /\ kstack' \in [Slots -> Pages \cup {NoPage}]
    BY <1>1, <1>2 DEF FreeKstack, TypeOK
  <2>2. QED BY <1>1, <1>2, <1>3, <1>5, <2>1, ContextTypes DEF TypeOK, Labels,
     ResumePoints, States, Args
<1>7. Placed'
  BY <1>1, <1>3 DEF TypeOK, Placed
<1>8. Others(c) /\ KeepsClaims(c)
  BY <1>1, <1>2, <1>3 DEF TypeOK, Others, KeepsClaims, Claiming
<1>9. KeepsRunning(c)
  BY <1>1, <1>2, <1>3, <1>4 DEF TypeOK, KeepsRunning, Active, Windows
<1>10. QueueIsRunnable'
  BY <1>1, <1>2, <1>5, SameQueue DEF TypeOK
<1>11. QED BY <1>1, <1>6, <1>7, <1>8, <1>9, <1>10, ClaimsKept, RunningKept DEF IndInv

\* WaitNone keeps the invariant.
LEMMA WaitNoneKeeps ==
  ASSUME IndInv, NEW c \in CPUs, WaitNone(c), UNCHANGED kthreadVars
  PROVE  IndInv'
<1>1. TypeOK
  BY DEF IndInv
<1>2. /\ pc[c] \notin Elsewhere
      /\ \E label \in Moves : pc' = [pc EXCEPT ![c] = label]
  BY DEF WaitNone, Goto, Moves, Labels, ResumePoints, Windows, Elsewhere,
     ClaimLabels, WaitTargets
<1>3. UNCHANGED <<state, chan, timed, parent, kstack, context, runqueue, proc, ret,
                  stack, last_sched, freePages, crash>>
  BY DEF WaitNone, tableVars
<1>4. /\ arg' \in [CPUs -> Args] /\ \A d \in CPUs \ {c} : arg'[d] = arg[d]
      /\ user' \in [Slots -> BOOLEAN] /\ create_list' \in Seq(Slots)
      /\ serving' \in Slots \cup {NoProc} /\ served' \subseteq Slots \cup {NoProc}
  <2>1. PICK t \in Args : arg' \in {[arg EXCEPT ![c] = NoProc], [arg EXCEPT ![c] = t]}
    BY DEF WaitNone, WaitTargets
  <2>2. NoProc \in Args /\ UNCHANGED <<user, create_list, serving, served>>
    BY DEF WaitNone, Args, tableVars, kthreadVars
  <2>3. QED BY <1>1, <2>1, <2>2 DEF TypeOK
<1>5. QED BY <1>2, <1>3, <1>4, MoveKeeps

\* WaitSleep keeps the invariant.
LEMMA WaitSleepKeeps ==
  ASSUME IndInv, NEW c \in CPUs, WaitSleep(c), UNCHANGED kthreadVars
  PROVE  IndInv'
<1>1. /\ pc[c] \notin Elsewhere /\ "wait" \in ResumePoints
      /\ ProcChan(proc[c]) \in Chans /\ arg[c] \in Args
  BY ActiveRuns DEF WaitSleep, IndInv, TypeOK, ResumePoints, Elsewhere, Chans
<1>2. QED BY <1>1, SleepKeeps DEF WaitSleep

\* SignalSend keeps the invariant.
LEMMA SignalSendKeeps ==
  ASSUME IndInv, NEW c \in CPUs, SignalSend(c), UNCHANGED kthreadVars
  PROVE  IndInv'
<1>1. PICK S : WakeAll(S) /\ S \subseteq {p \in Slots : state[p] = "SLEEPING"}
  BY DEF SignalSend, IndInv, Sleepers
<1>2. /\ pc' \in [CPUs -> Labels] /\ arg' \in [CPUs -> Args]
      /\ ret' \in [CPUs -> ResumePoints \cup {"none", "dead"}]
      /\ \A d \in CPUs \ {c} : pc'[d] = pc[d] /\ ret'[d] = ret[d] /\ arg'[d] = arg[d]
  BY DEF SignalSend, IndInv, TypeOK, Labels, Windows, ResumePoints, Args, Goto, cpuVars
<1>3. /\ pc'[c] \notin ClaimLabels
      /\ \/ pc'[c] = pc[c] /\ ret'[c] = ret[c]
         \/ pc[c] \notin Elsewhere /\ pc'[c] \notin Elsewhere
         \/ pc[c] = "exit_wake" /\ pc'[c] = "sched" /\ ret'[c] = "dead"
  BY DEF SignalSend, IndInv, TypeOK, ClaimLabels, Elsewhere, Goto, cpuVars
<1>4. /\ UNCHANGED <<parent, user, kstack, context, proc, stack, last_sched, freePages,
                     create_list>>
      /\ serving' \in Slots \cup {NoProc} /\ served' \subseteq Slots \cup {NoProc}
  BY DEF SignalSend, IndInv, TypeOK, cpuVars, kthreadVars
<1>5. QED BY <1>1, <1>2, <1>3, <1>4, WakeKeeps

\* CreateQueue keeps the invariant.
LEMMA CreateQueueKeeps ==
  ASSUME IndInv, NEW c \in CPUs, CreateQueue(c)
  PROVE  IndInv'
<1>1. TypeOK
  BY DEF IndInv
<1>2. /\ pc[c] \notin Elsewhere
      /\ \E label \in Moves : pc' = [pc EXCEPT ![c] = label]
  BY DEF CreateQueue, Goto, Moves, Labels, ResumePoints, Windows, Elsewhere, ClaimLabels
<1>3. UNCHANGED <<state, chan, timed, parent, kstack, context, runqueue, proc, ret,
                  stack, last_sched, freePages, crash>>
  BY DEF CreateQueue, tableVars
<1>4. /\ arg' \in [CPUs -> Args] /\ \A d \in CPUs \ {c} : arg'[d] = arg[d]
      /\ user' \in [Slots -> BOOLEAN] /\ create_list' \in Seq(Slots)
      /\ serving' \in Slots \cup {NoProc} /\ served' \subseteq Slots \cup {NoProc}
  <2>1. proc[c] \in Slots
    BY <1>2, ActiveRuns DEF IndInv, Elsewhere
  <2>2. create_list' = Append(create_list, proc[c]) /\ UNCHANGED <<user, arg, serving, served>>
    BY DEF CreateQueue, tableVars
  <2>3. QED BY <1>1, <2>1, <2>2 DEF TypeOK
<1>5. QED BY <1>2, <1>3, <1>4, MoveKeeps

\* CreateWake keeps the invariant.
LEMMA CreateWakeKeeps ==
  ASSUME IndInv, NEW c \in CPUs, CreateWake(c)
  PROVE  IndInv'
<1>1. PICK S : WakeAll(S) /\ S \subseteq {p \in Slots : state[p] = "SLEEPING"}
  BY DEF CreateWake, IndInv, Sleepers
<1>2. /\ pc' \in [CPUs -> Labels] /\ arg' \in [CPUs -> Args]
      /\ ret' \in [CPUs -> ResumePoints \cup {"none", "dead"}]
      /\ \A d \in CPUs \ {c} : pc'[d] = pc[d] /\ ret'[d] = ret[d] /\ arg'[d] = arg[d]
  BY DEF CreateWake, IndInv, TypeOK, Labels, Windows, ResumePoints, Args, Goto, cpuVars
<1>3. /\ pc'[c] \notin ClaimLabels
      /\ \/ pc'[c] = pc[c] /\ ret'[c] = ret[c]
         \/ pc[c] \notin Elsewhere /\ pc'[c] \notin Elsewhere
         \/ pc[c] = "exit_wake" /\ pc'[c] = "sched" /\ ret'[c] = "dead"
  BY DEF CreateWake, IndInv, TypeOK, ClaimLabels, Elsewhere, Goto, cpuVars
<1>4. /\ UNCHANGED <<parent, user, kstack, context, proc, stack, last_sched, freePages,
                     create_list>>
      /\ serving' \in Slots \cup {NoProc} /\ served' \subseteq Slots \cup {NoProc}
  BY DEF CreateWake, IndInv, TypeOK, cpuVars, kthreadVars
<1>5. QED BY <1>1, <1>2, <1>3, <1>4, WakeKeeps

\* CreateSleep keeps the invariant.
LEMMA CreateSleepKeeps ==
  ASSUME IndInv, NEW c \in CPUs, CreateSleep(c)
  PROVE  IndInv'
<1>1. /\ pc[c] \notin Elsewhere /\ "created" \in ResumePoints
      /\ InfoChan(proc[c]) \in Chans /\ NoProc \in Args
  BY ActiveRuns DEF CreateSleep, IndInv, ResumePoints, Elsewhere, Chans, Args
<1>2. QED BY <1>1, SleepKeeps DEF CreateSleep

\* CreateReturn keeps the invariant.
LEMMA CreateReturnKeeps ==
  ASSUME IndInv, NEW c \in CPUs, CreateReturn(c)
  PROVE  IndInv'
<1>1. TypeOK
  BY DEF IndInv
<1>2. /\ pc[c] \notin Elsewhere
      /\ \E label \in Moves : pc' = [pc EXCEPT ![c] = label]
  BY DEF CreateReturn, Goto, Moves, Labels, ResumePoints, Windows, Elsewhere,
     ClaimLabels, EntryPoint
<1>3. UNCHANGED <<state, chan, timed, parent, kstack, context, runqueue, proc, ret,
                  stack, last_sched, freePages, crash>>
  BY DEF CreateReturn, tableVars
<1>4. /\ arg' \in [CPUs -> Args] /\ \A d \in CPUs \ {c} : arg'[d] = arg[d]
      /\ user' \in [Slots -> BOOLEAN] /\ create_list' \in Seq(Slots)
      /\ serving' \in Slots \cup {NoProc} /\ served' \subseteq Slots \cup {NoProc}
  BY <1>1 DEF TypeOK, CreateReturn, tableVars, kthreadVars
<1>5. QED BY <1>2, <1>3, <1>4, MoveKeeps

\* KthreaddEmpty keeps the invariant.
LEMMA KthreaddEmptyKeeps ==
  ASSUME IndInv, NEW c \in CPUs, KthreaddEmpty(c)
  PROVE  IndInv'
<1>1. TypeOK
  BY DEF IndInv
<1>2. /\ pc[c] \notin Elsewhere
      /\ \E label \in Moves : pc' = [pc EXCEPT ![c] = label]
  BY DEF KthreaddEmpty, Goto, Moves, Labels, ResumePoints, Windows, Elsewhere,
     ClaimLabels
<1>3. UNCHANGED <<state, chan, timed, parent, kstack, context, runqueue, proc, ret,
                  stack, last_sched, freePages, crash>>
  BY DEF KthreaddEmpty, tableVars
<1>4. /\ arg' \in [CPUs -> Args] /\ \A d \in CPUs \ {c} : arg'[d] = arg[d]
      /\ user' \in [Slots -> BOOLEAN] /\ create_list' \in Seq(Slots)
      /\ serving' \in Slots \cup {NoProc} /\ served' \subseteq Slots \cup {NoProc}
  BY <1>1 DEF TypeOK, KthreaddEmpty, tableVars, kthreadVars
<1>5. QED BY <1>2, <1>3, <1>4, MoveKeeps

\* KthreaddSleep keeps the invariant.
LEMMA KthreaddSleepKeeps ==
  ASSUME IndInv, NEW c \in CPUs, KthreaddSleep(c)
  PROVE  IndInv'
<1>1. /\ pc[c] \notin Elsewhere /\ "kthreadd" \in ResumePoints
      /\ ListChan \in Chans /\ NoProc \in Args
  BY DEF KthreaddSleep, ResumePoints, Elsewhere, Chans, Args
<1>2. QED BY <1>1, SleepKeeps DEF KthreaddSleep

\* KthreaddTake keeps the invariant.
LEMMA KthreaddTakeKeeps ==
  ASSUME IndInv, NEW c \in CPUs, KthreaddTake(c)
  PROVE  IndInv'
<1>1. TypeOK
  BY DEF IndInv
<1>2. /\ pc[c] \notin Elsewhere
      /\ \E label \in Moves : pc' = [pc EXCEPT ![c] = label]
  BY DEF KthreaddTake, Goto, Moves, Labels, ResumePoints, Windows, Elsewhere,
     ClaimLabels
<1>3. UNCHANGED <<state, chan, timed, parent, kstack, context, runqueue, proc, ret,
                  stack, last_sched, freePages, crash>>
  BY DEF KthreaddTake, tableVars
<1>4. /\ arg' \in [CPUs -> Args] /\ \A d \in CPUs \ {c} : arg'[d] = arg[d]
      /\ user' \in [Slots -> BOOLEAN] /\ create_list' \in Seq(Slots)
      /\ serving' \in Slots \cup {NoProc} /\ served' \subseteq Slots \cup {NoProc}
  <2>1. /\ create_list # <<>> /\ create_list' = Tail(create_list)
        /\ serving' = Head(create_list) /\ UNCHANGED <<user, arg, served>>
    BY DEF KthreaddTake, tableVars
  <2>2. create_list \in Seq(Slots)
    BY <1>1 DEF TypeOK
  <2>3. Tail(create_list) \in Seq(Slots) /\ Head(create_list) \in Slots
    BY <2>1, <2>2
  <2>4. QED BY <1>1, <2>1, <2>3 DEF TypeOK
<1>5. QED BY <1>2, <1>3, <1>4, MoveKeeps

\* KthreaddAlloc keeps the invariant.
LEMMA KthreaddAllocKeeps ==
  ASSUME IndInv, NEW c \in CPUs, KthreaddAlloc(c)
  PROVE  IndInv'
<1>1. TypeOK /\ Placed /\ Claims /\ QueueIsRunnable /\ RunningOnOneCpu
  BY DEF IndInv
<1>2. PICK np \in Slots : FirstUnused(np) /\ ClaimSlot(np) /\ arg' = [arg EXCEPT ![c] = np]
  BY DEF KthreaddAlloc
<1>3. /\ pc[c] = "kthreadd_alloc"
      /\ pc' = [pc EXCEPT ![c] = "kthreadd_fill"]
      /\ UNCHANGED <<runqueue, proc, ret, stack, last_sched, freePages,
                     create_list, serving, served>>
  BY DEF KthreaddAlloc, Goto, kthreadVars
<1>4. np # Swapper /\ state[np] = "UNUSED" /\ state' = [state EXCEPT ![np] = "USED"]
  BY <1>2 DEF FirstUnused, ClaimSlot
<1>5. Active(c)
  BY <1>1, <1>3, ActiveRuns
<1>6. TypeOK'
  BY <1>1, <1>2, <1>3, <1>4, ContextTypes
  DEF ClaimSlot, TypeOK, Labels, States, Args, Chans
<1>7. Placed'
  BY <1>1, <1>3 DEF TypeOK, Placed
<1>8. Others(c)
  BY <1>1, <1>2, <1>3 DEF TypeOK, Others
<1>9. Claims'
  <2>1. /\ state'[np] = "USED" /\ arg'[c] = np
        /\ \A p \in Slots \ {np} : state'[p] = state[p]
    BY <1>1, <1>2, <1>4 DEF TypeOK
  <2>2. QED BY <1>1, <1>4, <1>8, <2>1, ClaimsTaken
<1>10. RunningOnOneCpu'
  <2>1. KeepsRunning(c)
    BY <1>1, <1>3, <1>4, <1>5 DEF TypeOK, KeepsRunning, Active, Windows
  <2>2. QED BY <1>1, <1>8, <2>1, RunningKept
<1>11. QueueIsRunnable'
  BY <1>1, <1>3, <1>4, SameQueue DEF TypeOK
<1>12. QED BY <1>6, <1>7, <1>9, <1>10, <1>11 DEF IndInv

\* KthreaddNoSlot keeps the invariant.
LEMMA KthreaddNoSlotKeeps ==
  ASSUME IndInv, NEW c \in CPUs, KthreaddNoSlot(c)
  PROVE  IndInv'
<1>1. TypeOK
  BY DEF IndInv
<1>2. /\ pc[c] \notin Elsewhere
      /\ \E label \in Moves : pc' = [pc EXCEPT ![c] = label]
  BY DEF KthreaddNoSlot, Goto, Moves, Labels, ResumePoints, Windows, Elsewhere,
     ClaimLabels
<1>3. UNCHANGED <<state, chan, timed, parent, kstack, context, runqueue, proc, ret,
                  stack, last_sched, freePages, crash>>
  BY DEF KthreaddNoSlot, tableVars
<1>4. /\ arg' \in [CPUs -> Args] /\ \A d \in CPUs \ {c} : arg'[d] = arg[d]
      /\ user' \in [Slots -> BOOLEAN] /\ create_list' \in Seq(Slots)
      /\ serving' \in Slots \cup {NoProc} /\ served' \subseteq Slots \cup {NoProc}
  BY <1>1 DEF TypeOK, KthreaddNoSlot, tableVars, kthreadVars
<1>5. QED BY <1>2, <1>3, <1>4, MoveKeeps

\* KthreaddFill keeps the invariant.
LEMMA KthreaddFillKeeps ==
  ASSUME IndInv, NEW c \in CPUs, KthreaddFill(c)
  PROVE  IndInv'
<1> DEFINE np == arg[c]
<1>1. TypeOK /\ Placed /\ Claims /\ QueueIsRunnable /\ RunningOnOneCpu
  BY DEF IndInv
<1>2. PICK page \in AllocCandidates :
        /\ AllocKstack(np, page)
        /\ parent' = [parent EXCEPT ![np] = KthreaddTask]
        /\ context' = [context EXCEPT ![np] = Saved("kthread", NoProc, page)]
  BY DEF KthreaddFill
<1>3. /\ pc[c] = "kthreadd_fill"
      /\ pc' = [pc EXCEPT ![c] = "kthreadd_publish"]
      /\ UNCHANGED user
      /\ UNCHANGED <<state, chan, timed, runqueue, proc, ret, arg, stack, last_sched,
                     create_list, serving, served>>
  BY DEF KthreaddFill, Goto, kthreadVars
<1>4. Active(c) /\ proc[c] \in Slots
  BY <1>1, <1>3, ActiveRuns
<1>5. np \in Slots /\ page \in Pages
  BY <1>1, <1>3 DEF TypeOK, Claims, Claiming, AllocCandidates
<1>6. TypeOK'
  <2>1. Saved("kthread", NoProc, page) \in Contexts
    BY <1>5, ContextTypes DEF ResumePoints, Args
  <2>2. /\ freePages' \subseteq Pages
        /\ kstack' \in [Slots -> Pages \cup {NoPage}]
        /\ crash' \in {"none", "panic", "stack"}
    BY <1>1, <1>2, <1>5 DEF AllocKstack, TypeOK
  <2>3. /\ context' \in [Slots -> Contexts]
        /\ parent' \in [Slots -> Slots \cup {NoProc}]
    <3>1. KthreaddTask \in Slots
      BY DEF KthreaddTask, Slots
    <3>2. QED BY <1>1, <1>2, <2>1, <3>1 DEF TypeOK
  <2>4. QED BY <1>1, <1>3, <2>2, <2>3 DEF TypeOK, Labels
<1>7. Placed'
  BY <1>1, <1>3 DEF TypeOK, Placed
<1>8. Others(c) /\ KeepsClaims(c)
  BY <1>1, <1>3 DEF TypeOK, Others, KeepsClaims, Claiming
<1>9. KeepsRunning(c)
  BY <1>1, <1>3, <1>4 DEF TypeOK, KeepsRunning, Active, Windows
<1>10. QueueIsRunnable'
  BY <1>1, <1>3, SameQueue
<1>11. QED BY <1>1, <1>6, <1>7, <1>8, <1>9, <1>10, ClaimsKept, RunningKept DEF IndInv

\* KthreaddFail keeps the invariant.
LEMMA KthreaddFailKeeps ==
  ASSUME IndInv, NEW c \in CPUs, KthreaddFail(c)
  PROVE  IndInv'
BY UnclaimKeeps
DEF KthreaddFail, Claiming, Labels, ResumePoints, Elsewhere, ClaimLabels, Goto

\* KthreaddPublish keeps the invariant.
LEMMA KthreaddPublishKeeps ==
  ASSUME IndInv, NEW c \in CPUs, KthreaddPublish(c)
  PROVE  IndInv'
BY PublishKeeps
DEF KthreaddPublish, Claiming, Labels, ResumePoints, Elsewhere, ClaimLabels, Goto

\* KthreaddDone keeps the invariant.
LEMMA KthreaddDoneKeeps ==
  ASSUME IndInv, NEW c \in CPUs, KthreaddDone(c)
  PROVE  IndInv'
<1>1. PICK S : WakeAll(S) /\ S \subseteq {p \in Slots : state[p] = "SLEEPING"}
  BY DEF KthreaddDone, IndInv, Sleepers
<1>2. /\ pc' \in [CPUs -> Labels] /\ arg' \in [CPUs -> Args]
      /\ ret' \in [CPUs -> ResumePoints \cup {"none", "dead"}]
      /\ \A d \in CPUs \ {c} : pc'[d] = pc[d] /\ ret'[d] = ret[d] /\ arg'[d] = arg[d]
  BY DEF KthreaddDone, IndInv, TypeOK, Labels, Windows, ResumePoints, Args, Goto,
     cpuVars
<1>3. /\ pc'[c] \notin ClaimLabels
      /\ \/ pc'[c] = pc[c] /\ ret'[c] = ret[c]
         \/ pc[c] \notin Elsewhere /\ pc'[c] \notin Elsewhere
         \/ pc[c] = "exit_wake" /\ pc'[c] = "sched" /\ ret'[c] = "dead"
  BY DEF KthreaddDone, IndInv, TypeOK, ClaimLabels, Elsewhere, Goto, cpuVars
<1>4. /\ UNCHANGED <<parent, user, kstack, context, proc, stack, last_sched, freePages,
                     create_list>>
      /\ serving' \in Slots \cup {NoProc} /\ served' \subseteq Slots \cup {NoProc}
  BY DEF KthreaddDone, IndInv, TypeOK, cpuVars, kthreadVars
<1>5. QED BY <1>1, <1>2, <1>3, <1>4, WakeKeeps

\* KthreadExit keeps the invariant.
LEMMA KthreadExitKeeps ==
  ASSUME IndInv, NEW c \in CPUs, KthreadExit(c)
  PROVE  IndInv'
<1> DEFINE p == proc[c]
<1>1. TypeOK /\ Placed /\ Claims /\ QueueIsRunnable /\ RunningOnOneCpu
  BY DEF IndInv
<1>2. /\ pc[c] = "kthread"
      /\ pc' = [pc EXCEPT ![c] = "sched"]
      /\ state' = [state EXCEPT ![p] = "UNUSED"]
      /\ ret' = [ret EXCEPT ![c] = "dead"]
      /\ UNCHANGED <<chan, timed, parent, user, kstack, context, runqueue, proc, arg, stack,
                     last_sched, freePages, crash, create_list, serving, served>>
  BY DEF KthreadExit, Goto, kthreadVars
<1>3. Active(c) /\ p \in Slots /\ state[p] = "RUNNING"
  BY <1>1, <1>2, ActiveRuns
<1>4. TypeOK'
  BY <1>1, <1>2 DEF TypeOK, Labels, Windows, States
<1>5. Placed'
  BY <1>1, <1>2 DEF TypeOK, Placed
<1>6. Others(c) /\ KeepsClaims(c)
  BY <1>1, <1>2, <1>3 DEF TypeOK, Others, KeepsClaims, Claiming
<1>7. LeavesRunning(c)
  BY <1>1, <1>2, <1>3 DEF TypeOK, LeavesRunning, Active, Windows
<1>8. QueueIsRunnable'
  BY <1>1, <1>2, <1>3, SameQueue DEF TypeOK
<1>9. QED BY <1>1, <1>4, <1>5, <1>6, <1>7, <1>8, ClaimsKept, RunningLeft DEF IndInv
=============================================================================

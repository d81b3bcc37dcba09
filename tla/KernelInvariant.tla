--------------------------- MODULE KernelInvariant ---------------------------
(***************************************************************************)
(* The lemmas about the run queue and the *)
(* frame rules the proofs share, and that every step of the scheduler keeps *)
(* the invariant.                                                          *)
(***************************************************************************)
EXTENDS KernelPredicates, FiniteSetTheorems, TLAPS

USE SchedAssumption

\* A set of slots has a cardinality: the loops over proc_table end.
LEMMA SlotsFinite ==
  ASSUME NEW S \in SUBSET Slots PROVE Cardinality(S) \in Nat
<1>1. IsFiniteSet(Slots)
  BY FS_Interval DEF Slots
<1>2. IsFiniteSet(S)
  BY <1>1, FS_Subset
<1>3. QED BY <1>2, FS_CardinalityType

\* task_queue_enqueue_locked of a process that is not RUNNABLE yet: no
\* duplicate, one more element, no "already queued" panic.
LEMMA AppendRuns ==
  ASSUME TypeOK, QueueIsRunnable, NEW p \in Slots, Enqueue(p), state[p] # "RUNNABLE"
  PROVE  /\ runqueue' \in Seq(Slots)
         /\ \A i, j \in DOMAIN runqueue' : runqueue'[i] = runqueue'[j] => i = j
         /\ Queued' = Queued \cup {p}
         /\ crash' = crash
<1>1. p \notin Queued
  BY DEF QueueIsRunnable
<1>2. runqueue \in Seq(Slots) /\ runqueue' = Append(runqueue, p)
  BY DEF TypeOK, Enqueue
<1>3. /\ DOMAIN runqueue = 1 .. Len(runqueue)
      /\ DOMAIN runqueue' = 1 .. (Len(runqueue) + 1)
      /\ \A i \in DOMAIN runqueue : runqueue'[i] = runqueue[i]
      /\ runqueue'[Len(runqueue) + 1] = p
      /\ Len(runqueue) \in Nat
  BY <1>2
<1>4. \A i, j \in DOMAIN runqueue' : runqueue'[i] = runqueue'[j] => i = j
  BY <1>1, <1>3 DEF QueueIsRunnable, Queued
<1>5. Queued' = Queued \cup {p}
  BY <1>3 DEF Queued
<1>6. QED BY <1>1, <1>2, <1>4, <1>5 DEF Enqueue

\* The same for the enqueues of one loop over proc_table.
LEMMA AppendAllRuns ==
  ASSUME TypeOK, QueueIsRunnable, NEW S \in SUBSET Slots, EnqueueAll(S),
         \A p \in S : state[p] # "RUNNABLE"
  PROVE  /\ runqueue' \in Seq(Slots)
         /\ \A i, j \in DOMAIN runqueue' : runqueue'[i] = runqueue'[j] => i = j
         /\ Queued' = Queued \cup S
         /\ crash' = crash
<1>1. S \cap Queued = {}
  BY DEF QueueIsRunnable
<1>2. PICK q \in [1 .. Cardinality(S) -> S] : TableOrder(q, S) /\ runqueue' = runqueue \o q
  BY DEF EnqueueAll
<1>3. Cardinality(S) \in Nat
  BY SlotsFinite
<1>4. q \in Seq(Slots) /\ Len(q) = Cardinality(S) /\ runqueue \in Seq(Slots)
  <2>1. q \in Seq(S) /\ Len(q) = Cardinality(S)
    BY <1>3
  <2>2. QED BY <2>1 DEF TypeOK
<1>5. PICK m \in Nat, n \in Nat :
        /\ DOMAIN runqueue = 1 .. m
        /\ DOMAIN q = 1 .. n
        /\ DOMAIN runqueue' = 1 .. (m + n)
        /\ \A i \in 1 .. m : runqueue'[i] = runqueue[i]
        /\ \A i \in 1 .. n : runqueue'[m + i] = q[i]
        /\ runqueue' \in Seq(Slots)
  <2>1. Len(runqueue) \in Nat /\ Len(q) \in Nat
    BY <1>4
  <2>2. /\ DOMAIN runqueue = 1 .. Len(runqueue)
        /\ DOMAIN q = 1 .. Len(q)
        /\ DOMAIN runqueue' = 1 .. (Len(runqueue) + Len(q))
        /\ runqueue' \in Seq(Slots)
    BY <1>2, <1>4
  <2>3. /\ \A i \in 1 .. Len(runqueue) : runqueue'[i] = runqueue[i]
        /\ \A i \in 1 .. Len(q) : runqueue'[Len(runqueue) + i] = q[i]
    BY <1>2, <1>4
  <2>4. QED BY <2>1, <2>2, <2>3
<1>6. /\ {q[i] : i \in 1 .. n} = S
      /\ \A i, j \in 1 .. n : i < j => q[i] < q[j]
      /\ \A i \in 1 .. n : q[i] \in Int
  <2>1. \A i \in 1 .. n : q[i] \in S
    BY <1>2, <1>5
  <2>2. \A i \in 1 .. n : q[i] \in Int
    <3>1. S \subseteq Int
      BY DEF Slots
    <3>2. QED BY <2>1, <3>1, Zenon
  <2>3. {q[i] : i \in 1 .. n} = S /\ \A i, j \in 1 .. n : i < j => q[i] < q[j]
    BY <1>2, <1>5, Zenon DEF TableOrder
  <2>4. QED BY <2>2, <2>3
<1>7. ASSUME NEW k \in 1 .. (m + n), k \notin 1 .. m
      PROVE  k - m \in 1 .. n /\ runqueue'[k] = q[k - m]
  <2>1. k - m \in 1 .. n /\ k = m + (k - m)
    BY <1>7
  <2>2. QED BY <2>1, <1>5
<1>8. \A i, j \in DOMAIN runqueue' : runqueue'[i] = runqueue'[j] => i = j
  <2> SUFFICES ASSUME NEW i \in 1 .. (m + n), NEW j \in 1 .. (m + n),
                      runqueue'[i] = runqueue'[j], i <= j
               PROVE  i = j
    BY <1>5
  <2>1. CASE i \in 1 .. m /\ j \in 1 .. m
    BY <2>1, <1>5 DEF QueueIsRunnable
  <2>2. CASE i \in 1 .. m /\ j \notin 1 .. m
    <3>1. runqueue'[i] \in Queued
      BY <2>2, <1>5 DEF Queued
    <3>2. runqueue'[j] \in S
      BY <2>2, <1>6, <1>7
    <3>3. QED BY <3>1, <3>2, <1>1
  <2>3. CASE i \notin 1 .. m
    <3>1. j \notin 1 .. m
      BY <2>3
    <3>2. i - m \in 1 .. n /\ j - m \in 1 .. n /\ q[i - m] = q[j - m]
      BY <2>3, <3>1, <1>7
    <3>3. ~(i - m < j - m)
      <4>1. i - m < j - m => q[i - m] < q[j - m]
        BY <3>2, <1>6
      <4>2. q[i - m] \in Int
        BY <3>2, <1>6
      <4>3. QED BY <4>1, <4>2, <3>2
    <3>4. QED BY <3>3
  <2>4. QED BY <2>1, <2>2, <2>3
<1>9. Queued' = Queued \cup S
  <2>1. Queued' = {runqueue'[k] : k \in 1 .. (m + n)}
    BY <1>5 DEF Queued
  <2>2. ASSUME NEW k \in 1 .. (m + n) PROVE runqueue'[k] \in Queued \cup S
    <3>1. CASE k \in 1 .. m
      BY <3>1, <1>5 DEF Queued
    <3>2. CASE k \notin 1 .. m
      BY <3>2, <1>6, <1>7
    <3>3. QED BY <3>1, <3>2
  <2>3. ASSUME NEW x \in Queued PROVE x \in Queued'
    BY <2>1, <1>5 DEF Queued
  <2>4. ASSUME NEW x \in S PROVE x \in Queued'
    <3>1. PICK i \in 1 .. n : q[i] = x
      BY <1>6
    <3>2. m + i \in 1 .. (m + n) /\ runqueue'[m + i] = x
      BY <3>1, <1>5
    <3>3. QED BY <3>2, <2>1
  <2>5. QED BY <2>1, <2>2, <2>3, <2>4
<1>10. QED BY <1>1, <1>5, <1>8, <1>9 DEF EnqueueAll

\* Waking sleepers keeps the queue exact and changes no other state.
LEMMA WakeRuns ==
  ASSUME TypeOK, QueueIsRunnable, NEW S, WakeAll(S),
         S \subseteq {p \in Slots : state[p] = "SLEEPING"}
  PROVE  /\ state' \in [Slots -> States]
         /\ chan' \in [Slots -> Chans]
         /\ timed' \in [Slots -> BOOLEAN]
         /\ runqueue' \in Seq(Slots)
         /\ crash' = crash
         /\ QueueIsRunnable'
         /\ \A p \in Slots : state'[p] = state[p] \/
               (state[p] = "SLEEPING" /\ state'[p] = "RUNNABLE")
<1>1. S \in SUBSET Slots /\ EnqueueAll(S) /\ \A p \in S : state[p] # "RUNNABLE"
  BY DEF WakeAll
<1>2. /\ runqueue' \in Seq(Slots)
      /\ \A i, j \in DOMAIN runqueue' : runqueue'[i] = runqueue'[j] => i = j
      /\ Queued' = Queued \cup S
      /\ crash' = crash
  BY <1>1, AppendAllRuns
<1>3. /\ state' \in [Slots -> States]
      /\ chan' \in [Slots -> Chans]
      /\ timed' \in [Slots -> BOOLEAN]
      /\ \A p \in Slots : state'[p] = IF p \in S THEN "RUNNABLE" ELSE state[p]
  BY DEF WakeAll, TypeOK, States, Chans
<1>4. Queued' = {p \in Slots : state'[p] = "RUNNABLE"}
  BY <1>1, <1>2, <1>3 DEF QueueIsRunnable
<1>5. QED BY <1>2, <1>3, <1>4 DEF QueueIsRunnable

\* The first section of sched_tick wakes only sleepers.
LEMMA TickWakeRuns ==
  ASSUME TypeOK, QueueIsRunnable, TickWake
  PROVE  \E S : WakeAll(S) /\ S \subseteq {p \in Slots : state[p] = "SLEEPING"}
BY DEF TickWake

\* Without a change of the queue or of the RUNNABLE processes it stays exact.
LEMMA SameQueue ==
  ASSUME TypeOK, QueueIsRunnable, runqueue' = runqueue,
         \A p \in Slots : state'[p] = "RUNNABLE" <=> state[p] = "RUNNABLE"
  PROVE  QueueIsRunnable'
BY DEF QueueIsRunnable, Queued

\* A process that is not RUNNABLE is not queued: unlinking it does nothing.
LEMMA NotQueued ==
  ASSUME QueueIsRunnable, NEW p \in Slots, state[p] # "RUNNABLE"
  PROVE  p \notin Queued
BY DEF QueueIsRunnable

\* A step of CPU c leaves the other CPUs where they are.
Others(c) == \A d \in CPUs \ {c} :
  pc'[d] = pc[d] /\ proc'[d] = proc[d] /\ arg'[d] = arg[d]

\* A step of c begins no claim, and ends at most the one c holds.
KeepsClaims(c) ==
  /\ Claiming(c)' => Claiming(c) /\ arg'[c] = arg[c]
  /\ \A p \in Slots : state[p] = "USED" =>
       state'[p] = "USED" \/ (Claiming(c) /\ p = arg[c] /\ ~Claiming(c)')

\* A step of c that changes neither who is RUNNING nor whether c executes.
KeepsRunning(c) ==
  /\ Active(c)' <=> Active(c)
  /\ Active(c) => proc'[c] = proc[c]
  /\ \A p \in Slots : state'[p] = "RUNNING" <=> state[p] = "RUNNING"

\* A step by which c gives up its process.
LeavesRunning(c) ==
  /\ Active(c) /\ ~Active(c)'
  /\ \A p \in Slots : state'[p] = "RUNNING" <=> state[p] = "RUNNING" /\ p # proc[c]

\* Claims survive a step that begins none.
LEMMA ClaimsKept ==
  ASSUME Claims, NEW c \in CPUs, Others(c), KeepsClaims(c)
  PROVE  Claims'
<1>1. ASSUME NEW d \in CPUs, Claiming(d)'
      PROVE  Claiming(d) /\ arg'[d] = arg[d]
  BY <1>1 DEF Others, KeepsClaims, Claiming
<1>2. ASSUME NEW d \in CPUs, Claiming(d)'
      PROVE  arg'[d] \in Slots \ {Swapper} /\ state'[arg'[d]] = "USED"
  <2>1. arg[d] \in Slots \ {Swapper} /\ state[arg[d]] = "USED" /\ arg'[d] = arg[d]
    BY <1>1, <1>2 DEF Claims
  <2>2. Claiming(c) /\ arg[d] = arg[c] => d = c
    BY <1>1, <1>2 DEF Claims
  <2>3. QED BY <1>2, <2>1, <2>2 DEF KeepsClaims
<1>3. ASSUME NEW d \in CPUs, NEW e \in CPUs, Claiming(d)', Claiming(e)', arg'[d] = arg'[e]
      PROVE  d = e
  BY <1>1, <1>3 DEF Claims
<1>4. QED BY <1>2, <1>3, Zenon DEF Claims

\* The other CPUs execute what they executed.
LEMMA OthersActive ==
  ASSUME NEW c \in CPUs, Others(c), NEW d \in CPUs \ {c}
  PROVE  (Active(d)' <=> Active(d)) /\ proc'[d] = proc[d]
BY DEF Others, Active

\* Frame rules for RunningOnOneCpu: nothing changes, or c gives up its process.
LEMMA RunningKept ==
  ASSUME TypeOK, RunningOnOneCpu, NEW c \in CPUs, Others(c), KeepsRunning(c)
  PROVE  RunningOnOneCpu'
<1>1. ASSUME NEW d \in CPUs
      PROVE  (Active(d)' <=> Active(d)) /\ (Active(d) => proc'[d] = proc[d])
  BY OthersActive DEF KeepsRunning
<1>2. ASSUME NEW d \in CPUs, Active(d) PROVE proc[d] \in Slots
  BY <1>2 DEF TypeOK, Active
<1>3. QED BY <1>1, <1>2 DEF RunningOnOneCpu, KeepsRunning

\* See above.
LEMMA RunningLeft ==
  ASSUME TypeOK, RunningOnOneCpu, NEW c \in CPUs, Others(c), LeavesRunning(c)
  PROVE  RunningOnOneCpu'
<1>1. ASSUME NEW d \in CPUs
      PROVE  /\ Active(d)' <=> Active(d) /\ d # c
             /\ Active(d)' => proc'[d] = proc[d]
  BY OthersActive DEF LeavesRunning
<1>2. ASSUME NEW d \in CPUs, Active(d) PROVE proc[d] \in Slots
  BY <1>2 DEF TypeOK, Active
<1>3. QED BY <1>1, <1>2 DEF RunningOnOneCpu, LeavesRunning

\* The contexts that are built and saved have their type.
LEMMA ContextTypes ==
  /\ Popped \in Contexts
  /\ \A at \in ResumePoints \cup {"dead"}, a \in Args, page \in Pages \cup {NoPage} :
       Saved(at, a, page) \in Contexts
  /\ \A k \in Contexts : k.at \in ResumePoints =>
       k.arg \in Args /\ k.page \in Pages \cup {NoPage}
BY DEF Contexts, Popped, Saved, ResumePoints, Args, NoPage, NoProc

\* A CPU outside the scheduler and the exit paths executes a RUNNING process.
LEMMA ActiveRuns ==
  ASSUME TypeOK, Placed, RunningOnOneCpu, NEW c \in CPUs,
         pc[c] \notin {"idle", "reap", "sched", "exit_wake", "back"}
  PROVE  Active(c) /\ proc[c] \in Slots /\ state[proc[c]] = "RUNNING"
BY DEF TypeOK, Placed, RunningOnOneCpu, Active, Windows

\* proc_alloc gives an UNUSED slot to one CPU.
LEMMA ClaimsTaken ==
  ASSUME Claims, NEW c \in CPUs, Others(c), NEW np \in Slots \ {Swapper},
         state[np] = "UNUSED", state'[np] = "USED", arg'[c] = np,
         \A p \in Slots \ {np} : state'[p] = state[p]
  PROVE  Claims'
<1>1. ASSUME NEW d \in CPUs \ {c}, Claiming(d)'
      PROVE  /\ arg'[d] \in Slots \ {Swapper} /\ arg'[d] # np
             /\ state'[arg'[d]] = "USED" /\ Claiming(d) /\ arg'[d] = arg[d]
  <2>1. Claiming(d) /\ arg'[d] = arg[d]
    BY <1>1 DEF Others, Claiming
  <2>2. QED BY <2>1 DEF Claims
<1>2. QED BY <1>1, Zenon DEF Claims

\* scheduler() makes a process that nobody runs the current one.
LEMMA RunningEntered ==
  ASSUME TypeOK, RunningOnOneCpu, NEW c \in CPUs, Others(c), NEW p \in Slots,
         ~Active(c), Active(c)', proc'[c] = p, state[p] # "RUNNING",
         \A q \in Slots : state'[q] = "RUNNING" <=> state[q] = "RUNNING" \/ q = p
  PROVE  RunningOnOneCpu'
<1>1. ASSUME NEW d \in CPUs, d # c
      PROVE  (Active(d)' <=> Active(d)) /\ proc'[d] = proc[d]
  BY <1>1, OthersActive
<1>2. ASSUME NEW d \in CPUs, Active(d)
      PROVE  proc[d] \in Slots /\ proc[d] # p /\ state[proc[d]] = "RUNNING"
  BY <1>2 DEF TypeOK, Active, RunningOnOneCpu
<1>3. \A d \in CPUs : Active(d)' => state'[proc'[d]] = "RUNNING"
  BY <1>1, <1>2
<1>4. \A d, e \in CPUs : Active(d)' /\ Active(e)' /\ proc'[d] = proc'[e] => d = e
  BY <1>1, <1>2 DEF RunningOnOneCpu
<1>5. \A q \in Slots : state'[q] = "RUNNING" => \E d \in CPUs : Active(d)' /\ proc'[d] = q
  BY <1>1 DEF RunningOnOneCpu
<1>6. QED BY <1>3, <1>4, <1>5 DEF RunningOnOneCpu

\* task_queue_dequeue_locked returns a RUNNABLE process and removes it.
LEMMA HeadTail ==
  ASSUME TypeOK, QueueIsRunnable, runqueue # <<>>, runqueue' = Tail(runqueue)
  PROVE  /\ Head(runqueue) \in Slots /\ state[Head(runqueue)] = "RUNNABLE"
         /\ runqueue' \in Seq(Slots)
         /\ \A i, j \in DOMAIN runqueue' : runqueue'[i] = runqueue'[j] => i = j
         /\ Queued' = Queued \ {Head(runqueue)}
<1>1. runqueue \in Seq(Slots) /\ Len(runqueue) \in Nat \ {0}
  BY DEF TypeOK
<1>2. /\ Head(runqueue) = runqueue[1]
      /\ DOMAIN runqueue = 1 .. Len(runqueue)
      /\ DOMAIN runqueue' = 1 .. (Len(runqueue) - 1)
      /\ \A i \in 1 .. (Len(runqueue) - 1) : runqueue'[i] = runqueue[i + 1]
      /\ runqueue' \in Seq(Slots)
  BY <1>1
<1>3. 1 \in DOMAIN runqueue /\ \A i \in DOMAIN runqueue' : i + 1 \in DOMAIN runqueue
  BY <1>1, <1>2
<1>4. Head(runqueue) \in Slots /\ state[Head(runqueue)] = "RUNNABLE"
  BY <1>1, <1>2, <1>3 DEF QueueIsRunnable, Queued
<1>5. \A i, j \in DOMAIN runqueue' : runqueue'[i] = runqueue'[j] => i = j
  BY <1>1, <1>2, <1>3 DEF QueueIsRunnable
<1>6. Queued' = Queued \ {Head(runqueue)}
  <2>1. ASSUME NEW i \in DOMAIN runqueue'
        PROVE  runqueue'[i] \in Queued \ {Head(runqueue)}
    <3>1. runqueue'[i] = runqueue[i + 1] /\ i + 1 \in DOMAIN runqueue /\ i + 1 # 1
      BY <1>1, <1>2, <1>3
    <3>2. runqueue[i + 1] # runqueue[1]
      BY <3>1, <1>3 DEF QueueIsRunnable
    <3>3. QED BY <3>1, <3>2, <1>2 DEF Queued
  <2>2. ASSUME NEW i \in DOMAIN runqueue, runqueue[i] # Head(runqueue)
        PROVE  \E j \in DOMAIN runqueue' : runqueue'[j] = runqueue[i]
    <3>1. i - 1 \in 1 .. (Len(runqueue) - 1) /\ (i - 1) + 1 = i
      BY <2>2, <1>1, <1>2
    <3>2. i - 1 \in DOMAIN runqueue' /\ runqueue'[i - 1] = runqueue[i]
      BY <3>1, <1>2
    <3>3. QED BY <3>2
  <2>3. QED BY <2>1, <2>2 DEF Queued
<1>7. QED BY <1>2, <1>4, <1>5, <1>6

\* The positions at which a CPU does not execute a RUNNING process.
Elsewhere == {"idle", "reap", "sched", "exit_wake", "back"}

\* The positions at which it fills a slot.
ClaimLabels == {"fork_fill", "fork_publish", "kthreadd_fill", "kthreadd_publish"}

\* Nothing but crash changes.
LEMMA StutterKeeps ==
  ASSUME IndInv, crash' \in {"none", "panic", "stack"},
         UNCHANGED <<state, chan, timed, parent, user, kstack, context, runqueue, proc,
                     pc, ret, arg, stack, last_sched, freePages, create_list, serving,
                     served>>
  PROVE  IndInv'
<1>1. TypeOK /\ Placed /\ Claims /\ QueueIsRunnable /\ RunningOnOneCpu
  BY DEF IndInv
<1>2. TypeOK'
  BY <1>1 DEF TypeOK
<1>3. Placed'
  BY <1>1 DEF Placed
<1>4. Claims'
  BY <1>1 DEF Claims, Claiming
<1>5. QueueIsRunnable'
  BY <1>1, SameQueue
<1>6. RunningOnOneCpu'
  BY <1>1 DEF RunningOnOneCpu, Active
<1>7. QED BY <1>2, <1>3, <1>4, <1>5, <1>6 DEF IndInv

\* The positions a process reaches by going on.
Moves == Labels \ (Elsewhere \cup ClaimLabels)

\* The CPU goes on in its process; the shared table and queue do not change.
LEMMA MoveKeeps ==
  ASSUME IndInv, NEW c \in CPUs, NEW label \in Moves,
         pc[c] \notin Elsewhere, pc' = [pc EXCEPT ![c] = label],
         arg' \in [CPUs -> Args], \A d \in CPUs \ {c} : arg'[d] = arg[d],
         user' \in [Slots -> BOOLEAN], create_list' \in Seq(Slots),
         serving' \in Slots \cup {NoProc}, served' \subseteq Slots \cup {NoProc},
         UNCHANGED <<state, chan, timed, parent, kstack, context, runqueue, proc, ret,
                     stack, last_sched, freePages, crash>>
  PROVE  IndInv'
<1>1. TypeOK /\ Placed /\ Claims /\ QueueIsRunnable /\ RunningOnOneCpu
  BY DEF IndInv
<1>2. Active(c)
  BY <1>1, ActiveRuns DEF Elsewhere
<1>3. TypeOK'
  <2>1. pc' \in [CPUs -> Labels]
    BY <1>1 DEF TypeOK, Moves
  <2>2. QED BY <1>1, <2>1 DEF TypeOK
<1>4. Placed'
  BY <1>1 DEF TypeOK, Placed, Moves, Elsewhere
<1>5. Others(c) /\ KeepsClaims(c)
  BY <1>1 DEF TypeOK, Others, KeepsClaims, Claiming, Moves, ClaimLabels
<1>6. KeepsRunning(c)
  BY <1>1, <1>2 DEF TypeOK, KeepsRunning, Active, Windows, Moves, Elsewhere
<1>7. QueueIsRunnable'
  BY <1>1, SameQueue
<1>8. QED
  BY <1>1, <1>3, <1>4, <1>5, <1>6, <1>7, ClaimsKept, RunningKept DEF IndInv

\* The current process goes to sleep, whatever the channel.
LEMMA SleepKeeps ==
  ASSUME IndInv, NEW c \in CPUs, pc[c] \notin Elsewhere,
         NEW ch \in Chans, NEW tick \in BOOLEAN, NEW at \in ResumePoints, NEW a \in Args,
         SleepOn(c, ch, tick, at, a),
         UNCHANGED <<parent, user, kstack, context, runqueue, proc, stack, last_sched,
                     freePages, crash, kthreadVars>>
  PROVE  IndInv'
<1> DEFINE p == proc[c]
<1>1. TypeOK /\ Placed /\ Claims /\ QueueIsRunnable /\ RunningOnOneCpu
  BY DEF IndInv
<1>2. /\ state' = [state EXCEPT ![p] = "SLEEPING"]
      /\ chan' = [chan EXCEPT ![p] = ch]
      /\ timed' = [timed EXCEPT ![p] = tick]
      /\ pc' = [pc EXCEPT ![c] = "sched"]
      /\ ret' = [ret EXCEPT ![c] = at]
      /\ arg' = [arg EXCEPT ![c] = a]
  BY DEF SleepOn, Goto
<1>3. Active(c) /\ p \in Slots /\ state[p] = "RUNNING"
  BY <1>1, ActiveRuns DEF Elsewhere
<1>4. TypeOK'
  BY <1>1, <1>2 DEF TypeOK, Labels, Windows, States, kthreadVars
<1>5. Placed'
  BY <1>1, <1>2, <1>3 DEF TypeOK, Placed, Elsewhere
<1>6. Others(c) /\ KeepsClaims(c)
  BY <1>1, <1>2, <1>3 DEF TypeOK, Others, KeepsClaims, Claiming
<1>7. LeavesRunning(c)
  BY <1>1, <1>2, <1>3 DEF TypeOK, LeavesRunning, Active, Windows
<1>8. QueueIsRunnable'
  BY <1>1, <1>2, <1>3, SameQueue DEF TypeOK
<1>9. QED BY <1>1, <1>4, <1>5, <1>6, <1>7, <1>8, ClaimsKept, RunningLeft DEF IndInv

\* Sleepers are woken while the CPU stays, goes on, or is done with exit.
LEMMA WakeKeeps ==
  ASSUME IndInv, NEW c \in CPUs, NEW S, WakeAll(S),
         S \subseteq {p \in Slots : state[p] = "SLEEPING"},
         pc' \in [CPUs -> Labels], arg' \in [CPUs -> Args],
         ret' \in [CPUs -> ResumePoints \cup {"none", "dead"}],
         \A d \in CPUs \ {c} : pc'[d] = pc[d] /\ ret'[d] = ret[d] /\ arg'[d] = arg[d],
         pc'[c] \notin ClaimLabels,
         \/ pc'[c] = pc[c] /\ ret'[c] = ret[c]
         \/ pc[c] \notin Elsewhere /\ pc'[c] \notin Elsewhere
         \/ pc[c] = "exit_wake" /\ pc'[c] = "sched" /\ ret'[c] = "dead",
         UNCHANGED <<parent, user, kstack, context, proc, stack, last_sched, freePages,
                     create_list>>,
         serving' \in Slots \cup {NoProc}, served' \subseteq Slots \cup {NoProc}
  PROVE  IndInv'
<1>1. TypeOK /\ Placed /\ Claims /\ QueueIsRunnable /\ RunningOnOneCpu
  BY DEF IndInv
<1>2. /\ state' \in [Slots -> States]
      /\ chan' \in [Slots -> Chans]
      /\ timed' \in [Slots -> BOOLEAN]
      /\ runqueue' \in Seq(Slots)
      /\ crash' = crash
      /\ QueueIsRunnable'
      /\ \A p \in Slots : state'[p] = state[p] \/
             (state[p] = "SLEEPING" /\ state'[p] = "RUNNABLE")
  BY <1>1, WakeRuns
<1>3. TypeOK'
  BY <1>1, <1>2 DEF TypeOK
<1>4. Placed'
  BY <1>1 DEF TypeOK, Placed, Elsewhere
<1>5. Others(c) /\ KeepsClaims(c)
  BY <1>1, <1>2 DEF TypeOK, Others, KeepsClaims, Claiming, ClaimLabels
<1>6. KeepsRunning(c)
  <2>1. Active(c)' <=> Active(c)
    BY <1>1 DEF TypeOK, Placed, Active, Windows, Elsewhere
  <2>2. QED BY <1>2, <2>1 DEF KeepsRunning
<1>7. QED BY <1>1, <1>2, <1>3, <1>4, <1>5, <1>6, ClaimsKept, RunningKept DEF IndInv

\* A slot that was filled becomes RUNNABLE and is queued.
LEMMA PublishKeeps ==
  ASSUME IndInv, NEW c \in CPUs, Claiming(c), Enqueue(arg[c]),
         state' = [state EXCEPT ![arg[c]] = "RUNNABLE"],
         NEW label \in Labels \ (Elsewhere \cup ClaimLabels),
         pc' = [pc EXCEPT ![c] = label], arg' = [arg EXCEPT ![c] = NoProc],
         UNCHANGED <<chan, timed, parent, user, kstack, context, proc, ret, stack,
                     last_sched, freePages, kthreadVars>>
  PROVE  IndInv'
<1> DEFINE np == arg[c]
<1>1. TypeOK /\ Placed /\ Claims /\ QueueIsRunnable /\ RunningOnOneCpu
  BY DEF IndInv
<1>2. np \in Slots /\ state[np] = "USED" /\ pc[c] \notin Elsewhere
  BY <1>1 DEF Claims, Claiming, Elsewhere
<1>3. Active(c)
  BY <1>1, <1>2, ActiveRuns DEF Elsewhere
<1>4. /\ runqueue' \in Seq(Slots)
      /\ \A i, j \in DOMAIN runqueue' : runqueue'[i] = runqueue'[j] => i = j
      /\ Queued' = Queued \cup {np}
      /\ crash' = crash
  BY <1>1, <1>2, AppendRuns
<1>5. TypeOK'
  BY <1>1, <1>2, <1>4 DEF TypeOK, States, Args, kthreadVars
<1>6. Placed'
  BY <1>1, <1>2 DEF TypeOK, Placed, Elsewhere
<1>7. Others(c) /\ KeepsClaims(c)
  BY <1>1, <1>2 DEF TypeOK, Others, KeepsClaims, Claiming, ClaimLabels
<1>8. KeepsRunning(c)
  BY <1>1, <1>2, <1>3 DEF TypeOK, KeepsRunning, Active, Windows, Elsewhere
<1>9. QueueIsRunnable'
  BY <1>1, <1>2, <1>4 DEF TypeOK, QueueIsRunnable
<1>10. QED BY <1>1, <1>5, <1>6, <1>7, <1>8, <1>9, ClaimsKept, RunningKept DEF IndInv

\* A slot that could not be filled is given back by proc_free.
LEMMA UnclaimKeeps ==
  ASSUME IndInv, NEW c \in CPUs, Claiming(c), FreeSlot(arg[c]),
         NEW label \in Labels \ (Elsewhere \cup ClaimLabels),
         pc' = [pc EXCEPT ![c] = label], arg' = [arg EXCEPT ![c] = NoProc],
         UNCHANGED <<chan, timed, proc, ret, stack, last_sched, crash, kthreadVars>>
  PROVE  IndInv'
<1> DEFINE np == arg[c]
<1>1. TypeOK /\ Placed /\ Claims /\ QueueIsRunnable /\ RunningOnOneCpu
  BY DEF IndInv
<1>2. np \in Slots /\ state[np] = "USED" /\ pc[c] \notin Elsewhere
  BY <1>1 DEF Claims, Claiming, Elsewhere
<1>3. Active(c)
  BY <1>1, <1>2, ActiveRuns DEF Elsewhere
<1>4. /\ runqueue' = runqueue
      /\ state' = [state EXCEPT ![np] = "UNUSED"]
  BY <1>1, <1>2, NotQueued DEF FreeSlot, Unlink
<1>5. TypeOK'
  <2>1. /\ freePages' \subseteq Pages
        /\ kstack' \in [Slots -> Pages \cup {NoPage}]
    BY <1>1, <1>2 DEF FreeSlot, FreeKstack, TypeOK
  <2>2. QED BY <1>1, <1>4, <2>1, ContextTypes DEF FreeSlot, TypeOK, States, Args,
     kthreadVars
<1>6. Placed'
  BY <1>1, <1>2 DEF TypeOK, Placed, Elsewhere
<1>7. Others(c) /\ KeepsClaims(c)
  BY <1>1, <1>2, <1>4 DEF TypeOK, Others, KeepsClaims, Claiming, ClaimLabels
<1>8. KeepsRunning(c)
  BY <1>1, <1>2, <1>3, <1>4 DEF TypeOK, KeepsRunning, Active, Windows, Elsewhere
<1>9. QueueIsRunnable'
  BY <1>1, <1>2, <1>4, SameQueue DEF TypeOK
<1>10. QED BY <1>1, <1>5, <1>6, <1>7, <1>8, <1>9, ClaimsKept, RunningKept DEF IndInv

\* Schedule keeps the invariant.
LEMMA ScheduleKeeps ==
  ASSUME IndInv, NEW c \in CPUs, Schedule(c), UNCHANGED kthreadVars
  PROVE  IndInv'
<1> DEFINE p == Head(runqueue)
<1>1. TypeOK /\ Placed /\ Claims /\ QueueIsRunnable /\ RunningOnOneCpu
  BY DEF IndInv
<1>2. /\ p \in Slots /\ state[p] = "RUNNABLE"
      /\ runqueue' \in Seq(Slots)
      /\ \A i, j \in DOMAIN runqueue' : runqueue'[i] = runqueue'[j] => i = j
      /\ Queued' = Queued \ {p}
  BY <1>1, HeadTail DEF Schedule
<1>3. /\ pc[c] = "idle"
      /\ pc' = [pc EXCEPT ![c] = "swtch"]
      /\ proc' = [proc EXCEPT ![c] = p]
      /\ state' = [state EXCEPT ![p] = "RUNNING"]
      /\ UNCHANGED <<chan, timed, parent, user, kstack, ret, arg, stack, last_sched,
                     freePages, create_list, serving, served>>
  BY DEF Schedule, Goto, kthreadVars
<1>4. context' \in [Slots -> Contexts] /\ crash' \in {"none", "panic", "stack"}
  <2>1. PrepareContext(p)
    BY DEF Schedule
  <2>2. Saved(EntryPoint(p), NoProc, kstack[p]) \in Contexts
    <3>1. EntryPoint(p) \in ResumePoints
      BY DEF EntryPoint, ResumePoints
    <3>2. kstack[p] \in Pages \cup {NoPage} /\ NoProc \in Args
      BY <1>1, <1>2 DEF TypeOK, Args
    <3>3. QED BY <3>1, <3>2, ContextTypes
  <2>3. context' \in [Slots -> Contexts]
    <3>1. \/ context' = context
          \/ context' = [context EXCEPT ![p] = Saved(EntryPoint(p), NoProc, kstack[p])]
      BY <2>1 DEF PrepareContext
    <3>2. QED BY <1>1, <2>2, <3>1 DEF TypeOK
  <2>4. crash' \in {"none", "panic", "stack"}
    BY <1>1, <2>1 DEF TypeOK, PrepareContext
  <2>5. QED BY <2>3, <2>4
<1>5. TypeOK'
  BY <1>1, <1>2, <1>3, <1>4 DEF TypeOK, Labels, States
<1>6. Placed'
  BY <1>1, <1>2, <1>3 DEF TypeOK, Placed, NoProc, Slots
<1>7. Others(c)
  BY <1>1, <1>3 DEF TypeOK, Others
<1>8. Claims'
  <2>1. KeepsClaims(c)
    BY <1>1, <1>2, <1>3 DEF TypeOK, KeepsClaims, Claiming
  <2>2. QED BY <1>1, <1>7, <2>1, ClaimsKept
<1>9. RunningOnOneCpu'
  <2>1. ~Active(c) /\ Active(c)' /\ proc'[c] = p
    BY <1>1, <1>2, <1>3 DEF TypeOK, Placed, Active, Windows, Slots, NoProc
  <2>2. \A q \in Slots : state'[q] = "RUNNING" <=> state[q] = "RUNNING" \/ q = p
    BY <1>1, <1>2, <1>3 DEF TypeOK
  <2>3. QED BY <1>1, <1>2, <1>7, <2>1, <2>2, RunningEntered
<1>10. QueueIsRunnable'
  BY <1>1, <1>2, <1>3 DEF TypeOK, QueueIsRunnable
<1>11. QED BY <1>5, <1>6, <1>8, <1>9, <1>10 DEF IndInv

\* SwitchTo keeps the invariant.
LEMMA SwitchToKeeps ==
  ASSUME IndInv, NEW c \in CPUs, SwitchTo(c), UNCHANGED kthreadVars
  PROVE  IndInv'
<1> DEFINE p == proc[c]
           k == context[p]
<1>1. TypeOK /\ Placed /\ Claims /\ QueueIsRunnable /\ RunningOnOneCpu
  BY DEF IndInv
<1>2. /\ pc[c] = "swtch"
      /\ UNCHANGED <<state, chan, timed, parent, user, kstack, runqueue, proc, ret,
                     last_sched, freePages, create_list, serving, served>>
  BY DEF SwitchTo, kthreadVars
<1>3. Active(c) /\ p \in Slots
  BY <1>1, <1>2, ActiveRuns
<1>4. QueueIsRunnable'
  BY <1>1, <1>2, SameQueue
<1>5. CASE Corrupt(p)
  <2>1. crash' = "stack" /\ UNCHANGED <<context, pc, arg, stack>>
    BY <1>5 DEF SwitchTo
  <2>2. QED BY <1>2, <2>1, StutterKeeps
<1>6. CASE ~Corrupt(p)
  <2>1. /\ context' = [context EXCEPT ![p] = Popped]
        /\ pc' = [pc EXCEPT ![c] = k.at]
        /\ arg' = [arg EXCEPT ![c] = k.arg]
        /\ stack' = [stack EXCEPT ![c] = k.page]
        /\ UNCHANGED crash
    BY <1>6 DEF SwitchTo, Goto
  <2>2. k.at \in ResumePoints /\ k.arg \in Args /\ k.page \in Pages \cup {NoPage}
    <3>1. k \in Contexts
      BY <1>1, <1>3 DEF TypeOK
    <3>2. k.at \in ResumePoints
      BY <1>6 DEF Corrupt
    <3>3. QED BY <3>1, <3>2, ContextTypes
  <2>3. TypeOK'
    BY <1>1, <1>2, <2>1, <2>2, ContextTypes DEF TypeOK, Labels
  <2>4. k.at \notin {"idle", "reap", "sched", "exit_wake", "back", "fork_fill",
                     "fork_publish", "kthreadd_fill", "kthreadd_publish"}
    BY <2>2 DEF ResumePoints
  <2>5. Placed'
    BY <1>1, <1>2, <2>1, <2>4 DEF TypeOK, Placed
  <2>6. Others(c) /\ KeepsClaims(c)
    BY <1>1, <1>2, <2>1, <2>4 DEF TypeOK, Others, KeepsClaims, Claiming
  <2>7. KeepsRunning(c)
    BY <1>1, <1>2, <1>3, <2>1, <2>4 DEF TypeOK, KeepsRunning, Active, Windows
  <2>8. QED BY <1>1, <1>4, <2>3, <2>5, <2>6, <2>7, ClaimsKept, RunningKept DEF IndInv
<1>7. QED BY <1>5, <1>6

\* Sched keeps the invariant.
LEMMA SchedKeeps ==
  ASSUME IndInv, NEW c \in CPUs, Sched(c), UNCHANGED kthreadVars
  PROVE  IndInv'
<1>1. TypeOK /\ Placed /\ Claims /\ QueueIsRunnable /\ RunningOnOneCpu
  BY DEF IndInv
<1>2. /\ pc[c] = "sched"
      /\ pc' = [pc EXCEPT ![c] = "back"]
      /\ last_sched' = [last_sched EXCEPT ![c] = proc[c]]
      /\ ret' = [ret EXCEPT ![c] = "none"]
      /\ arg' = [arg EXCEPT ![c] = NoProc]
      /\ stack' = [stack EXCEPT ![c] = NoPage]
      /\ \/ context' = context
         \/ context' = [context EXCEPT ![proc[c]] = Saved(ret[c], arg[c], stack[c])]
      /\ UNCHANGED <<state, chan, timed, parent, user, kstack, runqueue, proc, freePages,
                     crash, create_list, serving, served>>
  BY DEF Sched, Goto, kthreadVars
<1>3. proc[c] \in Slots /\ ~Active(c)
  BY <1>1, <1>2 DEF TypeOK, Placed, Active, Windows
<1>4. TypeOK'
  <2>1. Saved(ret[c], arg[c], stack[c]) \in Contexts
    BY <1>1, <1>2, ContextTypes DEF TypeOK, Placed
  <2>2. context' \in [Slots -> Contexts]
    BY <1>1, <1>2, <2>1 DEF TypeOK
  <2>3. QED BY <1>1, <1>2, <1>3, <2>2 DEF TypeOK, Labels, Windows, Args
<1>5. Placed'
  BY <1>1, <1>2, <1>3 DEF TypeOK, Placed
<1>6. Others(c) /\ KeepsClaims(c)
  BY <1>1, <1>2 DEF TypeOK, Others, KeepsClaims, Claiming
<1>7. KeepsRunning(c)
  BY <1>1, <1>2, <1>3 DEF TypeOK, KeepsRunning, Active, Windows
<1>8. QueueIsRunnable'
  BY <1>1, <1>2, SameQueue
<1>9. QED BY <1>1, <1>4, <1>5, <1>6, <1>7, <1>8, ClaimsKept, RunningKept DEF IndInv

\* Back keeps the invariant.
LEMMA BackKeeps ==
  ASSUME IndInv, NEW c \in CPUs, Back(c), UNCHANGED kthreadVars
  PROVE  IndInv'
<1>1. TypeOK /\ Placed /\ Claims /\ QueueIsRunnable /\ RunningOnOneCpu
  BY DEF IndInv
<1>2. /\ pc[c] = "back"
      /\ proc' = [proc EXCEPT ![c] = NoProc]
      /\ \/ pc' = [pc EXCEPT ![c] = "reap"] /\ UNCHANGED last_sched
         \/ /\ pc' = [pc EXCEPT ![c] = "idle"]
            /\ last_sched' = [last_sched EXCEPT ![c] = NoProc]
      /\ UNCHANGED <<state, chan, timed, parent, user, kstack, context, runqueue, ret, arg,
                     stack, freePages, crash, create_list, serving, served>>
  BY DEF Back, Goto, tableVars, kthreadVars
<1>3. TypeOK'
  BY <1>1, <1>2 DEF TypeOK, Labels
<1>4. Placed'
  BY <1>1, <1>2 DEF TypeOK, Placed, NoProc
<1>5. Others(c) /\ KeepsClaims(c)
  BY <1>1, <1>2 DEF TypeOK, Others, KeepsClaims, Claiming
<1>6. KeepsRunning(c)
  BY <1>1, <1>2 DEF TypeOK, Placed, KeepsRunning, Active, Windows
<1>7. QueueIsRunnable'
  BY <1>1, <1>2, SameQueue
<1>8. QED BY <1>1, <1>3, <1>4, <1>5, <1>6, <1>7, ClaimsKept, RunningKept DEF IndInv

\* Reap keeps the invariant.
LEMMA ReapKeeps ==
  ASSUME IndInv, NEW c \in CPUs, Reap(c), UNCHANGED kthreadVars
  PROVE  IndInv'
<1>1. TypeOK /\ Placed /\ Claims /\ QueueIsRunnable /\ RunningOnOneCpu
  BY DEF IndInv
<1>2. /\ pc[c] = "reap"
      /\ pc' = [pc EXCEPT ![c] = "idle"]
      /\ FreeKstack(last_sched[c])
      /\ last_sched' = [last_sched EXCEPT ![c] = NoProc]
      /\ UNCHANGED <<state, chan, timed, parent, user, context, runqueue, proc, ret, arg,
                     stack, crash, create_list, serving, served>>
  BY DEF Reap, Goto, kthreadVars
<1>3. TypeOK'
  <2>1. /\ freePages' \subseteq Pages
        /\ kstack' \in [Slots -> Pages \cup {NoPage}]
    BY <1>1, <1>2 DEF FreeKstack, TypeOK, Placed
  <2>2. QED BY <1>1, <1>2, <2>1 DEF TypeOK, Labels
<1>4. Placed'
  BY <1>1, <1>2 DEF TypeOK, Placed, NoProc
<1>5. Others(c) /\ KeepsClaims(c)
  BY <1>1, <1>2 DEF TypeOK, Others, KeepsClaims, Claiming
<1>6. KeepsRunning(c)
  BY <1>1, <1>2 DEF TypeOK, Placed, KeepsRunning, Active, Windows
<1>7. QueueIsRunnable'
  BY <1>1, <1>2, SameQueue
<1>8. QED BY <1>1, <1>3, <1>4, <1>5, <1>6, <1>7, ClaimsKept, RunningKept DEF IndInv

\* TickKernel keeps the invariant.
LEMMA TickKernelKeeps ==
  ASSUME IndInv, NEW c \in CPUs, TickKernel(c), UNCHANGED kthreadVars
  PROVE  IndInv'
<1>1. PICK S : WakeAll(S) /\ S \subseteq {p \in Slots : state[p] = "SLEEPING"}
  BY TickWakeRuns DEF TickKernel, IndInv, Sleepers
<1>2. /\ pc' \in [CPUs -> Labels] /\ arg' \in [CPUs -> Args]
      /\ ret' \in [CPUs -> ResumePoints \cup {"none", "dead"}]
      /\ \A d \in CPUs \ {c} : pc'[d] = pc[d] /\ ret'[d] = ret[d] /\ arg'[d] = arg[d]
  BY DEF TickKernel, IndInv, TypeOK, Labels, Windows, ResumePoints, Args, Goto, cpuVars
<1>3. /\ pc'[c] \notin ClaimLabels
      /\ \/ pc'[c] = pc[c] /\ ret'[c] = ret[c]
         \/ pc[c] \notin Elsewhere /\ pc'[c] \notin Elsewhere
         \/ pc[c] = "exit_wake" /\ pc'[c] = "sched" /\ ret'[c] = "dead"
  BY DEF TickKernel, IndInv, TypeOK, ClaimLabels, Elsewhere, Goto, cpuVars
<1>4. /\ UNCHANGED <<parent, user, kstack, context, proc, stack, last_sched, freePages,
                     create_list>>
      /\ serving' \in Slots \cup {NoProc} /\ served' \subseteq Slots \cup {NoProc}
  BY DEF TickKernel, IndInv, TypeOK, cpuVars, kthreadVars
<1>5. QED BY <1>1, <1>2, <1>3, <1>4, WakeKeeps

\* TickUser keeps the invariant.
LEMMA TickUserKeeps ==
  ASSUME IndInv, NEW c \in CPUs, TickUser(c), UNCHANGED kthreadVars
  PROVE  IndInv'
<1>1. PICK S : WakeAll(S) /\ S \subseteq {p \in Slots : state[p] = "SLEEPING"}
  BY TickWakeRuns DEF TickUser, IndInv, Sleepers
<1>2. /\ pc' \in [CPUs -> Labels] /\ arg' \in [CPUs -> Args]
      /\ ret' \in [CPUs -> ResumePoints \cup {"none", "dead"}]
      /\ \A d \in CPUs \ {c} : pc'[d] = pc[d] /\ ret'[d] = ret[d] /\ arg'[d] = arg[d]
  BY DEF TickUser, IndInv, TypeOK, Labels, Windows, ResumePoints, Args, Goto, cpuVars
<1>3. /\ pc'[c] \notin ClaimLabels
      /\ \/ pc'[c] = pc[c] /\ ret'[c] = ret[c]
         \/ pc[c] \notin Elsewhere /\ pc'[c] \notin Elsewhere
         \/ pc[c] = "exit_wake" /\ pc'[c] = "sched" /\ ret'[c] = "dead"
  BY DEF TickUser, IndInv, TypeOK, ClaimLabels, Elsewhere, Goto, cpuVars
<1>4. /\ UNCHANGED <<parent, user, kstack, context, proc, stack, last_sched, freePages,
                     create_list>>
      /\ serving' \in Slots \cup {NoProc} /\ served' \subseteq Slots \cup {NoProc}
  BY DEF TickUser, IndInv, TypeOK, cpuVars, kthreadVars
<1>5. QED BY <1>1, <1>2, <1>3, <1>4, WakeKeeps

\* TickResched keeps the invariant.
LEMMA TickReschedKeeps ==
  ASSUME IndInv, NEW c \in CPUs, TickResched(c), UNCHANGED kthreadVars
  PROVE  IndInv'
<1>1. TypeOK
  BY DEF IndInv
<1>2. /\ pc[c] \notin Elsewhere
      /\ \E label \in Moves : pc' = [pc EXCEPT ![c] = label]
  BY DEF TickResched, Goto, Moves, Labels, ResumePoints, Windows, Elsewhere, ClaimLabels
<1>3. UNCHANGED <<state, chan, timed, parent, kstack, context, runqueue, proc, ret,
                  stack, last_sched, freePages, crash>>
  BY DEF TickResched, tableVars
<1>4. /\ arg' \in [CPUs -> Args] /\ \A d \in CPUs \ {c} : arg'[d] = arg[d]
      /\ user' \in [Slots -> BOOLEAN] /\ create_list' \in Seq(Slots)
      /\ serving' \in Slots \cup {NoProc} /\ served' \subseteq Slots \cup {NoProc}
  BY <1>1 DEF TypeOK, TickResched, tableVars, kthreadVars
<1>5. QED BY <1>2, <1>3, <1>4, MoveKeeps

\* PreemptCheck keeps the invariant.
LEMMA PreemptCheckKeeps ==
  ASSUME IndInv, NEW c \in CPUs, PreemptCheck(c), UNCHANGED kthreadVars
  PROVE  IndInv'
<1>1. TypeOK
  BY DEF IndInv
<1>2. /\ pc[c] \notin Elsewhere
      /\ \E label \in Moves : pc' = [pc EXCEPT ![c] = label]
  BY DEF PreemptCheck, Goto, Moves, Labels, ResumePoints, Windows, Elsewhere,
     ClaimLabels
<1>3. UNCHANGED <<state, chan, timed, parent, kstack, context, runqueue, proc, ret,
                  stack, last_sched, freePages, crash>>
  BY DEF PreemptCheck, tableVars
<1>4. /\ arg' \in [CPUs -> Args] /\ \A d \in CPUs \ {c} : arg'[d] = arg[d]
      /\ user' \in [Slots -> BOOLEAN] /\ create_list' \in Seq(Slots)
      /\ serving' \in Slots \cup {NoProc} /\ served' \subseteq Slots \cup {NoProc}
  BY <1>1 DEF TypeOK, PreemptCheck, tableVars, kthreadVars
<1>5. QED BY <1>2, <1>3, <1>4, MoveKeeps

\* Yield keeps the invariant.
LEMMA YieldKeeps ==
  ASSUME IndInv, NEW c \in CPUs, Yield(c), UNCHANGED kthreadVars
  PROVE  IndInv'
<1> DEFINE p == proc[c]
<1>1. TypeOK /\ Placed /\ Claims /\ QueueIsRunnable /\ RunningOnOneCpu
  BY DEF IndInv
<1>2. /\ pc[c] \in {"yield", "kthread"}
      /\ pc' = [pc EXCEPT ![c] = "sched"]
      /\ state' = [state EXCEPT ![p] = "RUNNABLE"]
      /\ Enqueue(p)
      /\ \E at \in ResumePoints : ret' = [ret EXCEPT ![c] = at]
      /\ UNCHANGED <<chan, timed, parent, user, kstack, context, proc, arg, stack,
                     last_sched, freePages, create_list, serving, served>>
  BY DEF Yield, Goto, ResumePoints, kthreadVars
<1>3. Active(c) /\ p \in Slots /\ state[p] = "RUNNING"
  BY <1>1, <1>2, ActiveRuns
<1>4. /\ runqueue' \in Seq(Slots)
      /\ \A i, j \in DOMAIN runqueue' : runqueue'[i] = runqueue'[j] => i = j
      /\ Queued' = Queued \cup {p}
      /\ crash' = crash
  BY <1>1, <1>2, <1>3, AppendRuns
<1>5. TypeOK'
  <2>1. pc' \in [CPUs -> Labels] /\ state' \in [Slots -> States]
    BY <1>1, <1>2 DEF TypeOK, Labels, Windows, States
  <2>2. ret' \in [CPUs -> ResumePoints \cup {"none", "dead"}]
    BY <1>1, <1>2 DEF TypeOK
  <2>3. QED BY <1>1, <1>2, <1>4, <2>1, <2>2 DEF TypeOK
<1>6. Placed'
  BY <1>1, <1>2 DEF TypeOK, Placed
<1>7. Others(c) /\ KeepsClaims(c)
  BY <1>1, <1>2, <1>3 DEF TypeOK, Others, KeepsClaims, Claiming
<1>8. LeavesRunning(c)
  BY <1>1, <1>2, <1>3 DEF TypeOK, LeavesRunning, Active, Windows
<1>9. QueueIsRunnable'
  BY <1>1, <1>2, <1>3, <1>4 DEF TypeOK, QueueIsRunnable
<1>10. QED BY <1>1, <1>5, <1>6, <1>7, <1>8, <1>9, ClaimsKept, RunningLeft DEF IndInv

\* SleepTicks keeps the invariant.
LEMMA SleepTicksKeeps ==
  ASSUME IndInv, NEW c \in CPUs, SleepTicks(c), UNCHANGED kthreadVars
  PROVE  IndInv'
<1>1. /\ pc[c] \in ResumePoints /\ pc[c] \notin Elsewhere
      /\ NoChan \in Chans /\ NoProc \in Args
  BY DEF SleepTicks, ResumePoints, Elsewhere, Chans, Args
<1>2. QED BY <1>1, SleepKeeps DEF SleepTicks
=============================================================================

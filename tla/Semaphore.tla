----------------------------- MODULE Semaphore ------------------------------
(***************************************************************************)
(* The futex system call, arch/x86/kernel/ipc/futex.c, and the POSIX       *)
(* semaphores of the user library built on it, arch/x86/user/lib/sem.c.    *)
(*                                                                         *)
(* The semaphore lies in memory the processes share, so each access to     *)
(* sem->value is a step of its own and processes interleave between any    *)
(* two.  In the kernel a step is a section under futex_lock, except that   *)
(* FUTEX_WAIT keeps the lock from its test of the word to the sleep while  *)
(* the word itself may still change.                                       *)
(***************************************************************************)
EXTENDS Integers, FiniteSets

CONSTANTS
  SemProcs,          \* process table slots 1 .. SemProcs
  SEM_VALUE_MAX,
  SemInitial,        \* sem_init(sem, 1, SemInitial)
  MaxPosts           \* bound: successful sem_post calls

SemAssumption ==
  /\ SemProcs \in Nat /\ SEM_VALUE_MAX \in Nat \ {0}
  /\ SemInitial \in 0 .. SEM_VALUE_MAX /\ MaxPosts \in Nat

VARIABLES
  sem,          \* sem->value
  spc,          \* per process: where it is
  sv,           \* per process: the local v of sem_trydec
  futex_lock,   \* the process in FUTEX_WAIT between its test and its sleep
  posted,       \* successful sem_post calls, from sem_post's first step
  taken         \* successful sem_wait and sem_trywait calls

semVars == <<sem, spc, sv, futex_lock, posted, taken>>

SemSlots == 1 .. SemProcs
NoOwner == 0
At(p, label) == spc[p] = label
SemGoto(p, label) == spc' = [spc EXCEPT ![p] = label]

----------------------------------------------------------------------------
(* sem_wait and sem_trywait *)

sem_wait(p) ==
  /\ At(p, "user") /\ SemGoto(p, "wait")
  /\ UNCHANGED <<sem, sv, futex_lock, posted, taken>>

sem_trywait(p) ==
  /\ At(p, "user") /\ SemGoto(p, "trywait")
  /\ UNCHANGED <<sem, sv, futex_lock, posted, taken>>

\* sem_trydec, v = sem->value: at zero, sem_trywait gives up and sem_wait calls
\* the kernel.
LoadValue(p) ==
  /\ spc[p] \in {"wait", "trywait"}
  /\ IF sem <= 0
     THEN SemGoto(p, IF At(p, "wait") THEN "futex" ELSE "user") /\ UNCHANGED sv
     ELSE SemGoto(p, IF At(p, "wait") THEN "waitcas" ELSE "trycas")
          /\ sv' = [sv EXCEPT ![p] = sem]
  /\ UNCHANGED <<sem, futex_lock, posted, taken>>

\* Variant: the store does not compare.
StoreDecremented(p) ==
  /\ spc[p] \in {"waitcas", "trycas"}
  /\ sem' = sv[p] - 1 /\ taken' = taken + 1 /\ SemGoto(p, "user")
  /\ sv' = [sv EXCEPT ![p] = 0]
  /\ UNCHANGED <<futex_lock, posted>>

\* sem_trydec, __sync_bool_compare_and_swap
sem_trydec(p) ==
  /\ spc[p] \in {"waitcas", "trycas"}
  /\ IF sem = sv[p]
     THEN sem' = sem - 1 /\ taken' = taken + 1 /\ SemGoto(p, "user")
     ELSE /\ SemGoto(p, IF At(p, "waitcas") THEN "wait" ELSE "trywait")
          /\ UNCHANGED <<sem, taken>>
  /\ sv' = [sv EXCEPT ![p] = 0]
  /\ UNCHANGED <<futex_lock, posted>>

----------------------------------------------------------------------------
(* FUTEX_WAIT *)

\* do_futex_wait(&sem->value, 0) up to the comparison; futex_key and copyin
\* succeed, the page is there.
do_futex_wait(p) ==
  /\ At(p, "futex") /\ futex_lock = NoOwner
  /\ IF sem # 0 THEN SemGoto(p, "wait") /\ UNCHANGED futex_lock
                ELSE SemGoto(p, "sleeping") /\ futex_lock' = p
  /\ UNCHANGED <<sem, sv, posted, taken>>

\* futex_sleep gives futex_lock up only once it holds proc_lock.
futex_sleep(p) ==
  /\ At(p, "sleeping")
  /\ SemGoto(p, "asleep") /\ futex_lock' = NoOwner
  /\ UNCHANGED <<sem, sv, posted, taken>>

\* The rest of futex_sleep: futex_lock is taken and given up once more.
FutexResume(p) ==
  /\ At(p, "woken") /\ futex_lock = NoOwner
  /\ SemGoto(p, "wait")
  /\ UNCHANGED <<sem, sv, futex_lock, posted, taken>>

\* A signal wakes a sleeper, see signal_wake_locked.
FutexSignal(p) ==
  /\ At(p, "asleep") /\ SemGoto(p, "woken")
  /\ UNCHANGED <<sem, sv, futex_lock, posted, taken>>

----------------------------------------------------------------------------
(* sem_post and FUTEX_WAKE *)

\* __sync_fetch_and_add: a full semaphore is put back by the next step, and only
\* a semaphore that was zero has its sleepers woken.
sem_post(p) ==
  /\ At(p, "user") /\ posted < MaxPosts
  /\ sem' = sem + 1
  /\ SemGoto(p, IF sem >= SEM_VALUE_MAX THEN "undo"
                ELSE IF sem = 0 THEN "wake" ELSE "user")
  /\ posted' = IF sem >= SEM_VALUE_MAX THEN posted ELSE posted + 1
  /\ UNCHANGED <<sv, futex_lock, taken>>

\* __sync_fetch_and_sub
PostUndo(p) ==
  /\ At(p, "undo")
  /\ sem' = sem - 1 /\ SemGoto(p, "user")
  /\ UNCHANGED <<sv, futex_lock, posted, taken>>

\* do_futex_wake(&sem->value, 1): the first sleeper in table order.
do_futex_wake(p) ==
  LET sleepers == {q \in SemSlots : At(q, "asleep")}
  IN /\ At(p, "wake") /\ futex_lock = NoOwner
     /\ spc' = [q \in SemSlots |->
                  IF q = p THEN "user"
                  ELSE IF q \in sleepers /\ \A r \in sleepers : q <= r
                       THEN "woken" ELSE spc[q]]
     /\ UNCHANGED <<sem, sv, futex_lock, posted, taken>>

----------------------------------------------------------------------------
SemInit ==
  /\ sem = SemInitial
  /\ spc = [p \in SemSlots |-> "user"]
  /\ sv = [p \in SemSlots |-> 0]
  /\ futex_lock = NoOwner
  /\ posted = 0 /\ taken = 0

SemNext ==
  \E p \in SemSlots :
    \/ sem_wait(p) \/ sem_trywait(p) \/ LoadValue(p) \/ sem_trydec(p)
    \/ do_futex_wait(p) \/ futex_sleep(p) \/ FutexResume(p) \/ FutexSignal(p)
    \/ sem_post(p) \/ PostUndo(p) \/ do_futex_wake(p)

SemSpec == SemInit /\ [][SemNext]_semVars

----------------------------------------------------------------------------
Undoing == {p \in SemSlots : At(p, "undo")}

\* sem->value is the initial value plus the posts minus the successful waits,
\* however the compare-and-swaps, the failing posts at SEM_VALUE_MAX and the
\* sleeps interleave.
SemConserved ==
  sem = SemInitial + posted - taken + Cardinality(Undoing)
=============================================================================

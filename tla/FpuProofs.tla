------------------------------ MODULE FpuProofs -------------------------------
(***************************************************************************)
(* The theorem about Fpu: a process computes with its own registers, for   *)
(* any number of processes, CPUs and values.                               *)
(*                                                                         *)
(* FpuOwn alone is not inductive: the registers a process finds after #NM  *)
(* come from fpu_state, so what is in fpu_state has to be known too, and   *)
(* that it is there rests on the owner of a CPU's registers being the      *)
(* process that runs on it: every switch away gives the registers up.      *)
(***************************************************************************)
EXTENDS Fpu, TLAPS

Values == FpuValues \cup {"clean"}

FpuTypeOK ==
  /\ fpu_owner \in [FpuCpus -> FpuProcs \cup {Nobody}]
  /\ cur \in [FpuCpus -> FpuProcs \cup {Nobody}]
  /\ ts \in [FpuCpus -> BOOLEAN] /\ regs \in [FpuCpus -> Values]
  /\ fpu_used \in [FpuProcs -> BOOLEAN] /\ fpu_state \in [FpuProcs -> Values]
  /\ live \subseteq FpuProcs /\ want \in [FpuProcs -> Values \cup {Unknown}]

\* context_switch and exit: a process runs on one CPU, and exists.
RunsOnce ==
  /\ \A c \in FpuCpus : cur[c] # Nobody => cur[c] \in live
  /\ \A c, d \in FpuCpus : cur[c] # Nobody /\ cur[c] = cur[d] => c = d

\* fpu_switch_away and fpu_drop: the owner of a CPU's registers runs there.
OwnerRuns == \A c \in FpuCpus : fpu_owner[c] # Nobody => fpu_owner[c] = cur[c]

\* fpu_nm: without a trap to come, the process at hand owns the registers, and
\* they are what it computed last.
OwnerCurrent ==
  \A c \in FpuCpus : cur[c] # Nobody /\ want[cur[c]] # Unknown =>
    /\ ~ts[c] => fpu_owner[c] = cur[c]
    /\ fpu_owner[c] = cur[c] => regs[c] = want[cur[c]]

\* fpu_switch_away and fpu_fork: what the next #NM will load.
SavedCurrent ==
  \A p \in live : want[p] # Unknown /\ (\A c \in FpuCpus : fpu_owner[c] # p) =>
    want[p] = IF fpu_used[p] THEN fpu_state[p] ELSE "clean"

\* The inductive invariant.
FpuInv == FpuTypeOK /\ RunsOnce /\ OwnerRuns /\ OwnerCurrent /\ SavedCurrent

LEMMA FpuInitially == ASSUME FpuAssumption, FpuInit PROVE FpuInv
BY DEF FpuAssumption, FpuInit, FpuInv, FpuTypeOK, RunsOnce, OwnerRuns, OwnerCurrent,
  SavedCurrent, Values

\* context_switch from the scheduler: nobody's registers are in the CPU.
LEMMA SwitchToKeeps ==
  ASSUME FpuAssumption, FpuInv, NEW c \in FpuCpus, NEW p \in FpuProcs, SwitchTo(c, p)
  PROVE  FpuInv'
<1>1. fpu_owner[c] = Nobody
  BY DEF FpuInv, OwnerRuns, SwitchTo
<1>2. /\ UNCHANGED <<fpu_owner, fpu_used, fpu_state, regs, live, want>>
      /\ cur' = [cur EXCEPT ![c] = p] /\ ts' = [ts EXCEPT ![c] = TRUE]
      /\ p \in live /\ p # Nobody /\ \A d \in FpuCpus : cur[d] # p
  BY <1>1 DEF SwitchTo, fpu_switch_away, FpuAssumption, Ready
<1>3. QED
  BY <1>1, <1>2 DEF FpuInv, FpuTypeOK, RunsOnce, OwnerRuns, OwnerCurrent, SavedCurrent

\* context_switch to the scheduler: registers that are p's are saved.
LEMMA SchedKeeps ==
  ASSUME FpuAssumption, FpuInv, NEW c \in FpuCpus, sched(c)
  PROVE  FpuInv'
<1> DEFINE p == cur[c]
<1>1. /\ UNCHANGED <<regs, live, want>> /\ p # Nobody /\ p \in FpuProcs
      /\ cur' = [cur EXCEPT ![c] = Nobody] /\ ts' = [ts EXCEPT ![c] = TRUE]
  BY DEF sched, fpu_switch_away, FpuInv, FpuTypeOK
<1>2. CASE fpu_owner[c] = p
  <2>1. /\ fpu_state' = [fpu_state EXCEPT ![p] = regs[c]]
        /\ fpu_used' = [fpu_used EXCEPT ![p] = TRUE]
        /\ fpu_owner' = [fpu_owner EXCEPT ![c] = Nobody]
    BY <1>2 DEF sched, fpu_switch_away
  <2>2. QED
    BY <1>1, <1>2, <2>1 DEF FpuInv, FpuTypeOK, RunsOnce, OwnerRuns, OwnerCurrent, SavedCurrent
<1>3. CASE fpu_owner[c] # p
  <2>1. UNCHANGED <<fpu_owner, fpu_used, fpu_state>>
    BY <1>3 DEF sched, fpu_switch_away
  <2>2. QED
    BY <1>1, <1>3, <2>1 DEF FpuInv, FpuTypeOK, RunsOnce, OwnerRuns, OwnerCurrent, SavedCurrent
<1>4. QED BY <1>2, <1>3

\* #NM: the CPU has no registers of another process, and fpu_state is current.
LEMMA NmKeeps ==
  ASSUME FpuAssumption, FpuInv, NEW c \in FpuCpus, fpu_nm(c)
  PROVE  FpuInv'
<1> DEFINE p == cur[c]
<1>1. /\ UNCHANGED <<cur, live, want>> /\ p # Nobody /\ p \in FpuProcs
      /\ ts' = [ts EXCEPT ![c] = FALSE]
  BY DEF fpu_nm, FpuInv, FpuTypeOK
<1>2. CASE fpu_owner[c] = p
  <2>1. UNCHANGED <<fpu_owner, regs, fpu_used, fpu_state>>
    BY <1>2 DEF fpu_nm
  <2>2. QED
    BY <1>1, <1>2, <2>1 DEF FpuInv, FpuTypeOK, RunsOnce, OwnerRuns, OwnerCurrent, SavedCurrent
<1>3. CASE fpu_owner[c] # p
  <2>1. fpu_owner[c] = Nobody
    BY <1>3 DEF FpuInv, OwnerRuns
  <2>2. /\ UNCHANGED fpu_state
        /\ fpu_used' = [fpu_used EXCEPT ![p] = TRUE]
        /\ regs' = [regs EXCEPT ![c] = IF fpu_used[p] THEN fpu_state[p] ELSE "clean"]
        /\ fpu_owner' = [fpu_owner EXCEPT ![c] = p]
    BY <1>3, <2>1 DEF fpu_nm
  <2>3. p \in live /\ \A d \in FpuCpus : fpu_owner[d] # p
    BY <1>1, <1>3 DEF FpuInv, RunsOnce, OwnerRuns
  <2>4. FpuTypeOK'
    BY <1>1, <2>2 DEF FpuInv, FpuTypeOK, Values
  <2>5. RunsOnce' /\ OwnerRuns'
    BY <1>1, <2>2 DEF FpuInv, FpuTypeOK, RunsOnce, OwnerRuns
  <2>6. want[p] # Unknown => regs'[c] = want[p]
    BY <1>1, <2>2, <2>3 DEF FpuInv, FpuTypeOK, SavedCurrent
  <2>7. OwnerCurrent'
    BY <1>1, <2>2, <2>6 DEF FpuInv, FpuTypeOK, OwnerCurrent, RunsOnce
  <2>8. SavedCurrent'
    <3> SUFFICES ASSUME NEW r \in live, want[r] # Unknown,
                        \A d \in FpuCpus : fpu_owner'[d] # r
                 PROVE  want[r] = IF fpu_used'[r] THEN fpu_state'[r] ELSE "clean"
      BY <1>1 DEF SavedCurrent
    <3>1. fpu_owner'[c] = p
      BY <2>2 DEF FpuInv, FpuTypeOK
    <3>2. r # p /\ r \in FpuProcs
      BY <3>1 DEF FpuInv, FpuTypeOK
    <3>3. r # Nobody /\ \A d \in FpuCpus : fpu_owner[d] # r
      BY <2>1, <2>2, <3>2 DEF FpuInv, FpuTypeOK, FpuAssumption
    <3>4. QED
      BY <2>2, <3>2, <3>3 DEF FpuInv, FpuTypeOK, SavedCurrent
  <2>9. QED BY <2>4, <2>5, <2>7, <2>8 DEF FpuInv
<1>4. QED BY <1>2, <1>3

\* A floating-point instruction changes the registers of their owner.
LEMMA ComputeKeeps ==
  ASSUME FpuAssumption, FpuInv, NEW c \in FpuCpus, NEW v \in FpuValues, Compute(c, v)
  PROVE  FpuInv'
<1> DEFINE p == cur[c]
<1>1. /\ UNCHANGED <<fpu_owner, ts, cur, fpu_used, fpu_state, live>>
      /\ p # Nobody /\ p \in FpuProcs /\ p \in live /\ ~ts[c]
      /\ regs' = [regs EXCEPT ![c] = v]
      /\ want' = IF want[p] = Unknown THEN want ELSE [want EXCEPT ![p] = v]
  BY DEF Compute, FpuInv, FpuTypeOK, RunsOnce
<1>2. v # Unknown /\ v \in Values
  BY DEF FpuAssumption, Values
<1>3. want[p] # Unknown => fpu_owner[c] = p
  BY <1>1 DEF FpuInv, OwnerCurrent
<1>4. FpuTypeOK' /\ RunsOnce' /\ OwnerRuns'
  BY <1>1, <1>2 DEF FpuInv, FpuTypeOK, RunsOnce, OwnerRuns
<1>5. OwnerCurrent'
  BY <1>1, <1>2, <1>3 DEF FpuInv, FpuTypeOK, OwnerCurrent, RunsOnce
<1>6. SavedCurrent'
  BY <1>1, <1>2, <1>3 DEF FpuInv, FpuTypeOK, SavedCurrent
<1>7. QED BY <1>4, <1>5, <1>6 DEF FpuInv

\* fork: the child starts with what the parent has, in its registers or saved.
LEMMA ForkKeeps ==
  ASSUME FpuAssumption, FpuInv, NEW c \in FpuCpus, NEW q \in FpuProcs, fpu_fork(c, q)
  PROVE  FpuInv'
<1> DEFINE p == cur[c]
           owns == fpu_owner[c] = p
           saved == IF owns THEN regs[c] ELSE fpu_state[p]
           used == owns \/ fpu_used[p]
<1>1. /\ UNCHANGED <<fpu_owner, regs, cur>>
      /\ p # Nobody /\ p \in FpuProcs /\ p \in live /\ q \notin live
      /\ live' = live \cup {q} /\ want' = [want EXCEPT ![q] = want[p]]
      /\ ts' = IF owns THEN [ts EXCEPT ![c] = FALSE] ELSE ts
  BY DEF fpu_fork, FpuInv, FpuTypeOK, RunsOnce
<1>2. /\ fpu_state' = [fpu_state EXCEPT ![p] = saved, ![q] = IF used THEN saved ELSE @]
      /\ fpu_used' = [fpu_used EXCEPT ![p] = used, ![q] = used]
  BY DEF fpu_fork
<1>3. /\ saved \in Values /\ used \in BOOLEAN /\ p # q
      /\ \A d \in FpuCpus : cur[d] # q /\ fpu_owner[d] # q
  BY <1>1 DEF FpuInv, FpuTypeOK, RunsOnce, OwnerRuns, FpuAssumption
<1>4. want[p] # Unknown => want[p] = IF used THEN saved ELSE "clean"
  BY <1>1 DEF FpuInv, RunsOnce, OwnerRuns, OwnerCurrent, SavedCurrent
<1> HIDE DEF saved, used
<1>5. /\ fpu_state'[p] = saved /\ fpu_used'[p] = used /\ fpu_used'[q] = used
      /\ used => fpu_state'[q] = saved
      /\ fpu_state' \in [FpuProcs -> Values] /\ fpu_used' \in [FpuProcs -> BOOLEAN]
      /\ \A r \in FpuProcs \ {p, q} : fpu_state'[r] = fpu_state[r] /\ fpu_used'[r] = fpu_used[r]
  BY <1>1, <1>2, <1>3 DEF FpuInv, FpuTypeOK
<1>6. FpuTypeOK'
  BY <1>1, <1>5 DEF FpuInv, FpuTypeOK
<1>7. RunsOnce' /\ OwnerRuns'
  BY <1>1 DEF FpuInv, FpuTypeOK, RunsOnce, OwnerRuns
<1>8. OwnerCurrent'
  BY <1>1, <1>3 DEF FpuInv, FpuTypeOK, OwnerCurrent
<1>9. SavedCurrent'
  BY <1>1, <1>3, <1>4, <1>5 DEF FpuInv, FpuTypeOK, SavedCurrent
<1>10. QED BY <1>6, <1>7, <1>8, <1>9 DEF FpuInv

\* execve: the old image's registers are forgotten.
LEMMA ClearKeeps ==
  ASSUME FpuAssumption, FpuInv, NEW c \in FpuCpus, fpu_clear(c)
  PROVE  FpuInv'
<1> DEFINE p == cur[c]
<1>1. /\ UNCHANGED <<ts, regs, cur, fpu_state, live>>
      /\ p # Nobody /\ p \in FpuProcs
      /\ fpu_used' = [fpu_used EXCEPT ![p] = FALSE]
      /\ fpu_owner' = [d \in FpuCpus |-> IF fpu_owner[d] = p THEN Nobody ELSE fpu_owner[d]]
      /\ want' = [want EXCEPT ![p] = IF ts[c] THEN "clean" ELSE Unknown]
  BY DEF fpu_clear, fpu_drop, FpuInv, FpuTypeOK
<1>2. FpuTypeOK' /\ RunsOnce' /\ OwnerRuns'
  BY <1>1 DEF FpuInv, FpuTypeOK, RunsOnce, OwnerRuns, Values
<1>3. OwnerCurrent'
  BY <1>1 DEF FpuInv, FpuTypeOK, OwnerCurrent, RunsOnce
<1>4. SavedCurrent'
  BY <1>1 DEF FpuInv, FpuTypeOK, SavedCurrent
<1>5. QED BY <1>2, <1>3, <1>4 DEF FpuInv

\* exit.
LEMMA ExitKeeps ==
  ASSUME FpuAssumption, FpuInv, NEW c \in FpuCpus, FpuExit(c)
  PROVE  FpuInv'
<1> DEFINE p == cur[c]
<1>1. /\ p # Nobody /\ p \in FpuProcs /\ UNCHANGED regs
      /\ ts' = [ts EXCEPT ![c] = TRUE] /\ cur' = [cur EXCEPT ![c] = Nobody]
      /\ live' = live \ {p}
      /\ fpu_used' = [fpu_used EXCEPT ![p] = FALSE]
      /\ fpu_state' = [fpu_state EXCEPT ![p] = "clean"]
      /\ want' = [want EXCEPT ![p] = "clean"]
      /\ fpu_owner' = [d \in FpuCpus |-> IF fpu_owner[d] = p THEN Nobody ELSE fpu_owner[d]]
  BY DEF FpuExit, fpu_drop, FpuInv, FpuTypeOK
<1>2. FpuTypeOK' /\ RunsOnce' /\ OwnerRuns'
  BY <1>1 DEF FpuInv, FpuTypeOK, RunsOnce, OwnerRuns, Values
<1>3. OwnerCurrent'
  BY <1>1 DEF FpuInv, FpuTypeOK, OwnerCurrent, RunsOnce
<1>4. SavedCurrent'
  BY <1>1 DEF FpuInv, FpuTypeOK, SavedCurrent
<1>5. QED BY <1>2, <1>3, <1>4 DEF FpuInv

\* fpu.c: lazy switching never shows a process registers other than its own, on
\* any number of CPUs, through switches, fork, exit and execve.
THEOREM FpuCorrect ==
  ASSUME FpuAssumption
  PROVE  FpuSpec => []FpuOwn
<1>1. FpuInit => FpuInv
  BY FpuInitially
<1>2. FpuInv /\ [FpuNext]_fpuVars => FpuInv'
  <2> SUFFICES ASSUME FpuInv, [FpuNext]_fpuVars PROVE FpuInv'
    OBVIOUS
  <2>1. CASE UNCHANGED fpuVars
    BY <2>1 DEF fpuVars, FpuInv, FpuTypeOK, RunsOnce, OwnerRuns, OwnerCurrent, SavedCurrent
  <2>2. CASE FpuNext
    BY <2>2, SwitchToKeeps, SchedKeeps, NmKeeps, ComputeKeeps, ForkKeeps, ClearKeeps, ExitKeeps
    DEF FpuNext
  <2>3. QED BY <2>1, <2>2
<1>3. FpuInv => FpuOwn
  BY DEF FpuInv, OwnerCurrent, FpuOwn
<1>4. QED BY <1>1, <1>2, <1>3, PTL DEF FpuSpec
===============================================================================

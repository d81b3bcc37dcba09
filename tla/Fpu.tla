---------------------------------- MODULE Fpu ----------------------------------
(***************************************************************************)
(* Lazy switching of the floating-point registers, x86 kernel/fpu.c: every *)
(* context switch sets CR0.TS, and the first floating-point instruction    *)
(* after it traps (#NM) and exchanges the registers of the CPU.            *)
(*                                                                         *)
(* A step is a call of fpu.c with the interrupts of its CPU off.  Register *)
(* contents are values, "clean" what a new program starts with.  A process *)
(* is ready only when its CPU has switched away from it; that several CPUs *)
(* need not keep to this is a matter of Sched.                             *)
(***************************************************************************)
EXTENDS Integers, FiniteSets

CONSTANTS
  FpuProcs, FpuFirst,   \* process slots; the one that exists at the start
  FpuCpus,
  FpuValues

Nobody == "nobody"
Unknown == "unknown"
FpuAssumption ==
  /\ FpuFirst \in FpuProcs /\ Nobody \notin FpuProcs
  /\ Unknown \notin FpuValues

VARIABLES
  fpu_owner, ts, regs,  \* per CPU: whose registers it has, CR0.TS, what is in them
  cur,                  \* per CPU: c->proc
  fpu_used, fpu_state,  \* per process
  live,                 \* the processes there are
  want                  \* history, per process: what it has computed last; Unknown
                        \* from an execve with TS clear on

fpuVars == <<fpu_owner, ts, regs, cur, fpu_used, fpu_state, live, want>>

Ready(p) == p \in live /\ \A c \in FpuCpus : cur[c] # p

\* Variant: the registers stay in the CPU on a switch.
SwitchKeepsOwner(c, p) ==
  /\ ts' = [ts EXCEPT ![c] = TRUE]
  /\ UNCHANGED <<fpu_owner, fpu_used, fpu_state>>

\* On every switch: the registers are saved if the process at hand owns them.
fpu_switch_away(c, p) ==
  /\ ts' = [ts EXCEPT ![c] = TRUE]
  /\ IF fpu_owner[c] = p
     THEN /\ fpu_state' = [fpu_state EXCEPT ![p] = regs[c]]
          /\ fpu_used' = [fpu_used EXCEPT ![p] = TRUE]
          /\ fpu_owner' = [fpu_owner EXCEPT ![c] = Nobody]
     ELSE UNCHANGED <<fpu_owner, fpu_used, fpu_state>>

\* context_switch from the scheduler to p, which is c->proc already.
SwitchTo(c, p) ==
  /\ cur[c] = Nobody /\ Ready(p)
  /\ cur' = [cur EXCEPT ![c] = p]
  /\ fpu_switch_away(c, p)
  /\ UNCHANGED <<regs, live, want>>

\* sched: context_switch back to the scheduler.
sched(c) ==
  /\ cur[c] # Nobody
  /\ fpu_switch_away(c, cur[c])
  /\ cur' = [cur EXCEPT ![c] = Nobody]
  /\ UNCHANGED <<regs, live, want>>

\* #NM: the registers of another owner are saved first.
fpu_nm(c) ==
  LET p == cur[c]
      o == fpu_owner[c]
      saved == IF o = Nobody THEN fpu_state ELSE [fpu_state EXCEPT ![o] = regs[c]]
      used == IF o = Nobody THEN fpu_used ELSE [fpu_used EXCEPT ![o] = TRUE]
  IN  /\ p # Nobody /\ ts[c]
      /\ ts' = [ts EXCEPT ![c] = FALSE]
      /\ IF o = p THEN UNCHANGED <<fpu_owner, regs, fpu_used, fpu_state>>
         ELSE /\ fpu_state' = saved
              /\ fpu_used' = [used EXCEPT ![p] = TRUE]
              /\ regs' = [regs EXCEPT ![c] = IF used[p] THEN saved[p] ELSE "clean"]
              /\ fpu_owner' = [fpu_owner EXCEPT ![c] = p]
      /\ UNCHANGED <<cur, live, want>>

\* A floating-point instruction.
Compute(c, v) ==
  LET p == cur[c]
  IN  /\ p # Nobody /\ ~ts[c]
      /\ regs' = [regs EXCEPT ![c] = v]
      /\ want' = IF want[p] = Unknown THEN want ELSE [want EXCEPT ![p] = v]
      /\ UNCHANGED <<fpu_owner, ts, cur, fpu_used, fpu_state, live>>

\* The child gets the parent's registers.
fpu_fork(c, q) ==
  LET p == cur[c]
      owns == fpu_owner[c] = p
      saved == IF owns THEN regs[c] ELSE fpu_state[p]
      used == owns \/ fpu_used[p]
  IN  /\ p # Nobody /\ q \notin live
      /\ ts' = IF owns THEN [ts EXCEPT ![c] = FALSE] ELSE ts
      /\ fpu_state' = [fpu_state EXCEPT ![p] = saved, ![q] = IF used THEN saved ELSE @]
      /\ fpu_used' = [fpu_used EXCEPT ![p] = used, ![q] = used]
      /\ live' = live \cup {q}
      /\ want' = [want EXCEPT ![q] = want[p]]
      /\ UNCHANGED <<fpu_owner, regs, cur>>

\* No CPU keeps registers for p.
fpu_drop(p) == fpu_owner' = [c \in FpuCpus |-> IF fpu_owner[c] = p THEN Nobody ELSE fpu_owner[c]]

\* execve: fpu_clear, which leaves TS as it is.
fpu_clear(c) ==
  LET p == cur[c]
  IN  /\ p # Nobody
      /\ fpu_used' = [fpu_used EXCEPT ![p] = FALSE]
      /\ fpu_drop(p)
      /\ want' = [want EXCEPT ![p] = IF ts[c] THEN "clean" ELSE Unknown]
      /\ UNCHANGED <<ts, regs, cur, fpu_state, live>>

\* exit drops the registers, and the switch that follows it finds none to save;
\* the slot is cleared when it is used again.
FpuExit(c) ==
  LET p == cur[c]
  IN  /\ p # Nobody /\ p # FpuFirst
      /\ fpu_drop(p)
      /\ ts' = [ts EXCEPT ![c] = TRUE]
      /\ cur' = [cur EXCEPT ![c] = Nobody]
      /\ live' = live \ {p}
      /\ fpu_used' = [fpu_used EXCEPT ![p] = FALSE]
      /\ fpu_state' = [fpu_state EXCEPT ![p] = "clean"]
      /\ want' = [want EXCEPT ![p] = "clean"]
      /\ UNCHANGED regs

\* cpu_init clears TS.
FpuInit ==
  /\ fpu_owner = [c \in FpuCpus |-> Nobody] /\ cur = [c \in FpuCpus |-> Nobody]
  /\ ts = [c \in FpuCpus |-> FALSE] /\ regs = [c \in FpuCpus |-> "clean"]
  /\ fpu_used = [p \in FpuProcs |-> FALSE] /\ fpu_state = [p \in FpuProcs |-> "clean"]
  /\ live = {FpuFirst} /\ want = [p \in FpuProcs |-> "clean"]

FpuNext ==
  \E c \in FpuCpus :
    \/ \E p \in FpuProcs : SwitchTo(c, p) \/ fpu_fork(c, p)
    \/ sched(c) \/ fpu_nm(c) \/ fpu_clear(c) \/ FpuExit(c)
    \/ \E v \in FpuValues : Compute(c, v)

FpuSpec == FpuInit /\ [][FpuNext]_fpuVars

\* fpu_nm, fpu_switch_away and fpu_fork: whenever a process can execute a
\* floating-point instruction without a trap, the registers of its CPU hold what
\* it computed last, on whatever CPU that was, or what its parent had at fork.
\* The exception is a process that called execve with TS clear: fpu_clear gives
\* up its registers, but its instructions do not trap (fpu.c:90-96).
FpuOwn ==
  \A c \in FpuCpus :
    cur[c] # Nobody /\ ~ts[c] /\ want[cur[c]] # Unknown => regs[c] = want[cur[c]]
==============================================================================

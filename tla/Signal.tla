-------------------------------- MODULE Signal --------------------------------
(***************************************************************************)
(* Signals of the x86 kernel, ipc/signal.c: sending, the dispatch on every *)
(* return to user mode (the syscall, interrupt and fork returns of trap.S  *)
(* all call signal_notify), handlers and sigreturn, and what fork, execve  *)
(* and exit do to the signal state.                                        *)
(*                                                                         *)
(* One CPU: a trap runs to its return, or to a sleep, without interruption *)
(* and ends with signal_notify.  What user code executes is a stack of     *)
(* handlers (<<>> is the program itself); the kernel keeps one saved frame *)
(* only.  The mask sigmasked is never set by any call and is left out.     *)
(***************************************************************************)
EXTENDS Integers, Sequences, FiniteSets

CONSTANTS
  SigProcs, SigFirst,   \* process slots; the one that exists at the start
  SIGKILL, SIGCHLD,     \* signal numbers
  OtherSigs,            \* signals that are fatal by default
  MaxNest               \* bound: handlers a process is in when it forks

SignalAssumption ==
  /\ SIGKILL \in Nat /\ SIGCHLD \in Nat /\ OtherSigs \subseteq Nat
  /\ SIGKILL # SIGCHLD /\ {SIGKILL, SIGCHLD} \cap OtherSigs = {}

VARIABLE sg             \* per slot: the process' signal state

signalVars == <<sg>>

Sigs == OtherSigs \cup {SIGKILL, SIGCHLD}
NoFrame == <<0>>        \* sigold = 0

\* survived: it returned to user mode with SIGKILL pending, not into a handler
\* (history).
NoProcess == [state |-> "none", parent |-> SigFirst, sigpending |-> {},
              sighand |-> [s \in Sigs |-> "SIG_DFL"], sighandling |-> FALSE,
              sigold |-> NoFrame, frame |-> <<>>, survived |-> FALSE]

Runs(p) == sg[p].state = "user"

----------------------------------------------------------------------------
(* the return to user mode *)

\* The pending signals that are neither ignored nor harmless by default.
Acting(r) ==
  {s \in r.sigpending :
     \/ s = SIGKILL
     \/ r.sighand[s] = "handler"
     \/ r.sighand[s] = "SIG_DFL" /\ s # SIGCHLD}
signal_dequeue(S) == CHOOSE s \in S : \A t \in S : s <= t

\* signal_setup_frame: the interrupted frame is saved, user code starts the handler.
signal_setup_frame(r, s) ==
  [r EXCEPT !.sigold = r.frame, !.sighandling = TRUE, !.frame = Append(@, s)]

Exits(r) == [r EXCEPT !.state = "exiting"]

\* The user stack or memory may not allow the frame: the process ends.
Dispatch(r, ok) ==
  LET s == signal_dequeue(Acting(r))
      q == [r EXCEPT !.sigpending = {t \in @ : t > s}]
  IN  IF Acting(r) = {} THEN [r EXCEPT !.sigpending = {}]
      ELSE IF s # SIGKILL /\ r.sighand[s] = "handler" /\ ok THEN signal_setup_frame(q, s)
      ELSE Exits(q)

Noted(r, q) ==
  [q EXCEPT !.survived =
     @ \/ (q.state = "user" /\ SIGKILL \in q.sigpending /\ q.frame = r.frame)]

\* Variant: while a handler runs nothing is looked at.
NotifyNoKill(r, ok) == Noted(r, IF r.sighandling THEN r ELSE Dispatch(r, ok))

signal_notify(r, ok) ==
  Noted(r, IF r.sighandling
           THEN IF SIGKILL \in r.sigpending THEN Exits(r) ELSE r
           ELSE Dispatch(r, ok))

\* exit_with_xstate: the parent gets SIGCHLD, the children go to SigFirst, the
\* frame is freed.
Exited(procs, p) ==
  [q \in SigProcs |->
     IF q = p THEN [NoProcess EXCEPT !.state = "zombie", !.parent = procs[p].parent]
     ELSE IF q = procs[p].parent /\ procs[q].state \notin {"none", "zombie"}
     THEN [procs[q] EXCEPT !.sigpending = @ \cup {SIGCHLD}]
     ELSE IF procs[q].parent = p THEN [procs[q] EXCEPT !.parent = SigFirst] ELSE procs[q]]

\* The end of a trap of p that leaves procs.  Were SigFirst to end, the kernel
\* would panic.
Leave(procs, p) ==
  \E r \in {signal_notify(procs[p], ok) : ok \in BOOLEAN} :
    /\ r.state = "exiting" => p # SigFirst
    /\ sg' = IF r.state = "exiting" THEN Exited(procs, p) ELSE [procs EXCEPT ![p] = r]

----------------------------------------------------------------------------
(* traps *)

\* A timer, keyboard, serial or disk interrupt.
Interrupt(p) == Runs(p) /\ Leave(sg, p)

\* signal_send: a sleeping process becomes ready.
signal_send(procs, q, s) ==
  [procs EXCEPT ![q] = [@ EXCEPT
     !.sigpending = @ \cup {s},
     !.sighand = IF s = SIGKILL THEN [@ EXCEPT ![s] = "SIG_DFL"] ELSE @,
     !.state = IF @ = "sleep" THEN "woken" ELSE @]]

sys_kill(p, q, s) ==
  /\ Runs(p) /\ sg[q].state \notin {"none", "zombie"}
  /\ q # SigFirst \/ s \notin Sigs \ {SIGCHLD}   \* pid 1 is not killed here: it would panic
  /\ Leave(signal_send(sg, q, s), p)

sys_signal(p, s, h) ==
  /\ Runs(p) /\ s # SIGKILL
  /\ Leave([sg EXCEPT ![p].sighand[s] = h], p)

\* The end of a handler.
sys_sigreturn(p) ==
  /\ Runs(p) /\ sg[p].frame # <<>> /\ sg[p].sighandling
  /\ Leave([sg EXCEPT ![p] = [@ EXCEPT !.frame = sg[p].sigold, !.sigold = NoFrame,
                                       !.sighandling = FALSE]], p)

\* Without a saved frame sigreturn fails, and the code after it on the stack of
\* the handler is not a program: the process ends in an exception.
SigreturnFails(p) ==
  /\ Runs(p) /\ sg[p].frame # <<>> /\ ~sg[p].sighandling /\ p # SigFirst
  /\ sg' = Exited(sg, p)

\* fork, with the return of the child: signal_fork.
signal_fork(p, q) ==
  /\ Runs(p) /\ sg[q].state = "none" /\ Len(sg[p].frame) < MaxNest
  /\ Leave([sg EXCEPT ![q] = [NoProcess EXCEPT !.state = "user", !.parent = p,
                                               !.sighand = sg[p].sighand, !.frame = sg[p].frame]], p)

\* execve drops what is pending, SIGKILL included.
signal_exec_reset(p) ==
  /\ Runs(p)
  /\ Leave([sg EXCEPT ![p] = [@ EXCEPT
       !.sighand = [s \in Sigs |-> IF @[s] = "SIG_IGN" THEN @[s] ELSE "SIG_DFL"],
       !.sigpending = {}, !.sighandling = FALSE, !.sigold = NoFrame, !.frame = <<>>]], p)

exit(p) == Runs(p) /\ p # SigFirst /\ sg' = Exited(sg, p)

\* A call that sleeps until its event or a signal.
SleepInCall(p) == Runs(p) /\ sg' = [sg EXCEPT ![p].state = "sleep"]
Event(p) == sg[p].state = "sleep" /\ sg' = [sg EXCEPT ![p].state = "woken"]
CallReturns(p) == sg[p].state = "woken" /\ Leave([sg EXCEPT ![p].state = "user"], p)

\* wait_child
Reap(p, q) ==
  /\ Runs(p) /\ sg[q].state = "zombie" /\ sg[q].parent = p
  /\ Leave([sg EXCEPT ![q] = NoProcess], p)

----------------------------------------------------------------------------

SignalInit ==
  sg = [p \in SigProcs |-> IF p = SigFirst THEN [NoProcess EXCEPT !.state = "user"] ELSE NoProcess]

SignalNext ==
  \E p \in SigProcs :
    \/ Interrupt(p) \/ sys_sigreturn(p) \/ SigreturnFails(p)
    \/ signal_exec_reset(p) \/ exit(p)
    \/ SleepInCall(p) \/ Event(p) \/ CallReturns(p)
    \/ \E s \in Sigs : \E h \in {"SIG_DFL", "SIG_IGN", "handler"} : sys_signal(p, s, h)
    \/ \E q \in SigProcs :
         \/ \E s \in Sigs : sys_kill(p, q, s)
         \/ q # p /\ (signal_fork(p, q) \/ Reap(p, q))

SignalSpec == SignalInit /\ [][SignalNext]_signalVars

----------------------------------------------------------------------------

\* signal_notify, sys_sigreturn, fork and execve: there is a saved frame exactly
\* while a handler runs, and it is the frame the handler interrupted; no
\* trap returns past a pending SIGKILL, except into the handler of a signal with
\* a lower number.
SignalsSound ==
  \A p \in SigProcs :
    LET r == sg[p]
    IN  /\ r.sighandling <=> r.sigold # NoFrame
        /\ r.sighandling => r.frame # <<>> /\ r.sigold = SubSeq(r.frame, 1, Len(r.frame) - 1)
        /\ ~r.survived
==============================================================================

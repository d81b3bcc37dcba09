------------------------------ MODULE Terminal ------------------------------
(***************************************************************************)
(* The console's line discipline, arch/x86/kernel/console.c, with Ctrl+C,  *)
(* the foreground process of wait_child and the processes that read.       *)
(*                                                                         *)
(* The keyboard and the serial line interrupt one CPU, so there is one     *)
(* console_intr at a time; processes run beside it when there are other    *)
(* CPUs.  A step is a section under cons_lock or under proc_lock, except   *)
(* that a reader keeps cons_lock from its test for a signal to its sleep,  *)
(* while signals are sent and sleepers woken under proc_lock alone.        *)
(***************************************************************************)
EXTENDS Integers, FiniteSets

CONSTANTS
  Shell, Job,      \* the shell and the process it waits for
  CONS_BUF,
  MaxTyped,        \* bound: characters typed since the buffer was flushed
  MaxRead          \* bound: n of read(fd, buf, n)

TerminalAssumption ==
  CONS_BUF \in Nat \ {0} /\ MaxTyped \in Nat /\ MaxRead \in Nat /\ Shell # Job

VARIABLES
  cons,      \* cons_r, cons_w, cons_e and the buffer
  lflag,     \* cons_lflag; ECHO only decides what is printed
  fg,        \* cons_fg_pid
  intr,      \* the console_intr in progress
  tp,        \* per process
  ncpu       \* the CPUs of the machine, which do not change

termVars == <<cons, lflag, fg, intr, tp, ncpu>>

TermProcs == {Shell, Job}
Nobody == "nobody"
canon == "ICANON" \in lflag

\* An ordinary character, newline (carriage return is stored as one),
\* backspace, Ctrl+U, Ctrl+D and Ctrl+C.
Keys == {"a", "nl", "bs", "nak", "eot", "etx"}

EmptyBuffer == [r |-> 0, w |-> 0, e |-> 0,
                buf |-> [i \in 0 .. CONS_BUF - 1 |-> "a"]]
NoIntr == [pc |-> "none", c |-> "a", fg |-> Nobody]

\* The SIGINT handler of the shell is a function; the job has the default, to
\* die of it.
NewTask == [pc |-> "user", canon |-> TRUE, left |-> 0, sigint |-> FALSE]

\* Variant: cons_lock is given up before proc_lock is taken.
LockDropped == TRUE

\* A reader about to sleep holds cons_lock.
LockFree == \A p \in TermProcs : tp[p].pc # "sleeping"

\* The only CPU does nothing else while it holds the lock or is in console_intr.
Runs == ncpu > 1 \/ (LockFree /\ intr.pc = "none")

----------------------------------------------------------------------------
(* console_intr *)

Full == cons.e - cons.r >= CONS_BUF

\* Only a newline and Ctrl+D are told apart once they are in the buffer.
Store(c) ==
  [cons EXCEPT !.buf[cons.e % CONS_BUF] = IF c \in {"nl", "eot"} THEN c ELSE "a",
               !.e = @ + 1]

\* A character erased or read; its slot is forgotten.
Erase == [cons EXCEPT !.e = @ - 1, !.buf[(cons.e - 1) % CONS_BUF] = "a"]
Take == [cons EXCEPT !.r = @ + 1, !.buf[cons.r % CONS_BUF] = "a"]

\* A character for the buffer: the default case, and raw mode.
StoreChar(c) ==
  /\ LockFree /\ intr.pc = "none" /\ cons.e < MaxTyped /\ ~Full
  /\ c \in Keys \ ((IF canon THEN {"bs", "nak"} ELSE {})
                    \cup (IF "ISIG" \in lflag THEN {"etx"} ELSE {}))
  /\ cons' = IF canon THEN Store(c) ELSE [Store(c) EXCEPT !.w = cons.e + 1]
  /\ intr' = [NoIntr EXCEPT !.pc = IF canon THEN "commit" ELSE "wake",
                            !.c = IF canon /\ c \in {"nl", "eot"} THEN c ELSE "a"]
  /\ UNCHANGED <<lflag, fg, tp, ncpu>>

\* After the echo, with the lock taken again: a whole line, Ctrl+D or a full
\* buffer goes to the readers.
CommitLine ==
  /\ LockFree /\ intr.pc = "commit"
  /\ LET line == intr.c \in {"nl", "eot"} \/ cons.e - cons.r = CONS_BUF
     IN /\ cons' = IF line THEN [cons EXCEPT !.w = cons.e] ELSE cons
        /\ intr' = IF line THEN [NoIntr EXCEPT !.pc = "wake"] ELSE NoIntr
  /\ UNCHANGED <<lflag, fg, tp, ncpu>>

\* Variant: the committed part of the buffer can be erased.
EraseBeyond ==
  /\ LockFree /\ intr.pc = "none" /\ canon /\ cons.e # cons.r
  /\ cons' = Erase
  /\ UNCHANGED <<lflag, fg, intr, tp, ncpu>>

\* Backspace, with nothing left to do after the echo.
EraseChar ==
  /\ LockFree /\ intr.pc = "none" /\ canon /\ cons.e # cons.w
  /\ cons' = Erase
  /\ UNCHANGED <<lflag, fg, intr, tp, ncpu>>

\* Ctrl+U: one round of the loop, which gives the lock up for each echo.
EraseLine ==
  /\ LockFree
  /\ intr.pc = "nak" \/ (intr.pc = "none" /\ canon /\ cons.e # cons.w)
  /\ IF cons.e # cons.w
     THEN cons' = Erase /\ intr' = [NoIntr EXCEPT !.pc = "nak"]
     ELSE intr' = NoIntr /\ UNCHANGED cons
  /\ UNCHANGED <<lflag, fg, tp, ncpu>>

\* Ctrl+C: flush, and remember the foreground process.
CtrlC ==
  /\ LockFree /\ intr.pc = "none" /\ "ISIG" \in lflag
  /\ cons' = EmptyBuffer
  /\ intr' = [NoIntr EXCEPT !.pc = "signal", !.fg = fg]
  /\ UNCHANGED <<lflag, fg, tp, ncpu>>

\* signal_send(fg, SIGINT), which wakes any sleeper.
SendSigint ==
  /\ intr.pc = "signal"
  /\ tp' = IF intr.fg = Nobody \/ tp[intr.fg].pc = "dead" THEN tp
           ELSE [tp EXCEPT ![intr.fg].sigint = TRUE,
                           ![intr.fg].pc = IF @ = "asleep" THEN "woken" ELSE @]
  /\ intr' = [NoIntr EXCEPT !.pc = "wake"]
  /\ UNCHANGED <<cons, lflag, fg, ncpu>>

WakeReaders ==
  tp' = [p \in TermProcs |-> [tp[p] EXCEPT !.pc = IF @ = "asleep" THEN "woken" ELSE @]]

\* The last step of console_intr: wakeup(&cons_chan)
IntrWake ==
  /\ intr.pc = "wake"
  /\ WakeReaders /\ intr' = NoIntr
  /\ UNCHANGED <<cons, lflag, fg, ncpu>>

----------------------------------------------------------------------------
(* console_fop_read and console_getc *)

Step(p, label) == tp' = [tp EXCEPT ![p].pc = label]
Trapped(p) == [NewTask EXCEPT !.pc = "trap", !.sigint = tp[p].sigint]

\* The mode is looked at once, before the first character.
StartRead(p, n) ==
  /\ LockFree /\ Runs /\ tp[p].pc = "user"
  /\ tp' = [tp EXCEPT ![p] = [@ EXCEPT !.pc = "getc", !.canon = canon, !.left = n]]
  /\ UNCHANGED <<cons, lflag, fg, intr, ncpu>>

\* console_getc from acquire to sleep_chan or the return, and what
\* console_fop_read does with the character.
console_getc(p) ==
  LET c == cons.buf[cons.r % CONS_BUF]
      eof == canon /\ c = "eot"
      last == eof \/ tp[p].left = 1 \/ (tp[p].canon /\ c = "nl")
  IN /\ LockFree /\ Runs /\ tp[p].pc = "getc"
     /\ IF cons.r = cons.w
        THEN /\ tp' = [tp EXCEPT ![p] = IF tp[p].sigint THEN Trapped(p)
                                        ELSE [@ EXCEPT !.pc = "sleeping"]]
             /\ UNCHANGED cons
        ELSE /\ cons' = Take
             /\ tp' = IF last THEN [tp EXCEPT ![p] = Trapped(p)]
                              ELSE [tp EXCEPT ![p].left = @ - 1]
     /\ UNCHANGED <<lflag, fg, intr, ncpu>>

\* sleep_chan takes proc_lock before it gives cons_lock up.
sleep_chan(p) ==
  /\ tp[p].pc = "sleeping" /\ Step(p, "asleep")
  /\ UNCHANGED <<cons, lflag, fg, intr, ncpu>>

\* sleep_chan returns: a signal ends the read, otherwise the loop goes on.
GetcWoken(p) ==
  /\ LockFree /\ Runs /\ tp[p].pc = "woken"
  /\ tp' = [tp EXCEPT ![p] = IF tp[p].sigint THEN Trapped(p)
                             ELSE [@ EXCEPT !.pc = "getc"]]
  /\ UNCHANGED <<cons, lflag, fg, intr, ncpu>>

\* signal_notify on the way back to ring 3: the job dies, the shell's handler
\* runs.
TermNotify(p) ==
  /\ Runs /\ tp[p].pc = "trap"
  /\ tp' = [tp EXCEPT ![p] = [NewTask EXCEPT !.pc =
              IF p = Job /\ tp[p].sigint THEN "dead" ELSE "user"]]
  /\ UNCHANGED <<cons, lflag, fg, intr, ncpu>>

\* A tick or any other trap of a process in ring 3.
TermTrap(p) ==
  /\ Runs /\ tp[p].pc = "user" /\ tp[p].sigint
  /\ Step(p, "trap")
  /\ UNCHANGED <<cons, lflag, fg, intr, ncpu>>

----------------------------------------------------------------------------
(* console_ioctl and console_set_fg *)

\* TCSETS up to the release of cons_lock.
SetMode(p, f) ==
  /\ LockFree /\ Runs /\ tp[p].pc = "user"
  /\ lflag' = f /\ cons' = EmptyBuffer
  /\ Step(p, "ioctl")
  /\ UNCHANGED <<fg, intr, ncpu>>

SetModeWake(p) ==
  /\ Runs /\ tp[p].pc = "ioctl"
  /\ tp' = [q \in TermProcs |-> [tp[q] EXCEPT
              !.pc = IF q = p THEN "trap" ELSE IF @ = "asleep" THEN "woken" ELSE @]]
  /\ UNCHANGED <<cons, lflag, fg, intr, ncpu>>

\* One round of wait_child under proc_lock: a dead child is reaped, a living
\* one is what the shell waits for.
WaitScan ==
  /\ Runs /\ tp[Shell].pc \in {"user", "waiting"}
  /\ Step(Shell, IF tp[Job].pc = "dead" THEN "reaped" ELSE "setfg")
  /\ UNCHANGED <<cons, lflag, fg, intr, ncpu>>

\* console_set_fg: the child before the shell sleeps, the shell when it returns.
SetFg ==
  /\ LockFree /\ Runs
  /\ \/ tp[Shell].pc = "setfg" /\ fg' = Job /\ Step(Shell, "waiting")
     \/ tp[Shell].pc = "reaped" /\ fg' = Shell /\ Step(Shell, "trap")
  /\ UNCHANGED <<cons, lflag, intr, ncpu>>

\* The shell starts the next job, which has a pid of its own.
StartJob ==
  /\ Runs /\ tp[Shell].pc = "user" /\ tp[Job].pc = "dead"
  /\ tp' = [tp EXCEPT ![Job] = NewTask]
  /\ intr' = IF intr.fg = Job THEN [intr EXCEPT !.fg = Nobody] ELSE intr
  /\ UNCHANGED <<cons, lflag, fg, ncpu>>

EndJob ==
  /\ Runs /\ tp[Job].pc = "user"
  /\ tp' = [tp EXCEPT ![Job] = [NewTask EXCEPT !.pc = "dead"]]
  /\ UNCHANGED <<cons, lflag, fg, intr, ncpu>>

----------------------------------------------------------------------------
TermInit ==
  /\ cons = EmptyBuffer /\ lflag = {"ISIG", "ICANON"}
  /\ fg = Nobody
  /\ intr = NoIntr /\ ncpu \in 1 .. 2
  /\ tp = [p \in TermProcs |-> [NewTask EXCEPT !.pc = IF p = Job THEN "dead" ELSE "user"]]

TermNext ==
  \/ \E c \in Keys : StoreChar(c)
  \/ CommitLine \/ EraseChar \/ EraseLine \/ CtrlC \/ SendSigint \/ IntrWake
  \/ WaitScan \/ SetFg \/ StartJob \/ EndJob
  \/ \E p \in TermProcs :
       \/ \E n \in 1 .. MaxRead : StartRead(p, n)
       \/ console_getc(p) \/ sleep_chan(p) \/ GetcWoken(p) \/ TermNotify(p) \/ TermTrap(p)
       \/ \E f \in SUBSET {"ISIG", "ICANON"} : SetMode(p, f)
       \/ SetModeWake(p)

TermSpec == TermInit /\ [][TermNext]_termVars

----------------------------------------------------------------------------
\* Readers stay inside what was committed, commits inside what was typed, and
\* the buffer is never overrun, although console_intr gives cons_lock up in the
\* middle of a character and a mode change may flush the buffer there.
ConsoleOrder ==
  cons.r <= cons.w /\ cons.w <= cons.e /\ cons.e <= cons.r + CONS_BUF

\* A process sleeps in a console read only while there is nothing for it to read,
\* or a wakeup is on its way, although the character is stored in one section of
\* console_intr and the sleepers are woken in another.  On one CPU the same holds
\* of Ctrl+C: SIGINT cannot slip between the test for a signal and the sleep.
ReadersBlocked ==
  \A p \in TermProcs : tp[p].pc = "asleep" =>
    /\ cons.r = cons.w \/ intr.pc = "wake" \/ \E q \in TermProcs : tp[q].pc = "ioctl"
    /\ ncpu = 1 => ~tp[p].sigint
=============================================================================

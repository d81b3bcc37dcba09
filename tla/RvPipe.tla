------------------------------- MODULE RvPipe -------------------------------
(***************************************************************************)
(* Open files and pipes of the RISC-V kernel: file.c, pipe.c, and the      *)
(* descriptors of sysfile.c and proc.c that point at them.                 *)
(*                                                                         *)
(* Every process has a CPU.  A step is one section under ftable.lock or    *)
(* pi->lock.  fileclose has two: it drops the reference under ftable.lock, *)
(* and only afterwards closes the end of the pipe with its own copy of the *)
(* file (kept in rp[p].closing), so other processes run in between.        *)
(***************************************************************************)
EXTENDS Integers, Sequences, FiniteSets

CONSTANTS
  RvPipeProcs, RvPipeFirst,   \* processes; the one that exists at the start
  NFILE,                      \* entries of ftable
  RvNOFILE,                   \* descriptors of a process
  NRPIPES,                    \* pages left for pipes
  RVPIPESIZE,
  MaxRw                       \* bound: bytes of one read or write call

RvPipeAssumption ==
  /\ RvPipeFirst \in RvPipeProcs
  /\ {NFILE, RvNOFILE, NRPIPES, RVPIPESIZE, MaxRw} \subseteq Nat \ {0}

VARIABLES
  ftable,    \* per entry: ref, and the pipe and the end it is (pi = 0: FD_NONE)
  rpipe,     \* per pipe page: allocated, count = nwrite - nread, readopen,
             \* writeopen; history: left, bytes were left by a killed writer
             \* that woke nobody
  rp         \* per process: alive, killed, ofile, the call it is in, the file it
             \* closes, and the entry sys_pipe is to close after that

rvPipeVars == <<ftable, rpipe, rp>>

NoEntry == [ref |-> 0, pi |-> 0, writable |-> FALSE]
NoPage == [used |-> FALSE, count |-> 0, readopen |-> FALSE, writeopen |-> FALSE,
           left |-> FALSE]
Quiet == [op |-> "none", pi |-> 0, left |-> 0, asleep |-> FALSE]
Absent == [alive |-> FALSE, killed |-> FALSE, ofile |-> [d \in 1 .. RvNOFILE |-> 0],
           call |-> Quiet, closing |-> <<>>, wf |-> 0, exiting |-> FALSE]

FreeDs(p) == {d \in 1 .. RvNOFILE : rp[p].ofile[d] = 0}
Smallest1(S) == CHOOSE x \in S : \A y \in S : x <= y
FreeEntries == {f \in 1 .. NFILE : ftable[f].ref = 0}
FreePages == {i \in 1 .. NRPIPES : ~rpipe[i].used}

\* p is between two system calls, or in exit between two fileclose.
Between(p) == rp[p].alive /\ rp[p].call = Quiet /\ rp[p].closing = <<>> /\ rp[p].wf = 0

\* usertrap lets a process make a system call only if it is not killed.
User(p) == Between(p) /\ ~rp[p].exiting /\ ~rp[p].killed

\* wakeup(&pi->nread), wakeup(&pi->nwrite)
WakeIn(procs, pi, op) ==
  [q \in RvPipeProcs |->
    [procs[q] EXCEPT !.call.asleep = @ /\ ~(procs[q].call.op = op /\ procs[q].call.pi = pi)]]

----------------------------------------------------------------------------
(* ftable *)

\* fileclose up to release(&ftable.lock), for the entry f: the last reference
\* leaves the copy ff to be closed.
Dropped(f) == [ftable EXCEPT ![f] = IF @.ref > 1 THEN [@ EXCEPT !.ref = @ - 1] ELSE NoEntry]
Copy(f) == IF ftable[f].ref > 1 THEN <<>> ELSE <<ftable[f]>>

\* The first free entry or descriptor that is not in taken
filealloc(taken) == Smallest1(FreeEntries \ taken)
fdalloc(p, taken) == Smallest1(FreeDs(p) \ taken)

filedup(f) == [ftable EXCEPT ![f].ref = @ + 1]

\* The two entries and the page; with too few of them pipealloc gives back what
\* it had.
pipealloc == [rf |-> filealloc({}), wf |-> filealloc({filealloc({})}), pi |-> Smallest1(FreePages)]
End(i, writable) == [ref |-> 1, pi |-> i, writable |-> writable]

\* pipealloc and two fdalloc.  With too few descriptors, or if they cannot be
\* copied out, fileclose(rf) and fileclose(wf) follow.
sys_pipe(p) ==
  /\ User(p) /\ Cardinality(FreeEntries) >= 2 /\ FreePages # {}
  /\ \E a \in {pipealloc} :
       /\ rpipe' = [rpipe EXCEPT ![a.pi] = [NoPage EXCEPT !.used = TRUE, !.readopen = TRUE,
                                                         !.writeopen = TRUE]]
       /\ \/ /\ Cardinality(FreeDs(p)) >= 2
             /\ LET d == fdalloc(p, {})
                IN  rp' = [rp EXCEPT ![p].ofile[d] = a.rf, ![p].ofile[fdalloc(p, {d})] = a.wf]
             /\ ftable' = [ftable EXCEPT ![a.rf] = End(a.pi, FALSE), ![a.wf] = End(a.pi, TRUE)]
          \/ /\ rp' = [rp EXCEPT ![p].closing = <<End(a.pi, FALSE)>>, ![p].wf = a.wf]
             /\ ftable' = [ftable EXCEPT ![a.wf] = End(a.pi, TRUE)]

CloseWf(p) ==
  /\ rp[p].wf # 0 /\ rp[p].closing = <<>>
  /\ ftable' = Dropped(rp[p].wf)
  /\ rp' = [rp EXCEPT ![p].wf = 0, ![p].closing = Copy(rp[p].wf)]
  /\ UNCHANGED rpipe

\* sys_dup: fdalloc and filedup
sys_dup(p) ==
  /\ User(p) /\ FreeDs(p) # {}
  /\ \E d \in 1 .. RvNOFILE :
       LET f == rp[p].ofile[d] IN
         /\ f # 0
         /\ rp' = [rp EXCEPT ![p].ofile[fdalloc(p, {})] = f]
         /\ ftable' = filedup(f)
  /\ UNCHANGED rpipe

\* The loop of fork over ofile.
ForkFiles(p, q) ==
  /\ User(p) /\ ~rp[q].alive
  /\ rp' = [rp EXCEPT ![q] = [Absent EXCEPT !.alive = TRUE, !.ofile = rp[p].ofile]]
  /\ ftable' = [f \in 1 .. NFILE |-> [ftable[f] EXCEPT
       !.ref = @ + Cardinality({d \in 1 .. RvNOFILE : rp[p].ofile[d] = f})]]
  /\ UNCHANGED rpipe

\* As fileclose would be without its test of f->ref after the decrement: every
\* close also closes the end of the pipe.
CloseAlways(p, d) ==
  LET f == rp[p].ofile[d] IN
    /\ f # 0
    /\ ftable' = Dropped(f)
    /\ rp' = [rp EXCEPT ![p].ofile[d] = 0, ![p].closing = <<ftable[f]>>]
    /\ UNCHANGED rpipe

\* fileclose of the descriptor d of p, its section under ftable.lock.
fileclose(p, d) ==
  LET f == rp[p].ofile[d] IN
    /\ f # 0
    /\ ftable' = Dropped(f)
    /\ rp' = [rp EXCEPT ![p].ofile[d] = 0, ![p].closing = Copy(f)]
    /\ UNCHANGED rpipe

sys_close(p) == User(p) /\ \E d \in 1 .. RvNOFILE : fileclose(p, d)

\* pipeclose, as it would be if it woke nobody.
CloseSilent(p) ==
  /\ rp[p].closing # <<>>
  /\ LET i == Head(rp[p].closing).pi
         pg == IF Head(rp[p].closing).writable THEN [rpipe[i] EXCEPT !.writeopen = FALSE]
                                               ELSE [rpipe[i] EXCEPT !.readopen = FALSE]
     IN  /\ rpipe' = [rpipe EXCEPT ![i] = IF pg.readopen \/ pg.writeopen THEN pg ELSE NoPage]
         /\ rp' = [rp EXCEPT ![p].closing = Tail(@)]
  /\ UNCHANGED ftable

\* The rest of fileclose: pipeclose(ff.pipe, ff.writable), which frees the
\* page when both ends are closed.
pipeclose(p) ==
  /\ rp[p].closing # <<>>
  /\ LET ff == Head(rp[p].closing)
         i == ff.pi
         pg == IF ff.writable THEN [rpipe[i] EXCEPT !.writeopen = FALSE]
                              ELSE [rpipe[i] EXCEPT !.readopen = FALSE]
     IN  /\ rpipe' = [rpipe EXCEPT ![i] = IF pg.readopen \/ pg.writeopen THEN pg ELSE NoPage]
         /\ rp' = WakeIn([rp EXCEPT ![p].closing = Tail(@)], i,
                         IF ff.writable THEN "read" ELSE "write")
  /\ UNCHANGED ftable

\* The loop of exit, in the order of the descriptors; ExitDone is its end.  A
\* process exits when it asks to, or when usertrap finds it killed.
ExitClose(p) ==
  /\ Between(p)
  /\ \E d \in 1 .. RvNOFILE :
       LET f == rp[p].ofile[d] IN
         /\ f # 0 /\ \A e \in 1 .. d - 1 : rp[p].ofile[e] = 0
         /\ ftable' = Dropped(f)
         /\ rp' = [rp EXCEPT ![p].exiting = TRUE, ![p].ofile[d] = 0, ![p].closing = Copy(f)]
  /\ UNCHANGED rpipe

ExitDone(p) ==
  /\ Between(p)
  /\ \A d \in 1 .. RvNOFILE : rp[p].ofile[d] = 0
  /\ rp' = [rp EXCEPT ![p] = Absent]
  /\ UNCHANGED <<ftable, rpipe>>

----------------------------------------------------------------------------
(* reading and writing *)

\* sys_read and sys_write up to the call of piperead or pipewrite: fileread
\* refuses an end that is not readable, filewrite one that is not writable.  A
\* call that meets a bad address of the user does what a shorter one does.
BeginRw(p) ==
  /\ User(p)
  /\ \E d \in 1 .. RvNOFILE, n \in 0 .. MaxRw :
       LET f == rp[p].ofile[d] IN
         /\ f # 0
         /\ rp' = [rp EXCEPT ![p].call = [op |-> IF ftable[f].writable THEN "write" ELSE "read",
                                          pi |-> ftable[f].pi, left |-> n, asleep |-> FALSE]]
  /\ UNCHANGED <<ftable, rpipe>>

InCall(p, op) == rp[p].call.op = op /\ ~rp[p].call.asleep

\* The section of pipewrite from acquire, or from its return from sleep, to
\* the next sleep or to the return.  At a full pipe it fails if nobody can
\* read or the process is killed, waking nobody even if it has just filled the
\* pipe; else it wakes the readers and sleeps.
pipewrite(p) ==
  /\ InCall(p, "write")
  /\ LET i == rp[p].call.pi
         room == RVPIPESIZE - rpipe[i].count
         k == IF rp[p].call.left < room THEN rp[p].call.left ELSE room
         done == rp[p].call.left = k
         fails == ~done /\ (~rpipe[i].readopen \/ rp[p].killed)
     IN  /\ rpipe' = [rpipe EXCEPT ![i].count = @ + k, ![i].left = fails /\ (@ \/ k > 0)]
         /\ rp' = LET q == [rp EXCEPT ![p].call = IF done \/ fails THEN Quiet
                              ELSE [@ EXCEPT !.left = @ - k, !.asleep = TRUE]]
                  IN  IF fails THEN q ELSE WakeIn(q, i, "read")
  /\ UNCHANGED ftable

\* The same for piperead: at an empty pipe with a writer it sleeps, or fails
\* if the process is killed; otherwise it takes what is there and wakes the
\* writers, also when it took nothing.
piperead(p) ==
  /\ InCall(p, "read")
  /\ LET i == rp[p].call.pi
         empty == rpipe[i].count = 0 /\ rpipe[i].writeopen
         k == IF rp[p].call.left < rpipe[i].count THEN rp[p].call.left ELSE rpipe[i].count
     IN  IF empty
         THEN /\ rp' = [rp EXCEPT ![p].call = IF rp[p].killed THEN Quiet
                                               ELSE [@ EXCEPT !.asleep = TRUE]]
              /\ UNCHANGED rpipe
         ELSE /\ rpipe' = [rpipe EXCEPT ![i].count = @ - k, ![i].left = @ /\ k < rpipe[i].count]
              /\ rp' = WakeIn([rp EXCEPT ![p].call = Quiet], i, "write")
  /\ UNCHANGED ftable

\* kill: sets killed and makes a sleeper runnable.
kill(p) ==
  /\ rp[p].alive /\ ~rp[p].killed
  /\ rp' = [rp EXCEPT ![p].killed = TRUE, ![p].call.asleep = FALSE]
  /\ UNCHANGED <<ftable, rpipe>>

RvPipeInit ==
  /\ ftable = [f \in 1 .. NFILE |-> NoEntry]
  /\ rpipe = [i \in 1 .. NRPIPES |-> NoPage]
  /\ rp = [p \in RvPipeProcs |-> [Absent EXCEPT !.alive = p = RvPipeFirst]]

RvPipeNext ==
  \E p \in RvPipeProcs :
    \/ sys_pipe(p) \/ CloseWf(p) \/ sys_dup(p) \/ sys_close(p) \/ pipeclose(p)
    \/ \E q \in RvPipeProcs : ForkFiles(p, q)
    \/ ExitClose(p) \/ ExitDone(p)
    \/ BeginRw(p) \/ pipewrite(p) \/ piperead(p) \/ kill(p)

RvPipeSpec == RvPipeInit /\ [][RvPipeNext]_rvPipeVars

----------------------------------------------------------------------------
Pending(i, w) ==
  \E p \in RvPipeProcs : \E k \in DOMAIN rp[p].closing :
    rp[p].closing[k].pi = i /\ rp[p].closing[k].writable = w

\* An entry of ftable counts the descriptors on it (and sys_pipe while it is
\* still to close it); an end of a pipe is open
\* exactly while an entry, or a close of it that has dropped its entry but has
\* not reached pipeclose, stands for it; and nobody reads or writes a page
\* that pipeclose has freed (file.c fileclose, filedup; pipe.c pipeclose).
RvFilesCounted ==
  /\ \A f \in 1 .. NFILE :
       ftable[f].ref = Cardinality({x \in RvPipeProcs \X (1 .. RvNOFILE) :
                                      rp[x[1]].ofile[x[2]] = f})
                       + Cardinality({p \in RvPipeProcs : rp[p].wf = f})
  /\ \A i \in 1 .. NRPIPES, w \in BOOLEAN :
       (IF w THEN rpipe[i].writeopen ELSE rpipe[i].readopen) <=>
         \/ \E f \in 1 .. NFILE : ftable[f].ref > 0 /\ ftable[f].pi = i /\ ftable[f].writable = w
         \/ Pending(i, w)
  /\ \A p \in RvPipeProcs : rp[p].call # Quiet => rpipe[rp[p].call.pi].used

\* A reader that sleeps has nothing to read and somebody may still write; a
\* writer that sleeps has no room and somebody may still read: no close, read,
\* write or kill leaves behind a sleeper whose wait is over (pipe.c pipeclose,
\* pipewrite, piperead).  The one exception is a pipe that a writer filled
\* before it found itself killed: it returns -1 without wakeup(&pi->nread).
RvPipeSleepers ==
  \A p \in RvPipeProcs :
    LET c == rp[p].call IN
      c.asleep => IF c.op = "read"
                  THEN (rpipe[c.pi].count = 0 /\ rpipe[c.pi].writeopen) \/ rpipe[c.pi].left
                  ELSE rpipe[c.pi].count = RVPIPESIZE /\ rpipe[c.pi].readopen
=============================================================================

-------------------------------- MODULE Pipe --------------------------------
(***************************************************************************)
(* Pipes of the x86 kernel: arch/x86/kernel/fs/pipe.c, with the loops of   *)
(* sys_read and sys_write that call it and the last close of an open file. *)
(*                                                                         *)
(* One pipe inode, anonymous or a named FIFO, and the open files on it.    *)
(* A step is one section under pi->lock: from acquire to the sleep or to   *)
(* the return.  sleep_chan takes proc_lock before it gives pi->lock up, so *)
(* going to sleep belongs to the section; wakeup is called inside it.  The *)
(* table of open files has no lock: opening, fork and close are the steps  *)
(* of one CPU.                                                             *)
(***************************************************************************)
EXTENDS Integers, FiniteSets

CONSTANTS
  PipeProcs,      \* the processes that use the pipe
  PipeFiles,      \* struct files that may be open on it
  PIPESIZE,
  CHUNK,          \* sizeof(buf) of sys_read and sys_write
  MaxLen,         \* bound: bytes asked for in one read or write call
  MaxCount        \* bound: bytes that pass through one pipe; the counters of
                  \* the code wrap at 2^32, which is out of this bound

PipeAssumption ==
  /\ PIPESIZE \in Nat \ {0} /\ CHUNK \in Nat \ {0} /\ CHUNK <= PIPESIZE
  /\ MaxLen \in Nat /\ MaxCount \in Nat

VARIABLES
  pipe,      \* the struct pipe and its inode
  pfile,     \* per open file: what it allows, and the processes that have it
  pcall      \* per process: the system call it is in

pipeVars == <<pipe, pfile, pcall>>

\* inode->type = 0: no pipe.  data holds, for every byte, its position in the
\* stream of all bytes written.
NoPipe == [kind |-> "none", nread |-> 0, nwrite |-> 0, readers |-> 0,
           writers |-> 0, data |-> [i \in 0 .. PIPESIZE - 1 |-> 0]]
NewPipe(kind, ends) == [NoPipe EXCEPT !.kind = kind, !.readers = ends, !.writers = ends]

NoFile == [readable |-> FALSE, writable |-> FALSE, holders |-> {}]
\* tested: a writer has found readers and has slept since.
NoCall == [op |-> "none", left |-> 0, asleep |-> FALSE, tested |-> FALSE]

Open(f) == pfile[f].holders # {}
Has(p, f) == p \in pfile[f].holders
CanRead(p) == \E f \in PipeFiles : Has(p, f) /\ pfile[f].readable
CanWrite(p) == \E f \in PipeFiles : Has(p, f) /\ pfile[f].writable

\* wakeup(&pi->nread) and wakeup(&pi->nwrite): only readers sleep on the
\* first, only writers on the second.
Woken(calls, op) ==
  [p \in PipeProcs |-> [calls[p] EXCEPT !.asleep = @ /\ calls[p].op # op]]

----------------------------------------------------------------------------
(* creation, opening and sharing *)

\* pipealloc, then the two fdalloc of sys_pipe: both ends belong to p.  If
\* anything on the way fails, everything is given back.
pipealloc(p) ==
  /\ pipe.kind = "none" /\ pcall[p] = NoCall
  /\ \E r, w \in PipeFiles :
       /\ r # w /\ ~Open(r) /\ ~Open(w)
       /\ pfile' = [pfile EXCEPT
            ![r] = [readable |-> TRUE, writable |-> FALSE, holders |-> {p}],
            ![w] = [readable |-> FALSE, writable |-> TRUE, holders |-> {p}]]
  /\ pipe' = NewPipe("anonymous", 1)
  /\ UNCHANGED pcall

\* mkfifo: readers and writers are counted when the FIFO is opened.
fifo_init_inode ==
  /\ pipe.kind = "none"
  /\ pipe' = NewPipe("fifo", 0)
  /\ UNCHANGED <<pfile, pcall>>

\* Variant: an open for reading and writing counts as a reader only.
FifoOpenOneEnd(p, readable, writable) ==
  /\ pipe.kind = "fifo" /\ pcall[p] = NoCall
  /\ \E f \in PipeFiles :
       /\ ~Open(f)
       /\ pfile' = [pfile EXCEPT ![f] = [readable |-> readable,
                                         writable |-> writable, holders |-> {p}]]
  /\ pipe' = [pipe EXCEPT !.readers = @ + (IF readable THEN 1 ELSE 0),
                          !.writers = @ + (IF readable THEN 0 ELSE 1)]
  /\ UNCHANGED pcall

\* sys_open of a FIFO.  Nobody sleeps on &pi->readers or &pi->writers, the
\* channels it wakes.
fifo_on_open(p, readable, writable) ==
  /\ pipe.kind = "fifo" /\ pcall[p] = NoCall
  /\ \E f \in PipeFiles :
       /\ ~Open(f)
       /\ pfile' = [pfile EXCEPT ![f] = [readable |-> readable,
                                         writable |-> writable, holders |-> {p}]]
  /\ pipe' = [pipe EXCEPT !.readers = @ + (IF readable THEN 1 ELSE 0),
                          !.writers = @ + (IF writable THEN 1 ELSE 0)]
  /\ UNCHANGED pcall

\* filedup for a process that did not have the file: fork.
PipeFork(p, q) ==
  /\ pcall[p] = NoCall /\ pcall[q] = NoCall
  /\ \A f \in PipeFiles : ~Has(q, f)
  /\ \E f \in PipeFiles : Has(p, f)
  /\ pfile' = [f \in PipeFiles |-> [pfile[f] EXCEPT
                 !.holders = IF p \in @ THEN @ \cup {q} ELSE @]]
  /\ UNCHANGED <<pipe, pcall>>

----------------------------------------------------------------------------
(* the last close *)

\* Variant: the other end is not woken.
PipeReleaseSilent(f, calls) ==
  /\ pipe' = [pipe EXCEPT
       !.readers = IF pfile[f].readable /\ @ > 0 THEN @ - 1 ELSE @,
       !.writers = IF pfile[f].writable /\ @ > 0 THEN @ - 1 ELSE @]
  /\ pcall' = calls

\* pipe_release, then fs_iput: an anonymous pipe without files is evicted.
pipe_release(f, calls) ==
  LET readers == IF pfile[f].readable /\ pipe.readers > 0
                 THEN pipe.readers - 1 ELSE pipe.readers
      writers == IF pfile[f].writable /\ pipe.writers > 0
                 THEN pipe.writers - 1 ELSE pipe.writers
      wakeW == IF pfile[f].readable /\ readers = 0 THEN Woken(calls, "write") ELSE calls
      last == pipe.kind = "anonymous" /\ \A g \in PipeFiles \ {f} : ~Open(g)
  IN /\ pipe' = IF last THEN NoPipe
                ELSE [pipe EXCEPT !.readers = readers, !.writers = writers]
     /\ pcall' = IF pfile[f].writable /\ writers = 0
                 THEN Woken(wakeW, "read") ELSE wakeW

\* sys_close and fileclose
PipeClose(p, f) ==
  /\ pcall[p] = NoCall /\ Has(p, f)
  /\ IF pfile[f].holders = {p}
     THEN pipe_release(f, pcall) /\ pfile' = [pfile EXCEPT ![f] = NoFile]
     ELSE /\ pfile' = [pfile EXCEPT ![f].holders = @ \ {p}]
          /\ UNCHANGED <<pipe, pcall>>

\* unlink of a FIFO nobody has open: pipe_evict
pipe_evict ==
  /\ pipe.kind = "fifo" /\ \A f \in PipeFiles : ~Open(f)
  /\ pipe' = NoPipe
  /\ UNCHANGED <<pfile, pcall>>

----------------------------------------------------------------------------
(* reading and writing *)

Begin(p, op, n) ==
  /\ pcall[p] = NoCall
  /\ IF op = "read" THEN CanRead(p) ELSE CanWrite(p) /\ pipe.nwrite + n <= MaxCount
  /\ pcall' = [pcall EXCEPT ![p] = [NoCall EXCEPT !.op = op, !.left = n]]
  /\ UNCHANGED <<pipe, pfile>>

Return(calls, p) == [calls EXCEPT ![p] = NoCall]
Sleep(calls, p) ==
  [calls EXCEPT ![p].asleep = TRUE, ![p].tested = (calls[p].op = "write")]
Least(a, b) == IF a < b THEN a ELSE b

\* pipe_read from sys_read, which returns after the first chunk.  pr->killed is
\* never set, so the test of it is left out.
pipe_read(p) ==
  LET n == Least(pcall[p].left, CHUNK)
      got == Least(n, pipe.nwrite - pipe.nread)
  IN /\ pcall[p].op = "read" /\ ~pcall[p].asleep
     /\ IF pipe.nread = pipe.nwrite /\ pipe.writers > 0
        THEN pcall' = Sleep(pcall, p) /\ UNCHANGED pipe
        ELSE /\ pipe' = [pipe EXCEPT !.nread = @ + got]
             /\ pcall' = Return(Woken(pcall, "write"), p)
     /\ UNCHANGED pfile

\* n bytes from nwrite on, each at its place in the ring.
Fill(data, from, n) ==
  [i \in 0 .. PIPESIZE - 1 |->
     IF \E k \in from .. from + n - 1 : k % PIPESIZE = i
     THEN CHOOSE k \in from .. from + n - 1 : k % PIPESIZE = i
     ELSE data[i]]

\* Variant: the test for room forgets the size of this write.
NoRoomOne(n) == pipe.nwrite >= pipe.nread + PIPESIZE

\* Does a write of n bytes have to wait?
NoRoom(n) == pipe.nwrite + n > pipe.nread + PIPESIZE

\* pipe_write from the loop of sys_write: a chunk is written whole, once there
\* is room for it.  Chunks are smaller than the pipe, so the byte-by-byte loop
\* for larger writes is not reached.  A writer that has slept looks at the
\* readers again only when there is still no room.
pipe_write(p) ==
  LET n == Least(pcall[p].left, CHUNK)
  IN /\ pcall[p].op = "write" /\ ~pcall[p].asleep
     /\ \/ /\ pipe.readers = 0 /\ (NoRoom(n) \/ ~pcall[p].tested)
           /\ pcall' = Return(pcall, p)            \* SIGPIPE and -1
           /\ UNCHANGED pipe
        \/ /\ pipe.readers > 0 /\ NoRoom(n)
           /\ pcall' = Sleep(Woken(pcall, "read"), p)
           /\ UNCHANGED pipe
        \/ /\ pipe.readers > 0 \/ pcall[p].tested
           /\ ~NoRoom(n)
           /\ pipe' = [pipe EXCEPT !.data = Fill(@, pipe.nwrite, n),
                                   !.nwrite = @ + n]
           /\ pcall' = LET calls == Woken(pcall, "read")
                       IN IF pcall[p].left = n THEN Return(calls, p)
                          ELSE [calls EXCEPT ![p] = [@ EXCEPT !.left = @ - n, !.tested = FALSE]]
     /\ UNCHANGED pfile

\* signal_wake_locked: any signal wakes a sleeper, which tests again.
PipeSignal(p) ==
  /\ pcall[p].asleep
  /\ pcall' = [pcall EXCEPT ![p].asleep = FALSE]
  /\ UNCHANGED <<pipe, pfile>>

----------------------------------------------------------------------------
PipeInit ==
  /\ pipe = NoPipe
  /\ pfile = [f \in PipeFiles |-> NoFile]
  /\ pcall = [p \in PipeProcs |-> NoCall]

PipeNext ==
  \/ fifo_init_inode \/ pipe_evict
  \/ \E p \in PipeProcs :
       \/ pipealloc(p) \/ pipe_read(p) \/ pipe_write(p) \/ PipeSignal(p)
       \/ \E r, w \in BOOLEAN : (r \/ w) /\ fifo_on_open(p, r, w)
       \/ \E q \in PipeProcs : PipeFork(p, q)
       \/ \E f \in PipeFiles : PipeClose(p, f)
       \/ \E n \in 1 .. MaxLen : Begin(p, "read", n) \/ Begin(p, "write", n)

PipeSpec == PipeInit /\ [][PipeNext]_pipeVars

----------------------------------------------------------------------------
\* The end counters of a pipe are the numbers of open files that can read and
\* that can write, whatever opens, forks and closes came before: they decide
\* between waiting, end of file and SIGPIPE.
EndsCounted ==
  /\ pipe.readers = Cardinality({f \in PipeFiles : Open(f) /\ pfile[f].readable})
  /\ pipe.writers = Cardinality({f \in PipeFiles : Open(f) /\ pfile[f].writable})

\* No wakeup of pipe.c is lost: a reader sleeps only while the pipe is empty and
\* has a writer, a writer only while its chunk does not fit and there is a
\* reader.
SleepersBlocked ==
  \A p \in PipeProcs : pcall[p].asleep =>
    IF pcall[p].op = "read"
    THEN pipe.nread = pipe.nwrite /\ pipe.writers > 0
    ELSE NoRoom(Least(pcall[p].left, CHUNK)) /\ pipe.readers > 0

\* The ring never holds more than PIPESIZE bytes, and every byte between nread
\* and nwrite is still the one that was written there.
RingIntact ==
  /\ pipe.nread <= pipe.nwrite /\ pipe.nwrite <= pipe.nread + PIPESIZE
  /\ \A k \in pipe.nread .. pipe.nwrite - 1 : pipe.data[k % PIPESIZE] = k
=============================================================================

----------------------------- MODULE Subsystems -----------------------------
(***************************************************************************)
(* The parts of the two kernels and of the user library that share no      *)
(* state with the scheduler of Kernel, each on a small instance.           *)
(*                                                                         *)
(* A behaviour is a behaviour of one part: part names it and v1, v2, ...   *)
(* are its variables, in the order of its module.  What a part and the     *)
(* rest of the system do to each other is in the part's own module.        *)
(***************************************************************************)
EXTENDS Integers, Sequences, TLC

CONSTANTS
  p1, p2, q1, q2,
  PipeProcs, PipeFiles, PIPESIZE, CHUNK, MaxLen, MaxCount,
  SemProcs, SEM_VALUE_MAX, SemInitial, MaxPosts,
  Shell, Job, CONS_BUF, MaxTyped, MaxRead,
  SerialProcs, UART_BUF, MaxPuts, MaxPrintk,
  FdProcs, FirstProc, FileSlots, NOFILE, NamedInodes, PipeInodes, MarkedFds,
  VfsProcs, NRAM, NEXT2, VfsNames, Disk, VfsPaths, VfsTargets, MAXSYMLINKS,
  MaxDents, KStackDepth, RenameMounts,
  OpenFiles, BUF, MaxFileSize, MaxWrites, EXT2_NDIR_BLOCKS, BlockSize,
  PerBlock, Ext2Blocks,
  PROCFS_NNODES, ProcSlots, MaxPid,
  BlkProcs, SlotChan, NSECT, BLOCK_SECTOR_SIZE, MaxBytes, MaxRws,
  NRPAGES, MAX_ORDER, PAGE, BSIZES, HeapSizes, MaxPageRef, MaxObjects,
  PGSIZE, USERLOAD, USERHEAP_TOP, USERSTACK_BOTTOM, USERSTACK, STACK_ALIGN,
  MAXARG, NNAME, NameLen, NFRAMES, ExecFiles, UserBins, ExecCalls,
  SigProcs, SigFirst, SIGKILL, SIGCHLD, OtherSigs, MaxNest,
  FpuProcs, FpuFirst, FpuCpus, FpuValues,
  SpinThreads, SpinCpus, TicksLock,
  NPROC, NCPU,
  NPAGES, MemProcs, FirstMem, FANOUT, MaxUser, ExecImages,
  RvPipeProcs, RvPipeFirst, NFILE, RvNOFILE, NRPIPES, RVPIPESIZE, MaxRw,
  ConProcs, INPUT_BUF, UART_TX_BUF_SIZE, MaxKeys, MaxConsole,
  LogProcs, HomeBlocks, NBUF, LOGSIZE, MAXOPBLOCKS, NLOG, MaxOps, MaxReads, MaxCrashes,
  DiskProcs, NUM,
  FSSIZE, NMETA, BSIZE, NDIRECT, DiskInodes, MkFiles, BlockProcs, MaxUnits,
  FsProcs, FsCalls, FsNames, NINODES, MaxLinks,
  HeapStart, HeapEnd, MinUnits, MallocUnits

VARIABLES part, v1, v2, v3, v4, v5, v6, v7, v8

subsystemsVars == <<part, v1, v2, v3, v4, v5, v6, v7, v8>>

PipePart == INSTANCE Pipe WITH
  pipe <- v1, pfile <- v2, pcall <- v3
SemaphorePart == INSTANCE Semaphore WITH
  sem <- v1, spc <- v2, sv <- v3, futex_lock <- v4, posted <- v5, taken <- v6
TerminalPart == INSTANCE Terminal WITH
  cons <- v1, lflag <- v2, fg <- v3, intr <- v4, tp <- v5, ncpu <- v6
SerialPart == INSTANCE Serial WITH
  txbuf <- v1, thr <- v2, thre <- v3, line <- v4, sent <- v5, waiting <- v6,
  printed <- v7
FilesPart == INSTANCE Files WITH
  ftable <- v1, iref <- v2, fdt <- v3
VfsPart == INSTANCE Vfs WITH
  ino <- v1, mnt <- v2, vp <- v3, vfault <- v4
FileDataPart == INSTANCE FileData WITH
  node <- v1, of <- v2, writes <- v3, content <- v4
ProcfsPart == INSTANCE Procfs WITH
  pnode <- v1, ptask <- v2, nextpid <- v3, shown <- v4
BlkPart == INSTANCE Blk WITH
  ide <- v1, bdisk <- v2, bp <- v3
PageAllocPart == INSTANCE PageAlloc WITH
  mem_map <- v1, free_list <- v2, nr_free <- v3, cache <- v4, nr_kfree <- v5,
  blocks <- v6, objects <- v7
ExecPart == INSTANCE Exec WITH
  xpc <- v1, xcall <- v2, image <- v3, newmm <- v4, xbufs <- v5, frames <- v6,
  others <- v7
SignalPart == INSTANCE Signal WITH
  sg <- v1
FpuPart == INSTANCE Fpu WITH
  fpu_owner <- v1, ts <- v2, regs <- v3, cur <- v4, fpu_used <- v5, fpu_state <- v6,
  live <- v7, want <- v8
RvSpinPart == INSTANCE RvSpin WITH
  lk <- v1, cpu <- v2, cur <- v3, ctx <- v4, ready <- v5, spanic <- v6
RvProcPart == INSTANCE RvProc WITH
  rp <- v1, plock <- v2
RvMemPart == INSTANCE RvMem WITH
  kmem <- v1, um <- v2, mpanic <- v3
RvPipePart == INSTANCE RvPipe WITH
  ftable <- v1, rpipe <- v2, rp <- v3
RvConsolePart == INSTANCE RvConsole WITH
  cons <- v1, uart <- v2, conp <- v3, typed <- v4, line <- v5,
  schedpanic <- v6
RvLogPart == INSTANCE RvLog WITH
  hd <- v1, bc <- v2, lg <- v3, lp <- v4, boot <- v5, ghost <- v6
RvDiskPart == INSTANCE RvDisk WITH
  free <- v1, dp <- v2, avail <- v3, used <- v4, irq <- v5
RvBlocksPart == INSTANCE RvBlocks WITH
  bits <- v1, blocks <- v2, din <- v3, bcall <- v4, bpanic <- v5
RvFsPart == INSTANCE RvFs WITH
  di <- v1, ic <- v2, fp <- v3, fspanic <- v4
UmallocPart == INSTANCE Umalloc WITH
  ring <- v1, freep <- v2, top <- v3, given <- v4

ASSUME SubsystemsAssumption ==
  /\ PipePart!PipeAssumption
  /\ SemaphorePart!SemAssumption
  /\ TerminalPart!TerminalAssumption
  /\ SerialPart!SerialAssumption
  /\ FilesPart!FilesAssumption
  /\ VfsPart!VfsAssumption
  /\ FileDataPart!FileDataAssumption
  /\ ProcfsPart!ProcfsAssumption
  /\ BlkPart!BlkAssumption
  /\ ExecPart!ExecAssumption
  /\ SignalPart!SignalAssumption
  /\ FpuPart!FpuAssumption
  /\ RvSpinPart!SpinAssumption
  /\ RvProcPart!RvProcAssumption
  /\ RvMemPart!RvMemAssumption
  /\ RvPipePart!RvPipeAssumption
  /\ RvConsolePart!RvConsoleAssumption
  /\ RvLogPart!LogAssumption
  /\ RvDiskPart!DiskAssumption
  /\ RvBlocksPart!MkfsAssumption
  /\ RvFsPart!RvFsAssumption
  /\ UmallocPart!UmallocAssumption

-----------------------------------------------------------------------------
(* Values of the constants                                                 *)

\* Vfs: paths from the root and from the current directory; the target of
\* symbolic links; an ext2 disk whose root (inode 2) holds the file "a"
Abs(comps) == [abs |-> TRUE, comps |-> comps]
Rel(comps) == [abs |-> FALSE, comps |-> comps]
Paths == {Abs(<<"a">>), Abs(<<"a", "b">>), Rel(<<"..">>)}
Targets == {Abs(<<"a">>)}
FlatDisk == (2 :> [a |-> 3, b |-> 0]) @@ (3 :> << >>)

\* FileData: block numbers of an ext2 file, one of them a hole
Holes == <<5, 0, 6>>

\* Blk: two drives on one channel
OneChannel == <<1, 1>>

\* PageAlloc: sizes of the caches of small objects
CacheSizes == <<2, 4>>

\* Exec: programs whose segments share a page, have a .bss, reach too far or
\* cannot be read from the file system
Seg(v, o, f, m, w) == [vaddr |-> v, off |-> o, filesz |-> f, memsz |-> m, w |-> w]
Elf(e, n, s) == [elf |-> TRUE, valid |-> TRUE, entry |-> e, size |-> n, segs |-> s]
Flat(n) == [elf |-> FALSE, valid |-> FALSE, entry |-> 0, size |-> n, segs |-> <<>>]
BinFiles ==
  [a |-> Elf(5, 6, <<Seg(4, 0, 3, 3, FALSE), Seg(9, 3, 2, 3, TRUE), Seg(12, 5, 1, 3, TRUE)>>),
   b |-> Elf(4, 6, <<Seg(5, 1, 2, 2, TRUE), Seg(7, 3, 3, 5, TRUE), Seg(15, 0, 1, 3, TRUE)>>),
   init |-> Flat(0)]
BuiltIn ==
  [init |-> Flat(5), b |-> Elf(4, 6, <<Seg(5, 1, 2, 2, TRUE), Seg(7, 3, 3, 5, TRUE)>>)]
Calls == [path : {"a", "b", "init"}, argv : {<<>>, <<2>>, <<1, 3>>, <<3, 3>>}, envp : {<<>>, <<2>>}]

\* RvMem: an executable with two segments
TwoSegments == {<<1, 2>>}

\* RvBlocks: mkfs adds one file of three units
OneFile == <<3>>

\* RvFs: the calls each process makes
FsUsers == {p1, p2}
Works == p1 :> {"open", "openold", "link", "chdir"} @@ p2 :> {"mkdir", "unlink", "chdir"}

\* q1 and q2 are the processes, or threads, of the parts that treat them all alike
Symmetry == Permutations({q1, q2})

-----------------------------------------------------------------------------

SubsystemsInit ==
  \/ part = "pipe" /\ PipePart!PipeInit /\ v4 = 0 /\ v5 = 0 /\ v6 = 0 /\ v7 = 0 /\ v8 = 0
  \/ part = "sem" /\ SemaphorePart!SemInit /\ v7 = 0 /\ v8 = 0
  \/ part = "terminal" /\ TerminalPart!TermInit /\ v7 = 0 /\ v8 = 0
  \/ part = "serial" /\ SerialPart!SerialInit /\ v8 = 0
  \/ part = "files" /\ FilesPart!FilesInit /\ v4 = 0 /\ v5 = 0 /\ v6 = 0 /\ v7 = 0 /\ v8 = 0
  \/ part = "vfs" /\ VfsPart!VfsInit /\ v5 = 0 /\ v6 = 0 /\ v7 = 0 /\ v8 = 0
  \/ part = "filedata" /\ FileDataPart!FileDataInit /\ v5 = 0 /\ v6 = 0 /\ v7 = 0 /\ v8 = 0
  \/ part = "procfs" /\ ProcfsPart!ProcfsInit /\ v5 = 0 /\ v6 = 0 /\ v7 = 0 /\ v8 = 0
  \/ part = "blk" /\ BlkPart!BlkInit /\ v4 = 0 /\ v5 = 0 /\ v6 = 0 /\ v7 = 0 /\ v8 = 0
  \/ part = "pages" /\ PageAllocPart!PageAllocInit /\ v8 = 0
  \/ part = "exec" /\ ExecPart!ExecInit /\ v8 = 0
  \/ part = "signal" /\ SignalPart!SignalInit /\ v2 = 0 /\ v3 = 0 /\ v4 = 0 /\ v5 = 0 /\ v6 = 0 /\ v7 = 0 /\ v8 = 0
  \/ part = "fpu" /\ FpuPart!FpuInit
  \/ part = "rvspin" /\ RvSpinPart!SpinInit /\ v7 = 0 /\ v8 = 0
  \/ part = "rvproc" /\ RvProcPart!RvProcInit /\ v3 = 0 /\ v4 = 0 /\ v5 = 0 /\ v6 = 0 /\ v7 = 0 /\ v8 = 0
  \/ part = "rvmem" /\ RvMemPart!RvMemInit /\ v4 = 0 /\ v5 = 0 /\ v6 = 0 /\ v7 = 0 /\ v8 = 0
  \/ part = "rvpipe" /\ RvPipePart!RvPipeInit /\ v4 = 0 /\ v5 = 0 /\ v6 = 0 /\ v7 = 0 /\ v8 = 0
  \/ part = "rvconsole" /\ RvConsolePart!RvConsoleInit /\ v7 = 0 /\ v8 = 0
  \/ part = "rvlog" /\ RvLogPart!LogInit /\ v7 = 0 /\ v8 = 0
  \/ part = "rvdisk" /\ RvDiskPart!DiskInit /\ v6 = 0 /\ v7 = 0 /\ v8 = 0
  \/ part = "rvblocks" /\ RvBlocksPart!RvBlocksInit /\ v6 = 0 /\ v7 = 0 /\ v8 = 0
  \/ part = "rvfs" /\ RvFsPart!RvFsInit /\ v5 = 0 /\ v6 = 0 /\ v7 = 0 /\ v8 = 0
  \/ part = "malloc" /\ UmallocPart!UmallocInit /\ v5 = 0 /\ v6 = 0 /\ v7 = 0 /\ v8 = 0

SubsystemsNext ==
  \/ part = "pipe" /\ PipePart!PipeNext /\ UNCHANGED <<part, v4, v5, v6, v7, v8>>
  \/ part = "sem" /\ SemaphorePart!SemNext /\ UNCHANGED <<part, v7, v8>>
  \/ part = "terminal" /\ TerminalPart!TermNext /\ UNCHANGED <<part, v7, v8>>
  \/ part = "serial" /\ SerialPart!SerialNext /\ UNCHANGED <<part, v8>>
  \/ part = "files" /\ FilesPart!FilesNext /\ UNCHANGED <<part, v4, v5, v6, v7, v8>>
  \/ part = "vfs" /\ VfsPart!VfsNext /\ UNCHANGED <<part, v5, v6, v7, v8>>
  \/ part = "filedata" /\ FileDataPart!FileDataNext /\ UNCHANGED <<part, v5, v6, v7, v8>>
  \/ part = "procfs" /\ ProcfsPart!ProcfsNext /\ UNCHANGED <<part, v5, v6, v7, v8>>
  \/ part = "blk" /\ BlkPart!BlkNext /\ UNCHANGED <<part, v4, v5, v6, v7, v8>>
  \/ part = "pages" /\ PageAllocPart!PageAllocNext /\ UNCHANGED <<part, v8>>
  \/ part = "exec" /\ ExecPart!ExecNext /\ UNCHANGED <<part, v8>>
  \/ part = "signal" /\ SignalPart!SignalNext /\ UNCHANGED <<part, v2, v3, v4, v5, v6, v7, v8>>
  \/ part = "fpu" /\ FpuPart!FpuNext /\ UNCHANGED <<part>>
  \/ part = "rvspin" /\ RvSpinPart!SpinNext /\ UNCHANGED <<part, v7, v8>>
  \/ part = "rvproc" /\ RvProcPart!RvProcNext /\ UNCHANGED <<part, v3, v4, v5, v6, v7, v8>>
  \/ part = "rvmem" /\ RvMemPart!RvMemNext /\ UNCHANGED <<part, v4, v5, v6, v7, v8>>
  \/ part = "rvpipe" /\ RvPipePart!RvPipeNext /\ UNCHANGED <<part, v4, v5, v6, v7, v8>>
  \/ part = "rvconsole" /\ RvConsolePart!RvConsoleNext /\ UNCHANGED <<part, v7, v8>>
  \/ part = "rvlog" /\ RvLogPart!LogNext /\ UNCHANGED <<part, v7, v8>>
  \/ part = "rvdisk" /\ RvDiskPart!DiskNext /\ UNCHANGED <<part, v6, v7, v8>>
  \/ part = "rvblocks" /\ RvBlocksPart!RvBlocksNext /\ UNCHANGED <<part, v6, v7, v8>>
  \/ part = "rvfs" /\ RvFsPart!RvFsNext /\ UNCHANGED <<part, v5, v6, v7, v8>>
  \/ part = "malloc" /\ UmallocPart!UmallocNext /\ UNCHANGED <<part, v5, v6, v7, v8>>

SubsystemsSpec == SubsystemsInit /\ [][SubsystemsNext]_subsystemsVars

-----------------------------------------------------------------------------

\* Nobody sleeps for what is already there: a process asleep in a call is one
\* its condition still holds up, or one a wake-up is on its way to.  It says so
\* of x86 pipes (pipe.c sleep_chan and pipe_release), the console's readers
\* (console_getc), writers of the serial line (uart_start arms the interrupt),
\* and on RISC-V of begin_op, virtio_disk_rw and the two ends of a pipe.
NoLostWakeup ==
  /\ part = "pipe" => PipePart!SleepersBlocked
  /\ part = "terminal" => TerminalPart!ReadersBlocked
  /\ part = "serial" => SerialPart!TransmitterArmed
  /\ part = "rvlog" => RvLogPart!BeginnersBlocked
  /\ part = "rvdisk" => RvDiskPart!DiskSleepersBlocked
  /\ part = "rvpipe" => RvPipePart!RvPipeSleepers

\* Bytes arrive in the order they were sent, none lost, repeated or made up:
\* through the ring of an x86 pipe, the x86 console's line editor (console_intr
\* and console_getc), the serial transmit ring (uart_putc, uart_intr) and the
\* RISC-V console (consoleintr, consoleread).
StreamsIntact ==
  /\ part = "pipe" => PipePart!RingIntact
  /\ part = "terminal" => TerminalPart!ConsoleOrder
  /\ part = "serial" => SerialPart!SerialOrder
  /\ part = "rvconsole" => RvConsolePart!RvConsoleOrder

\* A count of references is the number of references there are, so nothing is
\* freed in use and nothing is kept for ever: readers and writers of a pipe
\* (fifo_on_open, pipe_release), open files (filedup, fileclose), inodes
\* (fs_idup, fs_iput), nodes of /proc (procfs_get), and on RISC-V the entries
\* of ftable and of the inode cache.
ReferencesExact ==
  /\ part = "pipe" => PipePart!EndsCounted
  /\ part = "files" => FilesPart!FilesCounted
  /\ part = "vfs" => VfsPart!VfsRefs
  /\ part = "procfs" => ProcfsPart!ProcNodes
  /\ part = "rvpipe" => RvPipePart!RvFilesCounted
  /\ part = "rvfs" => RvFsPart!RvRefsExact

\* Every piece of a store has one owner: a page frame (buddy.c, slab.c), a frame
\* of a RISC-V page table (vm.c, kalloc.c), a disk block (balloc, bfree, bmap,
\* itrunc), a disk descriptor (alloc3_desc, free_chain) and a unit of a user
\* heap (malloc, free) is free or held in exactly one place.
StorageDivided ==
  /\ part = "pages" => PageAllocPart!MemoryDivided
  /\ part = "rvmem" => RvMemPart!RvPagesOwned
  /\ part = "rvblocks" => RvBlocksPart!BlocksOwned
  /\ part = "rvdisk" => RvDiskPart!DescriptorsOwned
  /\ part = "malloc" => UmallocPart!HeapDivided

\* What was written is what is read: the contents of a ramfs file through two
\* descriptors (ramfs_write, ramfs_truncate, filewrite's append) and the bytes
\* of a block device written in part of a sector (file_blk_rw).
DataKept ==
  /\ part = "filedata" => FileDataPart!FileContents
  /\ part = "blk" => BlkPart!BytesKept

\* The locks keep what they promise: semaphores hand out what was posted
\* (sem_trydec, sem_post), flock excludes (flock_conflict), and a RISC-V spin
\* lock is held with interrupts off and gives them back as they were
\* (push_off, pop_off, sched).
LocksSound ==
  /\ part = "sem" => SemaphorePart!SemConserved
  /\ part = "files" => FilesPart!FlockExclusive
  /\ part = "rvspin" => RvSpinPart!InterruptsSound

\* A file or directory in use is one that exists: what a descriptor, a current
\* directory or a mount refers to is a live inode, after any sequence of the
\* path calls, mounts and unmounts (namei.c, mount.c: mount_busy keeps a file
\* system that is in use mounted).
HeldAlive ==
  part = "vfs" => VfsPart!HeldAlive

\* A request handed to the disk is served, by its own process or by the one
\* that runs the channel (ide_submit_bio, ide_run, ide_complete_rq).
BiosServed ==
  part = "blk" => BlkPart!BiosServed

\* An exec replaces a program whole or not at all and loses no page frame,
\* wherever an allocation fails (exec_load, "bad").
ExecWhole ==
  part = "exec" => ExecPart!ExecWhole

\* SIGKILL cannot be caught and ends the process on its way to user mode, and a
\* handler returns to what it interrupted (signal_notify, sys_sigreturn).
SignalsSound ==
  part = "signal" => SignalPart!SignalsSound

\* A process computes with its own floating-point registers, on whichever CPU it
\* runs (fpu_nm, fpu_switch_away, fpu_fork).
FpuOwn ==
  part = "fpu" => FpuPart!FpuOwn

\* A RISC-V parent asleep in wait has no child left to reap (exit, wait,
\* wakeup1, reparent).
RvWaiterNotified ==
  part = "rvproc" => RvProcPart!RvWaiterNotified

\* No cycle of RISC-V processes spins for each other's p->lock (exit takes the
\* parent's lock before its own).
RvNoSpinCycle ==
  part = "rvproc" => RvProcPart!RvNoSpinCycle

\* After a crash the RISC-V disk holds all the writes of a committed transaction
\* and none of the others (begin_op, log_write, commit, recover_from_log).
CrashAtomic ==
  part = "rvlog" => RvLogPart!CrashAtomic

\* The RISC-V directories are a tree whose link counts are right, through calls
\* of two processes that interleave at the inode locks (create, sys_link,
\* sys_unlink, iput).
RvTreeSound ==
  part = "rvfs" => RvFsPart!RvTreeSound
=============================================================================

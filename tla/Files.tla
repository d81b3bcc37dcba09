------------------------------- MODULE Files --------------------------------
(***************************************************************************)
(* The open-file table and the processes' descriptors, with the advisory   *)
(* locks that hang on an open file: arch/x86/kernel/fs/file.c and the      *)
(* descriptor calls of fs/sysfile.c.  System calls run with interrupts off *)
(* on one CPU, so a call is one step up to the place where flock sleeps.   *)
(***************************************************************************)
EXTENDS Integers, FiniteSets

CONSTANTS
  FdProcs, FirstProc,   \* process slots, and the one that runs first
  FileSlots,            \* ftable
  NOFILE,
  NamedInodes,          \* inodes a path leads to
  PipeInodes,           \* inodes pipe_inode_alloc can hand out
  MarkedFds             \* bound: descriptors programs set FD_CLOEXEC on

FilesAssumption ==
  /\ NOFILE \in Nat \ {0} /\ MarkedFds \subseteq 0 .. NOFILE - 1
  /\ FirstProc \in FdProcs /\ NamedInodes \cap PipeInodes = {}

VARIABLES
  ftable,    \* ref, ip and flock of each open file
  iref,      \* references to each inode; a directory entry holds one of them
  fdt        \* per process: alive, ofile, FD_CLOEXEC, and the flock it is in

filesVars == <<ftable, iref, fdt>>

FDs == 0 .. NOFILE - 1
NoFd == "none"
FreeFile == [ref |-> 0, ip |-> NoFd, flock |-> "UN"]
NoWait == [file |-> NoFd, want |-> "UN", asleep |-> FALSE]
EmptyTable == [alive |-> FALSE, ofile |-> [fd \in FDs |-> NoFd],
               cloexec |-> {}, wait |-> NoWait]

Ready(p) == fdt[p].alive /\ fdt[p].wait = NoWait
Used(p) == {fd \in FDs : fdt[p].ofile[fd] # NoFd}
FreeFds(p, minfd) == {fd \in FDs : fd >= minfd /\ fdt[p].ofile[fd] = NoFd}
FreeSlots == {f \in FileSlots : ftable[f].ref = 0}
filealloc == CHOOSE f \in FreeSlots : TRUE
Lowest(S) == CHOOSE fd \in S : \A g \in S : fd <= g

----------------------------------------------------------------------------
(* filealloc, fdalloc_ge, filedup, fileclose *)

\* fdalloc_ge puts f into the first free descriptor and clears its flags.
Install(p, fd, f) ==
  [fdt[p] EXCEPT !.ofile[fd] = f, !.cloexec = @ \ {fd}]

filedup(f) == [ftable EXCEPT ![f].ref = @ + 1]

\* wakeup(ip) for every inode of a set
Wakeup(tab, ips) ==
  [q \in FdProcs |->
     IF tab[q].wait # NoWait /\ ftable[tab[q].wait.file].ip \in ips
     THEN [tab[q] EXCEPT !.wait.asleep = FALSE] ELSE tab[q]]

\* Variant: the reference of the inode is dropped with every descriptor.
CloseEvery(p, S, tab) ==
  LET n(f) == Cardinality({fd \in S : fdt[p].ofile[fd] = f})
      gone == {f \in FileSlots : ftable[f].ref > 0 /\ ftable[f].ref = n(f)}
  IN /\ ftable' = [f \in FileSlots |-> IF f \in gone THEN FreeFile
                                       ELSE [ftable[f] EXCEPT !.ref = @ - n(f)]]
     /\ iref' = [i \in DOMAIN iref |-> iref[i] -
                   Cardinality({fd \in S : ftable[fdt[p].ofile[fd]].ip = i})]
     /\ fdt' = Wakeup(tab, {ftable[f].ip : f \in {g \in gone : ftable[g].flock # "UN"}})

\* fileclose of the descriptors S of process p.  The last descriptor of a file
\* gives its lock and its inode back.  tab: the tables without them.
fileclose(p, S, tab) ==
  LET n(f) == Cardinality({fd \in S : fdt[p].ofile[fd] = f})
      gone == {f \in FileSlots : ftable[f].ref > 0 /\ ftable[f].ref = n(f)}
  IN /\ ftable' = [f \in FileSlots |-> IF f \in gone THEN FreeFile
                                       ELSE [ftable[f] EXCEPT !.ref = @ - n(f)]]
     /\ iref' = [i \in DOMAIN iref |-> iref[i] -
                   Cardinality({f \in gone : ftable[f].ip = i})]
     /\ fdt' = Wakeup(tab, {ftable[f].ip : f \in {g \in gone : ftable[g].flock # "UN"}})

Without(p, S) ==
  [fdt EXCEPT ![p].ofile = [fd \in FDs |-> IF fd \in S THEN NoFd ELSE @[fd]],
              ![p].cloexec = @ \ S]

----------------------------------------------------------------------------
(* System calls *)

\* sys_open and sys_creat of inode i: without a file or a descriptor the
\* inode fs_namei returned goes back.
sys_open(p, i) ==
  /\ Ready(p) /\ i \in NamedInodes
  /\ FreeSlots # {} /\ FreeFds(p, 0) # {}
  /\ ftable' = [ftable EXCEPT ![filealloc] = [FreeFile EXCEPT !.ref = 1, !.ip = i]]
  /\ fdt' = [fdt EXCEPT ![p] = Install(p, Lowest(FreeFds(p, 0)), filealloc)]
  /\ iref' = [iref EXCEPT ![i] = @ + 1]

\* pipealloc and sys_pipe: two files, one inode, two descriptors.  Without a
\* second descriptor, or when copyout faults, everything goes back.
sys_pipe(p, faults) ==
  \E i \in PipeInodes :
    LET f == filealloc
        g == CHOOSE k \in FreeSlots \ {f} : TRUE
        fd0 == Lowest(FreeFds(p, 0))
        fd1 == Lowest(FreeFds(p, 0) \ {fd0})
        end == [FreeFile EXCEPT !.ref = 1, !.ip = i]
    IN /\ Ready(p) /\ iref[i] = 0 /\ Cardinality(FreeSlots) >= 2
       /\ IF Cardinality(FreeFds(p, 0)) < 2 \/ faults
          THEN UNCHANGED filesVars
          ELSE /\ ftable' = [ftable EXCEPT ![f] = end, ![g] = end]
               /\ iref' = [iref EXCEPT ![i] = 2]
               /\ fdt' = [fdt EXCEPT ![p].ofile[fd0] = f, ![p].ofile[fd1] = g,
                                     ![p].cloexec = @ \ {fd0, fd1}]

sys_close(p, fd) ==
  /\ Ready(p) /\ fd \in Used(p)
  /\ fileclose(p, {fd}, Without(p, {fd}))

\* sys_dup, and fcntl F_DUPFD and F_DUPFD_CLOEXEC
DupFd(p, fd, minfd, cloexec) ==
  /\ Ready(p) /\ fd \in Used(p) /\ FreeFds(p, minfd) # {}
  /\ LET nfd == Lowest(FreeFds(p, minfd))
         tab == Install(p, nfd, fdt[p].ofile[fd])
     IN /\ cloexec => nfd \in MarkedFds
        /\ fdt' = [fdt EXCEPT ![p] = IF cloexec THEN [tab EXCEPT !.cloexec = @ \cup {nfd}]
                                                ELSE tab]
  /\ ftable' = filedup(fdt[p].ofile[fd])
  /\ UNCHANGED iref

\* sys_dup2: what newfd held is closed first, and f may be what it held.
sys_dup2(p, oldfd, newfd) ==
  LET f == fdt[p].ofile[oldfd]
      h == fdt[p].ofile[newfd]
      tab == [fdt EXCEPT ![p] = Install(p, newfd, f)]
      last == h # NoFd /\ ftable[h].ref = 1
  IN /\ Ready(p) /\ oldfd \in Used(p) /\ oldfd # newfd
     /\ IF h = f THEN UNCHANGED <<ftable, iref>> /\ fdt' = tab
        ELSE /\ ftable' = [k \in FileSlots |->
                  IF k = f THEN filedup(f)[f]
                  ELSE IF k = h THEN (IF last THEN FreeFile
                                      ELSE [ftable[h] EXCEPT !.ref = @ - 1])
                  ELSE ftable[k]]
             /\ iref' = IF last THEN [iref EXCEPT ![ftable[h].ip] = @ - 1] ELSE iref
             /\ fdt' = IF last /\ ftable[h].flock # "UN"
                       THEN Wakeup(tab, {ftable[h].ip}) ELSE tab

\* fcntl F_SETFD
SetCloexec(p, fd, on) ==
  /\ Ready(p) /\ fd \in Used(p) /\ (on => fd \in MarkedFds)
  /\ fdt' = [fdt EXCEPT ![p].cloexec = IF on THEN @ \cup {fd} ELSE @ \ {fd}]
  /\ UNCHANGED <<ftable, iref>>

\* fd_copy
FdFork(p, q) ==
  /\ Ready(p) /\ ~fdt[q].alive
  /\ fdt' = [fdt EXCEPT ![q] = fdt[p]]
  /\ ftable' = [f \in FileSlots |-> [ftable[f] EXCEPT !.ref =
                  @ + Cardinality({fd \in FDs : fdt[p].ofile[fd] = f})]]
  /\ UNCHANGED iref

\* fd_close_on_exec
FdExec(p) ==
  /\ Ready(p) /\ fdt[p].cloexec # {}
  /\ LET S == fdt[p].cloexec \cap Used(p) IN fileclose(p, S, Without(p, S))

\* fd_closeall at exit
FdExit(p) ==
  /\ Ready(p) /\ p # FirstProc
  /\ fileclose(p, Used(p), [fdt EXCEPT ![p] = EmptyTable])

----------------------------------------------------------------------------
(* fileflock *)

\* Variant: a shared lock only has to fit the locks on other inodes.
ConflictExOnly(f, want) ==
  \E g \in FileSlots \ {f} :
    /\ ftable[g].ref >= 1 /\ ftable[g].ip = ftable[f].ip
    /\ want = "EX" /\ ftable[g].flock = "EX"

flock_conflict(f, want) ==
  \E g \in FileSlots \ {f} :
    /\ ftable[g].ref >= 1 /\ ftable[g].ip = ftable[f].ip /\ ftable[g].flock # "UN"
    /\ want = "EX" \/ ftable[g].flock = "EX"

\* One round of the loop: the lock, -1 with LOCK_NB, or sleep(ip).
TryLock(p, f, want, nb) ==
  IF ~flock_conflict(f, want)
  THEN /\ ftable' = [ftable EXCEPT ![f].flock = want]
       /\ fdt' = [fdt EXCEPT ![p].wait = NoWait]
  ELSE /\ fdt' = [fdt EXCEPT ![p].wait =
                    IF nb THEN NoWait ELSE [file |-> f, want |-> want, asleep |-> TRUE]]
       /\ UNCHANGED ftable

sys_flock(p, fd, want, nb) ==
  /\ Ready(p) /\ fd \in Used(p)
  /\ TryLock(p, fdt[p].ofile[fd], want, nb)
  /\ UNCHANGED iref

FlockAgain(p) ==
  /\ fdt[p].wait # NoWait /\ ~fdt[p].wait.asleep
  /\ TryLock(p, fdt[p].wait.file, fdt[p].wait.want, FALSE)
  /\ UNCHANGED iref

\* LOCK_UN
FlockUnlock(p, fd) ==
  LET f == fdt[p].ofile[fd]
  IN /\ Ready(p) /\ fd \in Used(p) /\ ftable[f].flock # "UN"
     /\ ftable' = [ftable EXCEPT ![f].flock = "UN"]
     /\ fdt' = Wakeup(fdt, {ftable[f].ip})
     /\ UNCHANGED iref

----------------------------------------------------------------------------
FilesInit ==
  /\ ftable = [f \in FileSlots |-> FreeFile]
  /\ iref = [i \in NamedInodes \cup PipeInodes |-> IF i \in NamedInodes THEN 1 ELSE 0]
  /\ fdt = [p \in FdProcs |-> [EmptyTable EXCEPT !.alive = (p = FirstProc)]]

FilesNext ==
  \E p \in FdProcs :
    \/ \E i \in NamedInodes : sys_open(p, i)
    \/ \E faults \in BOOLEAN : sys_pipe(p, faults)
    \/ FdExec(p) \/ FdExit(p) \/ FlockAgain(p)
    \/ \E q \in FdProcs : FdFork(p, q)
    \/ \E fd \in FDs :
         \/ sys_close(p, fd) \/ FlockUnlock(p, fd)
         \/ \E on \in BOOLEAN : SetCloexec(p, fd, on)
         \/ \E minfd \in FDs, on \in BOOLEAN : DupFd(p, fd, minfd, on)
         \/ \E newfd \in FDs : sys_dup2(p, fd, newfd)
         \/ \E want \in {"SH", "EX"}, nb \in BOOLEAN : sys_flock(p, fd, want, nb)

FilesSpec == FilesInit /\ [][FilesNext]_filesVars

----------------------------------------------------------------------------
\* fileclose, filedup, fd_copy and the error paths agree: a file has as many
\* references as descriptors name it, and an inode one for every open file and
\* one for its directory entry, so that neither is freed early or kept forever.
FilesCounted ==
  /\ \A f \in FileSlots : ftable[f].ref =
       Cardinality({x \in FdProcs \X FDs : fdt[x[1]].ofile[x[2]] = f})
  /\ \A i \in DOMAIN iref : iref[i] =
       Cardinality({f \in FileSlots : ftable[f].ref > 0 /\ ftable[f].ip = i})
       + (IF i \in NamedInodes THEN 1 ELSE 0)

\* fileflock: an exclusive lock on an inode excludes every other lock on it,
\* whatever closes, forks, retries and conversions happen.
FlockExclusive ==
  \A f, g \in FileSlots :
    f # g /\ ftable[f].ip = ftable[g].ip /\ ftable[f].flock = "EX" => ftable[g].flock = "UN"
=============================================================================

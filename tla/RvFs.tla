--------------------------------- MODULE RvFs ---------------------------------
(***************************************************************************)
(* The name space of the RISC-V file system: inodes, the inode cache,      *)
(* directories and path lookup of arch/riscv/kernel/fs.c, and the system   *)
(* calls of sysfile.c that change them.                                    *)
(*                                                                         *)
(* Two calls run at a time inside one transaction of the log; a step is a  *)
(* section under the sleep lock of an inode, or under two when the code    *)
(* holds a directory while it locks an entry.  Inodes are written through  *)
(* (iupdate follows every change), so there is one copy of each: di.       *)
(* Paths have one component, absolute or relative: namex takes the locks   *)
(* of a longer path one after the other.  sys_mknod differs from mkdir in  *)
(* the type and the missing entries only, and is left out.  The data       *)
(* blocks of inodes are in RvBlocks.                                       *)
(***************************************************************************)
EXTENDS Integers, FiniteSets

CONSTANTS
  FsProcs,
  FsCalls,         \* per process: the system calls it makes
  FsNames,         \* names of directory entries
  NINODES,         \* inodes on the disk; 1 is the root directory
  MaxLinks         \* bound: links of a file (a short in the code)

RvFsAssumption == NINODES \in Nat \ {0}

VARIABLES
  di,              \* the inodes: type, nlink, entries
  ic,              \* icache by inode number: ref, valid, the holder of the lock
  fp,              \* per process: cwd, its open file and the call it is in
  fspanic          \* the panic the kernel stopped at, "none"

rvFsVars == <<di, ic, fp, fspanic>>

Inums == 1 .. NINODES
ROOTINO == 1
Dots == {".", ".."}
NoEntries == [n \in FsNames \cup Dots |-> 0]
FreeDinode == [type |-> "free", nlink |-> 0, dir |-> NoEntries]
NoEntry == [ref |-> 0, valid |-> FALSE, owner |-> "none"]
NotInCall == [pc |-> "user", op |-> "none", name |-> "", ip |-> 0, dp |-> 0]

Idle(p) == fspanic = "none" /\ fp[p].call.pc = "user"
In(p, pc) == fspanic = "none" /\ fp[p].call.pc = pc
LockFree(i) == ic[i].owner = "none"

----------------------------------------------------------------------------
(* the cache: operators on s = [di, ic] *)

Cache == [di |-> di, ic |-> ic]

\* iget and idup: an entry with ref 0 is recycled, invalid.
iget(s, i) == [s EXCEPT !.ic[i].ref = @ + 1, !.ic[i].valid = @ /\ s.ic[i].ref > 0]

\* ilock by p: the inode is read from the disk.
ilock(s, i, p) == [s EXCEPT !.ic[i].owner = p, !.ic[i].valid = TRUE]
iunlock(s, i) == [s EXCEPT !.ic[i].owner = "none"]

\* Variant: iput frees an inode that is still referenced.
iputAny(s, i) ==
  IF s.ic[i].valid /\ s.di[i].nlink = 0
  THEN [s EXCEPT !.di[i] = FreeDinode, !.ic[i].valid = FALSE, !.ic[i].ref = @ - 1]
  ELSE [s EXCEPT !.ic[i].ref = @ - 1]

\* The last reference to an inode without links truncates and frees it.
iput(s, i) ==
  IF s.ic[i].ref = 1 /\ s.ic[i].valid /\ s.di[i].nlink = 0
  THEN [s EXCEPT !.di[i] = FreeDinode, !.ic[i].valid = FALSE, !.ic[i].ref = 0]
  ELSE [s EXCEPT !.ic[i].ref = @ - 1]

iunlockput(s, i) == iput(iunlock(s, i), i)

Free == {i \in Inums : di[i].type = "free"}
ialloc == CHOOSE i \in Free : \A j \in Free : i <= j

\* The end of a step: the cache after it, and what p does next.
Become(s, p, call) ==
  /\ di' = s.di /\ ic' = s.ic
  /\ fp' = [fp EXCEPT ![p].call = call]
  /\ UNCHANGED fspanic
Return(s, p) == Become(s, p, NotInCall)
Panic(why) == fspanic' = why /\ UNCHANGED <<di, ic, fp>>

\* ilock panics on an inode that has been freed.
Locking(i, p, Do(_)) ==
  /\ LockFree(i)
  /\ IF di[i].type = "free" THEN Panic("ilock: no type") ELSE Do(ilock(Cache, i, p))

----------------------------------------------------------------------------
(* the start of a call *)

\* namex takes a reference to the root or the current directory, locks it and,
\* for nameiparent, unlocks it again: dp is the parent.
nameiparent(p, op, name) ==
  \E d \in {ROOTINO, fp[p].cwd} :
    /\ Idle(p)
    /\ Locking(d, p, LAMBDA s : Become(iunlock(iget(s, d), d), p,
         [NotInCall EXCEPT !.pc = op, !.op = op, !.name = name, !.dp = d]))

\* namei: dirlookup in the start directory, which is then released.
namei(p, op, name) ==
  \E d \in {ROOTINO, fp[p].cwd} :
    /\ Idle(p)
    /\ Locking(d, p, LAMBDA s :
         LET i == di[d].dir[name]
         IN  IF i = 0 THEN Return(iunlockput(iget(s, d), d), p)
             ELSE Become(iunlockput(iget(iget(s, d), i), d), p,
                    [NotInCall EXCEPT !.pc = op, !.op = op, !.ip = i]))

----------------------------------------------------------------------------
(* create, for open with O_CREATE, mkdir and mknod *)

\* A new inode of this type, linked into dp under name.
Created(s, dp, name, i, type, p) ==
  LET isdir == type = "dir"
  IN  [ilock(iget(s, i), i, p) EXCEPT
         !.di[i] = [type |-> type, nlink |-> 1,
                    dir |-> IF isdir THEN [NoEntries EXCEPT !["."] = i, ![".."] = dp]
                            ELSE NoEntries],
         !.di[dp] = [@ EXCEPT !.dir[name] = i, !.nlink = IF isdir THEN @ + 1 ELSE @]]

\* The end of sys_open, with i locked: the call's reference becomes the file's,
\* or there is no file or descriptor to be had (or a directory was to be
\* written) and the inode is put.
Opened(s, p, i) ==
  \/ LET t == iunlock(s, i)
     IN  /\ di' = t.di /\ ic' = t.ic
         /\ fp' = [fp EXCEPT ![p] = [@ EXCEPT !.file = i, !.call = NotInCall]]
         /\ UNCHANGED fspanic
  \/ Return(iunlockput(s, i), p)

\* With dp locked: the name exists, or it is created and dp released.
create(p, type) ==
  LET c == fp[p].call
      i == di[c.dp].dir[c.name]
      op == IF type = "file" THEN "open" ELSE "mkdir"
  IN  /\ In(p, op)
      /\ Locking(c.dp, p, LAMBDA s :
           IF i # 0 THEN Become(iunlockput(iget(s, i), c.dp), p,
                           [NotInCall EXCEPT !.pc = "exists", !.op = op, !.ip = i])
           ELSE IF Free = {} THEN Panic("ialloc: no inodes")
           ELSE LET t == iunlockput(Created(s, c.dp, c.name, ialloc, type, p), c.dp)
                IN  IF type = "file" THEN Opened(t, p, ialloc) ELSE Return(iunlockput(t, ialloc), p))

\* The name was there: open takes a file, mkdir fails.
CreateExisting(p) ==
  LET c == fp[p].call
  IN  /\ In(p, "exists")
      /\ Locking(c.ip, p, LAMBDA s :
           IF c.op = "open" /\ di[c.ip].type = "file" THEN Opened(s, p, c.ip)
           ELSE Return(iunlockput(s, c.ip), p))

\* sys_open without O_CREATE.
sys_open(p) ==
  /\ In(p, "openold")
  /\ Locking(fp[p].call.ip, p, LAMBDA s : Opened(s, p, fp[p].call.ip))

sys_close(p) ==
  /\ Idle(p) /\ fp[p].file # 0
  /\ LET s == iput(Cache, fp[p].file) IN di' = s.di /\ ic' = s.ic
  /\ fp' = [fp EXCEPT ![p].file = 0]
  /\ UNCHANGED fspanic

sys_chdir(p) ==
  LET i == fp[p].call.ip
  IN  /\ In(p, "chdir")
      /\ Locking(i, p, LAMBDA s :
           IF di[i].type # "dir" THEN Return(iunlockput(s, i), p)
           ELSE LET t == iput(iunlock(s, i), fp[p].cwd)
                IN  /\ di' = t.di /\ ic' = t.ic
                    /\ fp' = [fp EXCEPT ![p] = [@ EXCEPT !.cwd = i, !.call = NotInCall]]
                    /\ UNCHANGED fspanic)

----------------------------------------------------------------------------
(* unlink *)

isdirempty(i) == \A n \in FsNames : di[i].dir[n] = 0

\* The parent is locked and stays locked while the entry's inode is locked.
UnlinkLock(p) ==
  LET c == fp[p].call
      i == di[c.dp].dir[c.name]
  IN  /\ In(p, "unlink")
      /\ Locking(c.dp, p, LAMBDA s :
           IF i = 0 THEN Return(iunlockput(s, c.dp), p)
           ELSE Become(iget(s, i), p, [c EXCEPT !.pc = "unlink2", !.ip = i]))

sys_unlink(p) ==
  LET c == fp[p].call
      isdir == di[c.ip].type = "dir"
  IN  /\ In(p, "unlink2")
      /\ Locking(c.ip, p, LAMBDA s :
           IF di[c.ip].nlink < 1 THEN Panic("unlink: nlink < 1")
           ELSE IF isdir /\ ~isdirempty(c.ip)
           THEN Return(iunlockput(iunlockput(s, c.ip), c.dp), p)
           ELSE LET t == [s EXCEPT !.di[c.dp].dir[c.name] = 0,
                                   !.di[c.dp].nlink = IF isdir THEN @ - 1 ELSE @]
                    u == iunlockput(t, c.dp)
                IN  Return(iunlockput([u EXCEPT !.di[c.ip].nlink = @ - 1], c.ip), p))

----------------------------------------------------------------------------
(* link *)

\* The link count goes up before the new entry exists.
LinkCount(p) ==
  LET i == fp[p].call.ip
  IN  /\ In(p, "link") /\ di[i].nlink < MaxLinks
      /\ Locking(i, p, LAMBDA s :
           IF di[i].type = "dir" THEN Return(iunlockput(s, i), p)
           ELSE Become(iunlock([s EXCEPT !.di[i].nlink = @ + 1], i), p,
                       [fp[p].call EXCEPT !.pc = "link_parent"]))

LinkParent(p) ==
  \E d \in {ROOTINO, fp[p].cwd} : \E n \in FsNames :
    /\ In(p, "link_parent")
    /\ Locking(d, p, LAMBDA s : Become(iunlock(iget(s, d), d), p,
         [fp[p].call EXCEPT !.pc = "link_enter", !.dp = d, !.name = n]))

\* dirlink, or the way back when the name is taken.
sys_link(p) ==
  LET c == fp[p].call
  IN  /\ In(p, "link_enter")
      /\ Locking(c.dp, p, LAMBDA s :
           IF di[c.dp].dir[c.name] # 0
           THEN Become(iunlockput(s, c.dp), p, [c EXCEPT !.pc = "link_bad", !.dp = 0])
           ELSE Return(iput(iunlockput([s EXCEPT !.di[c.dp].dir[c.name] = c.ip], c.dp), c.ip), p))

LinkBad(p) ==
  LET i == fp[p].call.ip
  IN  /\ In(p, "link_bad")
      /\ Locking(i, p, LAMBDA s :
           Return(iunlockput([s EXCEPT !.di[i].nlink = @ - 1], i), p))

----------------------------------------------------------------------------

\* The root directory's ".." is itself; every process starts there.
RvFsInit ==
  /\ di = [i \in Inums |-> IF i = ROOTINO
             THEN [type |-> "dir", nlink |-> 1,
                   dir |-> [NoEntries EXCEPT !["."] = i, ![".."] = i]]
             ELSE FreeDinode]
  /\ ic = [i \in Inums |-> IF i = ROOTINO
             THEN [NoEntry EXCEPT !.ref = Cardinality(FsProcs)] ELSE NoEntry]
  /\ fp = [p \in FsProcs |-> [cwd |-> ROOTINO, file |-> 0, call |-> NotInCall]]
  /\ fspanic = "none"

RvFsNext ==
  \E p \in FsProcs :
    \/ \E n \in FsNames : \E op \in FsCalls[p] \cap {"open", "mkdir", "unlink"} :
         (op = "open" => fp[p].file = 0) /\ nameiparent(p, op, n)
    \/ \E n \in FsNames \cup Dots : \E op \in FsCalls[p] \cap {"openold", "link", "chdir"} :
         (op = "openold" => fp[p].file = 0) /\ namei(p, op, n)
    \/ create(p, "file") \/ create(p, "dir") \/ CreateExisting(p)
    \/ sys_open(p) \/ sys_close(p) \/ sys_chdir(p)
    \/ UnlinkLock(p) \/ sys_unlink(p)
    \/ LinkCount(p) \/ LinkParent(p) \/ sys_link(p) \/ LinkBad(p)

RvFsSpec == RvFsInit /\ [][RvFsNext]_rvFsVars

----------------------------------------------------------------------------

\* The tree: what can be reached from the root by names.
Below(d) == {di[d].dir[n] : n \in FsNames} \ {0}
Tree ==
  {i \in Inums : \A S \in SUBSET Inums :
     ROOTINO \in S /\ (\A d \in S : Below(d) \subseteq S) => i \in S}

\* Entries of the tree that count as links to i: names, and the ".." of the
\* directories below i.
LinksTo(i, T) ==
  {<<d, n>> \in T \X (FsNames \cup {".."}) :
     di[d].type = "dir" /\ di[d].dir[n] = i /\ ~(d = ROOTINO /\ n = "..")}

\* unlink, link, create and iput: whatever calls overlap, everything in the
\* tree is an allocated inode with at least as many links as entries, no
\* directory is in it twice, unlink finds the link it removes, and an inode that
\* is open or a current directory is not freed.
RvTreeSound ==
  LET T == Tree
  IN  /\ \A i \in T : di[i].type # "free" /\ Cardinality(LinksTo(i, T)) <= di[i].nlink
      /\ \A i \in T : di[i].type = "dir" =>
           Cardinality({l \in LinksTo(i, T) : l[2] # ".."}) <= 1
      /\ fspanic # "unlink: nlink < 1"
      /\ \A p \in FsProcs : \A i \in {fp[p].file, fp[p].cwd} \ {0} : di[i].type # "free"

\* iget and iput: an inode's reference count is the number of its users.
RvRefsExact ==
  \A i \in Inums :
    ic[i].ref = Cardinality({p \in FsProcs : fp[p].cwd = i})
              + Cardinality({p \in FsProcs : fp[p].file = i})
              + Cardinality({p \in FsProcs : fp[p].call.ip = i})
              + Cardinality({p \in FsProcs : fp[p].call.dp = i})
==============================================================================

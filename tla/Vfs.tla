-------------------------------- MODULE Vfs ---------------------------------
(***************************************************************************)
(* Names and inodes: path lookup (fs/namei.c), directory entries           *)
(* (fs/dcache.c), inode references (fs/inode.c), the ramfs tree            *)
(* (fs/ramfs/inode.c), the mount table (fs/mount.c) and the inode cache of *)
(* a mounted ext2 disk (fs/ext2/inode.c), all of arch/x86/kernel.          *)
(*                                                                         *)
(* System calls do not sleep here (with interrupts off the disk driver     *)
(* polls), so on one CPU a call is one step.  The operators thread the     *)
(* table of inodes, s, through the calls the C code makes, in its order.   *)
(* A process has a working directory and at most one open file here.       *)
(***************************************************************************)
EXTENDS Integers, FiniteSets, Sequences

CONSTANTS
  VfsProcs,
  NRAM,          \* ramfs inodes are 1 .. NRAM, the root is 1
  NEXT2,         \* slots of eicache
  VfsNames,      \* path components
  Disk,          \* Disk[inum][name]: inum of the entry, 0 for none; a file has
                 \* no entries at all
  VfsPaths,      \* paths that calls are made with
  VfsTargets,    \* targets of symbolic links
  MAXSYMLINKS,
  MaxDents,      \* directory entries kmalloc has room for
  KStackDepth,   \* nested namex calls that fit the kernel stack
  RenameMounts   \* whether a mount point may be renamed

Ram == 1 .. NRAM
Ext == NRAM + 1 .. NRAM + NEXT2
VfsRoot == 1
EXT2_ROOT_INO == 2

VfsAssumption ==
  /\ NRAM \in Nat \ {0} /\ NEXT2 \in Nat /\ MaxDents \in Nat
  /\ EXT2_ROOT_INO \in DOMAIN Disk
  /\ \A x \in VfsPaths \cup VfsTargets :
       x.abs \in BOOLEAN /\ x.comps \in Seq(VfsNames \cup {".", ".."})

VARIABLES
  ino,       \* the inodes
  mnt,       \* the mount table, one entry
  vp,        \* per process: cwd and the inode of its open file
  vfault     \* the kernel is lost: it has panicked, run out of stack, entered a
             \* freed directory, or loops for ever

vfsVars == <<ino, mnt, vp, vfault>>

EntryNames == VfsNames \cup {".", ".."}
NoDents == [n \in EntryNames |-> 0]
NoTarget == [abs |-> FALSE, comps |-> <<>>]
FreeInode == [type |-> "none", ref |-> 0, dents |-> NoDents, parent |-> 0,
              name |-> "", inum |-> 0, target |-> NoTarget]
NoMount == [root |-> 0, parent |-> 0, name |-> ""]

----------------------------------------------------------------------------
(* fs_idup, fs_iput and the evict operations *)

fs_idup(s, i) == [s EXCEPT ![i].ref = @ + 1]

RECURSIVE fs_iput(_, _), PutEntries(_, _, _)

\* ramfs_evict lets the entries of a directory go, ext2 inodes have none.
PutEntries(s, dents, names) ==
  IF names = {} THEN s
  ELSE LET n == CHOOSE x \in names : TRUE
           t == IF dents[n] = 0 THEN s ELSE fs_iput(s, dents[n])
       IN PutEntries(t, dents, names \ {n})

fs_iput(s, i) ==
  LET t == [s EXCEPT ![i].ref = @ - 1]
  IN IF t[i].ref # 0 \/ i = VfsRoot THEN t
     ELSE PutEntries([t EXCEPT ![i] = FreeInode], t[i].dents, EntryNames)

----------------------------------------------------------------------------
(* dcache.c, ialloc and the lookups; a result is the table and an inode,   *)
(* which is 0 when the call failed                                         *)

Result(s, i) == [s |-> s, ip |-> i]

Dents(s) == {x \in Ram \X EntryNames : s[x[1]].dents[x[2]] # 0}

\* d_add: the entry, its reference, and the name and parent of the inode
d_add(s, d, n, i) ==
  IF s[d].type # "dir" \/ d \in Ext \/ s[d].dents[n] # 0 \/ Cardinality(Dents(s)) >= MaxDents
  THEN Result(s, 0)
  ELSE Result([fs_idup(s, i) EXCEPT ![i].name = n,
                                    ![i].parent = IF @ = 0 THEN d ELSE @,
                                    ![d].dents[n] = i], i)

d_unlink(s, d, n) ==
  IF s[d].type # "dir" \/ s[d].dents[n] = 0 THEN Result(s, 0)
  ELSE Result(fs_iput([s EXCEPT ![d].dents[n] = 0], s[d].dents[n]), 1)

First(S) == CHOOSE i \in S : \A j \in S : i <= j
Free(s, S) == {i \in S : s[i].type = "none"}

ialloc(s, type) ==
  IF Free(s, Ram) = {} THEN Result(s, 0)
  ELSE LET i == First(Free(s, Ram))
       IN Result([s EXCEPT ![i] = [FreeInode EXCEPT !.type = type, !.ref = 1]], i)

\* ext2_iget: the cached inode, or the first free slot filled from the disk
ext2_iget(s, inum) ==
  LET cached == {i \in Ext : s[i].type # "none" /\ s[i].inum = inum}
  IN IF cached # {} THEN Result(fs_idup(s, First(cached)), First(cached))
     ELSE IF Free(s, Ext) = {} THEN Result(s, 0)
     ELSE LET i == First(Free(s, Ext))
          IN Result([s EXCEPT ![i] = [FreeInode EXCEPT !.ref = 1, !.inum = inum,
                       !.type = IF DOMAIN Disk[inum] = {} THEN "file" ELSE "dir"]], i)

\* ext2_dir_iterate with lookup_cb: the inode number of an entry, 0 for none
lookup_cb(s, d, n) == Disk[s[d].inum][n]

ext2_lookup(s, d, n) ==
  IF s[d].type # "dir" \/ lookup_cb(s, d, n) = 0 THEN Result(s, 0)
  ELSE LET r == ext2_iget(s, lookup_cb(s, d, n))
       IN IF r.ip = 0 THEN r
          ELSE Result([r.s EXCEPT ![r.ip].parent = IF @ = 0 THEN d ELSE @,
                                  ![r.ip].name = n], r.ip)

ramfs_lookup(s, d, n) ==
  IF s[d].type # "dir" \/ s[d].dents[n] = 0 THEN Result(s, 0)
  ELSE Result(fs_idup(s, s[d].dents[n]), s[d].dents[n])

Lookup(s, d, n) == IF d \in Ext THEN ext2_lookup(s, d, n) ELSE ramfs_lookup(s, d, n)

----------------------------------------------------------------------------
(* namex.  stack counts the namex calls in progress.  The result is -1     *)
(* where the kernel is lost: out of stack, or in a parent directory that   *)
(* has been freed, which nothing counts as a reference                     *)

RECURSIVE namex(_, _, _, _, _, _), follow_symlink(_, _, _, _)

Failed(s) == [s |-> s, ip |-> 0, name |-> ""]

\* The links that start at the inode next, at most MAXSYMLINKS of them.  An
\* absolute target starts a lookup with a counter of its own.
follow_symlink(s, next, depth, stack) ==
  LET t == s[next].target
      dir == s[next].parent
  IN IF s[next].type # "lnk" THEN Result(s, next)
     ELSE IF depth = MAXSYMLINKS \/ t.comps = <<>> THEN Result(fs_iput(s, next), 0)
     ELSE IF t.abs
     THEN LET r == namex(fs_iput(s, next), VfsRoot, t.comps, FALSE, TRUE, stack + 1)
          IN IF r.ip <= 0 THEN r ELSE follow_symlink(r.s, r.ip, depth + 1, stack)
     ELSE IF Len(t.comps) > 1 \/ dir = 0 \/ s[dir].type # "dir"
     THEN Result(fs_iput(s, next), 0)
     ELSE LET r == Lookup(fs_iput(fs_idup(s, dir), next), dir, Head(t.comps))
              u == fs_iput(r.s, dir)
          IN IF r.ip = 0 THEN Result(u, 0) ELSE follow_symlink(u, r.ip, depth + 1, stack)

RECURSIVE Walk(_, _, _, _, _, _)

\* A component that was looked up in ip: ip is put, a link is followed
Resolved(r, ip, final, stack) ==
  IF r.ip = 0 \/ final THEN Result(fs_iput(r.s, ip), r.ip)
  ELSE follow_symlink(fs_iput(r.s, ip), r.ip, 0, stack)

Onwards(l, rest, parent, follow, stack) ==
  IF l.ip <= 0 THEN [s |-> l.s, ip |-> l.ip, name |-> ""]
  ELSE Walk(l.s, l.ip, rest, parent, follow, stack)

\* The loop of namex with inode ip held and comps left.
Walk(s, ip, comps, parent, follow, stack) ==
  LET n == Head(comps)
      rest == Tail(comps)
  IN IF comps = <<>>
     THEN IF parent THEN Failed(fs_iput(s, ip)) ELSE [s |-> s, ip |-> ip, name |-> ""]
     ELSE IF s[ip].type # "dir" THEN Failed(fs_iput(s, ip))
     ELSE IF parent /\ rest = <<>> THEN [s |-> s, ip |-> ip, name |-> n]
     ELSE IF n = "." THEN Walk(s, ip, rest, parent, follow, stack)
     ELSE IF n = ".."
     THEN LET up == IF s[ip].parent = 0 THEN ip ELSE s[ip].parent
          IN IF s[up].type = "none" THEN [s |-> s, ip |-> -1, name |-> ""]
             ELSE Walk(fs_iput(fs_idup(s, up), ip), up, rest, parent, follow, stack)
     ELSE Onwards(Resolved(Lookup(s, ip, n), ip, rest = <<>> /\ ~follow, stack),
                  rest, parent, follow, stack)

namex(s, start, comps, parent, follow, stack) ==
  IF stack > KStackDepth THEN [s |-> s, ip |-> -1, name |-> ""]
  ELSE Walk(fs_idup(s, start), start, comps, parent, follow, stack)

Start(p, path) == IF path.abs THEN VfsRoot ELSE vp[p].cwd
fs_namei(s, p, path) == namex(s, Start(p, path), path.comps, FALSE, TRUE, 1)
fs_namei_nofollow(s, p, path) == namex(s, Start(p, path), path.comps, FALSE, FALSE, 1)
ParentOf(s, p, path) == namex(s, Start(p, path), path.comps, TRUE, TRUE, 1)

\* A last component that names an entry
Named(r) == r.ip > 0 /\ r.name \notin {".", ".."}

----------------------------------------------------------------------------
(* ramfs operations; result 0 for failure.  The read-only ext2 has none    *)

\* What create, mkdir, mknod and symlink share.  The caller keeps the reference
\* of ialloc.
Made(s, d, n, type, target) ==
  LET a == ialloc(s, type)
      b == d_add([a.s EXCEPT ![a.ip].target = target], d, n, a.ip)
  IN IF d \in Ext \/ s[d].dents[n] # 0 \/ a.ip = 0 THEN Result(s, 0)
     ELSE IF b.ip = 0 THEN Result(fs_iput(a.s, a.ip), 0)
     ELSE Result(b.s, a.ip)

\* Only the reference of the directory entry is kept.
PutMade(m) == IF m.ip = 0 THEN m ELSE Result(fs_iput(m.s, m.ip), m.ip)

ramfs_create(s, d, n) == Made(s, d, n, "file", NoTarget)
ramfs_mkdir(s, d, n) == PutMade(Made(s, d, n, "dir", NoTarget))
ramfs_mknod(s, d, n) == PutMade(Made(s, d, n, "dev", NoTarget))
ramfs_symlink(s, d, n, target) == PutMade(Made(s, d, n, "lnk", target))

ramfs_hardlink(s, d, n, i) == IF s[i].type = "dir" THEN Result(s, 0) ELSE d_add(s, d, n, i)

ramfs_rmdir(s, d, n) ==
  IF s[s[d].dents[n]].type # "dir" \/ s[s[d].dents[n]].dents # NoDents
  THEN Result(s, 0) ELSE d_unlink(s, d, n)

ramfs_unlink(s, d, n) ==
  IF s[s[d].dents[n]].type = "dir" THEN Result(s, 0) ELSE d_unlink(s, d, n)

\* Variant: the target is put in place before the source is taken out.
RenameOver(s, od, on, nd, nn) ==
  LET ip == s[od].dents[on]
  IN IF od \in Ext \/ nd \in Ext \/ ip = 0 \/ (od = nd /\ on = nn) THEN Result(s, 0)
     ELSE Result([s EXCEPT ![od].dents[on] = 0, ![nd].dents[nn] = ip], 1)

ramfs_rename(s, od, on, nd, nn) ==
  LET ip == s[od].dents[on]
      old == s[nd].dents[nn]
      over == IF old = 0 THEN s ELSE d_unlink(s, nd, nn).s
      out == d_unlink(fs_idup(over, ip), od, on).s
      in == d_add(out, nd, nn, ip)
      moved == IF s[ip].type = "dir" THEN [in.s EXCEPT ![ip].parent = nd] ELSE in.s
      back == d_add(out, od, on, ip).s
  IN IF od \in Ext \/ nd \in Ext \/ ip = 0 THEN Result(s, 0)
     ELSE IF (od = nd /\ on = nn) \/ old = ip THEN Result(s, 1)
     ELSE IF old # 0 /\ (s[old].type = "dir") # (s[ip].type = "dir") THEN Result(s, 0)
     ELSE IF old # 0 /\ s[old].dents # NoDents THEN Result(s, 0)
     ELSE IF od = nd
     THEN Result([over EXCEPT ![od].dents[on] = 0, ![od].dents[nn] = ip, ![ip].name = nn], 1)
     ELSE IF in.ip = 0 THEN Result(fs_iput(back, ip), 0)
     ELSE Result(fs_iput(moved, ip), 1)

----------------------------------------------------------------------------
(* System calls *)

\* A lookup that gets lost ends the behaviour.
Finish(r, s) ==
  /\ vfault' = (r.ip = -1)
  /\ ino' = IF r.ip = -1 THEN ino ELSE s

\* The inode of a lookup is put again, if there is one.
Put(r) == IF r.ip > 0 THEN fs_iput(r.s, r.ip) ELSE r.s

\* fs_create and fs_mknod take "." and ".." for names like any other.
CreateIn(r) ==
  LET m == ramfs_create(r.s, r.ip, r.name)
  IN IF r.ip <= 0 THEN Result(r.s, r.ip) ELSE Result(fs_iput(m.s, r.ip), m.ip)
fs_create(s, p, path) == CreateIn(ParentOf(s, p, path))

\* sys_open: O_CREATE without O_EXCL opens what is there.
sys_open(p, path, create, excl) ==
  \E c \in {IF create THEN fs_create(ino, p, path) ELSE Result(ino, 0)} :
    \E r \in {IF c.ip # 0 \/ (create /\ excl) THEN c ELSE fs_namei(c.s, p, path)} :
      /\ vp[p].open = 0
      /\ Finish(r, r.s)
      /\ vp' = [vp EXCEPT ![p].open = IF r.ip > 0 THEN r.ip ELSE 0]
      /\ UNCHANGED mnt

\* sys_creat truncates what is there, which only ramfs files can be.
sys_creat(p, path) ==
  \E c \in {fs_create(ino, p, path)} :
    \E r \in {IF c.ip # 0 THEN c ELSE fs_namei(c.s, p, path)} :
      LET ok == r.ip > 0 /\ r.ip \in Ram /\ r.s[r.ip].type = "file"
      IN /\ vp[p].open = 0
         /\ Finish(r, IF ok THEN r.s ELSE Put(r))
         /\ vp' = [vp EXCEPT ![p].open = IF ok THEN r.ip ELSE 0]
         /\ UNCHANGED mnt

\* fileclose of the last descriptor
CloseFile(p) ==
  LET i == vp[p].open
  IN /\ i # 0
     /\ IF ino[i].ref <= 0 THEN vfault' = TRUE /\ UNCHANGED ino   \* panic("fs_iput")
        ELSE vfault' = FALSE /\ ino' = fs_iput(ino, i)
     /\ vp' = [vp EXCEPT ![p].open = 0]
     /\ UNCHANGED mnt

\* A lookup whose inode is put again.  What the calls do to it is data.
PathCall(r) == Finish(r, Put(r)) /\ UNCHANGED <<mnt, vp>>

sys_stat(p, path) == PathCall(fs_namei(ino, p, path))
sys_lstat(p, path) == PathCall(fs_namei_nofollow(ino, p, path))
sys_readlink(p, path) == PathCall(fs_namei_nofollow(ino, p, path))
sys_truncate(p, path) == PathCall(fs_namei(ino, p, path))
fs_access(p, path) == PathCall(fs_namei(ino, p, path))
fs_chmod(p, path) == PathCall(fs_namei(ino, p, path))
fs_chown(p, path) == PathCall(fs_namei(ino, p, path))
fs_utime(p, path) == PathCall(fs_namei(ino, p, path))

ChangeDir(p, s, i) ==
  /\ ino' = fs_iput(s, vp[p].cwd)
  /\ vp' = [vp EXCEPT ![p].cwd = i]

sys_chdir(p, path) ==
  \E r \in {fs_namei(ino, p, path)} :
    /\ vfault' = (r.ip = -1)
    /\ IF r.ip > 0 /\ r.s[r.ip].type = "dir" THEN ChangeDir(p, r.s, r.ip)
       ELSE UNCHANGED vp /\ ino' = IF r.ip = -1 THEN ino ELSE Put(r)
    /\ UNCHANGED mnt

sys_fchdir(p) ==
  /\ vp[p].open # 0 /\ ino[vp[p].open].type = "dir"
  /\ ChangeDir(p, fs_idup(ino, vp[p].open), vp[p].open)
  /\ UNCHANGED <<mnt, vfault>>

\* The parent of the last component, an operation in it, the parent put.
InParent(p, path, Op(_, _, _)) ==
  \E r \in {ParentOf(ino, p, path)} :
    /\ Finish(r, IF r.ip <= 0 THEN r.s
                 ELSE fs_iput(IF Named(r) THEN Op(r.s, r.ip, r.name).s ELSE r.s, r.ip))
    /\ UNCHANGED <<mnt, vp>>

fs_mkdir(p, path) == InParent(p, path, ramfs_mkdir)

fs_symlink(p, path, target) ==
  InParent(p, path, LAMBDA s, d, n : ramfs_symlink(s, d, n, target))

\* The new node is looked up once more, for sys_mknod to set its mode.
fs_mknod(p, path) ==
  \E r \in {ParentOf(ino, p, path)} :
    /\ IF r.ip <= 0 THEN Finish(r, r.s)
       ELSE \E m \in {ramfs_mknod(r.s, r.ip, r.name)} :
              IF m.ip = 0 THEN Finish(r, fs_iput(m.s, r.ip))
              ELSE \E l \in {fs_namei(fs_iput(m.s, r.ip), p, path)} : Finish(l, Put(l))
    /\ UNCHANGED <<mnt, vp>>

InodeIsCwd(i) == \E q \in VfsProcs : vp[q].cwd = i

\* A lookup for what the caller wants to know, then the operation.
Looked(s, d, n, Ok(_, _), Op(_, _, _)) ==
  LET l == Lookup(s, d, n)
      t == fs_iput(l.s, l.ip)
  IN IF d \in Ext \/ l.ip = 0 THEN Result(s, 0)
     ELSE IF Ok(l.s, l.ip) THEN Op(t, d, n) ELSE Result(t, 0)

fs_rmdir(p, path) ==
  InParent(p, path, LAMBDA s, d, n : Looked(s, d, n,
    LAMBDA t, i : t[i].type = "dir" /\ i # VfsRoot /\ ~InodeIsCwd(i), ramfs_rmdir))

fs_unlink(p, path) ==
  InParent(p, path, LAMBDA s, d, n : Looked(s, d, n,
    LAMBDA t, i : t[i].type # "dir", ramfs_unlink))

\* fs_link: files of the same file system only
fs_link(p, old, new) ==
  \E f \in {fs_namei(ino, p, old)} :
    /\ IF f.ip <= 0 \/ f.s[f.ip].type = "dir" THEN Finish(f, Put(f))
       ELSE \E r \in {ParentOf(f.s, p, new)} :
              Finish(r, fs_iput(IF Named(r) /\ f.ip \in Ram /\ r.ip \in Ram
                                THEN fs_iput(ramfs_hardlink(r.s, r.ip, r.name, f.ip).s, r.ip)
                                ELSE Put(r), f.ip))
    /\ UNCHANGED <<mnt, vp>>

fs_rename(p, old, new) ==
  \E o \in {ParentOf(ino, p, old)} :
    /\ (~RenameMounts /\ o.ip \in Ram) => o.s[o.ip].dents[o.name] \notin Ext
    /\ IF ~Named(o) THEN Finish(o, Put(o))
       ELSE \E n \in {ParentOf(o.s, p, new)} :
              Finish(n, fs_iput(IF Named(n)
                                THEN fs_iput(ramfs_rename(n.s, o.ip, o.name, n.ip, n.name).s, n.ip)
                                ELSE Put(n), o.ip))
    /\ UNCHANGED <<mnt, vp>>

----------------------------------------------------------------------------
(* do_mount and do_umount *)

\* The super block and the group descriptors are data; the root stays held.
ext2_fill_super(s) == ext2_iget(s, EXT2_ROOT_INO)

\* The entry of the mount table holds both ends of the mount.
mnt_add_locked(s, d, child) == fs_idup(fs_idup(s, d), child)

\* A new entry of the root leads to the root of the mount.
mount_link_dir_locked(s, leaf, child) ==
  LET a == d_add(s, VfsRoot, leaf, child)
  IN IF a.ip = 0 THEN a
     ELSE Result(fs_iput(mnt_add_locked([a.s EXCEPT ![child].parent = VfsRoot], VfsRoot, child),
                         child), child)

\* mount_attach on an empty ramfs directory: its entry leads to the new root
AttachOver(s, mp, child) ==
  LET d == s[mp].parent
      t == mnt_add_locked(fs_idup(s, child), d, child)
  IN fs_iput(fs_iput(fs_iput([t EXCEPT ![d].dents[s[mp].name] = child, ![child].parent = d,
                                       ![child].name = s[mp].name], mp), mp), child)

CanAttach(s, mp) ==
  LET d == s[mp].parent
  IN /\ mp \in Ram /\ s[mp].type = "dir" /\ s[mp].dents = NoDents
     /\ d \in Ram /\ s[mp].name # "" /\ s[d].type = "dir" /\ s[d].dents[s[mp].name] = mp

\* do_mount: fill_super, then mount_attach on a directory or, where nothing has
\* the name, on a new entry of the root.  What fails gives the root inode back.
do_mount(p, path) ==
  \E g \in {ext2_fill_super(ino)} :
    /\ mnt = NoMount /\ g.ip # 0
    /\ \E r \in {fs_namei(g.s, p, path)} :
         \/ /\ r.ip > 0 /\ CanAttach(r.s, r.ip)
            /\ mnt' = [root |-> g.ip, parent |-> r.s[r.ip].parent, name |-> r.s[r.ip].name]
            /\ ino' = AttachOver(r.s, r.ip, g.ip)
         \/ \E leaf \in {Head(path.comps)} \cap VfsNames :
              \E a \in {mount_link_dir_locked(r.s, leaf, g.ip)} :
                /\ r.ip = 0 /\ Len(path.comps) = 1 /\ a.ip # 0
                /\ mnt' = [root |-> g.ip, parent |-> VfsRoot, name |-> leaf]
                /\ ino' = a.s
    /\ UNCHANGED <<vp, vfault>>

\* The inodes the parent pointers lead through; a directory moved below itself
\* makes them go round for ever.
Up(i) == IF i = VfsRoot \/ ino[i].parent = 0 THEN i ELSE ino[i].parent
Chain(i) == LET up[k \in 0 .. NRAM + NEXT2] == IF k = 0 THEN i ELSE Up(up[k - 1])
            IN {up[k] : k \in 0 .. NRAM + NEXT2}
inode_on_mount(i, root) == root \in Chain(i)
Loops(i) == \A j \in Chain(i) : Up(j) # j

Holds(p) == {vp[p].cwd} \cup ({vp[p].open} \ {0})

\* Variant: only working directories keep a mount busy.
BusyCwdOnly(root) == \E p \in VfsProcs : inode_on_mount(vp[p].cwd, root)

mount_busy(root) == \E p \in VfsProcs : \E i \in Holds(p) : inode_on_mount(i, root)

\* ext2_put_super empties the slots that are still in use.
ext2_put_super(s) == [i \in DOMAIN s |-> IF i \in Ext THEN FreeInode ELSE s[i]]

mnt_del_locked(s, d, root) == ext2_put_super(fs_iput(fs_iput(s, root), d))

\* do_umount: the entry, the mount's references, the super block, and an empty
\* directory where the mount was
do_umount(p, path) ==
  \E r \in {fs_namei(ino, p, path)} :
    /\ mnt # NoMount /\ r.ip = mnt.root /\ ~mount_busy(mnt.root)
    /\ vfault' = \E q \in VfsProcs : \E i \in Holds(q) : Loops(i)
    /\ mnt' = NoMount
    /\ LET d == mnt.parent
           del(u) == mnt_del_locked(fs_iput(u.s, mnt.root), d, mnt.root)
       IN \E u \in {d_unlink(fs_idup(r.s, d), d, mnt.name)} :
            /\ u.ip # 0
            /\ ino' = fs_iput(ramfs_mkdir(del(u), d, mnt.name).s, d)
    /\ UNCHANGED vp

----------------------------------------------------------------------------
VfsInit ==
  /\ ino = [i \in Ram \cup Ext |->
              IF i = VfsRoot THEN [FreeInode EXCEPT !.type = "dir", !.parent = VfsRoot,
                                                    !.ref = 1 + Cardinality(VfsProcs)]
              ELSE FreeInode]
  /\ mnt = NoMount
  /\ vp = [p \in VfsProcs |-> [cwd |-> VfsRoot, open |-> 0]]
  /\ vfault = FALSE

VfsNext ==
  /\ ~vfault
  /\ \E p \in VfsProcs :
       \/ CloseFile(p) \/ sys_fchdir(p)
       \/ \E path \in VfsPaths :
            \/ sys_open(p, path, FALSE, FALSE)
            \/ \E excl \in BOOLEAN : sys_open(p, path, TRUE, excl)
            \/ sys_creat(p, path) \/ sys_stat(p, path) \/ sys_lstat(p, path)
            \/ sys_readlink(p, path) \/ sys_truncate(p, path) \/ fs_access(p, path)
            \/ fs_chmod(p, path) \/ fs_chown(p, path) \/ fs_utime(p, path)
            \/ sys_chdir(p, path) \/ fs_mkdir(p, path) \/ fs_mknod(p, path)
            \/ \E t \in VfsTargets : fs_symlink(p, path, t)
            \/ fs_rmdir(p, path) \/ fs_unlink(p, path)
            \/ do_mount(p, path) \/ do_umount(p, path)
            \/ \E new \in VfsPaths : fs_link(p, path, new) \/ fs_rename(p, path, new)

VfsSpec == VfsInit /\ [][VfsNext]_vfsVars

----------------------------------------------------------------------------
\* An inode has one reference for each directory entry, open file and working
\* directory that leads to it, one more if it is the root or the parent of a
\* mount, and one if it is the root.  So every call, on every path through
\* namex, gives back what it took, and no inode in use is evicted.
VfsRefs ==
  ~vfault => \A i \in DOMAIN ino :
    ino[i].ref = Cardinality({x \in Dents(ino) : ino[x[1]].dents[x[2]] = i})
               + Cardinality({p \in VfsProcs : vp[p].cwd = i})
               + Cardinality({p \in VfsProcs : vp[p].open = i})
               + (IF mnt # NoMount /\ i \in {mnt.root, mnt.parent} THEN 1 ELSE 0)
               + (IF i = VfsRoot THEN 1 ELSE 0)

\* What mount_busy is for: a file that is open, or a working directory, still
\* has its inode after any umount.
HeldAlive ==
  ~vfault => \A p \in VfsProcs :
    ino[vp[p].cwd].ref > 0 /\ (vp[p].open # 0 => ino[vp[p].open].ref > 0)
=============================================================================

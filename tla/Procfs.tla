------------------------------- MODULE Procfs -------------------------------
(***************************************************************************)
(* /proc: the pool of nodes that stand for /proc/<pid>, its files, its fd  *)
(* directory and the links in it, while the processes they describe come   *)
(* and go (arch/x86/kernel/fs/proc/).  A node has no directory entry to    *)
(* keep it: it lives as long as a descriptor, a working directory or a     *)
(* child node refers to it.  Calls of one CPU run to their end, so each is *)
(* one step.                                                               *)
(***************************************************************************)
EXTENDS Integers, FiniteSets, Sequences, SequencesExt

CONSTANTS
  PROCFS_NNODES,   \* size of the pool
  ProcSlots,       \* proc_table
  MaxPid           \* bound: processes created

ProcfsAssumption == PROCFS_NNODES \in Nat \ {0} /\ MaxPid \in Nat \ {0}

VARIABLES
  pnode,    \* procfs_nodes: kind, pid and aux, reference count, parent node
  ptask,    \* per slot: pid, state, the node of descriptor 0, the directory
  nextpid,
  shown     \* after a read: what it was to be about, what it was about

procfsVars == <<pnode, ptask, nextpid, shown>>

NodeIds == 1 .. PROCFS_NNODES
ProcDir == 0       \* the inode of /proc, which is never given back
NoNode == -1
PF_FREE == "free"
NoRead == [for |-> 0, got |-> 0]
FreeNode == [kind |-> PF_FREE, pid |-> 0, ref |-> 0, parent |-> NoNode]
Unused == [pid |-> 0, state |-> "UNUSED", file |-> NoNode, of |-> 0,
           cwd |-> NoNode, in |-> 0]

\* snap_proc, proc_alive
proc_alive(pid) == \E s \in ProcSlots : ptask[s].pid = pid /\ ptask[s].state # "UNUSED"

HasFd(pid) == \E s \in ProcSlots : ptask[s].pid = pid /\ ptask[s].file # NoNode

----------------------------------------------------------------------------
(* procfs_get, fs_iput and procfs_node_evict *)

Found(ns, pid, kind) == {i \in NodeIds : ns[i].kind = kind /\ ns[i].pid = pid}
FreeNodes(ns) == {i \in NodeIds : ns[i].kind = PF_FREE}
Duped(ns, i) == IF i \in NodeIds THEN [ns EXCEPT ![i].ref = @ + 1] ELSE ns
Lowest1(S) == CHOOSE i \in S : \A j \in S : i <= j

\* Variant: a node does not hold its parent.
GetUnheld(ns, pid, kind, parent) ==
  IF Found(ns, pid, kind) # {}
  THEN LET i == Lowest1(Found(ns, pid, kind)) IN [ns |-> Duped(ns, i), at |-> i]
  ELSE IF FreeNodes(ns) = {} THEN [ns |-> ns, at |-> NoNode]
  ELSE LET i == Lowest1(FreeNodes(ns))
       IN [at |-> i, ns |-> [ns EXCEPT ![i] =
             [kind |-> kind, pid |-> pid, ref |-> 1, parent |-> parent]]]

procfs_get(ns, pid, kind, parent) ==
  IF Found(ns, pid, kind) # {}
  THEN LET i == Lowest1(Found(ns, pid, kind)) IN [ns |-> Duped(ns, i), at |-> i]
  ELSE IF FreeNodes(ns) = {} THEN [ns |-> ns, at |-> NoNode]
  ELSE LET i == Lowest1(FreeNodes(ns))
       IN [at |-> i, ns |-> [Duped(ns, parent) EXCEPT ![i] =
             [kind |-> kind, pid |-> pid, ref |-> 1, parent |-> parent]]]

RECURSIVE Put(_, _)
Put(ns, i) ==
  IF i \notin NodeIds THEN ns
  ELSE IF ns[i].ref # 1 THEN [ns EXCEPT ![i].ref = @ - 1]
  ELSE Put([ns EXCEPT ![i] = FreeNode], ns[i].parent)

----------------------------------------------------------------------------
(* Lookups.  A name is "fd", "status" for the plain files of a process,    *)
(* "0" for the link of its descriptor, "..", or "pid" with a number.       *)

Name(k) == [text |-> k, pid |-> 0]
PidName(pid) == [text |-> "pid", pid |-> pid]

proc_root_lookup(ns, name) ==
  IF name.text = "pid" /\ proc_alive(name.pid)
  THEN procfs_get(ns, name.pid, "dir", ProcDir) ELSE [ns |-> ns, at |-> NoNode]

proc_pid_dir_lookup(ns, dir, name) ==
  IF proc_alive(ns[dir].pid) /\ name.text \in {"fd", "status"}
  THEN procfs_get(ns, ns[dir].pid, name.text, dir) ELSE [ns |-> ns, at |-> NoNode]

proc_fd_dir_lookup(ns, dir, name) ==
  IF proc_alive(ns[dir].pid) /\ name.text = "0" /\ HasFd(ns[dir].pid)
  THEN procfs_get(ns, ns[dir].pid, "0", dir) ELSE [ns |-> ns, at |-> NoNode]

\* One component of namex: the directory is put once its child is held.  A
\* link ends the walk: its text names no file.
Component(w, name) ==
  LET dir == w.at
      ns == w.ns
      next == CASE dir = ProcDir /\ name.text = ".." -> [ns |-> ns, at |-> NoNode]
                [] dir = ProcDir -> proc_root_lookup(ns, name)
                [] ns[dir].kind \in {"status", "0"} -> [ns |-> ns, at |-> NoNode]
                [] name.text = ".." -> [ns |-> Duped(ns, ns[dir].parent), at |-> ns[dir].parent]
                [] ns[dir].kind = "dir" -> proc_pid_dir_lookup(ns, dir, name)
                [] OTHER -> proc_fd_dir_lookup(ns, dir, name)
  IN IF dir = NoNode THEN w ELSE [ns |-> Put(next.ns, dir), at |-> next.at]

\* The target of /proc/self, which follow_symlink looks up in /proc.
proc_self_read(s) == PidName(ptask[s].pid)

Below == {<< >>, <<Name("fd")>>, <<Name("status")>>, <<Name("fd"), Name("0")>>}
FromCwd == {<<Name(k)>> : k \in {"fd", "status", "0", ".."}}
FromRoot ==
  {<<PidName(pid)>> \o rest : pid \in 1 .. MaxPid, rest \in Below}

\* A walk that fails has put all it held and leaves the pool as it was.
Walk(start, path) ==
  FoldLeft(Component, [ns |-> Duped(pnode, start), at |-> start], path)

\* An absolute path starts at /proc, a relative one in the directory.
Walks(s) == {[to |-> Walk(ProcDir, path), for |-> path[1].pid] : path \in FromRoot}
              \cup {[to |-> Walk(ProcDir, <<proc_self_read(s)>> \o rest), for |-> ptask[s].pid] :
                       rest \in Below}
              \cup {[to |-> Walk(ptask[s].cwd, path), for |-> ptask[s].in] :
                       path \in IF ptask[s].cwd = ProcDir THEN {} ELSE FromCwd}

KindOf(w) == IF w.at \in NodeIds THEN w.ns[w.at].kind ELSE "root"

----------------------------------------------------------------------------
(* The calls of a process that is running; w is a walk that found a node   *)

Runs1(s) == ptask[s].state = "RUNNING"

sys_open_proc(s, w) ==
  /\ ptask[s].file = NoNode /\ KindOf(w.to) # "0"
  /\ pnode' = w.to.ns
  /\ ptask' = [ptask EXCEPT ![s].file = w.to.at, ![s].of = w.for]
  /\ shown' = NoRead /\ UNCHANGED nextpid

sys_close_proc(s) ==
  /\ Runs1(s) /\ ptask[s].file # NoNode
  /\ pnode' = Put(pnode, ptask[s].file)
  /\ ptask' = [ptask EXCEPT ![s].file = NoNode, ![s].of = 0]
  /\ shown' = NoRead /\ UNCHANGED nextpid

sys_chdir_proc(s, w) ==
  /\ KindOf(w.to) \in {"dir", "fd", "root"}
  /\ pnode' = Put(w.to.ns, ptask[s].cwd)
  /\ ptask' = [ptask EXCEPT ![s].cwd = w.to.at,
                            ![s].in = IF w.to.at = ProcDir THEN 0 ELSE w.for]
  /\ shown' = NoRead /\ UNCHANGED nextpid

\* A read finds the process by the pid of the node; -1 once it is gone.
ReadNode(s, kind) ==
  /\ Runs1(s) /\ ptask[s].file \in NodeIds
  /\ LET n == pnode[ptask[s].file]
     IN /\ n.kind = kind
        /\ shown' = [for |-> ptask[s].of, got |-> IF proc_alive(n.pid) THEN n.pid ELSE 0]
  /\ UNCHANGED <<pnode, ptask, nextpid>>

proc_pid_file_read(s) == ReadNode(s, "status")

\* The names of a process directory are the same for all of them; those of
\* an fd directory are the descriptors of the process.
proc_fd_dir_read(s) == ReadNode(s, "fd")

\* sys_readlink of /proc/<pid>/fd/0: the node is put after the read.
proc_fd_link_read(s, w) ==
  /\ KindOf(w.to) = "0"
  /\ LET pid == w.to.ns[w.to.at].pid
     IN shown' = [for |-> w.for, got |-> IF HasFd(pid) THEN pid ELSE 0]
  /\ pnode' = Put(w.to.ns, w.to.at)
  /\ UNCHANGED <<ptask, nextpid>>

----------------------------------------------------------------------------
(* The processes themselves *)

\* fork: proc_alloc, and the child holds the directory of its parent.  The
\* sharing of open files is in Files; here a process forks with none.
ForkProc(s, c) ==
  /\ Runs1(s) /\ ptask[s].file = NoNode /\ ptask[c].state = "UNUSED" /\ nextpid <= MaxPid
  /\ ptask' = [ptask EXCEPT ![c] = [ptask[s] EXCEPT !.pid = nextpid]]
  /\ nextpid' = nextpid + 1
  /\ pnode' = Duped(pnode, ptask[s].cwd)
  /\ shown' = NoRead

\* exit: fd_closeall and the directory; the slot keeps its pid until wait.
ExitProc(s) ==
  /\ Runs1(s) /\ ptask[s].pid # 1
  /\ pnode' = Put(Put(pnode, ptask[s].file), ptask[s].cwd)
  /\ ptask' = [ptask EXCEPT ![s] = [Unused EXCEPT !.pid = ptask[s].pid, !.state = "ZOMBIE"]]
  /\ shown' = NoRead /\ UNCHANGED nextpid

proc_free_slot(s) ==
  /\ ptask[s].state = "ZOMBIE"
  /\ ptask' = [ptask EXCEPT ![s] = Unused]
  /\ shown' = NoRead /\ UNCHANGED <<pnode, nextpid>>

ProcfsInit ==
  /\ pnode = [i \in NodeIds |-> FreeNode]
  /\ LET first == CHOOSE s \in ProcSlots : TRUE
     IN ptask = [s \in ProcSlots |-> IF s # first THEN Unused ELSE
          [Unused EXCEPT !.pid = 1, !.state = "RUNNING", !.cwd = ProcDir]]
  /\ nextpid = 2
  /\ shown = NoRead

ProcfsNext ==
  \E s \in ProcSlots :
    \/ Runs1(s) /\ \E w \in {w \in Walks(s) : w.to.at # NoNode} :
         sys_open_proc(s, w) \/ sys_chdir_proc(s, w) \/ proc_fd_link_read(s, w)
    \/ sys_close_proc(s) \/ proc_pid_file_read(s) \/ proc_fd_dir_read(s)
    \/ ExitProc(s) \/ proc_free_slot(s)
    \/ \E c \in ProcSlots : ForkProc(s, c)

ProcfsSpec == ProcfsInit /\ [][ProcfsNext]_procfsVars

----------------------------------------------------------------------------

Holders(i) == Cardinality({s \in ProcSlots : ptask[s].file = i})
                + Cardinality({s \in ProcSlots : ptask[s].cwd = i})
                + Cardinality({j \in NodeIds : pnode[j].parent = i})

(* Every node in use is counted once for each descriptor, directory and    *)
(* child that refers to it, and is given back when the last one goes; its  *)
(* parent is in use, of the same process, so getcwd finds its way up; a    *)
(* process has one node of each kind.  What is held since before the       *)
(* process died still stands for that pid, and no read shows another       *)
(* process than the one its path named.                                    *)
ProcNodes ==
  /\ \A i \in NodeIds :
       /\ pnode[i].ref = Holders(i)
       /\ pnode[i].kind # PF_FREE <=> pnode[i].ref > 0
       /\ pnode[i].parent \in NodeIds =>
            /\ pnode[pnode[i].parent].pid = pnode[i].pid
            /\ pnode[pnode[i].parent].kind = IF pnode[i].kind = "0" THEN "fd" ELSE "dir"
       /\ pnode[i].parent \notin NodeIds => pnode[i].kind \in {PF_FREE, "dir"}
       /\ \A j \in NodeIds : (pnode[i].kind = pnode[j].kind /\ pnode[i].pid = pnode[j].pid)
                               => (i = j \/ pnode[i].kind = PF_FREE)
  /\ \A s \in ProcSlots :
       /\ ptask[s].file \in NodeIds => pnode[ptask[s].file].pid = ptask[s].of
       /\ ptask[s].cwd \in NodeIds => pnode[ptask[s].cwd].pid = ptask[s].in
  /\ shown.got \in {0, shown.for}
=============================================================================

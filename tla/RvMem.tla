-------------------------------- MODULE RvMem --------------------------------
(***************************************************************************)
(* Physical pages and user page tables of the RISC-V kernel: kalloc.c,     *)
(* vm.c, the memory side of proc.c (allocproc, freeproc, fork, growproc)   *)
(* and exec.c.                                                             *)
(*                                                                         *)
(* A page table is the three-level tree of Sv39 with FANOUT instead of 512 *)
(* entries per page: every table page comes from kalloc and any of these   *)
(* calls can fail half way.  Only the free list is shared between CPUs and *)
(* it has a lock; each call is one step, run with every amount of memory   *)
(* left.  Sizes are in half pages, so that they need not be aligned.       *)
(***************************************************************************)
EXTENDS Integers, FiniteSets, FiniteSetsExt, SequencesExt

CONSTANTS
  NPAGES,          \* pages between end and PHYSTOP
  MemProcs,        \* the slots of proc[]
  FirstMem,        \* the one userinit fills
  FANOUT,          \* entries of a page-table page
  MaxUser,         \* bound: pages of a user image, below TRAPFRAME
  ExecImages       \* programs: the ends of their segments, in half pages

RvMemAssumption ==
  FANOUT \in Nat \ {0, 1} /\ MaxUser \in 1 .. FANOUT * FANOUT * FANOUT - 2

VARIABLES
  kmem,            \* the free list (its pages are alike; kalloc takes the least)
  um,              \* per process: trapframe page, page table and sz
  mpanic           \* the panic the kernel stopped at, "none"

rvMemVars == <<kmem, um, mpanic>>

Frames == 1 .. NPAGES
Vpns == 0 .. FANOUT * FANOUT * FANOUT - 1
TRAMPOLINE == FANOUT * FANOUT * FANOUT - 1
TRAPFRAME == TRAMPOLINE - 1
KernelText == NPAGES + 1       \* the page of the trampoline, never freed
PGROUNDUP(sz) == (sz + 1) \div 2   \* in pages

NoPte == [pa |-> 0, u |-> FALSE]
NoTable == [root |-> 0,
            mid |-> [i \in 0 .. FANOUT - 1 |-> 0],
            low |-> [i \in 0 .. FANOUT * FANOUT - 1 |-> 0],
            pte |-> [v \in Vpns |-> NoPte]]
NoImage == [tf |-> 0, pt |-> NoTable, sz |-> 0]

----------------------------------------------------------------------------
(* operators on s = [free, t, ok, panic]: the free list, a page table, *)
(* whether the call still succeeds, and a panic on the way             *)

Start(t) == [free |-> kmem, t |-> t, ok |-> TRUE, panic |-> "none"]
Fail(s) == [s EXCEPT !.ok = FALSE]
Raise(s, why) == IF s.panic = "none" THEN [s EXCEPT !.panic = why] ELSE s

kalloc(s) == Min(s.free)
Taken(s) == [s EXCEPT !.free = @ \ {kalloc(s)}]
kfree(s, pa) == [s EXCEPT !.free = @ \cup {pa}]

\* walk with alloc: the missing tables on the way to v; one that was made stays
\* when the next cannot be.
NewMid(s, i) ==
  IF ~s.ok \/ s.t.mid[i] # 0 THEN s
  ELSE IF s.free = {} THEN Fail(s)
  ELSE [Taken(s) EXCEPT !.t.mid[i] = kalloc(s)]
NewLow(s, i) ==
  IF ~s.ok \/ s.t.low[i] # 0 THEN s
  ELSE IF s.free = {} THEN Fail(s)
  ELSE [Taken(s) EXCEPT !.t.low[i] = kalloc(s)]
walk(s, v) == NewLow(NewMid(s, v \div (FANOUT * FANOUT)), v \div FANOUT)

MapLeaf(w, v, pa, u) ==
  IF ~w.ok THEN w
  ELSE IF w.t.pte[v] # NoPte THEN Raise(w, "remap")
  ELSE [w EXCEPT !.t.pte[v] = [pa |-> pa, u |-> u]]
mappages(s, v, pa, u) == MapLeaf(walk(s, v), v, pa, u)

\* The mappings must exist; with do_free their pages go back.
uvmunmap(s, V, do_free) ==
  LET t == [s EXCEPT !.t.pte = [v \in Vpns |-> IF v \in V THEN NoPte ELSE @[v]],
                     !.free = IF do_free THEN @ \cup {s.t.pte[v].pa : v \in V} ELSE @]
  IN  IF \E v \in V : s.t.pte[v] = NoPte THEN Raise(s, "uvmunmap: not mapped") ELSE t

Tables(t) == ({t.root} \cup Range(t.mid) \cup Range(t.low)) \ {0}

freewalk(s) ==
  IF \E v \in Vpns : s.t.pte[v] # NoPte THEN Raise(s, "freewalk: leaf")
  ELSE [s EXCEPT !.t = NoTable, !.free = @ \cup Tables(s.t)]

uvmfree(s, sz) == freewalk(uvmunmap(s, 0 .. PGROUNDUP(sz) - 1, TRUE))

\* One page of uvmalloc or uvmcopy: if it cannot be mapped it is given back.
Kept(m, pa) == IF m.ok THEN m ELSE kfree(m, pa)
AddPage(s, v, u) ==
  IF ~s.ok THEN s
  ELSE IF s.free = {} THEN Fail(s)
  ELSE Kept(mappages(Taken(s), v, kalloc(s), u), kalloc(s))

Mapped(s, V) == {v \in V : s.t.pte[v] # NoPte}
AddPages(s, from, to, t) ==
  FoldLeft(LAMBDA a, v : AddPage(a, v, t.pte[v].u), s, [i \in 1 .. to - from |-> from + i - 1])
AllUser == [NoTable EXCEPT !.pte = [v \in Vpns |-> [pa |-> 0, u |-> TRUE]]]

\* Variant: uvmalloc leaves what it has mapped when memory runs out.
UvmallocLeaves(s, oldsz, newsz) ==
  IF newsz < oldsz THEN s ELSE AddPages(s, PGROUNDUP(oldsz), PGROUNDUP(newsz), AllUser)

\* uvmalloc: on failure the pages it mapped are freed again.
Undone(r, V) == IF r.ok THEN r ELSE uvmunmap(r, Mapped(r, V), TRUE)
uvmalloc(s, oldsz, newsz) ==
  LET from == PGROUNDUP(oldsz)
      to == PGROUNDUP(newsz)
  IN  IF newsz < oldsz THEN s ELSE Undone(AddPages(s, from, to, AllUser), from .. to - 1)

uvmdealloc(s, oldsz, newsz) ==
  IF newsz >= oldsz THEN s
  ELSE uvmunmap(s, PGROUNDUP(newsz) .. PGROUNDUP(oldsz) - 1, TRUE)

\* uvmcopy: every page below sz, with its flags.
uvmcopy(s, old, sz) ==
  LET V == 0 .. PGROUNDUP(sz) - 1
  IN  IF \E v \in V : old.pte[v] = NoPte THEN Raise(s, "uvmcopy: page not present")
      ELSE Undone(AddPages(s, 0, PGROUNDUP(sz), old), V)

\* proc_pagetable: the trampoline and the trapframe tf, nothing else.
proc_pagetable(s, tf) ==
  IF ~s.ok THEN s
  ELSE IF s.free = {} THEN Fail(s)
  ELSE LET c == [Taken(s) EXCEPT !.t = [NoTable EXCEPT !.root = kalloc(s)]]
           second(n) == IF n.ok THEN n ELSE freewalk(uvmunmap(n, {TRAMPOLINE}, FALSE))
           first(m) == IF m.ok THEN second(mappages(m, TRAPFRAME, tf, FALSE)) ELSE freewalk(m)
       IN  first(mappages(c, TRAMPOLINE, KernelText, FALSE))

proc_freepagetable(s, sz) ==
  uvmfree(uvmunmap(uvmunmap(s, {TRAMPOLINE}, FALSE), {TRAPFRAME}, FALSE), sz)

----------------------------------------------------------------------------
(* the calls *)

Live(p) == mpanic = "none" /\ um[p] # NoImage

\* The end of a call: s is what it leaves, image the new image of p.
Done(s, p, image) ==
  IF s.panic # "none" THEN mpanic' = s.panic /\ UNCHANGED <<kmem, um>>
  ELSE kmem' = s.free /\ um' = [um EXCEPT ![p] = image] /\ UNCHANGED mpanic

\* allocproc and uvmcopy for the child q; every failure frees what there is.
Forked(s, p) ==
  LET tf == kalloc(s)
      copied(c) == IF c.ok THEN c ELSE proc_freepagetable(kfree(c, tf), 0)
      created(t) == IF t.ok THEN copied(uvmcopy(t, um[p].pt, um[p].sz)) ELSE kfree(t, tf)
  IN  IF s.free = {} THEN Fail(s) ELSE created(proc_pagetable(Taken(s), tf))

fork(p, q) ==
  /\ Live(p) /\ um[q] = NoImage
  /\ \E s \in {Start(NoTable)} : \E f \in {Forked(s, p)} :
       Done(f, q, IF f.ok THEN [tf |-> kalloc(s), pt |-> f.t, sz |-> um[p].sz] ELSE NoImage)

\* sys_sbrk: growproc.  A size below zero wraps and is taken as a size above
\* the present one: nothing changes.
growproc(p, n) ==
  LET sz == um[p].sz
      s == Start(um[p].pt)
      new == IF sz + n < 0 THEN sz ELSE sz + n
  IN  /\ Live(p) /\ PGROUNDUP(sz + n) <= MaxUser
      /\ \E g \in {IF n > 0 THEN uvmalloc(s, sz, new) ELSE uvmdealloc(s, sz, new)} :
           Done(g, p, [um[p] EXCEPT !.pt = g.t, !.sz = IF g.ok THEN new ELSE sz])

\* exec: the segments of the image in turn, good of them readable, then two
\* pages of which the first becomes the guard page of the stack.
Load(s, ends, good) ==
  FoldLeft(LAMBDA a, i :
             IF ~a.s.ok THEN a
             ELSE LET u == uvmalloc(a.s, a.sz, ends[i])
                  IN  [s |-> IF i > good THEN Fail(u) ELSE u,
                       sz |-> IF u.ok /\ ends[i] > a.sz THEN ends[i] ELSE a.sz],
           [s |-> s, sz |-> 0], [i \in 1 .. Len(ends) |-> i])

exec(p, ends, good, argsfit) ==
  LET bad(s, size) == Done(proc_freepagetable(s, size), p, um[p])
      old(c) == proc_freepagetable([c EXCEPT !.t = um[p].pt], um[p].sz)
  IN  /\ Live(p)
      /\ \E t \in {proc_pagetable(Start(NoTable), um[p].tf)} : \E l \in {Load(t, ends, good)} :
           LET sz == 2 * PGROUNDUP(l.sz)
           IN  /\ PGROUNDUP(sz) + 2 <= MaxUser
               /\ IF ~t.ok THEN Done(t, p, um[p])
                  ELSE IF ~l.s.ok THEN bad(l.s, l.sz)
                  ELSE \E u \in {uvmalloc(l.s, sz, sz + 4)} :
                         IF ~u.ok THEN bad(u, sz)
                         ELSE IF ~argsfit THEN bad(u, sz + 4)
                         ELSE LET c == [u EXCEPT !.t.pte[sz \div 2].u = FALSE]
                              IN  Done(old(c), p, [um[p] EXCEPT !.pt = c.t, !.sz = sz + 4])

\* wait: freeproc of a child that has exited.
freeproc(p) ==
  LET s == proc_freepagetable(kfree(Start(um[p].pt), um[p].tf), um[p].sz)
  IN  Live(p) /\ p # FirstMem /\ Done(s, p, NoImage)

----------------------------------------------------------------------------

\* kinit, userinit and uvminit: one page, all the rest is free.
RvMemInit ==
  LET s == [free |-> Frames, t |-> NoTable, ok |-> TRUE, panic |-> "none"]
      t == AddPage(proc_pagetable(Taken(s), kalloc(s)), 0, TRUE)
  IN  /\ kmem = t.free
      /\ um = [p \in MemProcs |-> IF p = FirstMem THEN [tf |-> kalloc(s), pt |-> t.t, sz |-> 2]
                                  ELSE NoImage]
      /\ mpanic = "none"

RvMemNext ==
  \E p \in MemProcs :
    \/ \E q \in MemProcs : fork(p, q)
    \/ \E n \in {-3, 1} : growproc(p, n)
    \/ \E e \in ExecImages : \E good \in 0 .. Len(e) : \E fit \in BOOLEAN : exec(p, e, good, fit)
    \/ freeproc(p)

RvMemSpec == RvMemInit /\ [][RvMemNext]_rvMemVars

----------------------------------------------------------------------------

UserPages(p) == {v \in Vpns : v < TRAPFRAME /\ um[p].pt.pte[v] # NoPte}

\* Where a page can be in use: as a trapframe, a page table or user memory.
Slots4(p) ==
  {<<"tf", p, 0>>} \cup {<<"root", p, 0>>} \cup {<<"mid", p, i>> : i \in 0 .. FANOUT - 1}
  \cup {<<"low", p, i>> : i \in 0 .. FANOUT * FANOUT - 1} \cup {<<"user", p, v>> : v \in UserPages(p)}
PageAt(u) ==
  CASE u[1] = "tf" -> um[u[2]].tf
    [] u[1] = "root" -> um[u[2]].pt.root
    [] u[1] = "mid" -> um[u[2]].pt.mid[u[3]]
    [] u[1] = "low" -> um[u[2]].pt.low[u[3]]
    [] OTHER -> um[u[2]].pt.pte[u[3]].pa

\* kalloc, uvmalloc, uvmcopy, exec and freeproc: after every call, failed ones
\* included, each page is either free or used once, a process has memory
\* exactly below its size with its trapframe mapped, and no call panics.
RvPagesOwned ==
  LET Uses == {u \in UNION {Slots4(p) : p \in MemProcs} : PageAt(u) # 0}
  IN  /\ {PageAt(u) : u \in Uses} = Frames \ kmem
      /\ Cardinality(Uses) + Cardinality(kmem) = NPAGES
      /\ \A p \in MemProcs :
           /\ UserPages(p) = 0 .. PGROUNDUP(um[p].sz) - 1
           /\ um[p].pt.pte[TRAPFRAME].pa = um[p].tf
      /\ mpanic = "none"
==============================================================================

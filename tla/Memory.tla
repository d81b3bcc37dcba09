-------------------------------- MODULE Memory --------------------------------
(***************************************************************************)
(* User memory of the x86 kernel: page tables with copy on write and pages *)
(* filled on demand (mm/vm.c), anonymous mappings (mm/mmap.c), the program *)
(* break (sysproc.c), System V shared memory (ipc/shm.c) and what fork,    *)
(* exit and execve do to an address space.                                 *)
(*                                                                         *)
(* Every process may be on a CPU of its own.  A page table is only used by *)
(* its process; processes meet in the reference counts, each access under  *)
(* pmm_lock, and in the segment table under shm_lock.  A step is a system  *)
(* call or fault up to the point where it acts on something it read before *)
(* in another locked section.                                              *)
(*                                                                         *)
(* An address is a virtual page.  Page tables, stacks and kernel objects   *)
(* come from the same pool and are not represented: an allocation may fail *)
(* at any time.  The TLB is not represented.                               *)
(***************************************************************************)
EXTENDS Integers, FiniteSets, Sequences, FiniteSetsExt, Functions

CONSTANTS
  Procs, InitProc,
  NVPages,          \* user pages below USERHEAP_TOP
  NImage,           \* pages of the loaded program, up to brk_start
  Pages, NoPage,    \* pages of the buddy allocator
  Values,           \* what a program writes, besides zero
  ShmIds, NoShm,    \* indices of shm_table
  MaxSeg,           \* largest segment, in pages
  NVMA,
  WritableBuffers   \* programs hand system calls only buffers they may write

ASSUME MemoryAssumption ==
  /\ InitProc \in Procs
  /\ NVPages \in Nat /\ NImage \in 1..NVPages
  /\ NoPage \notin Pages /\ NoShm \notin ShmIds
  /\ ShmIds \subseteq Nat /\ MaxSeg \in Nat /\ NVMA \in Nat
  /\ Values \subseteq Nat \ {0}
  /\ WritableBuffers \in BOOLEAN

VARIABLES
  pc,         \* where p is: "none" without a process, "child" while fork builds it
  pte,        \* pte[p][v]
  brk,        \* last page of the heap
  vmas,       \* used entries of mm->vmas
  refcount,   \* _refcount of a page, 0 when it is in the buddy allocator
  content,    \* what a page in use holds; alloc_pages clears it, so a free one is 0
  shm,        \* shm_table
  va,         \* uvm_cow_fault: va
  mem,        \* uvm_cow_fault: mem
  child,      \* fork_copy: np
  todo        \* VMAs fork_copy or do_shmat still has to handle

procVars == <<va, mem, child, todo>>
vars == <<pc, pte, brk, vmas, refcount, content, shm, procVars>>

VPages == 1..NVPages
Image == 1..NImage
Contents == Values \cup {0}
NoPte == [page |-> NoPage, w |-> FALSE, cow |-> FALSE]
NoTable == [v \in VPages |-> NoPte]
NoSeg == [inuse |-> FALSE, dest |-> FALSE, nattch |-> 0, pages |-> <<>>]

Pte == [page : Pages \cup {NoPage}, w : BOOLEAN, cow : BOOLEAN]
Vma == [start : VPages, end : 2..(NVPages + 1), write : BOOLEAN, shmid : ShmIds \cup {NoShm}]
Seg == [inuse : BOOLEAN, dest : BOOLEAN, nattch : Nat, pages : Seq(Pages)]

Present(p, v) == pte[p][v].page # NoPage
Span(m) == m.start .. (m.end - 1)
Heap(p) == (NImage + 1) .. brk[p]
IsShm(m) == m.shmid # NoShm
FreePages == {g \in Pages : refcount[g] = 0}
User(p) == pc[p] = "user"
Goto(p, l) == pc' = [pc EXCEPT ![p] = l]

-------------------------------------------------------------------------------
(* References. *)

\* How many entries of table f map page g.
Maps(f, g) == Cardinality({v \in DOMAIN f : f[v].page = g})

\* The contents c after the step, in which pages may have become free.
Kept(c) == content' = [g \in Pages |-> IF refcount'[g] = 0 THEN 0 ELSE c[g]]

\* put_page for every entry of the old table, get_page for the new.
Retable(p, f) ==
  /\ pte' = [pte EXCEPT ![p] = f]
  /\ refcount' = [g \in Pages |-> refcount[g] - Maps(pte[p], g) + Maps(f, g)]
  /\ Kept(content)

Unmapped(f, S) == [v \in VPages |-> IF v \in S THEN NoPte ELSE f[v]]

uvmunmap(p, S) == Retable(p, Unmapped(pte[p], S))

-------------------------------------------------------------------------------
(* Reads and writes.  A read of a present page changes nothing. *)

\* A store in ring 3 that the page table allows.
UserWrite(p, v, x) ==
  /\ User(p) /\ Present(p, v) /\ pte[p][v].w
  /\ content' = [content EXCEPT ![pte[p][v].page] = x]
  /\ UNCHANGED <<pc, pte, brk, vmas, refcount, shm, procVars>>

\* copyout once ensure_user_page has filled the page or broken its COW: it goes
\* through the kernel's own mapping and does not look at PTE_W.
copyout(p, v, x) ==
  /\ User(p) /\ Present(p, v) /\ ~pte[p][v].cow
  /\ WritableBuffers => pte[p][v].w
  /\ content' = [content EXCEPT ![pte[p][v].page] = x]
  /\ UNCHANGED <<pc, pte, brk, vmas, refcount, shm, procVars>>

\* uvm_cow_fault up to page_refcount: the only owner gets the page back.
CowFault(p, v) ==
  /\ User(p) /\ Present(p, v) /\ pte[p][v].cow
  /\ \/ /\ refcount[pte[p][v].page] = 1
        /\ pte' = [pte EXCEPT ![p][v].w = TRUE, ![p][v].cow = FALSE]
        /\ UNCHANGED <<pc, va>>
     \/ /\ refcount[pte[p][v].page] # 1
        /\ Goto(p, "cow")
        /\ va' = [va EXCEPT ![p] = v]
        /\ UNCHANGED pte
  /\ UNCHANGED <<brk, vmas, refcount, content, shm, mem, child, todo>>

\* The copy, or the failure of alloc_page.
CowCopy(p) ==
  /\ pc[p] = "cow"
  /\ \/ \E g \in FreePages :
          /\ Goto(p, "cow_put")
          /\ mem' = [mem EXCEPT ![p] = g]
          /\ refcount' = [refcount EXCEPT ![g] = 1]
          /\ content' = [content EXCEPT ![g] = content[pte[p][va[p]].page]]
          /\ UNCHANGED va
     \/ /\ Goto(p, "user")
        /\ va' = [va EXCEPT ![p] = 1]
        /\ UNCHANGED <<mem, refcount, content>>
  /\ UNCHANGED <<pte, brk, vmas, shm, child, todo>>

\* Variant of CowPut: the old page keeps the reference.
CowPutLeak(p) ==
  /\ pc[p] = "cow_put"
  /\ Goto(p, "user")
  /\ pte' = [pte EXCEPT ![p][va[p]] = [page |-> mem[p], w |-> TRUE, cow |-> FALSE]]
  /\ mem' = [mem EXCEPT ![p] = NoPage]
  /\ va' = [va EXCEPT ![p] = 1]
  /\ UNCHANGED <<refcount, content, brk, vmas, shm, child, todo>>

CowPut(p) ==
  LET old == pte[p][va[p]].page IN
  /\ pc[p] = "cow_put"
  /\ Goto(p, "user")
  /\ refcount' = [refcount EXCEPT ![old] = @ - 1]
  /\ pte' = [pte EXCEPT ![p][va[p]] = [page |-> mem[p], w |-> TRUE, cow |-> FALSE]]
  /\ Kept(content)
  /\ mem' = [mem EXCEPT ![p] = NoPage]
  /\ va' = [va EXCEPT ![p] = 1]
  /\ UNCHANGED <<brk, vmas, shm, child, todo>>

\* A zero page for the heap or an anonymous mapping.  A page of a segment is
\* never missing: do_shmat maps all of them.
uvm_demand_fault(p, v) ==
  /\ User(p) /\ ~Present(p, v)
  /\ \E w \in BOOLEAN, g \in FreePages :
       /\ \/ v \in Heap(p) /\ w
          \/ \E m \in vmas[p] : v \in Span(m) /\ ~IsShm(m) /\ w = m.write
       /\ Retable(p, [pte[p] EXCEPT ![v] = [page |-> g, w |-> w, cow |-> FALSE]])
  /\ UNCHANGED <<pc, brk, vmas, shm, procVars>>

-------------------------------------------------------------------------------
(* brk, mmap, munmap. *)

vma_overlap_range(p, S) == \E m \in vmas[p] : Span(m) \cap S # {}

sys_brk(p, new) ==
  /\ User(p) /\ new >= NImage
  /\ \/ new > brk[p] /\ ~vma_overlap_range(p, (brk[p] + 1)..new) /\ UNCHANGED <<pte, refcount, content>>
     \/ new < brk[p] /\ uvmunmap(p, (new + 1)..brk[p])
  /\ brk' = [brk EXCEPT ![p] = new]
  /\ UNCHANGED <<pc, vmas, shm, procVars>>

region_available(p, S) ==
  /\ \A v \in S : v > brk[p] /\ ~Present(p, v)
  /\ ~vma_overlap_range(p, S)

\* With MAP_FIXED any free region; find_mmap_addr takes the highest one.
do_mmap(p, m) ==
  /\ User(p) /\ ~IsShm(m)
  /\ region_available(p, Span(m)) /\ Cardinality(vmas[p]) < NVMA
  /\ vmas' = [vmas EXCEPT ![p] = @ \cup {m}]
  /\ UNCHANGED <<pc, pte, brk, refcount, content, shm, procVars>>

do_munmap(p, m) ==
  /\ User(p) /\ m \in vmas[p] /\ ~IsShm(m)
  /\ uvmunmap(p, Span(m))
  /\ vmas' = [vmas EXCEPT ![p] = @ \ {m}]
  /\ UNCHANGED <<pc, brk, shm, procVars>>

-------------------------------------------------------------------------------
(* Shared memory. *)

shm_get(i) == shm[i].inuse

do_shmget(p, s) ==
  LET unused == {i \in ShmIds : ~shm[i].inuse} IN
  /\ User(p) /\ unused # {}
  /\ shm' = [shm EXCEPT ![Min(unused)] = [NoSeg EXCEPT !.inuse = TRUE, !.pages = s]]
  /\ refcount' = [g \in Pages |-> IF \E k \in DOMAIN s : s[k] = g THEN 1 ELSE refcount[g]]
  /\ UNCHANGED <<pc, pte, brk, vmas, content, procVars>>

\* shm_map_range: the first n pages of segment s in table f, over what is there.
MapSeg(f, m, s, n) ==
  [v \in VPages |-> LET k == v - m.start + 1 IN
     IF k \in 1..n THEN [page |-> s.pages[k], w |-> m.write, cow |-> FALSE] ELSE f[v]]

\* do_shmat reads the length of the segment and makes the VMA without shm_lock.
do_shmat(p, m) ==
  /\ User(p) /\ IsShm(m)
  /\ shm_get(m.shmid) /\ ~shm[m.shmid].dest
  /\ m.end - m.start = Len(shm[m.shmid].pages)
  /\ region_available(p, Span(m)) /\ Cardinality(vmas[p]) < NVMA
  /\ vmas' = [vmas EXCEPT ![p] = @ \cup {m}]
  /\ todo' = [todo EXCEPT ![p] = {m}]
  /\ Goto(p, "shmat")
  /\ UNCHANGED <<pte, brk, refcount, content, shm, va, mem, child>>

\* The second half maps the segment that has this identifier now.  A failure
\* leaves the pages mapped so far.
ShmatMap(p) ==
  /\ pc[p] = "shmat"
  /\ \E m \in todo[p] : LET s == shm[m.shmid] IN
       \/ /\ shm_get(m.shmid) /\ ~s.dest
          /\ Retable(p, MapSeg(pte[p], m, s, Len(s.pages)))
          /\ shm' = [shm EXCEPT ![m.shmid].nattch = @ + 1]
          /\ UNCHANGED vmas
       \/ /\ \/ shm_get(m.shmid) /\ ~s.dest
                /\ \E n \in 0..(Len(s.pages) - 1) : Retable(p, MapSeg(pte[p], m, s, n))
             \/ (~shm_get(m.shmid) \/ s.dest) /\ UNCHANGED <<pte, refcount, content>>
          /\ vmas' = [vmas EXCEPT ![p] = @ \ {m}]
          /\ UNCHANGED shm
  /\ Goto(p, "user")
  /\ todo' = [todo EXCEPT ![p] = {}]
  /\ UNCHANGED <<brk, va, mem, child>>

\* Segment s after n processes have left it: shm_try_destroy_locked.
Left(s, n) ==
  LET nattch == Max({0, s.nattch - n}) IN
  IF s.dest /\ nattch = 0 THEN NoSeg ELSE [s EXCEPT !.nattch = nattch]

\* shm_table after the mappings ms are gone.
Detached(ms) ==
  [i \in ShmIds |-> LET n == Cardinality({m \in ms : m.shmid = i}) IN
     IF n > 0 /\ shm_get(i) THEN Left(shm[i], n) ELSE shm[i]]

SegMaps(t, g) == Cardinality({x \in ShmIds \X (1..MaxSeg) :
                   x[2] \in DOMAIN t[x[1]].pages /\ t[x[1]].pages[x[2]] = g})

\* Variant of Reshare: pages are put once as part of a segment, once with the table.
ReshareTwice(p, f, t, c) ==
  /\ pte' = [pte EXCEPT ![p] = f]
  /\ shm' = t
  /\ refcount' = [g \in Pages |-> refcount[g] - 2 * Maps(pte[p], g) + Maps(f, g)]
  /\ Kept(c)

\* Variant of Reshare: no shm_free_pages.
ReshareLeak(p, f, t, c) ==
  /\ pte' = [pte EXCEPT ![p] = f]
  /\ shm' = t
  /\ refcount' = [g \in Pages |-> refcount[g] - Maps(pte[p], g) + Maps(f, g)]
  /\ Kept(c)

\* Table f of p and segments t replace the old ones.
Reshare(p, f, t, c) ==
  /\ pte' = [pte EXCEPT ![p] = f]
  /\ shm' = t
  /\ refcount' = [g \in Pages |-> refcount[g] - Maps(pte[p], g) + Maps(f, g)
                                              - SegMaps(shm, g) + SegMaps(t, g)]
  /\ Kept(c)

shm_munmap_vma(p, m) ==
  /\ User(p) /\ m \in vmas[p] /\ IsShm(m)
  /\ Reshare(p, Unmapped(pte[p], Span(m)), Detached({m}), content)
  /\ vmas' = [vmas EXCEPT ![p] = @ \ {m}]
  /\ UNCHANGED <<pc, brk, procVars>>

\* do_shmctl(IPC_RMID)
do_shmctl(p, i) ==
  /\ User(p) /\ shm_get(i)
  /\ Reshare(p, pte[p], [shm EXCEPT ![i] = Left([@ EXCEPT !.dest = TRUE], 0)], content)
  /\ UNCHANGED <<pc, brk, vmas, procVars>>

-------------------------------------------------------------------------------
(* fork, exit, execve. *)

\* Shared pages lose PTE_W; those that had it are copied on write.
Cow(e) == [e EXCEPT !.w = FALSE, !.cow = e.w \/ e.cow]

\* Variant of uvmcopy: the parent keeps PTE_W.
uvmcopyChildOnly(p, q) ==
  LET f == [v \in VPages |-> Cow(pte[p][v])] IN
  /\ pte' = [pte EXCEPT ![q] = f]
  /\ refcount' = [g \in Pages |-> refcount[g] + Maps(f, g)]

uvmcopy(p, q) ==
  LET f == [v \in VPages |-> Cow(pte[p][v])] IN
  /\ pte' = [pte EXCEPT ![p] = f, ![q] = f]
  /\ refcount' = [g \in Pages |-> refcount[g] + Maps(f, g)]

\* fork_copy up to vma_copy.
ForkCopy(p, q) ==
  /\ User(p) /\ pc[q] = "none"
  /\ uvmcopy(p, q)
  /\ brk' = [brk EXCEPT ![q] = brk[p]]
  /\ vmas' = [vmas EXCEPT ![q] = vmas[p]]
  /\ pc' = [pc EXCEPT ![p] = "fork", ![q] = "child"]
  /\ child' = [child EXCEPT ![p] = q]
  /\ todo' = [todo EXCEPT ![p] = {m \in vmas[p] : IsShm(m)}]
  /\ UNCHANGED <<content, shm, va, mem>>

\* uvmcopy fails at page v; the child's table is destroyed, the parent's stays
\* as it was left.
ForkFails(p, v) ==
  /\ User(p) /\ Present(p, v)
  /\ pte' = [pte EXCEPT ![p] = [u \in VPages |-> IF u <= v THEN Cow(@[u]) ELSE @[u]]]
  /\ UNCHANGED <<pc, brk, vmas, refcount, content, shm, procVars>>

\* One turn of the loop of shm_fork_fix.
shm_fork_fix(p) ==
  LET q == child[p] IN
  /\ pc[p] = "fork"
  /\ \E m \in todo[p] : LET s == shm[m.shmid] IN
       /\ \/ /\ ~shm_get(m.shmid) \/ s.dest
             /\ uvmunmap(q, Span(m))
             /\ vmas' = [vmas EXCEPT ![q] = @ \ {m}]
             /\ UNCHANGED shm
          \/ /\ shm_get(m.shmid) /\ ~s.dest
             /\ LET f == MapSeg(pte[p], m, s, Len(s.pages))
                    h == MapSeg(pte[q], m, s, Len(s.pages))
                IN  /\ pte' = [pte EXCEPT ![p] = f, ![q] = h]
                    /\ refcount' = [g \in Pages |->
                         refcount[g] - Maps(pte[p], g) + Maps(f, g)
                                     - Maps(pte[q], g) + Maps(h, g)]
                    /\ Kept(content)
             /\ shm' = [shm EXCEPT ![m.shmid].nattch = @ + 1]
             /\ UNCHANGED vmas
       /\ todo' = [todo EXCEPT ![p] = @ \ {m}]
  /\ UNCHANGED <<pc, brk, va, mem, child>>

ForkDone(p) ==
  /\ pc[p] = "fork" /\ todo[p] = {}
  /\ pc' = [pc EXCEPT ![p] = "user", ![child[p]] = "user"]
  /\ child' = [child EXCEPT ![p] = p]
  /\ UNCHANGED <<pte, brk, vmas, refcount, content, shm, va, mem, todo>>

\* Variant of proc_drop_mm: no shm_detach_all.
proc_drop_mm_attached(p) ==
  /\ Reshare(p, NoTable, shm, content)
  /\ vmas' = [vmas EXCEPT ![p] = {}]
  /\ brk' = [brk EXCEPT ![p] = 0]

\* proc_drop_mm
proc_drop_mm(p) ==
  /\ Reshare(p, NoTable, Detached(vmas[p]), content)
  /\ vmas' = [vmas EXCEPT ![p] = {}]
  /\ brk' = [brk EXCEPT ![p] = 0]

\* No page for the child's kernel stack: proc_free.
ForkNoStack(p) ==
  /\ pc[p] = "fork" /\ todo[p] = {}
  /\ proc_drop_mm(child[p])
  /\ pc' = [pc EXCEPT ![p] = "user", ![child[p]] = "none"]
  /\ child' = [child EXCEPT ![p] = p]
  /\ UNCHANGED <<va, mem, todo>>

Exit(p) ==
  /\ User(p) /\ p # InitProc
  /\ proc_drop_mm(p)
  /\ Goto(p, "none")
  /\ UNCHANGED procVars

\* The table of a new image: page h[v] at v, writable if w[v].
Loaded(h, w) ==
  [v \in VPages |-> IF v \in Image THEN [page |-> h[v], w |-> w[v], cow |-> FALSE] ELSE NoPte]

Holding(h, x) ==
  [g \in Pages |-> IF \E v \in Image : h[v] = g THEN x[CHOOSE v \in Image : h[v] = g] ELSE content[g]]

\* exec_load: the new image is complete before the old address space is dropped.
exec_load(p, h, w, x) ==
  /\ User(p)
  /\ Reshare(p, Loaded(h, w), Detached(vmas[p]), Holding(h, x))
  /\ vmas' = [vmas EXCEPT ![p] = {}]
  /\ brk' = [brk EXCEPT ![p] = NImage]
  /\ UNCHANGED <<pc, procVars>>

-------------------------------------------------------------------------------

\* Pages for an image, each used once.
Frames == {h \in [Image -> Pages] : \A u, v \in Image : h[u] = h[v] => u = v}

\* init has been loaded and has a heap of no pages.
Init ==
  \E h \in Frames, w \in [Image -> BOOLEAN] :
    /\ pc = [p \in Procs |-> IF p = InitProc THEN "user" ELSE "none"]
    /\ pte = [p \in Procs |-> IF p = InitProc THEN Loaded(h, w) ELSE NoTable]
    /\ refcount = [g \in Pages |-> Maps(Loaded(h, w), g)]
    /\ brk = [p \in Procs |-> IF p = InitProc THEN NImage ELSE 0]
    /\ vmas = [p \in Procs |-> {}]
    /\ content = [g \in Pages |-> 0]
    /\ shm = [i \in ShmIds |-> NoSeg]
    /\ va = [p \in Procs |-> 1]
    /\ mem = [p \in Procs |-> NoPage]
    /\ child = [p \in Procs |-> p]
    /\ todo = [p \in Procs |-> {}]

Access(p) ==
  \E v \in VPages :
    \/ \E x \in Contents : UserWrite(p, v, x) \/ copyout(p, v, x)
    \/ CowFault(p, v)
    \/ uvm_demand_fault(p, v)

Remap(p) ==
  \/ \E new \in VPages : sys_brk(p, new)
  \/ \E m \in Vma : m.start < m.end /\ (do_mmap(p, m) \/ do_shmat(p, m))
  \/ \E m \in vmas[p] : do_munmap(p, m) \/ shm_munmap_vma(p, m)

Segments(p) ==
  \/ \E n \in 1..MaxSeg : \E s \in [1..n -> FreePages] :
       IsInjective(s) /\ do_shmget(p, s)
  \/ \E i \in ShmIds : do_shmctl(p, i)

Lives(p) ==
  \/ \E q \in Procs : ForkCopy(p, q)
  \/ \E v \in VPages : ForkFails(p, v)
  \/ Exit(p)
  \/ \E h \in Frames, w \in [Image -> BOOLEAN], x \in [Image -> Contents] :
       (\A v \in Image : h[v] \in FreePages) /\ exec_load(p, h, w, x)

Next ==
  \E p \in Procs :
    \/ Access(p) \/ Remap(p) \/ Segments(p) \/ Lives(p)
    \/ CowCopy(p) \/ CowPut(p) \/ ShmatMap(p)
    \/ shm_fork_fix(p) \/ ForkDone(p) \/ ForkNoStack(p)

Spec == Init /\ [][Next]_vars

-------------------------------------------------------------------------------
(* Properties. *)

\* The shape of the state.
MemoryTypeOK ==
  /\ pc \in [Procs -> {"none", "child", "user", "cow", "cow_put", "shmat", "fork"}]
  /\ pte \in [Procs -> [VPages -> Pte]]
  /\ brk \in [Procs -> 0..NVPages]
  /\ \A p \in Procs : vmas[p] \subseteq Vma /\ todo[p] \subseteq Vma
  /\ refcount \in [Pages -> Nat]
  /\ content \in [Pages -> Contents]
  /\ shm \in [ShmIds -> Seg]

\* _refcount of a page is the number of page table entries, segment slots and
\* faults in progress that hold it: get_page and put_page balance on every path
\* of fork, exit, execve, munmap and the faults, on success and on failure.
RefsExact ==
  \A g \in Pages :
    refcount[g] = Cardinality({x \in Procs \X VPages : pte[x[1]][x[2]].page = g})
                  + SegMaps(shm, g)
                  + Cardinality({p \in Procs : mem[p] = g})

\* What p reads at v.
View(p, v) == IF Present(p, v) THEN content[pte[p][v].page] ELSE 0

\* The pages of p that are not in a shared segment.
Private(p) == Image \cup Heap(p) \cup UNION {Span(m) : m \in {n \in vmas[p] : ~IsShm(n)}}

Alive == {p \in Procs : pc[p] \notin {"none", "child"}}

Abstract == INSTANCE AddressSpaces WITH
  alive <- Alive,
  space <- [p \in Procs |-> IF p \in Alive THEN [v \in Private(p) |-> View(p, v)]
                                           ELSE [v \in {} |-> 0]]

\* Copy on write, pages filled on demand and reference counts together give
\* every process an address space of its own.
PrivateSpaces == Abstract!Spec

\* nattch counts the processes' attachments: all shm VMAs but those that do_shmat
\* or fork_copy is about to count, so a segment goes when its last user does.
AttachCounted ==
  \A i \in ShmIds : shm[i].nattch =
    Cardinality(UNION {{p} \X {m \in vmas[p] : m.shmid = i} : p \in Procs})
    - Cardinality(UNION {{p} \X {m \in todo[p] : m.shmid = i} : p \in Procs})

\* A page that a process has attached is the page of the segment: "fork: uvmcopy
\* marks writable pages COW, shm_fork_fix then restores them shared and writable".
SegmentShared ==
  \A p \in Procs : User(p) => \A m \in vmas[p] : IsShm(m) =>
    \A v \in Span(m) : Present(p, v) =>
      \E k \in DOMAIN shm[m.shmid].pages : shm[m.shmid].pages[k] = pte[p][v].page

\* Nobody writes a page that fork left read-only and shared: "a write is a
\* genuine protection fault".
ReadOnlyKept ==
  [][\A p \in Procs, v \in VPages :
       (/\ Present(p, v) /\ ~pte[p][v].w /\ ~pte[p][v].cow /\ pte'[p][v] = pte[p][v]
        /\ refcount[pte[p][v].page] > 1)
         => content'[pte[p][v].page] = content[pte[p][v].page]]_vars
===============================================================================

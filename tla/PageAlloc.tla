------------------------------ MODULE PageAlloc ------------------------------
(***************************************************************************)
(* Physical memory of the x86 kernel: the buddy allocator of mm/buddy.c    *)
(* and the kernel heap of mm/slab.c on top of it.                          *)
(*                                                                         *)
(* Both run under one lock each (kmem_lock is held around pmm_lock), so a  *)
(* call is one step.  A page descriptor keeps the order it had when it was *)
(* last on a free list: merging does not clear the order of the half that  *)
(* is absorbed.  Heap sizes are in units of which PAGE make a page and     *)
(* include the header.                                                     *)
(***************************************************************************)
EXTENDS Integers, FiniteSets, SequencesExt

CONSTANTS
  NRPAGES,         \* pages of the buddy pool
  MAX_ORDER,       \* orders are 0 .. MAX_ORDER - 1
  PAGE,            \* heap units in a page
  BSIZES,          \* the block sizes of the caches, increasing
  HeapSizes,       \* sizes kmalloc is asked for
  MaxPageRef,      \* bound: references to a shared page
  MaxObjects       \* bound: heap objects in use

VARIABLES
  mem_map,         \* per page: order and _refcount
  free_list,       \* per order: the free blocks, by first page
  nr_free,
  cache,           \* per cache: its free blocks <<page, index>>
  nr_kfree,
  blocks,          \* what the callers of alloc_pages hold: <<first page, order>>
  objects          \* what the callers of kmalloc hold

pageAllocVars == <<mem_map, free_list, nr_free, cache, nr_kfree, blocks, objects>>

PAGE_INUSE == MAX_ORDER
Orders == 0 .. MAX_ORDER - 1
Caches == 1 .. Len(BSIZES)

\* s = [map, lists, nr]: the state of the buddy allocator.
Pool == [map |-> mem_map, lists |-> free_list, nr |-> nr_free]

free_area_add(s, i, o) ==
  [s EXCEPT !.map[i].order = o, !.lists[o] = Append(@, i), !.nr = @ + 2^o]
free_area_del(s, i, o) ==
  [s EXCEPT !.lists[o] = SelectSeq(@, LAMBDA j : j # i), !.nr = @ - 2^o]

\* idx ^ (1 << order)
page_buddy(i, o) == IF (i \div 2^o) % 2 = 0 THEN i + 2^o ELSE i - 2^o

RECURSIVE FreeWithoutCheck(_, _, _), __free_one_page(_, _, _), Split(_, _, _, _)

\* Variant: a buddy that is free at another order is merged too.
FreeWithoutCheck(s, i, o) ==
  LET b == page_buddy(i, o)
  IN  IF o < MAX_ORDER - 1 /\ b < NRPAGES /\ s.map[b].order # PAGE_INUSE
      THEN FreeWithoutCheck(free_area_del(s, b, o), IF b < i THEN b ELSE i, o + 1)
      ELSE free_area_add(s, i, o)

\* Merge with the buddy as long as its descriptor says it is free at this order.
__free_one_page(s, i, o) ==
  LET b == page_buddy(i, o)
  IN  IF o < MAX_ORDER - 1 /\ b < NRPAGES /\ s.map[b].order = o
      THEN __free_one_page(free_area_del(s, b, o), IF b < i THEN b ELSE i, o + 1)
      ELSE free_area_add(s, i, o)

\* The upper halves of a block go to the lists below it.
Split(s, i, from, to) ==
  IF from = to THEN s
  ELSE Split(free_area_add(s, i + 2^(from - 1), from - 1), i, from - 1, to)

Fitting(s, o) == {p \in Orders : p >= o /\ s.lists[p] # <<>>}
Smallest(S) == CHOOSE x \in S : \A y \in S : x <= y

\* The first block of the smallest order that fits.
FirstFit(s, o) == Head(s.lists[Smallest(Fitting(s, o))])
__alloc_pages(s, o) ==
  LET p == Smallest(Fitting(s, o))
      i == FirstFit(s, o)
      t == Split(free_area_del(s, i, p), i, p, o)
  IN  [t EXCEPT !.map[i] = [order |-> PAGE_INUSE, ref |-> 1]]

SetPool(s) == mem_map' = s.map /\ free_list' = s.lists /\ nr_free' = s.nr

----------------------------------------------------------------------------
(* pages *)

alloc_pages(o) ==
  /\ Fitting(Pool, o) # {}
  /\ SetPool(__alloc_pages(Pool, o))
  /\ blocks' = blocks \cup {<<FirstFit(Pool, o), o>>}
  /\ UNCHANGED <<cache, nr_kfree, objects>>

\* put_page: the last reference frees the page.
put_page(s, i) ==
  LET t == [s EXCEPT !.map[i].ref = @ - 1]
  IN  IF t.map[i].ref = 0 THEN __free_one_page(t, i, 0) ELSE t

free_pages(b) ==
  /\ SetPool(IF b[2] = 0 THEN put_page(Pool, b[1]) ELSE __free_one_page(Pool, b[1], b[2]))
  /\ blocks' = IF b[2] = 0 /\ mem_map[b[1]].ref > 1 THEN blocks ELSE blocks \ {b}
  /\ UNCHANGED <<cache, nr_kfree, objects>>

get_page(b) ==
  /\ b[2] = 0 /\ mem_map[b[1]].ref < MaxPageRef
  /\ mem_map' = [mem_map EXCEPT ![b[1]].ref = @ + 1]
  /\ UNCHANGED <<free_list, nr_free, cache, nr_kfree, blocks, objects>>

----------------------------------------------------------------------------
(* the heap *)

cache_index(need) == Smallest({c \in Caches : BSIZES[c] >= need})

\* More than the largest block: whole pages, with the order in the header.
LargeOrder(need) == Smallest({o \in Orders : PAGE * 2^o >= need})
KmallocPages(need) ==
  LET o == LargeOrder(need)
  IN  /\ need > BSIZES[Len(BSIZES)] /\ Fitting(Pool, o) # {}
      /\ SetPool(__alloc_pages(Pool, o))
      /\ objects' = objects \cup {[at |-> <<FirstFit(Pool, o), 0>>, page |-> TRUE, size |-> o]}
      /\ UNCHANGED <<cache, nr_kfree, blocks>>

\* cache_refill, if the list is empty, and the first block of the list.
Refill(c, i) == [k \in 1 .. PAGE \div BSIZES[c] |-> <<i, PAGE \div BSIZES[c] - k>>]
kmalloc(need) ==
  LET c == cache_index(need)
      empty == cache[c] = <<>>
      list == IF empty THEN Refill(c, FirstFit(Pool, 0)) ELSE cache[c]
  IN  /\ need <= BSIZES[Len(BSIZES)]
      /\ empty => Fitting(Pool, 0) # {}       \* else panic
      /\ IF empty THEN SetPool(__alloc_pages(Pool, 0))
         ELSE UNCHANGED <<mem_map, free_list, nr_free>>
      /\ cache' = [cache EXCEPT ![c] = Tail(list)]
      /\ nr_kfree' = nr_kfree + (IF empty THEN PAGE \div BSIZES[c] ELSE 0) - 1
      /\ objects' = objects \cup {[at |-> Head(list), page |-> FALSE, size |-> BSIZES[c]]}
      /\ UNCHANGED blocks

kfree(h) ==
  /\ objects' = objects \ {h}
  /\ IF h.page
     THEN /\ SetPool(IF h.size = 0 THEN put_page(Pool, h.at[1]) ELSE __free_one_page(Pool, h.at[1], h.size))
          /\ UNCHANGED <<cache, nr_kfree, blocks>>
     ELSE /\ cache' = [cache EXCEPT ![cache_index(h.size)] = <<h.at>> \o @]
          /\ nr_kfree' = nr_kfree + 1
          /\ UNCHANGED <<mem_map, free_list, nr_free, blocks>>

----------------------------------------------------------------------------

\* pmm_init: the largest aligned blocks that fit, in address order.
RECURSIVE FreeFrom(_, _)
FreeFrom(s, i) ==
  IF i = NRPAGES THEN s
  ELSE LET o == CHOOSE x \in Orders :
                  /\ i % 2^x = 0 /\ i + 2^x <= NRPAGES
                  /\ \A y \in Orders : y > x => i % 2^y # 0 \/ i + 2^y > NRPAGES
       IN  FreeFrom(__free_one_page(s, i, o), i + 2^o)

pmm_init ==
  FreeFrom([map |-> [i \in 0 .. NRPAGES - 1 |-> [order |-> PAGE_INUSE, ref |-> 0]],
            lists |-> [o \in Orders |-> <<>>], nr |-> 0], 0)

PageAllocInit ==
  /\ mem_map = pmm_init.map /\ free_list = pmm_init.lists /\ nr_free = pmm_init.nr
  /\ cache = [c \in Caches |-> <<>>] /\ nr_kfree = 0
  /\ blocks = {} /\ objects = {}

PageAllocNext ==
  \/ \E o \in Orders : alloc_pages(o)
  \/ \E b \in blocks : free_pages(b) \/ get_page(b)
  \/ \E need \in HeapSizes :
       Cardinality(objects) < MaxObjects /\ (KmallocPages(need) \/ kmalloc(need))
  \/ \E h \in objects : kfree(h)

PageAllocSpec == PageAllocInit /\ [][PageAllocNext]_pageAllocVars

----------------------------------------------------------------------------

FreeBlocks == UNION {{<<i, o>> : i \in Range(free_list[o])} : o \in Orders}
SlabPages(c) ==
  {b[1] : b \in Range(cache[c])}
  \cup {h.at[1] : h \in {k \in objects : ~k.page /\ k.size = BSIZES[c]}}
\* Everything the pool is divided into.
Parts ==
  FreeBlocks \cup blocks
  \cup {<<h.at[1], h.size>> : h \in {k \in objects : k.page}}
  \cup {<<i, 0>> : i \in UNION {SlabPages(c) : c \in Caches}}
PagesOf(b) == b[1] .. b[1] + 2^b[2] - 1

\* __alloc_pages, __free_one_page, kmalloc and kfree: whatever was split and
\* merged before, the free blocks and those handed out divide the pool without
\* overlap, no two free buddies are left unmerged, nr_free is right, and every
\* block of a heap page is free or handed out once.
MemoryDivided ==
  /\ \A i \in 0 .. NRPAGES - 1 : Cardinality({b \in Parts : i \in PagesOf(b)}) = 1
  /\ \A b \in FreeBlocks : PagesOf(b) \subseteq 0 .. NRPAGES - 1 /\ mem_map[b[1]].order = b[2]
  /\ \A b \in FreeBlocks : b[2] < MAX_ORDER - 1 => <<page_buddy(b[1], b[2]), b[2]>> \notin FreeBlocks
  /\ nr_free = Cardinality(UNION {PagesOf(b) : b \in FreeBlocks})
  /\ \A c \in Caches :
       LET given == {h.at : h \in {k \in objects : ~k.page /\ k.size = BSIZES[c]}}
       IN  /\ Range(cache[c]) \cap given = {}
           /\ Len(cache[c]) + Cardinality(given) = (PAGE \div BSIZES[c]) * Cardinality(SlabPages(c))
           /\ Cardinality(Range(cache[c])) = Len(cache[c])
  /\ nr_kfree = Cardinality(UNION {Range(cache[c]) : c \in Caches})
==============================================================================

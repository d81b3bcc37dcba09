------------------------------ MODULE Umalloc -------------------------------
(***************************************************************************)
(* malloc and free of RISC-V user programs (riscv/lib/umalloc.c): a ring   *)
(* of free blocks in order of address, with the static header base in it.  *)
(*                                                                         *)
(* An address counts headers.  base is 0 and the heap starts at HeapStart; *)
(* sbrk hands out what follows, up to HeapEnd.  A program has one thread,  *)
(* so a call is one step.                                                  *)
(***************************************************************************)
EXTENDS Integers, FiniteSets

CONSTANTS
  HeapStart, HeapEnd,
  MinUnits,        \* headers morecore asks for at least
  MallocUnits      \* sizes of requests, in headers, the block's own included

base == 0

UmallocAssumption ==
  /\ HeapStart \in Nat \ {0, 1} /\ HeapEnd \in Nat /\ HeapStart <= HeapEnd
  /\ MinUnits \in Nat \ {0} /\ MallocUnits \subseteq Nat \ {0, 1}

VARIABLES
  ring,     \* ring[a]: next block and size of the free block at a
  freep,    \* where searches start, -1 before the first malloc
  top,      \* what sbrk returns next
  given     \* given[a]: size in the header of a block the program has

umallocVars == <<ring, freep, top, given>>

\* A heap as the functions see it
HeapState == [ring |-> ring, freep |-> freep, top |-> top]

Without(f, a) == [x \in DOMAIN f \ {a} |-> f[x]]
With(f, a, v) == [x \in DOMAIN f \cup {a} |-> IF x = a THEN v ELSE f[x]]

\* The loop of free: the free block before bp, or the last one of the ring
RECURSIVE Before(_, _, _)
Before(r, p, bp) ==
  LET n == r[p].ptr
  IN IF (bp > p /\ bp < n) \/ (p >= n /\ (bp > p \/ bp < n)) THEN p ELSE Before(r, n, bp)

\* Variant: a block is not joined with the one before it.
FreeUpperOnly(h, bp, size) ==
  LET p == Before(h.ring, h.freep, bp)
      n == h.ring[p].ptr
      up == bp + size = n
      r == IF up THEN Without(h.ring, n) ELSE h.ring
      b == IF up THEN [ptr |-> h.ring[n].ptr, size |-> size + h.ring[n].size]
           ELSE [ptr |-> n, size |-> size]
  IN [h EXCEPT !.freep = p, !.ring = With([r EXCEPT ![p].ptr = bp], bp, b)]

free(h, bp, size) ==
  LET p == Before(h.ring, h.freep, bp)
      n == h.ring[p].ptr
      up == bp + size = n
      r == IF up THEN Without(h.ring, n) ELSE h.ring
      b == IF up THEN [ptr |-> h.ring[n].ptr, size |-> size + h.ring[n].size]
           ELSE [ptr |-> n, size |-> size]
  IN [h EXCEPT !.freep = p,
               !.ring = IF p + h.ring[p].size = bp
                        THEN [r EXCEPT ![p] = [ptr |-> b.ptr, size |-> @.size + b.size]]
                        ELSE With([r EXCEPT ![p].ptr = bp], bp, b)]

\* No heap left is the result top = -1.
morecore(h, nu) ==
  LET n == IF nu < MinUnits THEN MinUnits ELSE nu
  IN IF h.top + n > HeapEnd THEN [h EXCEPT !.top = -1]
     ELSE free([h EXCEPT !.top = @ + n], h.top, n)

\* The loop of malloc; the result is the heap and the block, 0 for none.
RECURSIVE Search(_, _, _, _)
Search(h, prevp, p, nunits) ==
  LET size == h.ring[p].size
      m == morecore(h, nunits)
  IN IF size = nunits
     THEN [h |-> [h EXCEPT !.freep = prevp,
                           !.ring = Without([@ EXCEPT ![prevp].ptr = h.ring[p].ptr], p)],
           block |-> p]
     ELSE IF size > nunits
     THEN [h |-> [h EXCEPT !.freep = prevp, !.ring[p].size = @ - nunits],
           block |-> p + size - nunits]
     ELSE IF p # h.freep THEN Search(h, p, h.ring[p].ptr, nunits)
     ELSE IF m.top = -1 THEN [h |-> h, block |-> 0]
     ELSE Search(m, m.freep, m.ring[m.freep].ptr, nunits)

\* The first call makes the ring.
Begun ==
  IF freep # -1 THEN HeapState
  ELSE [HeapState EXCEPT !.freep = base, !.ring = [a \in {base} |-> [ptr |-> base, size |-> 0]]]

malloc(nunits) ==
  LET r == Search(Begun, Begun.freep, Begun.ring[Begun.freep].ptr, nunits)
  IN /\ ring' = r.h.ring /\ freep' = r.h.freep /\ top' = r.h.top
     /\ given' = IF r.block = 0 THEN given ELSE With(given, r.block, nunits)

FreeCall(bp) ==
  LET h == free(HeapState, bp, given[bp])
  IN /\ ring' = h.ring /\ freep' = h.freep
     /\ given' = Without(given, bp)
     /\ UNCHANGED top

UmallocInit ==
  /\ ring = [a \in {} |-> 0]
  /\ freep = -1
  /\ top = HeapStart
  /\ given = [a \in {} |-> 0]

UmallocNext ==
  \/ \E n \in MallocUnits : malloc(n)
  \/ \E bp \in DOMAIN given : FreeCall(bp)

UmallocSpec == UmallocInit /\ [][UmallocNext]_umallocVars

----------------------------------------------------------------------------
Extent(a, size) == a .. a + size - 1
FreeBlocksOf == DOMAIN ring \ {base}

\* Every unit of the heap is in one block, free or given to the program; the
\* ring visits the free blocks in order of address, comes round once, and no two
\* of them touch: free has joined what could be joined.
HeapDivided ==
  LET parts == {Extent(a, ring[a].size) : a \in FreeBlocksOf}
               \cup {Extent(a, given[a]) : a \in DOMAIN given}
  IN /\ UNION parts = HeapStart .. top - 1
     /\ Cardinality(parts) = Cardinality(FreeBlocksOf) + Cardinality(DOMAIN given)
     /\ \A x, y \in parts : x # y => x \cap y = {}
     /\ \A a \in DOMAIN ring :
          /\ ring[a].ptr \in DOMAIN ring
          /\ \A b \in DOMAIN ring : ~(a < b /\ b < ring[a].ptr)
          /\ ring[a].ptr <= a => ring[a].ptr = base /\ \A b \in DOMAIN ring : b <= a
          /\ a # base => a + ring[a].size # ring[a].ptr
     /\ freep # -1 => freep \in DOMAIN ring
=============================================================================

------------------------------ MODULE Umalloc -------------------------------
(* The allocator of user programs, umalloc.c, in units of a header: free      *)
(* blocks form a ring in the order of their addresses, which starts at base.  *)
EXTENDS Integers, FiniteSets, Functions, FiniteSetsExt, TLC

CONSTANTS Sizes,     \* what malloc() is asked for, in units with the header
          MORECORE,  \* the least that sbrk() is asked for: 4096 units
          HeapStart, \* the end of the program when it starts; base is below
          HeapEnd    \* bound: sbrk() fails above it

ASSUME UmallocAssumption ==
  /\ Sizes \subseteq Nat \ {0, 1} /\ MORECORE \in Nat \ {0}
  /\ HeapStart \in Nat \ {0, 1} /\ HeapEnd \in Nat

base == 0

VARIABLES
  hdr,    \* headers: [ptr, size]; of a block in use only the size counts
  freep,  \* -1 before the first malloc()
  brk,    \* the end of the heap
  inUse   \* the blocks the program has

mallocVars == <<hdr, freep, brk, inUse>>

MallocInit ==
  /\ hdr = (base :> [ptr |-> base, size |-> 0])
  /\ freep = -1
  /\ brk = HeapStart
  /\ inUse = {}

-----------------------------------------------------------------------------
(* free(): the place of b in the ring h, from freep on, and what it joins.    *)
Place(h, p, b) ==
  \/ b > p /\ b < h[p].ptr
  \/ p >= h[p].ptr /\ (b > p \/ b < h[p].ptr)

RECURSIVE FindFrom(_, _, _)
FindFrom(h, p, b) == IF Place(h, p, b) THEN p ELSE FindFrom(h, h[p].ptr, b)

Joined(h, low, high) ==   \* the block at high becomes part of the one at low
  [h EXCEPT ![low] = [ptr |-> h[high].ptr, size |-> @.size + h[high].size]]
Linked(h, low, high) == [h EXCEPT ![low].ptr = high]

JoinBelowOnly(h, p, b) == Linked(h, b, h[p].ptr)          \* mutant
JoinAbove(h, p, b) ==
  LET n == h[p].ptr IN IF b + h[b].size = n THEN Joined(h, b, n) ELSE Linked(h, b, n)
JoinBelow(h, p, b) == IF p + h[p].size = b THEN Joined(h, p, b) ELSE Linked(h, p, b)

(* Headers inside a block that has been joined are not looked at again.       *)
RECURSIVE Ring(_, _, _)
Ring(h, p, seen) == IF p \in seen THEN seen ELSE Ring(h, h[p].ptr, seen \cup {p})
OnlyLive(h, used) == Restrict(h, Ring(h, base, {}) \cup used)

FreeIn(h, fp, b) ==
  LET p == FindFrom(h, fp, b) IN [hdr |-> JoinBelow(JoinAbove(h, p, b), p, b), freep |-> p]

-----------------------------------------------------------------------------
(* malloc(): the first block from freep on that is large enough, or -1 when   *)
(* the search is back at freep.                                               *)
RECURSIVE FindFit(_, _, _, _)
FindFit(h, fp, prev, n) ==
  LET p == h[prev].ptr IN
  IF h[p].size >= n THEN prev ELSE IF p = fp THEN -1 ELSE FindFit(h, fp, p, n)

(* The block behind prev, or its tail.                                        *)
TailTaken(h, prev, n) ==
  LET p == h[prev].ptr
      b == p + h[p].size - n IN
  IF h[p].size = n THEN [hdr |-> [h EXCEPT ![prev].ptr = h[p].ptr], block |-> p]
  ELSE [hdr |-> (b :> [ptr |-> b, size |-> n]) @@ [h EXCEPT ![p].size = @ - n], block |-> b]
Taken(h, prev, n) == TailTaken(h, prev, n)

TakesFrom(h, prev, n) ==
  LET t == Taken(h, prev, n) IN
  /\ inUse' = inUse \cup {t.block}
  /\ hdr' = OnlyLive([t.hdr EXCEPT ![t.block].ptr = t.block], inUse')
  /\ freep' = prev

From == IF freep = -1 THEN base ELSE freep
Fit(n) == FindFit(hdr, From, From, n)

MallocFit(n) ==
  /\ Fit(n) # -1
  /\ TakesFrom(hdr, Fit(n), n)
  /\ UNCHANGED brk

(* morecore(): the memory that sbrk() returns is freed into the ring, and the *)
(* search goes on behind it.                                                  *)
More(n) == IF n < MORECORE THEN MORECORE ELSE n

MallocMore(n) ==
  /\ Fit(n) = -1
  /\ IF brk + More(n) > HeapEnd
     THEN freep' = From /\ UNCHANGED <<hdr, brk, inUse>>
     ELSE LET f == FreeIn((brk :> [ptr |-> brk, size |-> More(n)]) @@ hdr, From, brk) IN
          /\ brk' = brk + More(n)
          /\ TakesFrom(f.hdr, FindFit(f.hdr, f.freep, f.freep, n), n)

Free(b) ==
  LET f == FreeIn(hdr, freep, b) IN
  /\ b \in inUse
  /\ inUse' = inUse \ {b}
  /\ hdr' = OnlyLive(f.hdr, inUse')
  /\ freep' = f.freep
  /\ UNCHANGED brk

MallocNext == (\E n \in Sizes : MallocFit(n) \/ MallocMore(n)) \/ \E b \in inUse : Free(b)

MallocSpec == MallocInit /\ [][MallocNext]_mallocVars

-----------------------------------------------------------------------------
FreeBlocks == Ring(hdr, base, {}) \ {base}
Extent(b)  == b..(b + hdr[b].size - 1)

(* The ring goes up through the addresses once and back to base, and freep is *)
(* in it.                                                                     *)
MallocTypeOK ==
  /\ Cardinality({p \in FreeBlocks \cup {base} : hdr[p].ptr <= p}) = 1
  /\ freep = -1 \/ freep \in FreeBlocks \cup {base}
  /\ FreeBlocks \cap inUse = {}

(* Every unit of the heap is in one block, in use or free: no two blocks that *)
(* malloc() returned overlap, and no memory is lost.                          *)
HeapTiled ==
  /\ UNION {Extent(b) : b \in FreeBlocks \cup inUse} = HeapStart..(brk - 1)
  /\ MapThenSumSet(LAMBDA b : hdr[b].size, FreeBlocks \cup inUse) = brk - HeapStart

(* Free blocks that touch have been joined: memory that is free together can  *)
(* be had together.                                                           *)
FreeMerged == \A b, c \in FreeBlocks : b + hdr[b].size # c

(* The free list and the blocks in use partition the heap, with no two free   *)
(* neighbours, after any calls of malloc() and free().                        *)
HeapSound == MallocTypeOK /\ HeapTiled /\ FreeMerged

=============================================================================

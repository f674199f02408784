------------------------------ MODULE Kmalloc ------------------------------
(***************************************************************************)
(* The kernel heap of mm/kmalloc.c: SLOB blocks in a ring of free ones,    *)
(* kept in the order of addresses and searched from slobfree on, and big   *)
(* blocks of whole pages.                                                  *)
(*                                                                         *)
(* An address is a number of units (SLOB_UNIT bytes).  The heap is a       *)
(* record: units and next are the fields of the free blocks, at is         *)
(* slobfree.  Requests are in units with their header.  Interrupts are     *)
(* disabled while the ring is searched or changed, and allocating a page   *)
(* does not sleep: a call is one step.                                     *)
(***************************************************************************)
EXTENDS FirstFit

CONSTANTS PageUnits,   \* PAGE_SIZE / SLOB_UNIT
          Sizes,       \* requests below a page, in units, header included
          Orders,      \* orders of the requests of pages
          MaxObjects   \* bound: objects in use at once

VARIABLES slob,        \* arena and the free blocks
          bigblocks,   \* the list of bigblock_t: where it is, its pages, its order
          objects,     \* address of the header |-> units, of the objects in use
          grown        \* history: the pages slob_alloc has taken

ASSUME HeapAssumption ==
  /\ PageUnits \in Nat \ {0, 1, 2}
  /\ Sizes \subseteq 2 .. PageUnits - 1
  /\ Orders \subseteq Nat

Arena       == 0
PageAddr(p) == PageUnits * (p + 1)
BigUnits    == 2      \* SLOB_UNITS(sizeof(bigblock_t))

HeapInit ==
  /\ slob = [units |-> [b \in {Arena} |-> 1], next |-> [b \in {Arena} |-> Arena], at |-> Arena]
  /\ bigblocks = <<>> /\ objects = <<>> /\ grown = {}

\* The free blocks in the order of the links, from slobfree round to it.
FreeBlocks(s) == DOMAIN s.units
Ring(s) ==
  LET at[i \in 0 .. Cardinality(FreeBlocks(s))] == IF i = 0 THEN s.at ELSE s.next[at[i - 1]]
  IN  at

-----------------------------------------------------------------------------
(* slob_alloc *)

Roomy(s, n) == {i \in 1 .. Cardinality(FreeBlocks(s)) : s.units[Ring(s)[i]] >= n}

\* The block that is found is unlinked, or its rest takes its place.
Unlink(s, prev, cur, n) ==
  LET rest == IF s.units[cur] = n THEN {} ELSE {cur + n}
      left == (FreeBlocks(s) \ {cur}) \cup rest
  IN  [at    |-> prev,
       units |-> [b \in left |-> IF b \in rest THEN s.units[cur] - n ELSE s.units[b]],
       next  |-> [b \in left |-> CASE b \in rest -> s.next[cur]
                                   [] b = prev   -> IF rest = {} THEN s.next[cur] ELSE cur + n
                                   [] OTHER      -> s.next[b]]]

(* slob_free *)

\* The block after which address b belongs, searched from slobfree on.
Before(s, b) ==
  LET Gap(cur) == \/ b > cur /\ b < s.next[cur]
                  \/ cur >= s.next[cur] /\ (b > cur \/ b < s.next[cur])
      ring     == Ring(s)
  IN  ring[Min({i \in DOMAIN ring : Gap(ring[i])})]

\* Block b of n units goes between cur and the next one, and may join either.
LinkIn(s, cur, b, n) ==
  LET nx   == s.next[cur]
      up   == b + n = nx
      down == cur + s.units[cur] = b
      size == IF up THEN n + s.units[nx] ELSE n
      succ == IF up THEN s.next[nx] ELSE nx
      left == (FreeBlocks(s) \ (IF up THEN {nx} ELSE {})) \cup (IF down THEN {} ELSE {b})
  IN  [at    |-> cur,
       units |-> [x \in left |-> CASE x = b            -> size
                                   [] x = cur /\ down  -> s.units[cur] + size
                                   [] OTHER            -> s.units[x]],
       next  |-> [x \in left |-> CASE x = b   -> succ
                                   [] x = cur -> IF down THEN succ ELSE b
                                   [] OTHER   -> s.next[x]]]

SlobFree(s, b, n) == LinkIn(s, Before(s, b), b, n)

-----------------------------------------------------------------------------
(* A call works on a copy h of the heap: got is the address it returns.    *)

Heap == [area |-> area, slob |-> slob, grown |-> grown, got |-> Arena, halt |-> halt]

TakeFrom(h, n) ==
  LET Take(prev, cur) == [h EXCEPT !.got = cur, !.slob = Unlink(@, prev, cur, n)]
      At(i)           == Take(Ring(h.slob)[i - 1], Ring(h.slob)[i])
  IN  At(Min(Roomy(h.slob, n)))

\* Without room the heap grows by a page.  When there is none, alloc_pages
\* swaps out of check_mm_struct, which is NULL after the boot.
Grow(h, a) ==
  [h EXCEPT !.area = a.area, !.grown = @ \cup {a.page},
            !.slob = SlobFree(@, PageAddr(a.page), PageUnits)]

SlobAlloc(h, n) ==
  LET More(a) == IF a.page = NoPage THEN [h EXCEPT !.halt = "no page"] ELSE TakeFrom(Grow(h, a), n)
  IN  IF Roomy(h.slob, n) # {} THEN TakeFrom(h, n) ELSE More(AllocPages(h.area, 1))

Finish(h) == area' = h.area /\ slob' = h.slob /\ grown' = h.grown

Panic(h) ==
  /\ h.halt # "none"
  /\ halt' = h.halt
  /\ UNCHANGED <<area, slob, bigblocks, objects, grown>>

Room == Cardinality(DOMAIN objects) + Len(bigblocks) < MaxObjects

\* kmalloc of less than a page
KmallocSmall(n) ==
  /\ Room
  /\ \E h \in {SlobAlloc(Heap, n)} :
       \/ Panic(h)
       \/ /\ h.halt = "none"
          /\ objects' = [b \in DOMAIN objects \cup {h.got} |-> IF b = h.got THEN n ELSE objects[b]]
          /\ Finish(h)
          /\ UNCHANGED <<halt, bigblocks>>

\* Mutated form of GiveBack: the record is lost.
GiveBackNot(h) == h

\* The record of a big block that got no pages.
GiveBack(h) == [h EXCEPT !.slob = SlobFree(@, h.got, BigUnits)]

\* kmalloc of whole pages: a record from the heap, then the pages.  Several
\* pages may be refused; a single one may not.
KmallocBig(o) ==
  /\ Room
  /\ \E h \in {SlobAlloc(Heap, BigUnits)} : \E a \in {AllocPages(h.area, 2^o)} :
       LET none == a.page = NoPage IN
       \/ Panic(IF none /\ o = 0 THEN [h EXCEPT !.halt = "no page"] ELSE h)
       \/ /\ h.halt = "none" /\ ~none
          /\ bigblocks' = <<[at |-> h.got, page |-> a.page, order |-> o]>> \o bigblocks
          /\ Finish([h EXCEPT !.area = a.area])
          /\ UNCHANGED <<halt, objects>>
       \/ /\ h.halt = "none" /\ none /\ o > 0
          /\ Finish(GiveBack(h))
          /\ UNCHANGED <<halt, objects, bigblocks>>

\* kfree: an address at a page boundary may be a big block or an object whose
\* header ends the page before; the list of big blocks decides.
Kfree(block) ==
  LET found == {i \in DOMAIN bigblocks :
                  block % PageUnits = 0 /\ PageAddr(bigblocks[i].page) = block}
      bb    == bigblocks[Min(found)]
  IN  IF found # {}
      THEN /\ area' = FreePages(area, bb.page, 2^bb.order)
           /\ slob' = SlobFree(slob, bb.at, BigUnits)
           /\ bigblocks' = RemoveAt(bigblocks, Min(found))
           /\ UNCHANGED <<halt, objects, grown>>
      ELSE /\ slob' = SlobFree(slob, block - 1, objects[block - 1])
           /\ objects' = Restrict(objects, DOMAIN objects \ {block - 1})
           /\ UNCHANGED <<area, halt, bigblocks, grown>>

Blocks == {b + 1 : b \in DOMAIN objects} \cup {PageAddr(bb.page) : bb \in Range(bigblocks)}

HeapNext ==
  \/ \E n \in Sizes : KmallocSmall(n)
  \/ \E o \in Orders : KmallocBig(o)
  \/ \E b \in Blocks : Kfree(b)

-----------------------------------------------------------------------------
\* The units of the arena and of the heap's pages, and who has them: the ring,
\* the objects and the records of big blocks.  An extent is whose it is, its
\* place in the list of big blocks, its first unit and how many.
HeapUnits == {Arena} \cup UNION {PageAddr(p) .. PageAddr(p) + PageUnits - 1 : p \in grown}
Extents   == {<<"free", 0, b, slob.units[b]>> : b \in FreeBlocks(slob)}
        \cup {<<"object", 0, b, objects[b]>> : b \in DOMAIN objects}
        \cup {<<"record", i, bigblocks[i].at, BigUnits>> : i \in DOMAIN bigblocks}
Units(e)  == e[3] .. e[3] + e[4] - 1

\* Every unit of the heap is in a free block or in use, and in one only; the ring
\* is closed, in the order of addresses but for one turn, has slobfree in it,
\* and no two of its blocks touch (slob_alloc, slob_free and kfree, mm/kmalloc.c).
SlobExact ==
  /\ UNION {Units(e) : e \in Extents} = HeapUnits
  /\ \A d, e \in Extents : d # e => Units(d) \cap Units(e) = {}
  /\ slob.at \in FreeBlocks(slob)
  /\ {Ring(slob)[i] : i \in 1 .. Cardinality(FreeBlocks(slob))} = FreeBlocks(slob)
  /\ Cardinality({b \in FreeBlocks(slob) : slob.next[b] <= b}) = 1
  /\ \A b \in FreeBlocks(slob) : b + slob.units[b] # slob.next[b]
=============================================================================

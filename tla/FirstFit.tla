------------------------------ MODULE FirstFit ------------------------------
(***************************************************************************)
(* The page allocator of mm/default_pmm.c.                                 *)
(*                                                                         *)
(* free_area is a record: list is free_list, a sequence of blocks in the   *)
(* order of the links, nr is nr_free, and ok is FALSE from the moment an   *)
(* assertion of the allocator fails.  PG_property is set in the first page *)
(* of each block of the list and in no other, as list and flag are changed *)
(* together.  The operations are functions of such a record, since the     *)
(* handlers that use them allocate and free many times in one step.        *)
(***************************************************************************)
EXTENDS Naturals, SequencesExt

CONSTANT NPages        \* how many pages init_memmap was given

VARIABLES area,        \* free_area
          halt         \* the panic that has stopped the kernel, or "none"

ASSUME PagesAssumption == NPages \in Nat \ {0}

Pages  == 0 .. NPages - 1
NoPage == NPages       \* NULL

Block(b, size) == [base |-> b, n |-> size]
Span(b)        == b.base .. b.base + b.n - 1
FreeIn(a)      == UNION {Span(a.list[i]) : i \in DOMAIN a.list}

\* default_init and default_init_memmap of size pages from page b.
FreeArea(b, size) == [list |-> <<Block(b, size)>>, nr |-> size, ok |-> TRUE]

\* What n turns of a loop make of k.
Loop(Turn(_, _), k, n) ==
  LET at[i \in 0 .. n] == IF i = 0 THEN k ELSE Turn(at[i - 1], i) IN at[n]

-----------------------------------------------------------------------------
(* default_alloc_pages *)

Fitting(a, size) == {i \in DOMAIN a.list : a.list[i].n >= size}

\* What is left of the block takes its place in the list.
Carve(a, i, size) ==
  LET b == a.list[i] IN
  [a EXCEPT !.nr = @ - size,
            !.list = IF b.n > size
                     THEN ReplaceAt(@, i, Block(b.base + size, b.n - size))
                     ELSE RemoveAt(@, i)]

AllocPages(a, size) ==
  IF size > a.nr \/ Fitting(a, size) = {}
  THEN [area |-> a, page |-> NoPage]
  ELSE LET i == Min(Fitting(a, size)) IN
       [area |-> Carve(a, i, size), page |-> a.list[i].base]

-----------------------------------------------------------------------------
(* default_free_pages *)

\* Mutated form of Absorb: the block before is not taken in.
AbsorbUpward(m, b) ==
  IF m.base + m.n = b.base
  THEN [m EXCEPT !.n = @ + b.n]
  ELSE [m EXCEPT !.rest = Append(@, b)]

\* One turn of the first loop: the freed block m takes in its neighbour b.
Absorb(m, b) ==
  CASE m.base + m.n = b.base -> [m EXCEPT !.n = @ + b.n]
    [] b.base + b.n = m.base -> [m EXCEPT !.base = b.base, !.n = @ + b.n]
    [] OTHER                 -> [m EXCEPT !.rest = Append(@, b)]

Merge(m, list) == LET Turn(k, i) == Absorb(k, list[i]) IN Loop(Turn, m, Len(list))

\* The second loop: the place before the first block behind m.
Behind(m) == {i \in DOMAIN m.rest : m.base + m.n <= m.rest[i].base}
Place(m)  == IF Behind(m) = {} THEN Len(m.rest) + 1 ELSE Min(Behind(m))

PutBack(a, m, at, added) ==
  [list |-> InsertAt(m.rest, at, Block(m.base, m.n)),
   nr   |-> a.nr + added,
   ok   |-> a.ok /\ (at <= Len(m.rest) => m.base + m.n # m.rest[at].base)]

\* No page given back may be the first of a free block.
FreePages(a, b, size) ==
  LET sane    == \A i \in DOMAIN a.list : a.list[i].base \notin b .. b + size - 1
      Done(m) == PutBack([a EXCEPT !.ok = @ /\ sane], m, Place(m), size)
  IN  Done(Merge([base |-> b, n |-> size, rest |-> <<>>], a.list))

-----------------------------------------------------------------------------
\* The list is in the order of addresses, no two blocks touch, and nr_free
\* counts its pages.  Hence the first block that fits is the lowest run of
\* free pages that is long enough, and there is none only if no run is.
AreaExact(a) ==
  /\ a.ok
  /\ \A i \in DOMAIN a.list : a.list[i].n > 0
  /\ \A i \in 1 .. Len(a.list) - 1 :
        a.list[i].base + a.list[i].n < a.list[i + 1].base
  /\ a.nr = Cardinality(FreeIn(a))
=============================================================================

------------------------------- MODULE Memory -------------------------------
(***************************************************************************)
(* The page allocator with those who take pages from it: the kernel heap,  *)
(* the address spaces of processes, and the boot checks, the one time that *)
(* swapping is at work.  load says which of them run in a behaviour; the   *)
(* pages they cannot reach are held by the rest of the kernel.             *)
(***************************************************************************)
EXTENDS Kmalloc, Vm

CONSTANTS HeapPages,   \* pages left to the heap
          SwapPages    \* pages left to the boot check, CHECK_VALID_PHY_PAGE_NUM

VARIABLES load,        \* "heap", "processes" or "check"
          held         \* pages in use by the rest of the kernel

vars == <<area, halt, slob, bigblocks, objects, grown, state, kstack, mm,
          ref, data, disk, fifo, pra, load, held>>

NDirs == Cardinality(Dirs)

ASSUME MemoryAssumption ==
  /\ Procs \subseteq Nat /\ HeapPages \in 1 .. NPages /\ KStackPages < NPages
  /\ SwapPages \in Nat \ {0} /\ NDirs + 1 + SwapPages <= NPages

CheckMm == [EmptyMm(0) EXCEPT !.areas = <<[start |-> 0, end |-> Top, write |-> TRUE]>>,
                              !.pd = [d \in Dirs |-> d + 1]]

Init ==
  /\ HeapInit
  /\ halt = "none"
  /\ data = [p \in Pages |-> Old] /\ disk = [v \in Addresses |-> Old]
  /\ fifo = <<>> /\ pra = [p \in Pages |-> 0]
  /\ \/ /\ load = "heap"
        /\ area = FreeArea(0, HeapPages) /\ held = HeapPages .. NPages - 1
        /\ state = [q \in Procs |-> "free"] /\ kstack = [q \in Procs |-> NoPage]
        /\ mm = [q \in Procs |-> NoMm] /\ ref = [p \in Pages |-> 0]
     \/ \* init, a kernel thread
        /\ load = "processes"
        /\ area = FreeArea(KStackPages, NPages - KStackPages) /\ held = {}
        /\ state = [q \in Procs |-> IF q = InitProc THEN "live" ELSE "free"]
        /\ kstack = [q \in Procs |-> IF q = InitProc THEN 0 ELSE NoPage]
        /\ mm = [q \in Procs |-> NoMm] /\ ref = [p \in Pages |-> 0]
     \/ \* check_swap: the page tables are there, and a few pages
        /\ load = "check"
        /\ area = FreeArea(NDirs + 1, SwapPages) /\ held = NDirs + 1 + SwapPages .. NPages - 1
        /\ state = [q \in Procs |-> IF q = InitProc THEN "check" ELSE "free"]
        /\ kstack = [q \in Procs |-> NoPage]
        /\ mm = [q \in Procs |-> IF q = InitProc THEN CheckMm ELSE NoMm]
        /\ ref = [p \in Pages |-> IF p \in 1 .. NDirs THEN 1 ELSE 0]

Stopped == halt # "none" /\ UNCHANGED vars

Next ==
  \/ /\ halt = "none" /\ load = "heap" /\ HeapNext
     /\ UNCHANGED <<state, kstack, mm, ref, data, disk, fifo, pra, load, held>>
  \/ /\ halt = "none" /\ load # "heap" /\ VmNext
     /\ UNCHANGED <<slob, bigblocks, objects, grown, load, held>>
  \/ Stopped

Spec == Init /\ [][Next]_vars

-----------------------------------------------------------------------------
\* Who has which page, as triples of the use, whose, and the page.
FreeUses   == {<<"free", 0, p>> : p \in FreeIn(area)}
KernelUses == {<<"kernel", 0, p>> : p \in held \cup grown}
BigUses    == UNION {{<<"big", bb.at, p>> : p \in bb.page .. bb.page + 2^bb.order - 1} : bb \in Range(bigblocks)}
StackUses  == UNION {{<<"kstack", q, p>> : p \in kstack[q] .. kstack[q] + 1} :
                       q \in {q \in Procs : kstack[q] # NoPage}}
PgdirUses  == {<<"pgdir", q, mm[q].pgdir>> : q \in {q \in Procs : mm[q] # NoMm}}
TableUses  == UNION {{<<"table", <<q, d>>, mm[q].pd[d]>> : d \in {d \in Dirs : mm[q].pd[d] # NoPage}} :
                       q \in {q \in Procs : mm[q] # NoMm}}
UserUses   == UNION {{<<"user", <<q, v>>, mm[q].pte[v]>> : v \in {v \in Addresses : mm[q].pte[v] \in Pages}} :
                       q \in {q \in Procs : mm[q] # NoMm}}
Uses == FreeUses \cup KernelUses \cup BigUses \cup StackUses \cup PgdirUses \cup TableUses \cup UserUses

\* The free list is in order, merged and counted, and every page is free or has one
\* use, and one only: none is lost, none given twice.  Pages that are mapped and page
\* tables have a count of 1, others of 0 (default_pmm.c, pmm.c, vmm.c, proc.c,
\* with all the ways in which a handler ends early).
PagesExact ==
  /\ AreaExact(area)
  /\ {u[3] : u \in Uses} = Pages
  /\ Cardinality(Uses) = NPages
  /\ \A u \in Uses : ref[u[3]] = IF u[1] \in {"user", "table"} THEN 1 ELSE 0

\* The areas of a process lie in user space, in order and apart; its pages lie in
\* its areas and below a page table.  pra_list_head has the pages that are mapped
\* of the mm that swaps, each once with its address; no assertion of
\* swap.c, swap_fifo.c, pmm.c or vmm.c fails, except the one of overlapping areas
\* in insert_vma_struct, which a program with such segments meets.
MappingsExact ==
  /\ halt # "assert"
  /\ \A q \in {q \in Procs : mm[q] # NoMm} :
       LET m == mm[q] IN
       /\ \A i \in DOMAIN m.areas :
            /\ m.areas[i].start < m.areas[i].end /\ m.areas[i].end <= Top
            /\ i > 1 => m.areas[i - 1].end <= m.areas[i].start
       /\ \A v \in Addresses : m.pte[v] # Zero => FindVma(m, v) # {} /\ m.pd[Dir(v)] # NoPage
  /\ \A q \in Checked :
       /\ Len(fifo) = Cardinality({v \in Addresses : mm[q].pte[v] \in Pages})
       /\ \A i \in DOMAIN fifo : mm[q].pte[pra[fifo[i]]] = fifo[i]
       /\ IsInjective(fifo)

\* No process sees what another does to its memory, a child begins with a copy, a
\* program with its image, and a page that was swapped out comes back with what
\* it held: memory implements AddressSpaces.  A cell is the set of what it holds,
\* which is empty when the process has no page there.
Cell(q, v) ==
  IF mm[q] = NoMm THEN {}
  ELSE CASE mm[q].pte[v] \in Pages   -> {data[mm[q].pte[v]]}
         [] mm[q].pte[v] = SwapEntry -> {disk[v]}
         [] OTHER                    -> {}

Spaces == [q \in Procs |-> [v \in Addresses |-> Cell(q, v)]]

Private == INSTANCE AddressSpaces WITH
  Cells <- Addresses, Values <- {{x} : x \in Values}, Absent <- {}, Old <- {Old},
  Images <- {ImageOf(prog) : prog \in Programs}, space <- Spaces

SpacesPrivate == Private!Spec
=============================================================================

---------------------------- MODULE MemoryProofs ----------------------------
(***************************************************************************)
(* Proofs about the memory of the kernel: its pages and its heap, the      *)
(* areas, page tables and program images of the processes (vmm.c, pmm.c,   *)
(* proc.c) and the swap check at boot (swap.c, swap_fifo.c), for every     *)
(* number of pages, of processes and of addresses.                         *)
(*                                                                         *)
(* Every theorem is about Memory!Spec and rests on MemInv. While processes *)
(* run, it says that each place holds a page of its own (Sound, in         *)
(* PageProofs), that what is mapped lies in an area, and which states of a *)
(* process go with an mm and a stack; for the swap check also that the     *)
(* list of pages to swap is of those mapped; for the heap, that its blocks *)
(* and objects share no unit and that its pages are not free.              *)
(*                                                                         *)
(* First the loops of the code, turn by turn: an induction over the turns  *)
(* is by the least turn after which something would be false. Then what    *)
(* they add up to, up to do_fork, do_execve, do_exit and do_pgfault; then  *)
(* the steps, and the theorems.                                            *)
(***************************************************************************)
EXTENDS PageProofs, FunctionTheorems

-----------------------------------------------------------------------------
(* The loops of mm/vmm.c, mm/pmm.c and process/proc.c, turn by turn.       *)

\* unmap_range.
LEMMA UnmapTurns ==
  ASSUME NEW k, NEW q, NEW a, a.end - a.start \in Nat
  PROVE  \E x : /\ x[0] = k
                /\ \A i \in 1 .. a.end - a.start : x[i] = RemovePte(x[i - 1], q, a.start + i - 1)
                /\ x[a.end - a.start] = UnmapRange(k, q, a)
<1> DEFINE n == a.end - a.start
           Made(f) == [i \in 0 .. n |-> IF i = 0 THEN k ELSE RemovePte(f[i - 1], q, a.start + i - 1)]
           x == CHOOSE f : f = Made(f)
<1>1. PICK f : f = Turning(<<"unmap", q, a.start>>, k, n, f)
  BY TurnsExist
<1>2. f = Made(f)
  BY <1>1 DEF Turning, Turned
<1>3. x = Made(x)
  BY <1>2, Zenon
<1>4. UnmapRange(k, q, a) = x[n]
  BY Zenon DEF Loop, UnmapRange
<1> HIDE DEF x
<1>5. x[0] = k /\ \A i \in 1 .. n : x[i] = RemovePte(x[i - 1], q, a.start + i - 1)
  BY <1>3
<1> QED BY <1>4, <1>5, Zenon

\* exit_range.
LEMMA ExitTurns ==
  ASSUME NEW k, NEW q, NEW a, a.end - a.start \in Nat
  PROVE  \E x : /\ x[0] = k
                /\ \A i \in 1 .. a.end - a.start : x[i] = DropTable(x[i - 1], q, Dir(a.start + i - 1))
                /\ x[a.end - a.start] = ExitRange(k, q, a)
<1> DEFINE n == a.end - a.start
           Made(f) == [i \in 0 .. n |-> IF i = 0 THEN k ELSE DropTable(f[i - 1], q, Dir(a.start + i - 1))]
           x == CHOOSE f : f = Made(f)
<1>1. PICK f : f = Turning(<<"exit", q, a.start>>, k, n, f)
  BY TurnsExist
<1>2. f = Made(f)
  BY <1>1 DEF Turning, Turned
<1>3. x = Made(x)
  BY <1>2, Zenon
<1>4. ExitRange(k, q, a) = x[n]
  BY Zenon DEF Loop, ExitRange
<1> HIDE DEF x
<1>5. x[0] = k /\ \A i \in 1 .. n : x[i] = DropTable(x[i - 1], q, Dir(a.start + i - 1))
  BY <1>3
<1> QED BY <1>4, <1>5, Zenon

\* The first loop of exit_mmap.
LEMMA UnmapsTurns ==
  ASSUME NEW k, NEW q, NEW areas, Len(areas) \in Nat
  PROVE  \E x : /\ x[0] = k
                /\ \A i \in 1 .. Len(areas) : x[i] = UnmapRange(x[i - 1], q, areas[i])
                /\ x[Len(areas)] = UnmapAreas(k, q, areas)
<1> DEFINE n == Len(areas)
           Made(f) == [i \in 0 .. n |-> IF i = 0 THEN k ELSE UnmapRange(f[i - 1], q, areas[i])]
           x == CHOOSE f : f = Made(f)
<1>1. PICK f : f = Turning(<<"unmaps", q, areas>>, k, n, f)
  BY TurnsExist
<1>2. f = Made(f)
  BY <1>1 DEF Turning, Turned
<1>3. x = Made(x)
  BY <1>2, Zenon
<1>4. UnmapAreas(k, q, areas) = x[n]
  BY Zenon DEF Loop, UnmapAreas
<1> HIDE DEF x
<1>5. x[0] = k /\ \A i \in 1 .. n : x[i] = UnmapRange(x[i - 1], q, areas[i])
  BY <1>3
<1> QED BY <1>4, <1>5, Zenon

\* The second loop of exit_mmap.
LEMMA ExitsTurns ==
  ASSUME NEW k, NEW q, NEW areas, Len(areas) \in Nat
  PROVE  \E x : /\ x[0] = k
                /\ \A i \in 1 .. Len(areas) : x[i] = ExitRange(x[i - 1], q, areas[i])
                /\ x[Len(areas)] = ExitAreas(k, q, areas)
<1> DEFINE n == Len(areas)
           Made(f) == [i \in 0 .. n |-> IF i = 0 THEN k ELSE ExitRange(f[i - 1], q, areas[i])]
           x == CHOOSE f : f = Made(f)
<1>1. PICK f : f = Turning(<<"exits", q, areas>>, k, n, f)
  BY TurnsExist
<1>2. f = Made(f)
  BY <1>1 DEF Turning, Turned
<1>3. x = Made(x)
  BY <1>2, Zenon
<1>4. ExitAreas(k, q, areas) = x[n]
  BY Zenon DEF Loop, ExitAreas
<1> HIDE DEF x
<1>5. x[0] = k /\ \A i \in 1 .. n : x[i] = ExitRange(x[i - 1], q, areas[i])
  BY <1>3
<1> QED BY <1>4, <1>5, Zenon

\* copy_range.
LEMMA CopyTurns ==
  ASSUME NEW k, NEW to, NEW from, NEW a, a.end - a.start \in Nat
  PROVE  \E x : /\ x[0] = k
                /\ \A i \in 1 .. a.end - a.start : x[i] = CopyPage(x[i - 1], to, from, a.start + i - 1)
                /\ x[a.end - a.start] = CopyRange(k, to, from, a)
<1> DEFINE n == a.end - a.start
           Made(f) == [i \in 0 .. n |-> IF i = 0 THEN k ELSE CopyPage(f[i - 1], to, from, a.start + i - 1)]
           x == CHOOSE f : f = Made(f)
<1>1. PICK f : f = Turning(<<"copy", to, from, a.start>>, k, n, f)
  BY TurnsExist
<1>2. f = Made(f)
  BY <1>1 DEF Turning, Turned
<1>3. x = Made(x)
  BY <1>2, Zenon
<1>4. CopyRange(k, to, from, a) = x[n]
  BY Zenon DEF Loop, CopyRange
<1> HIDE DEF x
<1>5. x[0] = k /\ \A i \in 1 .. n : x[i] = CopyPage(x[i - 1], to, from, a.start + i - 1)
  BY <1>3
<1> QED BY <1>4, <1>5, Zenon

\* The loops of load_icode over the pages of a segment.
LEMMA LoadTurns ==
  ASSUME NEW k, NEW q, NEW g, g.mem \in Nat
  PROVE  \E x : /\ x[0] = k
                /\ \A i \in 1 .. g.mem : x[i] = LoadPage(x[i - 1], q, g, g.start + i - 1)
                /\ x[g.mem] = LoadPages(k, q, g)
<1> DEFINE n == g.mem
           Made(f) == [i \in 0 .. n |-> IF i = 0 THEN k ELSE LoadPage(f[i - 1], q, g, g.start + i - 1)]
           x == CHOOSE f : f = Made(f)
<1>1. PICK f : f = Turning(<<"load", q, g>>, k, n, f)
  BY TurnsExist
<1>2. f = Made(f)
  BY <1>1 DEF Turning, Turned
<1>3. x = Made(x)
  BY <1>2, Zenon
<1>4. LoadPages(k, q, g) = x[n]
  BY Zenon DEF Loop, LoadPages
<1> HIDE DEF x
<1>5. x[0] = k /\ \A i \in 1 .. n : x[i] = LoadPage(x[i - 1], q, g, g.start + i - 1)
  BY <1>3
<1> QED BY <1>4, <1>5, Zenon

\* The loop of load_icode over the segments.
LEMMA SegmentsTurns ==
  ASSUME NEW k, NEW q, NEW segs, Len(segs) \in Nat
  PROVE  \E x : /\ x[0] = k
                /\ \A i \in 1 .. Len(segs) : x[i] = LoadSegment(x[i - 1], q, segs[i])
                /\ x[Len(segs)] = LoadSegments(k, q, segs)
<1> DEFINE n == Len(segs)
           Made(f) == [i \in 0 .. n |-> IF i = 0 THEN k ELSE LoadSegment(f[i - 1], q, segs[i])]
           x == CHOOSE f : f = Made(f)
<1>1. PICK f : f = Turning(<<"segs", q, segs>>, k, n, f)
  BY TurnsExist
<1>2. f = Made(f)
  BY <1>1 DEF Turning, Turned
<1>3. x = Made(x)
  BY <1>2, Zenon
<1>4. LoadSegments(k, q, segs) = x[n]
  BY Zenon DEF Loop, LoadSegments
<1> HIDE DEF x
<1>5. x[0] = k /\ \A i \in 1 .. n : x[i] = LoadSegment(x[i - 1], q, segs[i])
  BY <1>3
<1> QED BY <1>4, <1>5, Zenon

\* The first pages of the stack.
LEMMA StackTurns ==
  ASSUME NEW k, NEW q
  PROVE  \E x : /\ x[0] = k
                /\ \A i \in 1 .. EagerPages : x[i] = PgdirAllocPage(x[i - 1], q, Top - i, Old)
                /\ x[EagerPages] = MapStack(k, q)
<1> DEFINE n == EagerPages
           Made(f) == [i \in 0 .. n |-> IF i = 0 THEN k ELSE PgdirAllocPage(f[i - 1], q, Top - i, Old)]
           x == CHOOSE f : f = Made(f)
<1>0. n \in Nat
  BY VmAssumption
<1>1. PICK f : f = Turning(<<"stack", q>>, k, n, f)
  BY <1>0, TurnsExist
<1>2. f = Made(f)
  BY <1>1 DEF Turning, Turned
<1>3. x = Made(x)
  BY <1>2, Zenon
<1>4. MapStack(k, q) = x[n]
  BY Zenon DEF Loop, MapStack
<1> HIDE DEF x
<1>5. x[0] = k /\ \A i \in 1 .. n : x[i] = PgdirAllocPage(x[i - 1], q, Top - i, Old)
  BY <1>0, <1>3
<1> QED BY <1>4, <1>5, Zenon

\* dup_mmap.
LEMMA DupTurns ==
  ASSUME NEW k, NEW to, NEW from, NEW areas, areas = k.mm[from].areas, Len(areas) \in Nat
  PROVE  \E x : /\ x[0] = k
                /\ \A i \in 1 .. Len(areas) : x[i] = DupArea(x[i - 1], to, from, areas[Len(areas) - i + 1])
                /\ x[Len(areas)] = DupMmap(k, to, from)
<1> DEFINE n == Len(areas)
           Made(f) == [i \in 0 .. n |-> IF i = 0 THEN k ELSE DupArea(f[i - 1], to, from, areas[n - i + 1])]
           x == CHOOSE f : f = Made(f)
<1>1. PICK f : f = Turning(<<"dup", to, from, areas>>, k, n, f)
  BY TurnsExist
<1>2. f = Made(f)
  BY <1>1 DEF Turning, Turned
<1>3. x = Made(x)
  BY <1>2, Zenon
<1>4. DupMmap(k, to, from) = x[n]
  BY Zenon DEF Loop, DupMmap
<1>5. n \in Nat
  OBVIOUS
<1> HIDE DEF x, n
<1>6. x[0] = k /\ \A i \in 1 .. n : x[i] = DupArea(x[i - 1], to, from, areas[n - i + 1])
  BY <1>3, <1>5
<1> QED BY <1>4, <1>6, Zenon DEF n

\* mm_map
LEMMA MmMapIs ==
  ASSUME NEW k, NEW H, Good(k), NEW q \in Procs, HasMm(k, q), k.halt = "none" => Clean(k, H),
         NEW a \in [start : Nat, end : Nat, write : BOOLEAN], NEW t, t = MmMap(k, q, a)
  PROVE  /\ Good(t) /\ Near(k, t, q) /\ HasMm(t, q)
         /\ t.mm[q].pgdir = k.mm[q].pgdir /\ t.mm[q].pte = k.mm[q].pte /\ t.mm[q].pd = k.mm[q].pd
         /\ t.ret = "inval" \/ (a \in AreaTypes /\ t.ret = k.ret)
         /\ t.halt = "none" => /\ Clean(k, H) /\ Clean(t, H) /\ CellsSame(k, t)
                               /\ t.ret = "inval" \/ Added(k, H, q, a, t)
<1>1. CASE a.start >= a.end \/ a.end > Top \/ FindVma(k.mm[q], a.start) # {}
  <2>1. t = [k EXCEPT !.ret = "inval"]
    BY <1>1 DEF MmMap
  <2> QED BY <2>1, RetIs DEF Clean
<1>2. CASE ~(a.start >= a.end \/ a.end > Top \/ FindVma(k.mm[q], a.start) # {})
  <2>1. t = InsertVma(k, q, a)
    BY <1>2 DEF MmMap
  <2>2. a \in AreaTypes
    <3>1. Top \in Nat
      BY VmAssumption
    <3> QED BY <1>2, <3>1 DEF AreaTypes
  <2>3. /\ Good(t) /\ Near(k, t, q) /\ HasMm(t, q) /\ t.ret = k.ret
        /\ t.mm[q].pgdir = k.mm[q].pgdir /\ t.mm[q].pte = k.mm[q].pte /\ t.mm[q].pd = k.mm[q].pd
        /\ t.halt = "none" => Added(k, H, q, a, t)
    BY <2>1, <2>2, InsertVmaIs
  <2> QED BY <2>2, <2>3 DEF Added
<1> QED BY <1>1, <1>2

-----------------------------------------------------------------------------
(* The end of an address space.                                            *)

\* Addresses from b on, n of them, are unmapped, and no other.
Unmapped(k, H, q, b, n, t) ==
  /\ Clean(t, H) /\ CellsBeside(k, t, q) /\ t.mm[q].pd = k.mm[q].pd
  /\ \A w \in Addresses : t.mm[q].pte[w] = IF b <= w /\ w < b + n THEN Zero ELSE k.mm[q].pte[w]
UnmapStep(k, H, q, b, n, t) ==
  /\ Good(t) /\ Beside(k, t, q) /\ t.halt = k.halt
  /\ k.halt = "none" => Unmapped(k, H, q, b, n, t)

\* unmap_range, one page more
LEMMA UnmapMore ==
  ASSUME NEW k, NEW H, NEW q \in Procs, NEW b \in Nat, NEW n \in Nat, NEW s, UnmapStep(k, H, q, b, n, s),
         b + n \in Addresses, NEW t, t = RemovePte(s, q, b + n)
  PROVE  UnmapStep(k, H, q, b, n + 1, t)
<1>1. Good(s) /\ Beside(k, s, q) /\ s.halt = k.halt /\ HasMm(s, q)
  BY DEF UnmapStep, Beside
<1>2. s.halt = "none" => Unmapped(k, H, q, b, n, s)
  BY <1>1 DEF UnmapStep
<1>3. s.halt = "none" => Sound(s, H) /\ NoSwap(s)
  BY <1>2 DEF Unmapped, Clean
<1> DEFINE v == b + n
<1>4. /\ Good(t) /\ Beside(s, t, q) /\ t.halt = s.halt
      /\ s.halt = "none" =>
           /\ Sound(t, H) /\ CellsBut(s, t, q, v) /\ t.mm[q].pd = s.mm[q].pd
           /\ \A w \in Addresses : t.mm[q].pte[w] =
                IF w = v /\ s.mm[q].pte[v] \in Pages THEN Zero ELSE s.mm[q].pte[w]
  <2> HIDE DEF v
  <2>1. t = RemovePte(s, q, v) /\ v \in Addresses
    BY DEF v
  <2> QED BY <1>1, <1>3, <2>1, RemovePteIs
<1>5. Beside(k, t, q)
  BY <1>1, <1>4, BesideTwice
<1>6. ASSUME k.halt = "none" PROVE Unmapped(k, H, q, b, n + 1, t)
  <2>1. Sound(s, H) /\ NoSwap(s) /\ Unmapped(k, H, q, b, n, s)
    BY <1>1, <1>2, <1>3, <1>6
  <2>2. /\ Sound(t, H) /\ CellsBut(s, t, q, v) /\ t.mm[q].pd = s.mm[q].pd
        /\ \A w \in Addresses : t.mm[q].pte[w] =
             IF w = v /\ s.mm[q].pte[v] \in Pages THEN Zero ELSE s.mm[q].pte[w]
    BY <1>1, <1>4, <1>6
  <2>3. s.mm[q].pte[v] \in Pages \/ s.mm[q].pte[v] = Zero
    <3>1. MmSound(s.mm[q])
      BY <1>1, <2>1 DEF Sound
    <3> QED BY <1>1, <2>1, <3>1 DEF MmSound, NoSwap
  <2>4. \A w \in Addresses : t.mm[q].pte[w] = IF w = v THEN Zero ELSE s.mm[q].pte[w]
    <3> HIDE DEF v
    <3> QED BY <2>2, <2>3
  <2>5. \A w \in Addresses : t.mm[q].pte[w] = IF b <= w /\ w < b + (n + 1) THEN Zero ELSE k.mm[q].pte[w]
    <3>1. \A w \in Addresses : w \in Nat
      BY VmAssumption DEF Addresses
    <3>2. \A w \in Addresses : s.mm[q].pte[w] = IF b <= w /\ w < b + n THEN Zero ELSE k.mm[q].pte[w]
      BY <2>1 DEF Unmapped
    <3> QED BY <2>4, <3>1, <3>2
  <2>6. NoSwap(t)
    <3> SUFFICES ASSUME NEW r \in Procs, HasMm(t, r), NEW w \in Addresses PROVE t.mm[r].pte[w] # SwapEntry
      BY DEF NoSwap
    <3>1. CASE r # q
      <4>1. t.mm[r] = s.mm[r]
        BY <1>4, <3>1 DEF Beside, OnlyMm
      <4> QED BY <2>1, <4>1 DEF NoSwap, HasMm
    <3>2. CASE r = q
      BY <1>1, <2>1, <2>4, <3>2, EntriesApart DEF NoSwap
    <3> QED BY <3>1, <3>2
  <2>7. CellsBeside(k, t, q)
    BY <2>1, <2>2 DEF CellsBut, CellsBeside, Unmapped
  <2>8. Clean(t, H)
    BY <1>1, <1>4, <1>6, <2>2, <2>6 DEF Clean
  <2>9. t.mm[q].pd = k.mm[q].pd
    BY <2>1, <2>2 DEF Unmapped
  <2> QED BY <2>5, <2>7, <2>8, <2>9 DEF Unmapped
<1> QED BY <1>1, <1>4, <1>5, <1>6 DEF UnmapStep

\* unmap_range
LEMMA UnmapRangeIs ==
  ASSUME NEW k, NEW H, Good(k), NEW q \in Procs, HasMm(k, q), k.halt = "none" => Clean(k, H),
         NEW a \in AreaTypes
  PROVE  UnmapStep(k, H, q, a.start, a.end - a.start, UnmapRange(k, q, a))
<1> DEFINE n == a.end - a.start
<1>1. a.start \in Nat /\ a.end \in Nat /\ a.start < a.end /\ a.end <= Top /\ Top \in Nat
  BY VmAssumption DEF AreaTypes
<1>2. n \in Nat
  BY <1>1
<1>3. PICK x : x[0] = k /\ (\A i \in 1 .. n : x[i] = RemovePte(x[i - 1], q, a.start + i - 1)) /\ x[n] = UnmapRange(k, q, a)
  BY <1>2, UnmapTurns
<1> DEFINE P == [i \in 0 .. n |-> UnmapStep(k, H, q, a.start, i, x[i])]
<1>4. P[0]
  <2>1. \A w \in Addresses : ~(a.start <= w /\ w < a.start + 0)
    BY <1>1 DEF Addresses
  <2>2. UnmapStep(k, H, q, a.start, 0, k)
    BY <2>1, BesideSelf DEF UnmapStep, Unmapped, CellsBeside
  <2> QED BY <1>2, <1>3, <2>2
<1>5. ASSUME NEW i \in 1 .. n, P[i - 1] PROVE P[i]
  <2>1. i - 1 \in 0 .. n /\ i \in 0 .. n /\ i - 1 \in Nat /\ (i - 1) + 1 = i
    BY <1>2
  <2>2. UnmapStep(k, H, q, a.start, i - 1, x[i - 1])
    BY <1>5, <2>1
  <2>3. a.start + (i - 1) \in Addresses /\ a.start + i - 1 = a.start + (i - 1)
    BY <1>1, <1>2 DEF Addresses
  <2>4. x[i] = RemovePte(x[i - 1], q, a.start + (i - 1))
    BY <1>3, <2>3
  <2>5. UnmapStep(k, H, q, a.start, (i - 1) + 1, x[i])
    <3> HIDE DEF n, P
    <3> QED BY <1>1, <2>1, <2>2, <2>3, <2>4, UnmapMore
  <2> QED BY <2>1, <2>5
<1>6. P[n]
  <2> HIDE DEF P, n
  <2> QED BY <1>2, <1>4, <1>5, Upward
<1> QED BY <1>2, <1>3, <1>6

\* Addresses of D are unmapped.
Bare(k, H, q, D, t) ==
  /\ Good(t) /\ Beside(k, t, q) /\ t.halt = k.halt
  /\ k.halt = "none" => /\ Clean(t, H) /\ CellsBeside(k, t, q) /\ t.mm[q].pd = k.mm[q].pd
                        /\ \A w \in D : t.mm[q].pte[w] = Zero

\* The addresses of an area, and of the first n areas.
Within(a)       == {w \in Addresses : a.start <= w /\ w < a.end}
Covered(s, n)   == {w \in Addresses : \E i \in 1 .. n : s[i].start <= w /\ w < s[i].end}

\* One area more.
LEMMA CoveredMore ==
  ASSUME NEW s, NEW i \in Nat, i > 0
  PROVE  Covered(s, i) = Covered(s, i - 1) \cup Within(s[i])
<1> DEFINE X == 1 .. i
           Y == 1 .. (i - 1)
<1>1. X = Y \cup {i}
  OBVIOUS
<1>2. Covered(s, i) = {w \in Addresses : \E j \in X : s[j].start <= w /\ w < s[j].end}
  BY DEF Covered
<1>3. Covered(s, i - 1) = {w \in Addresses : \E j \in Y : s[j].start <= w /\ w < s[j].end}
  BY DEF Covered
<1> HIDE DEF X, Y
<1> QED BY <1>1, <1>2, <1>3 DEF Within

\* No area covers nothing.
LEMMA CoveredNone == ASSUME NEW s PROVE Covered(s, 0) = {}
<1>1. 1 .. 0 = {}
  OBVIOUS
<1> DEFINE Z == 1 .. 0
<1>2. Z = {}
  BY <1>1
<1>3. Covered(s, 0) = {w \in Addresses : \E j \in Z : s[j].start <= w /\ w < s[j].end}
  BY DEF Covered
<1> HIDE DEF Z
<1> QED BY <1>2, <1>3

\* unmap_range of one area more
LEMMA BareMore ==
  ASSUME NEW k, NEW H, NEW q \in Procs, NEW D, D \subseteq Addresses, NEW s, Bare(k, H, q, D, s),
         NEW a \in AreaTypes, NEW t, t = UnmapRange(s, q, a)
  PROVE  Bare(k, H, q, D \cup Within(a), t)
<1>1. Good(s) /\ Beside(k, s, q) /\ s.halt = k.halt /\ HasMm(s, q)
  BY DEF Bare, Beside
<1>2. s.halt = "none" => Clean(s, H)
  BY <1>1 DEF Bare
<1> DEFINE n == a.end - a.start
<1>3. UnmapStep(s, H, q, a.start, n, t)
  BY <1>1, <1>2, UnmapRangeIs
<1>4. \A w \in Addresses : a.start <= w /\ w < a.start + n <=> w \in Within(a)
  <2>1. a.start \in Nat /\ a.end \in Nat /\ \A w \in Addresses : w \in Nat
    BY VmAssumption DEF AreaTypes, Addresses
  <2> QED BY <2>1 DEF Within
<1> HIDE DEF n
<1>5. Good(t) /\ Beside(k, t, q) /\ t.halt = k.halt
  <2>1. Good(t) /\ Beside(s, t, q) /\ t.halt = s.halt
    BY <1>3 DEF UnmapStep
  <2> QED BY <1>1, <2>1, BesideTwice
<1>6. ASSUME k.halt = "none"
      PROVE  /\ Clean(t, H) /\ CellsBeside(k, t, q) /\ t.mm[q].pd = k.mm[q].pd
             /\ \A w \in D \cup Within(a) : t.mm[q].pte[w] = Zero
  <2>1. Unmapped(s, H, q, a.start, n, t)
    BY <1>1, <1>3, <1>6 DEF UnmapStep
  <2>2. CellsBeside(k, s, q) /\ s.mm[q].pd = k.mm[q].pd /\ \A w \in D : s.mm[q].pte[w] = Zero
    BY <1>6 DEF Bare
  <2>3. Clean(t, H) /\ CellsBeside(s, t, q) /\ t.mm[q].pd = s.mm[q].pd
    BY <2>1 DEF Unmapped
  <2>4. \A w \in Addresses : t.mm[q].pte[w] = IF w \in Within(a) THEN Zero ELSE s.mm[q].pte[w]
    BY <1>4, <2>1 DEF Unmapped
  <2>5. \A w \in D \cup Within(a) : t.mm[q].pte[w] = Zero
    <3>1. Within(a) \subseteq Addresses
      BY DEF Within
    <3> QED BY <2>2, <2>4, <3>1
  <2>6. CellsBeside(k, t, q)
    BY <2>2, <2>3, SMTT(30) DEF CellsBeside
  <2> QED BY <2>2, <2>3, <2>5, <2>6
<1> QED BY <1>5, <1>6 DEF Bare

\* After the first loop of exit_mmap no page is mapped.
LEMMA UnmapAreasIs ==
  ASSUME NEW k, NEW H, Good(k), NEW q \in Procs, HasMm(k, q), k.halt = "none" => Clean(k, H),
         NEW t, t = UnmapAreas(k, q, k.mm[q].areas)
  PROVE  Bare(k, H, q, Addresses, t)
<1> DEFINE s == k.mm[q].areas
           n == Len(s)
<1>1. s \in Seq(AreaTypes)
  BY MmKinds
<1>2. n \in Nat /\ \A i \in 1 .. n : s[i] \in AreaTypes
  BY <1>1
<1>3. PICK x : x[0] = k /\ (\A i \in 1 .. n : x[i] = UnmapRange(x[i - 1], q, s[i])) /\ x[n] = UnmapAreas(k, q, s)
  BY <1>2, UnmapsTurns
<1> DEFINE P == [i \in 0 .. n |-> Bare(k, H, q, Covered(s, i), x[i])]
<1>8. DOMAIN s = 1 .. n
  <2>1. DOMAIN s = 1 .. Len(s)
    BY <1>1, LenProperties, Zenon
  <2> QED BY <2>1
<1> HIDE DEF s, n
<1>4. P[0]
  <2>1. Bare(k, H, q, {}, k)
    BY BesideSelf DEF Bare, CellsBeside
  <2>2. Covered(s, 0) = {}
    BY CoveredNone
  <2>3. 0 \in 0 .. n
    BY <1>2
  <2>4. P[0] = Bare(k, H, q, Covered(s, 0), x[0])
    BY <2>3
  <2> HIDE DEF P
  <2> QED BY <1>3, <2>1, <2>2, <2>4
<1>5. ASSUME NEW i \in 1 .. n, P[i - 1] PROVE P[i]
  <2>1. i - 1 \in 0 .. n /\ i \in 0 .. n /\ i \in Nat /\ i > 0
    BY <1>2
  <2>2. Bare(k, H, q, Covered(s, i - 1), x[i - 1])
    BY <1>5, <2>1
  <2>3. Bare(k, H, q, Covered(s, i - 1) \cup Within(s[i]), x[i])
    <3>1. Covered(s, i - 1) \subseteq Addresses
      BY DEF Covered
    <3> HIDE DEF P
    <3> QED BY <1>2, <1>3, <2>2, <3>1, BareMore
  <2>4. Covered(s, i) = Covered(s, i - 1) \cup Within(s[i])
    BY <2>1, CoveredMore
  <2>5. P[i] = Bare(k, H, q, Covered(s, i), x[i])
    BY <2>1
  <2> HIDE DEF P
  <2> QED BY <2>3, <2>4, <2>5
<1>6. Bare(k, H, q, Covered(s, n), t)
  <2>1. P[n]
    <3> HIDE DEF P
    <3> QED BY <1>2, <1>4, <1>5, Upward
  <2>2. P[n] = Bare(k, H, q, Covered(s, n), x[n])
    BY <1>2, SMTT(30)
  <2> HIDE DEF P
  <2> QED BY <1>3, <2>1, <2>2 DEF s
<1>7. ASSUME k.halt = "none", NEW w \in Addresses PROVE t.mm[q].pte[w] = Zero
  <2>1. Clean(t, H) /\ Beside(k, t, q) /\ \A y \in Covered(s, n) : t.mm[q].pte[y] = Zero
    BY <1>6, <1>7, SMTT(30) DEF Bare
  <2>2. HasMm(t, q) /\ t.mm[q].areas = s
    BY <2>1, SMTT(30) DEF Beside, s
  <2>3. MmSound(t.mm[q])
    BY <2>1, <2>2 DEF Clean, Sound
  <2>4. InArea(s, w) => w \in Covered(s, n)
    BY <1>8 DEF InArea, Covered
  <2> QED BY <2>1, <2>2, <2>3, <2>4, ZenonT(60) DEF MmSound
<1> QED BY <1>6, <1>7 DEF Bare

\* exit_range, one page table
Bared(k, q) == \A w \in Addresses : k.mm[q].pte[w] = Zero

\* A page table that maps nothing is freed, its entry of the directory cleared.
LEMMA DropTableIs ==
  ASSUME NEW k, NEW H, Good(k), NEW q \in Procs, HasMm(k, q),
         k.halt = "none" => Clean(k, H) /\ Bared(k, q), NEW d \in Dirs, NEW t, t = DropTable(k, q, d)
  PROVE  /\ Good(t) /\ Beside(k, t, q) /\ t.halt = k.halt
         /\ k.halt = "none" => /\ Clean(t, H) /\ Bared(t, q) /\ CellsBeside(k, t, q)
                               /\ \A e \in Dirs : t.mm[q].pd[e] = IF e = d THEN NoPage ELSE k.mm[q].pd[e]
<1> DEFINE p == k.mm[q].pd[d]
<1>1. CASE p = NoPage
  <2>1. t = k
    BY <1>1 DEF DropTable
  <2> QED BY <1>1, <2>1, BesideSelf DEF CellsBeside
<1>2. CASE p # NoPage
  <2>1. t = [FreePage(k, p) EXCEPT !.mm[q].pd[d] = NoPage]
    BY <1>2 DEF DropTable
  <2>2. DOMAIN k = KFields /\ k.halt # "assert"
    BY DEF Good
  <2> HIDE DEF p
  <2>3. /\ DOMAIN t = KFields /\ t.halt = k.halt /\ Same(k, t) /\ t.area = FreePages(k.area, p, 1)
        /\ t.data = [k.data EXCEPT ![p] = Old] /\ t.ref = [k.ref EXCEPT ![p] = 0]
        /\ t.mm = [k.mm EXCEPT ![q].pd[d] = NoPage]
    BY <2>1, <2>2 DEF FreePage, KFields, Same
  <2>4. PdSet(k, t, q, d, NoPage)
    BY <2>3, PdChange
  <2>5. Good(t) /\ HasMm(t, q)
    BY <2>2, <2>3, <2>4, PdGood
  <2>6. Beside(k, t, q)
    BY <2>3, <2>4, PdBeside
  <2>7. ASSUME k.halt = "none"
        PROVE  /\ Clean(t, H) /\ Bared(t, q) /\ CellsBeside(k, t, q)
               /\ \A e \in Dirs : t.mm[q].pd[e] = IF e = d THEN NoPage ELSE k.mm[q].pd[e]
    <3>1. Sound(k, H) /\ NoSwap(k) /\ Bared(k, q)
      BY <2>7 DEF Clean
    <3>2. /\ DOMAIN k.data = Pages /\ AreaOK(k.area) /\ Exact(Map(k), Free(k.area), H, k.ref)
          /\ \A x \in Procs : HasMm(k, x) => MmSound(k.mm[x])
      BY <3>1 DEF Sound
    <3>3. PICK s : s = <<"table", q, d>>
      OBVIOUS
    <3>4. s \in Slots /\ Map(k)[s] = p /\ s[1] = "table"
      <4>1. s \in Slots /\ Map(k)[s] = p
        BY <3>3, TableSlot DEF p
      <4> QED BY <3>3, <4>1
    <3>5. p \in Pages /\ p \notin Free(k.area) /\ DOMAIN k.ref = Pages
      BY <1>2, <3>2, <3>4 DEF Exact, p
    <3>6. AreaOK(t.area) /\ Free(t.area) = Free(k.area) \cup {p}
      BY <2>3, <3>2, <3>5, FreeOne
    <3>7. Exact(Map(t), Free(t.area), H, t.ref)
      <4>1. SetAt(Map(k), Map(t), s, NoPage)
        BY <2>3, <2>4, <3>3, PdMap DEF Same
      <4>2. DOMAIN t.ref = Pages /\ \A x \in Pages : t.ref[x] = IF x = p THEN 0 ELSE k.ref[x]
        BY <2>3, <3>5
      <4>3. Map(k)[s] # NoPage
        BY <1>2, <3>4 DEF p
      <4>4. Exact(Map(t), Free(k.area) \cup {Map(k)[s]}, H, t.ref)
        BY <3>2, <3>4, <4>1, <4>2, <4>3, DropExact
      <4> QED BY <3>4, <3>6, <4>4
    <3>8. ASSUME NEW x \in Procs, HasMm(t, x) PROVE MmSound(t.mm[x])
      <4>1. CASE x # q
        <5>1. t.mm[x] = k.mm[x]
          BY <2>4, <4>1 DEF PdSet, OnlyMm
        <5> QED BY <3>2, <3>8, <5>1 DEF HasMm
      <4>2. CASE x = q
        <5>1. MmSound(k.mm[q])
          BY <3>2
        <5>2. MmSound(t.mm[q])
          BY <2>4, <3>1, <5>1 DEF MmSound, PdSet, Bared
        <5> QED BY <4>2, <5>2
      <4> QED BY <4>1, <4>2
    <3>9. DOMAIN t.data = Pages
      BY <2>3, <3>2
    <3>10. Sound(t, H)
      BY <3>6, <3>7, <3>8, <3>9 DEF Sound
    <3>11. \A r \in Procs : (HasMm(k, r) <=> HasMm(t, r)) /\ t.mm[r].pte = k.mm[r].pte
      BY <2>4 DEF PdSet, OnlyMm, HasMm
    <3>12. NoSwap(t) /\ Bared(t, q)
      BY <3>1, <3>11 DEF NoSwap, Bared
    <3>13. CellsSame(k, t)
      <4>1. ASSUME NEW y \in Slots, y[1] = "user", Map(k)[y] \in Pages
            PROVE  t.data[Map(k)[y]] = k.data[Map(k)[y]]
        <5>1. Map(k)[y] # p
          BY <1>2, <3>2, <3>4, <4>1 DEF Exact, p
        <5> QED BY <2>3, <3>2, <4>1, <5>1
      <4>2. Exact(Map(k), Free(k.area), H, k.ref) /\ t.disk = k.disk
        BY <2>3, <3>2 DEF Same
      <4>3. \A y \in Slots : y[1] = "user" /\ Map(k)[y] \in Pages => t.data[Map(k)[y]] = k.data[Map(k)[y]]
        BY <4>1
      <4>4. /\ \A r \in Procs : HasMm(k, r) <=> HasMm(t, r)
            /\ \A r \in Procs : HasMm(k, r) => t.mm[r].pte = k.mm[r].pte
        BY <3>11
      <4> QED BY <4>2, <4>3, <4>4, CellsKept
    <3> QED BY <2>3, <2>4, <2>7, <3>10, <3>12, <3>13 DEF Clean, CellsSame, CellsBeside, PdSet
  <2> QED BY <2>3, <2>5, <2>6, <2>7, SMTT(30)
<1> QED BY <1>1, <1>2

\* The page tables of the addresses of D are given back.
Dropped(k, H, q, D, t) ==
  /\ Good(t) /\ Beside(k, t, q) /\ t.halt = k.halt
  /\ k.halt = "none" => /\ Clean(t, H) /\ Bared(t, q) /\ CellsBeside(k, t, q)
                        /\ \A w \in D : t.mm[q].pd[Dir(w)] = NoPage

\* exit_range, one page table more
LEMMA DroppedMore ==
  ASSUME NEW k, NEW H, NEW q \in Procs, NEW D, D \subseteq Addresses, NEW s, Dropped(k, H, q, D, s),
         NEW v \in Addresses, NEW t, t = DropTable(s, q, Dir(v))
  PROVE  Dropped(k, H, q, D \cup {v}, t)
<1>1. Good(s) /\ Beside(k, s, q) /\ s.halt = k.halt /\ HasMm(s, q)
  BY DEF Dropped, Beside
<1>2. s.halt = "none" => Clean(s, H) /\ Bared(s, q)
  BY <1>1 DEF Dropped
<1>3. Dir(v) \in Dirs
  BY DirOf
<1>4. /\ Good(t) /\ Beside(s, t, q) /\ t.halt = s.halt
      /\ s.halt = "none" => /\ Clean(t, H) /\ Bared(t, q) /\ CellsBeside(s, t, q)
                            /\ \A e \in Dirs : t.mm[q].pd[e] = IF e = Dir(v) THEN NoPage ELSE s.mm[q].pd[e]
  BY <1>1, <1>2, <1>3, DropTableIs
<1>5. Beside(k, t, q)
  BY <1>1, <1>4, BesideTwice
<1>6. ASSUME k.halt = "none"
      PROVE  CellsBeside(k, t, q) /\ \A w \in D \cup {v} : t.mm[q].pd[Dir(w)] = NoPage
  <2>1. CellsBeside(k, s, q) /\ \A w \in D : s.mm[q].pd[Dir(w)] = NoPage
    BY <1>6 DEF Dropped
  <2>2. CellsBeside(s, t, q)
    BY <1>1, <1>4, <1>6
  <2>3. CellsBeside(k, t, q)
    BY <2>1, <2>2 DEF CellsBeside
  <2>4. ASSUME NEW w \in D \cup {v} PROVE t.mm[q].pd[Dir(w)] = NoPage
    <3>1. w \in Addresses /\ Dir(w) \in Dirs
      BY DirOf
    <3>2. t.mm[q].pd[Dir(w)] = IF Dir(w) = Dir(v) THEN NoPage ELSE s.mm[q].pd[Dir(w)]
      BY <1>1, <1>4, <1>6, <3>1
    <3> QED BY <2>1, <3>2
  <2> QED BY <2>3, <2>4
<1> QED BY <1>1, <1>4, <1>5, <1>6 DEF Dropped

\* exit_range
LEMMA ExitRangeIs ==
  ASSUME NEW k, NEW H, NEW q \in Procs, NEW D, D \subseteq Addresses, NEW s, Dropped(k, H, q, D, s),
         NEW a \in AreaTypes, NEW t, t = ExitRange(s, q, a)
  PROVE  Dropped(k, H, q, D \cup Within(a), t)
<1> DEFINE n == a.end - a.start
           Part(i) == {w \in Addresses : a.start <= w /\ w < a.start + i}
<1>1. a.start \in Nat /\ a.end \in Nat /\ a.start < a.end /\ a.end <= Top /\ Top \in Nat
  BY VmAssumption DEF AreaTypes
<1>2. n \in Nat /\ a.start + n = a.end
  BY <1>1
<1>3. PICK x : x[0] = s /\ (\A i \in 1 .. n : x[i] = DropTable(x[i - 1], q, Dir(a.start + i - 1))) /\ x[n] = ExitRange(s, q, a)
  BY <1>2, ExitTurns
<1>4. Addresses \subseteq Nat
  BY <1>1 DEF Addresses
<1>5. Part(0) = {}
  <2>1. \A w \in Addresses : ~(a.start <= w /\ w < a.start + 0)
    BY <1>1, <1>4
  <2> QED BY <2>1
<1>6. ASSUME NEW i \in 1 .. n
      PROVE  /\ a.start + i - 1 \in Addresses
             /\ Part(i) = Part(i - 1) \cup {a.start + i - 1}
  <2>1. a.start + i - 1 \in Addresses
    BY <1>1, <1>2 DEF Addresses
  <2>2. ASSUME NEW w \in Addresses
        PROVE  w < a.start + i <=> w < a.start + (i - 1) \/ w = a.start + i - 1
    BY <1>1, <1>2, <1>4
  <2>3. a.start <= a.start + i - 1
    BY <1>1, <1>2
  <2> QED BY <2>1, <2>2, <2>3
<1>7. Part(n) = Within(a)
  BY <1>2 DEF Within
<1> DEFINE P == [i \in 0 .. n |-> Dropped(k, H, q, D \cup Part(i), x[i])]
<1>8. P[0]
  <2>1. Dropped(k, H, q, D \cup {}, x[0])
    BY <1>3
  <2>2. P[0] = Dropped(k, H, q, D \cup Part(0), x[0])
    BY <1>2
  <2> HIDE DEF P, Part
  <2> QED BY <1>5, <2>1, <2>2
<1>9. ASSUME NEW i \in 1 .. n, P[i - 1] PROVE P[i]
  <2>1. i - 1 \in 0 .. n /\ i \in 0 .. n
    BY <1>2
  <2>2. P[i - 1] = Dropped(k, H, q, D \cup Part(i - 1), x[i - 1]) /\ P[i] = Dropped(k, H, q, D \cup Part(i), x[i])
    BY <2>1
  <2>3. Part(i - 1) \subseteq Addresses
    OBVIOUS
  <2> HIDE DEF P, Part
  <2>4. Dropped(k, H, q, (D \cup Part(i - 1)) \cup {a.start + i - 1}, x[i])
    <3>1. Dropped(k, H, q, D \cup Part(i - 1), x[i - 1])
      BY <1>9, <2>2
    <3>2. x[i] = DropTable(x[i - 1], q, Dir(a.start + i - 1)) /\ a.start + i - 1 \in Addresses
      BY <1>3, <1>6
    <3>3. D \cup Part(i - 1) \subseteq Addresses
      BY <2>3
    <3> QED BY <3>1, <3>2, <3>3, DroppedMore
  <2>5. (D \cup Part(i - 1)) \cup {a.start + i - 1} = D \cup Part(i)
    BY <1>6
  <2> QED BY <2>2, <2>4, <2>5
<1>10. P[n]
  <2> HIDE DEF P, n
  <2> QED BY <1>2, <1>8, <1>9, Upward
<1>11. P[n] = Dropped(k, H, q, D \cup Part(n), x[n])
  <2>1. n \in 0 .. n
    BY <1>2, SMTT(30)
  <2> HIDE DEF n, Part
  <2> QED BY <2>1
<1> HIDE DEF P, Part
<1> QED BY <1>3, <1>7, <1>10, <1>11

\* After the second loop of exit_mmap there is no page table.
LEMMA ExitAreasIs ==
  ASSUME NEW k, NEW H, Good(k), NEW q \in Procs, HasMm(k, q),
         k.halt = "none" => Clean(k, H) /\ Bared(k, q),
         NEW t, t = ExitAreas(k, q, k.mm[q].areas)
  PROVE  /\ Dropped(k, H, q, {}, t)
         /\ k.halt = "none" => \A d \in Dirs : t.mm[q].pd[d] = NoPage
<1> DEFINE s == k.mm[q].areas
           n == Len(s)
<1>1. s \in Seq(AreaTypes)
  BY MmKinds
<1>2. n \in Nat /\ \A i \in 1 .. n : s[i] \in AreaTypes
  BY <1>1
<1>3. PICK x : x[0] = k /\ (\A i \in 1 .. n : x[i] = ExitRange(x[i - 1], q, s[i])) /\ x[n] = ExitAreas(k, q, s)
  BY <1>2, ExitsTurns
<1> DEFINE P == [i \in 0 .. n |-> Dropped(k, H, q, Covered(s, i), x[i])]
<1>8. DOMAIN s = 1 .. n
  <2>1. DOMAIN s = 1 .. Len(s)
    BY <1>1, LenProperties, Zenon
  <2> QED BY <2>1
<1> HIDE DEF s, n
<1>4. P[0]
  <2>1. Dropped(k, H, q, {}, k)
    BY BesideSelf DEF Dropped, CellsBeside
  <2>2. Covered(s, 0) = {}
    BY CoveredNone
  <2>3. 0 \in 0 .. n
    BY <1>2
  <2>4. P[0] = Dropped(k, H, q, Covered(s, 0), x[0])
    BY <2>3
  <2> HIDE DEF P
  <2> QED BY <1>3, <2>1, <2>2, <2>4
<1>5. ASSUME NEW i \in 1 .. n, P[i - 1] PROVE P[i]
  <2>1. i - 1 \in 0 .. n /\ i \in 0 .. n /\ i \in Nat /\ i > 0
    BY <1>2
  <2>2. Dropped(k, H, q, Covered(s, i - 1), x[i - 1])
    BY <1>5, <2>1
  <2>3. Dropped(k, H, q, Covered(s, i - 1) \cup Within(s[i]), x[i])
    <3>1. Covered(s, i - 1) \subseteq Addresses
      BY DEF Covered
    <3> HIDE DEF P
    <3> QED BY <1>2, <1>3, <2>2, <3>1, ExitRangeIs
  <2>4. Covered(s, i) = Covered(s, i - 1) \cup Within(s[i])
    BY <2>1, CoveredMore
  <2>5. P[i] = Dropped(k, H, q, Covered(s, i), x[i])
    BY <2>1
  <2> HIDE DEF P
  <2> QED BY <2>3, <2>4, <2>5
<1>6. Dropped(k, H, q, Covered(s, n), t)
  <2>1. P[n]
    <3> HIDE DEF P
    <3> QED BY <1>2, <1>4, <1>5, Upward
  <2>2. P[n] = Dropped(k, H, q, Covered(s, n), x[n])
    BY <1>2, SMTT(30)
  <2> HIDE DEF P
  <2> QED BY <1>3, <2>1, <2>2 DEF s
<1>7. ASSUME k.halt = "none", NEW d \in Dirs PROVE t.mm[q].pd[d] = NoPage
  <2>1. Clean(t, H) /\ Beside(k, t, q) /\ \A y \in Covered(s, n) : t.mm[q].pd[Dir(y)] = NoPage
    BY <1>6, <1>7, SMTT(30) DEF Dropped
  <2>2. HasMm(t, q) /\ t.mm[q].areas = s
    BY <2>1, SMTT(30) DEF Beside, s
  <2>3. MmSound(t.mm[q])
    BY <2>1, <2>2 DEF Clean, Sound
  <2>4. \A w \in Addresses : InArea(s, w) => w \in Covered(s, n)
    BY <1>8 DEF InArea, Covered
  <2> QED BY <2>1, <2>2, <2>3, <2>4 DEF MmSound
<1> QED BY <1>6, <1>7 DEF Dropped

\* exit_mmap, put_pgdir and mm_destroy
Freed(k, H, q, t) == Clean(k, H) /\ Clean(t, H) /\ CellsBeside(k, t, q)

\* After exit_mmap, put_pgdir and mm_destroy the process has no mm, and its pages are free.
LEMMA FreeMmIs ==
  ASSUME NEW k, NEW H, Good(k), NEW q \in Procs, HasMm(k, q), k.halt = "none" => Clean(k, H),
         NEW t, t = FreeMm(k, q)
  PROVE  /\ Good(t) /\ Near(k, t, q) /\ t.mm[q] = NoMm /\ t.halt = k.halt /\ t.ret = k.ret
         /\ t.halt = "none" => Freed(k, H, q, t)
<1> DEFINE s == UnmapAreas(k, q, k.mm[q].areas)
           u == ExitAreas(s, q, k.mm[q].areas)
           p == u.mm[q].pgdir
<1>1. t = [FreePage(u, p) EXCEPT !.mm[q] = NoMm]
  BY Zenon DEF FreeMm
<1>2. Bare(k, H, q, Addresses, s)
  BY UnmapAreasIs
<1> HIDE DEF s
<1>3. Good(s) /\ Beside(k, s, q) /\ HasMm(s, q) /\ s.halt = k.halt /\ s.mm[q].areas = k.mm[q].areas
  BY <1>2 DEF Bare, Beside
<1>4. s.halt = "none" => Clean(s, H) /\ Bared(s, q) /\ CellsBeside(k, s, q)
  BY <1>2, <1>3 DEF Bare, Bared
<1>5. /\ Dropped(s, H, q, {}, u)
      /\ s.halt = "none" => \A d \in Dirs : u.mm[q].pd[d] = NoPage
  BY <1>3, <1>4, ExitAreasIs
<1> HIDE DEF u
<1>6. Good(u) /\ Beside(k, u, q) /\ HasMm(u, q) /\ u.halt = k.halt
  BY <1>3, <1>5, BesideTwice DEF Dropped, Beside
<1>7. DOMAIN u = KFields /\ u.halt # "assert"
  BY <1>6 DEF Good
<1>8. Near(k, u, q) /\ u.ret = k.ret
  BY <1>6, BesideNear
<1> HIDE DEF p
<1>9. /\ DOMAIN t = KFields /\ t.halt = u.halt /\ Same(u, t) /\ t.area = FreePages(u.area, p, 1)
      /\ t.data = [u.data EXCEPT ![p] = Old] /\ t.ref = [u.ref EXCEPT ![p] = 0]
      /\ t.mm = [u.mm EXCEPT ![q] = NoMm]
  BY <1>1, <1>7 DEF FreePage, KFields, Same
<1>10. OnlyMm(u, t, q) /\ t.mm[q] = NoMm
  BY <1>6, <1>9 DEF OnlyMm, Good
<1>11. Good(t)
  BY <1>6, <1>7, <1>9, <1>10, OnlyMmGood DEF MmFormed
<1>12. Near(k, t, q) /\ t.ret = k.ret
  <2>1. Near(u, t, q) /\ t.ret = u.ret
    BY <1>9, <1>10 DEF Near, Same
  <2> QED BY <1>8, <2>1, NearTwice
<1>13. ASSUME k.halt = "none" PROVE Freed(k, H, q, t)
  <2>1. /\ Clean(u, H) /\ Bared(u, q) /\ CellsBeside(s, u, q) /\ CellsBeside(k, s, q)
        /\ \A d \in Dirs : u.mm[q].pd[d] = NoPage
    BY <1>3, <1>4, <1>5, <1>13 DEF Dropped
  <2>2. Sound(u, H) /\ NoSwap(u)
    BY <2>1 DEF Clean
  <2>3. /\ DOMAIN u.data = Pages /\ AreaOK(u.area) /\ Exact(Map(u), Free(u.area), H, u.ref)
        /\ \A x \in Procs : HasMm(u, x) => MmSound(u.mm[x])
    BY <2>2 DEF Sound
  <2>4. PICK y : y = <<"pgdir", q, 0>>
    OBVIOUS
  <2>5. y \in Slots /\ Map(u)[y] = p /\ y[1] = "pgdir"
    <3>1. y \in Slots /\ Map(u)[y] = p
      BY <2>4, SlotsOf DEF p
    <3> QED BY <2>4, <3>1
  <2>6. p # NoPage
    BY <1>6, <2>3 DEF MmSound, p
  <2>7. p \in Pages /\ p \notin Free(u.area) /\ DOMAIN u.ref = Pages
    BY <2>3, <2>5, <2>6 DEF Exact
  <2>8. AreaOK(t.area) /\ Free(t.area) = Free(u.area) \cup {p}
    BY <1>9, <2>3, <2>7, FreeOne
  <2>9. Exact(Map(t), Free(t.area), H, t.ref)
    <3>1. SetAt(Map(u), Map(t), y, NoPage)
      <4>1. \A v \in Addresses : u.mm[q].pte[v] \notin Pages
        BY <2>1, EntriesApart DEF Bared
      <4> QED BY <1>6, <1>9, <1>10, <2>1, <2>4, <4>1, GoneMap DEF Same
    <3>2. DOMAIN t.ref = Pages /\ \A x \in Pages : t.ref[x] = IF x = p THEN 0 ELSE u.ref[x]
      BY <1>9, <2>7
    <3>3. Exact(Map(t), Free(u.area) \cup {Map(u)[y]}, H, t.ref)
      BY <2>3, <2>5, <2>6, <3>1, <3>2, DropExact
    <3> QED BY <2>5, <2>8, <3>3
  <2>10. ASSUME NEW x \in Procs, HasMm(t, x) PROVE MmSound(t.mm[x]) /\ t.mm[x] = u.mm[x] /\ HasMm(u, x)
    <3>1. x # q
      BY <1>10, <2>10 DEF HasMm, NoMm, MmFields
    <3>2. t.mm[x] = u.mm[x]
      BY <1>10, <3>1 DEF OnlyMm
    <3> QED BY <2>3, <2>10, <3>2 DEF HasMm
  <2>11. Sound(t, H)
    <3>1. DOMAIN t.data = Pages
      BY <1>9, <2>3
    <3> QED BY <2>8, <2>9, <2>10, <3>1 DEF Sound
  <2>12. NoSwap(t)
    BY <2>2, <2>10 DEF NoSwap
  <2>13. CellsBeside(u, t, q)
    <3> SUFFICES ASSUME NEW r \in Procs, NEW w \in Addresses, r # q PROVE CellIn(t, r, w) = CellIn(u, r, w)
      BY DEF CellsBeside
    <3>1. t.mm[r] = u.mm[r] /\ (HasMm(t, r) <=> HasMm(u, r)) /\ t.disk = u.disk
      BY <1>9, <1>10 DEF OnlyMm, HasMm, Same
    <3>2. HasMm(u, r) /\ u.mm[r].pte[w] \in Pages => t.data[u.mm[r].pte[w]] = u.data[u.mm[r].pte[w]]
      <4> SUFFICES ASSUME HasMm(u, r), u.mm[r].pte[w] \in Pages
                   PROVE  t.data[u.mm[r].pte[w]] = u.data[u.mm[r].pte[w]]
        OBVIOUS
      <4>1. PICK z : z = <<"user", r, w>>
        OBVIOUS
      <4>2. z \in Slots /\ Map(u)[z] = u.mm[r].pte[w] /\ z # y
        <5>1. z \in Slots /\ Map(u)[z] = u.mm[r].pte[w]
          BY <4>1, UserSlot
        <5> QED BY <2>4, <4>1, <5>1
      <4>3. u.mm[r].pte[w] # p
        BY <2>3, <2>5, <2>6, <4>2 DEF Exact
      <4> QED BY <1>9, <2>3, <4>3
    <3> QED BY <3>1, <3>2 DEF CellIn
  <2>14. CellsBeside(k, t, q)
    BY <2>1, <2>13 DEF CellsBeside
  <2> QED BY <1>6, <1>9, <1>13, <2>11, <2>12, <2>14 DEF Freed, Clean
<1> QED BY <1>6, <1>9, <1>10, <1>11, <1>12, <1>13

-----------------------------------------------------------------------------
(* A new address space, and one that is a copy.                            *)

\* setup_pgdir
LEMMA NewMmIs ==
  ASSUME NEW k, NEW H, Checked = {}, Good(k), NEW q \in Procs, k.mm[q] = NoMm,
         k.halt = "none" => Clean(k, H), NEW t, t = NewMm(k, q)
  PROVE  /\ Good(t) /\ Near(k, t, q) /\ HasMm(t, q) /\ t.ret = k.ret /\ Bared(t, q)
         /\ t.halt = "none" => Clean(k, H) /\ Clean(t, H) /\ CellsSame(k, t)
<1> DEFINE s == TakePage(k)
           p == s.got
           m == EmptyMm(p)
<1>1. t = [s EXCEPT !.mm[q] = m]
  BY Zenon DEF NewMm
<1>2. /\ Good(s) /\ s.mm = k.mm /\ Same(k, s) /\ s.ref = k.ref /\ s.data = k.data
      /\ s.halt = "none" => /\ k.halt = "none" /\ s.got \in Pages \ H /\ s.got \in Free(k.area)
                            /\ Sound(s, H \cup {s.got})
  <2>1. k.halt = "none" => Sound(k, H)
    BY DEF Clean
  <2> QED BY <2>1, TakeIs
<1> HIDE DEF s, p
<1>3. DOMAIN s = KFields /\ s.halt # "assert" /\ DOMAIN s.mm = Procs
  BY <1>2 DEF Good
<1>4. /\ m.pgdir = p /\ DOMAIN m = MmFields /\ m.areas = <<>>
      /\ m.pd = [d \in Dirs |-> NoPage] /\ m.pte = [v \in Addresses |-> Zero]
  BY DEF EmptyMm, MmFields
<1>5. t.mm[q] = m /\ OnlyMm(s, t, q)
  BY <1>1, <1>3 DEF KFields, OnlyMm
<1>6. EmptyMm(p) = m
  OBVIOUS
<1> HIDE DEF m
<1>7. /\ DOMAIN t = KFields /\ t.halt = s.halt /\ Same(s, t) /\ t.area = s.area
      /\ t.data = s.data /\ t.ref = s.ref
  BY <1>1, <1>3 DEF KFields, Same
<1>8. HasMm(t, q) /\ Bared(t, q) /\ t.mm[q].areas = <<>>
  BY <1>4, <1>5 DEF HasMm, Bared
<1>9. MmFormed(t.mm[q])
  <2>1. DOMAIN m.pd = Dirs /\ DOMAIN m.pte = Addresses /\ m.areas \in Seq(AreaTypes)
    BY <1>4
  <2> QED BY <1>4, <1>5, <2>1 DEF MmFormed
<1>10. Good(t)
  BY <1>2, <1>3, <1>5, <1>7, <1>9, OnlyMmGood
<1>11. Near(k, t, q) /\ t.ret = k.ret
  BY <1>2, <1>5, <1>7 DEF Near, Same, OnlyMm
<1>12. ASSUME t.halt = "none" PROVE Clean(k, H) /\ Clean(t, H) /\ CellsSame(k, t)
  <2>1. Clean(k, H) /\ NoSwap(k) /\ p \in Pages \ H /\ Sound(s, H \cup {p})
    BY <1>2, <1>7, <1>12 DEF Clean, p
  <2>2. /\ DOMAIN s.data = Pages /\ AreaOK(s.area) /\ Exact(Map(s), Free(s.area), H \cup {p}, s.ref)
        /\ \A x \in Procs : HasMm(s, x) => MmSound(s.mm[x])
    BY <2>1 DEF Sound
  <2>3. PICK y : y = <<"pgdir", q, 0>>
    OBVIOUS
  <2>4. y \in Slots /\ Map(s)[y] = NoPage /\ ~CountsAt(y)
    <3>1. y \in Slots /\ Map(s)[y] = s.mm[q].pgdir
      BY <2>3, SlotsOf
    <3>2. s.mm[q].pgdir = NoPage
      BY <1>2 DEF NoMm
    <3>3. ~CountsAt(y)
      BY <2>3 DEF CountsAt
    <3> QED BY <3>1, <3>2, <3>3
  <2>5. SetAt(Map(s), Map(t), y, p)
    <3>1. s.mm[q] = NoMm /\ t.kstack = s.kstack /\ t.mm[q] = EmptyMm(p)
      BY <1>2, <1>5, <1>6, <1>7 DEF Same
    <3> QED BY <1>2, <1>5, <2>3, <3>1, NewMap
  <2>6. Exact(Map(t), Free(t.area), H, t.ref)
    <3> DEFINE G == H \cup {p}
    <3>1. p \in G /\ G \ {p} = H /\ Exact(Map(s), Free(s.area), G, s.ref)
      BY <2>1, <2>2
    <3>2. DOMAIN t.ref = Pages /\ \A x \in Pages : t.ref[x] = IF x = p /\ CountsAt(y) THEN 1 ELSE s.ref[x]
      BY <1>7, <2>2, <2>4 DEF Exact
    <3> HIDE DEF G
    <3>3. Exact(Map(t), Free(s.area), G \ {p}, t.ref)
      BY <2>4, <2>5, <3>1, <3>2, PutExact
    <3> QED BY <1>7, <3>1, <3>3
  <2>7. ASSUME NEW x \in Procs, HasMm(t, x)
        PROVE  MmSound(t.mm[x]) /\ \A v \in Addresses : t.mm[x].pte[v] # SwapEntry
    <3>1. CASE x # q
      <4>1. t.mm[x] = k.mm[x] /\ s.mm[x] = k.mm[x]
        BY <1>2, <1>5, <3>1 DEF OnlyMm
      <4> QED BY <2>1, <2>2, <2>7, <4>1 DEF HasMm, NoSwap
    <3>2. CASE x = q
      <4>1. AreasApart(<<>>)
        BY DEF AreasApart
      <4>2. p # NoPage
        BY <2>1, NotPage
      <4>3. \A v \in Addresses : m.pte[v] = Zero
        BY <1>4
      <4>4. \A d \in Dirs : m.pd[d] = NoPage
        BY <1>4
      <4>5. MmSound(m)
        BY <1>4, <4>1, <4>2, <4>3, <4>4 DEF MmSound
      <4> QED BY <1>5, <3>2, <4>3, <4>5, EntriesApart
    <3> QED BY <3>1, <3>2
  <2>8. Clean(t, H)
    BY <1>7, <1>12, <2>2, <2>6, <2>7 DEF Clean, Sound, NoSwap
  <2>9. CellsSame(k, t)
    <3> SUFFICES ASSUME NEW r \in Procs, NEW w \in Addresses PROVE CellIn(t, r, w) = CellIn(k, r, w)
      BY DEF CellsSame
    <3>1. CASE r # q
      <4>1. t.mm[r] = k.mm[r] /\ t.data = k.data /\ t.disk = k.disk
        BY <1>2, <1>5, <1>7, <3>1 DEF OnlyMm, Same
      <4> QED BY <4>1 DEF CellIn, HasMm
    <3>2. CASE r = q
      <4>1. ~HasMm(k, q)
        BY MmKinds
      <4> QED BY <1>8, <3>2, <4>1, EntriesApart DEF CellIn, Bared
    <3> QED BY <3>1, <3>2
  <2> QED BY <2>1, <2>8, <2>9
<1> QED BY <1>8, <1>10, <1>11, <1>12

\* A page more is mapped, and none is in its swap slot.
LEMMA MappedClean ==
  ASSUME NEW k, NEW H, NEW q \in Procs, HasMm(k, q), Clean(k, H), NEW v \in Addresses,
         NEW t, Beside(k, t, q), t.halt = "none", Mapped(k, H, q, v, t)
  PROVE  Clean(t, H)
<1>1. NoSwap(k) /\ Sound(t, H)
  BY DEF Clean, Mapped
<1>2. ASSUME NEW r \in Procs, HasMm(t, r), NEW w \in Addresses PROVE t.mm[r].pte[w] # SwapEntry
  <2>1. CASE r # q
    <3>1. t.mm[r] = k.mm[r]
      BY <2>1 DEF Beside, OnlyMm
    <3> QED BY <1>1, <1>2, <3>1 DEF NoSwap, HasMm
  <2>2. CASE r = q /\ w # v
    <3>1. t.mm[q].pte[w] = k.mm[q].pte[w]
      BY <2>2 DEF Mapped
    <3> QED BY <1>1, <2>2, <3>1 DEF NoSwap
  <2>3. CASE r = q /\ w = v
    <3>1. t.mm[q].pte[v] \in Pages \cup {Zero}
      BY DEF Mapped
    <3> QED BY <2>3, <3>1, EntriesApart
  <2> QED BY <2>1, <2>2, <2>3
<1> QED BY <1>1, <1>2 DEF Clean, NoSwap

\* What addresses of D hold is copied, the others are left.
Copying(k, H, to, from, D, t) ==
  /\ Good(t) /\ Beside(k, t, to)
  /\ t.halt = "none" =>
       /\ Clean(k, H) /\ Clean(t, H) /\ CellsBeside(k, t, to)
       /\ \A v \in D : CellIn(t, to, v) = CellIn(k, from, v)
       /\ \A v \in Addresses \ D : t.mm[to].pte[v] = k.mm[to].pte[v] /\ CellIn(t, to, v) = CellIn(k, to, v)

\* copy_range, one page more
LEMMA CopyMore ==
  ASSUME NEW k, NEW H, Checked = {}, NEW to \in Procs, NEW from \in Procs, to # from, HasMm(k, from),
         NEW D, D \subseteq Addresses, NEW s, Copying(k, H, to, from, D, s), NEW v \in Addresses \ D,
         k.halt = "none" => InArea(k.mm[to].areas, v) /\ k.mm[to].pte[v] = Zero,
         NEW t, t = CopyPage(s, to, from, v)
  PROVE  Copying(k, H, to, from, D \cup {v}, t)
<1>1. Good(s) /\ Beside(k, s, to) /\ HasMm(s, to) /\ s.mm[to].areas = k.mm[to].areas /\ s.mm[from] = k.mm[from]
  BY DEF Copying, Beside, OnlyMm
<1>2. HasMm(s, from)
  BY <1>1 DEF HasMm
<1>3. ASSUME s.halt = "none" PROVE MayMap(s, H, to, v) /\ s.mm[from].pte[v] # SwapEntry
  <2>1. k.halt = "none" /\ Clean(s, H) /\ s.mm[to].pte[v] = k.mm[to].pte[v]
    BY <1>3 DEF Copying, Clean
  <2> QED BY <1>1, <1>2, <2>1 DEF MayMap, Clean, NoSwap
<1>4. /\ Good(t) /\ Beside(s, t, to)
      /\ t.halt = "none" => Mapped(s, H, to, v, t) /\ CellIn(t, to, v) = CellIn(s, from, v)
  BY <1>1, <1>2, <1>3, CopyPageIs
<1>5. Beside(k, t, to)
  BY <1>1, <1>4, BesideTwice
<1>6. ASSUME t.halt = "none"
      PROVE  /\ Clean(k, H) /\ Clean(t, H) /\ CellsBeside(k, t, to)
             /\ \A w \in D \cup {v} : CellIn(t, to, w) = CellIn(k, from, w)
             /\ \A w \in Addresses \ (D \cup {v}) : t.mm[to].pte[w] = k.mm[to].pte[w] /\ CellIn(t, to, w) = CellIn(k, to, w)
  <2>1. Mapped(s, H, to, v, t) /\ CellIn(t, to, v) = CellIn(s, from, v)
    BY <1>4, <1>6
  <2>2. s.halt = "none" /\ CellsBut(s, t, to, v) /\ \A w \in Addresses : w # v => t.mm[to].pte[w] = s.mm[to].pte[w]
    BY <2>1 DEF Mapped
  <2>3. /\ Clean(k, H) /\ Clean(s, H) /\ CellsBeside(k, s, to)
        /\ \A w \in D : CellIn(s, to, w) = CellIn(k, from, w)
        /\ \A w \in Addresses \ D : s.mm[to].pte[w] = k.mm[to].pte[w] /\ CellIn(s, to, w) = CellIn(k, to, w)
    BY <2>2 DEF Copying
  <2>4. Clean(t, H)
    BY <1>1, <1>4, <1>6, <2>1, <2>3, MappedClean
  <2>5. CellsBeside(k, t, to)
    BY <2>2, <2>3 DEF CellsBeside, CellsBut
  <2>6. ASSUME NEW w \in D \cup {v} PROVE CellIn(t, to, w) = CellIn(k, from, w)
    <3>1. CASE w = v
      <4>1. CellIn(s, from, v) = CellIn(k, from, v)
        BY <2>3 DEF CellsBeside
      <4> QED BY <2>1, <3>1, <4>1
    <3>2. CASE w # v
      <4>1. w \in D /\ w \in Addresses
        BY <3>2
      <4> QED BY <2>2, <2>3, <3>2, <4>1 DEF CellsBut
    <3> QED BY <3>1, <3>2
  <2>7. ASSUME NEW w \in Addresses \ (D \cup {v})
        PROVE  t.mm[to].pte[w] = k.mm[to].pte[w] /\ CellIn(t, to, w) = CellIn(k, to, w)
    BY <2>2, <2>3 DEF CellsBut
  <2> QED BY <2>3, <2>4, <2>5, <2>6, <2>7
<1> QED BY <1>4, <1>5, <1>6 DEF Copying

\* copy_range
LEMMA CopyRangeIs ==
  ASSUME NEW k, NEW H, Checked = {}, Good(k), NEW to \in Procs, NEW from \in Procs, to # from,
         HasMm(k, to), HasMm(k, from), NEW a \in AreaTypes,
         k.halt = "none" => /\ Clean(k, H)
                            /\ \A v \in Within(a) : InArea(k.mm[to].areas, v) /\ k.mm[to].pte[v] = Zero,
         NEW t, t = CopyRange(k, to, from, a)
  PROVE  Copying(k, H, to, from, Within(a), t)
<1> DEFINE n == a.end - a.start
           Part(i) == {w \in Addresses : a.start <= w /\ w < a.start + i}
<1>1. a.start \in Nat /\ a.end \in Nat /\ a.start < a.end /\ a.end <= Top /\ Top \in Nat
  BY VmAssumption DEF AreaTypes
<1>2. n \in Nat /\ a.start + n = a.end
  BY <1>1
<1>3. PICK x : x[0] = k /\ (\A i \in 1 .. n : x[i] = CopyPage(x[i - 1], to, from, a.start + i - 1)) /\ x[n] = CopyRange(k, to, from, a)
  BY <1>2, CopyTurns
<1>4. Addresses \subseteq Nat
  BY <1>1 DEF Addresses
<1>5. Part(0) = {}
  <2>1. \A w \in Addresses : ~(a.start <= w /\ w < a.start + 0)
    BY <1>1, <1>4
  <2> QED BY <2>1
<1>6. ASSUME NEW i \in 1 .. n
      PROVE  /\ a.start + i - 1 \in Addresses \ Part(i - 1) /\ a.start + i - 1 \in Within(a)
             /\ Part(i) = Part(i - 1) \cup {a.start + i - 1}
  <2>1. a.start + i - 1 \in Addresses
    BY <1>1, <1>2 DEF Addresses
  <2>2. ASSUME NEW w \in Addresses
        PROVE  w < a.start + i <=> w < a.start + (i - 1) \/ w = a.start + i - 1
    BY <1>1, <1>2, <1>4
  <2>3. a.start <= a.start + i - 1 /\ a.start + i - 1 < a.end /\ ~(a.start + i - 1 < a.start + (i - 1))
    BY <1>1, <1>2
  <2> QED BY <2>1, <2>2, <2>3 DEF Within
<1>7. Part(n) = Within(a)
  BY <1>2 DEF Within
<1> DEFINE P == [i \in 0 .. n |-> Copying(k, H, to, from, Part(i), x[i])]
<1>8. P[0]
  <2>1. Copying(k, H, to, from, {}, x[0])
    BY <1>3, BesideSelf DEF Copying, CellsBeside
  <2>2. P[0] = Copying(k, H, to, from, Part(0), x[0])
    BY <1>2
  <2> HIDE DEF P, Part
  <2> QED BY <1>5, <2>1, <2>2
<1>9. ASSUME NEW i \in 1 .. n, P[i - 1] PROVE P[i]
  <2>1. i - 1 \in 0 .. n /\ i \in 0 .. n
    BY <1>2
  <2>2. P[i - 1] = Copying(k, H, to, from, Part(i - 1), x[i - 1]) /\ P[i] = Copying(k, H, to, from, Part(i), x[i])
    BY <2>1
  <2>3. Part(i - 1) \subseteq Addresses
    OBVIOUS
  <2> HIDE DEF P, Part
  <2>4. Copying(k, H, to, from, Part(i - 1) \cup {a.start + i - 1}, x[i])
    <3>1. Copying(k, H, to, from, Part(i - 1), x[i - 1])
      BY <1>9, <2>2
    <3>2. x[i] = CopyPage(x[i - 1], to, from, a.start + i - 1) /\ a.start + i - 1 \in Addresses \ Part(i - 1)
      BY <1>3, <1>6
    <3>3. k.halt = "none" => InArea(k.mm[to].areas, a.start + i - 1) /\ k.mm[to].pte[a.start + i - 1] = Zero
      BY <1>6
    <3> DEFINE v == a.start + i - 1
               D == Part(i - 1)
    <3>4. /\ D \subseteq Addresses /\ v \in Addresses \ D /\ Copying(k, H, to, from, D, x[i - 1])
          /\ x[i] = CopyPage(x[i - 1], to, from, v)
          /\ (k.halt = "none" => InArea(k.mm[to].areas, v) /\ k.mm[to].pte[v] = Zero)
      BY <2>3, <3>1, <3>2, <3>3
    <3> HIDE DEF v, D
    <3>5. Copying(k, H, to, from, D \cup {v}, x[i])
      BY <3>4, CopyMore
    <3> QED BY <3>5 DEF v, D
  <2>5. Part(i - 1) \cup {a.start + i - 1} = Part(i)
    BY <1>6
  <2> QED BY <2>2, <2>4, <2>5
<1>10. P[n]
  <2> HIDE DEF P, n
  <2> QED BY <1>2, <1>8, <1>9, Upward
<1>11. P[n] = Copying(k, H, to, from, Part(n), x[n])
  <2>1. n \in 0 .. n
    BY <1>2
  <2> HIDE DEF n, Part
  <2> QED BY <2>1
<1> HIDE DEF P, Part
<1> QED BY <1>3, <1>7, <1>10, <1>11

\* The areas of D are copied, and the other addresses are as in a new mm.
Duplicated(k, H, to, from, D, t) ==
  /\ Good(t) /\ Near(k, t, to) /\ HasMm(t, to)
  /\ t.halt = "none" =>
       /\ Clean(k, H) /\ Clean(t, H) /\ CellsBeside(k, t, to)
       /\ \A v \in D : CellIn(t, to, v) = CellIn(k, from, v)
       /\ \A v \in Addresses \ D : t.mm[to].pte[v] = Zero

\* dup_mmap, one area more
LEMMA DupAreaIs ==
  ASSUME NEW k, NEW H, Checked = {}, NEW to \in Procs, NEW from \in Procs, to # from, HasMm(k, from),
         NEW D, D \subseteq Addresses, NEW s, Duplicated(k, H, to, from, D, s), NEW a \in AreaTypes,
         NEW t, t = DupArea(s, to, from, a)
  PROVE  Duplicated(k, H, to, from, D \cup Within(a), t)
<1> DEFINE u == InsertVma(s, to, a)
<1>1. t = CopyRange(u, to, from, a)
  BY DEF DupArea
<1>2. Good(s) /\ Near(k, s, to) /\ HasMm(s, to) /\ s.mm[from] = k.mm[from] /\ HasMm(s, from)
  BY DEF Duplicated, Near, OnlyMm, HasMm
<1>3. s.halt = "none" => Clean(s, H)
  BY DEF Duplicated
<1>4. /\ Good(u) /\ Near(s, u, to) /\ HasMm(u, to) /\ u.mm[to].pte = s.mm[to].pte
      /\ u.halt = "none" => Added(s, H, to, a, u)
  <2>1. u = InsertVma(s, to, a)
    OBVIOUS
  <2>2. Good(s) /\ HasMm(s, to)
    BY <1>2
  <2> HIDE DEF u
  <2> QED BY <1>3, <2>1, <2>2, InsertVmaIs
<1> HIDE DEF u
<1>5. HasMm(u, from)
  BY <1>2, <1>4 DEF Near, OnlyMm, HasMm
<1>6. u.halt = "none" => /\ Clean(u, H)
                         /\ \A v \in Within(a) : InArea(u.mm[to].areas, v) /\ u.mm[to].pte[v] = Zero
  BY <1>4 DEF Added, Within
<1>7. Copying(u, H, to, from, Within(a), t)
  BY <1>1, <1>4, <1>5, <1>6, CopyRangeIs
<1>8. Good(t) /\ Near(u, t, to) /\ HasMm(t, to)
  BY <1>7, BesideNear DEF Copying
<1>9. Near(k, t, to)
  <2>1. Near(s, t, to)
    BY <1>4, <1>8, NearTwice
  <2> QED BY <1>2, <2>1, NearTwice
<1>10. ASSUME t.halt = "none"
       PROVE  /\ Clean(k, H) /\ Clean(t, H) /\ CellsBeside(k, t, to)
              /\ \A v \in D \cup Within(a) : CellIn(t, to, v) = CellIn(k, from, v)
              /\ \A v \in Addresses \ (D \cup Within(a)) : t.mm[to].pte[v] = Zero
  <2>1. /\ Clean(u, H) /\ Clean(t, H) /\ CellsBeside(u, t, to)
        /\ \A v \in Within(a) : CellIn(t, to, v) = CellIn(u, from, v)
        /\ \A v \in Addresses \ Within(a) : t.mm[to].pte[v] = u.mm[to].pte[v] /\ CellIn(t, to, v) = CellIn(u, to, v)
    BY <1>7, <1>10 DEF Copying
  <2>2. Clean(s, H) /\ CellsSame(s, u)
    BY <1>4, <2>1 DEF Added, Clean
  <2>3. /\ Clean(k, H) /\ CellsBeside(k, s, to)
        /\ \A v \in D : CellIn(s, to, v) = CellIn(k, from, v)
        /\ \A v \in Addresses \ D : s.mm[to].pte[v] = Zero
    BY <2>2 DEF Duplicated, Clean
  <2>4. CellsBeside(k, u, to)
    BY <2>2, <2>3 DEF CellsBeside, CellsSame
  <2>5. CellsBeside(k, t, to)
    BY <2>1, <2>4 DEF CellsBeside
  <2>6. ASSUME NEW v \in D \cup Within(a) PROVE CellIn(t, to, v) = CellIn(k, from, v)
    <3>1. v \in Addresses
      BY DEF Within
    <3>2. CASE v \in Within(a)
      <4>1. CellIn(u, from, v) = CellIn(k, from, v)
        BY <2>4, <3>1 DEF CellsBeside
      <4> QED BY <2>1, <3>2, <4>1
    <3>3. CASE v \notin Within(a)
      <4>1. CellIn(t, to, v) = CellIn(u, to, v) /\ CellIn(u, to, v) = CellIn(s, to, v)
        BY <2>1, <2>2, <3>1, <3>3 DEF CellsSame
      <4> QED BY <2>3, <3>3, <4>1
    <3> QED BY <3>2, <3>3
  <2>7. \A v \in Addresses \ (D \cup Within(a)) : t.mm[to].pte[v] = Zero
    BY <1>4, <2>1, <2>3
  <2> QED BY <2>1, <2>3, <2>5, <2>6, <2>7
<1> QED BY <1>8, <1>9, <1>10 DEF Duplicated

\* The addresses of the last n areas.
CoveredBack(s, n) == {w \in Addresses : \E i \in Len(s) - n + 1 .. Len(s) : s[i].start <= w /\ w < s[i].end}

\* One area more, from the last.
LEMMA CoveredBackMore ==
  ASSUME NEW s, Len(s) \in Nat, NEW i \in 1 .. Len(s)
  PROVE  CoveredBack(s, i) = CoveredBack(s, i - 1) \cup Within(s[Len(s) - i + 1])
<1> DEFINE n == Len(s)
           X == n - i + 1 .. n
           Y == n - (i - 1) + 1 .. n
           z == n - i + 1
<1>1. X = Y \cup {z}
  <2> HIDE DEF n
  <2>1. n \in Nat /\ i \in 1 .. n
    BY DEF n
  <2> QED BY <2>1
<1>2. CoveredBack(s, i) = {w \in Addresses : \E j \in X : s[j].start <= w /\ w < s[j].end}
  BY DEF CoveredBack
<1>3. CoveredBack(s, i - 1) = {w \in Addresses : \E j \in Y : s[j].start <= w /\ w < s[j].end}
  BY DEF CoveredBack
<1>4. Within(s[z]) = {w \in Addresses : s[z].start <= w /\ w < s[z].end}
  BY DEF Within
<1> HIDE DEF X, Y, z
<1>5. CoveredBack(s, i) = CoveredBack(s, i - 1) \cup Within(s[z])
  BY <1>1, <1>2, <1>3, <1>4
<1> QED BY <1>5 DEF z

\* None of them covers nothing.
LEMMA CoveredBackNone == ASSUME NEW s, Len(s) \in Nat PROVE CoveredBack(s, 0) = {}
<1> DEFINE Z == Len(s) - 0 + 1 .. Len(s)
<1>1. Z = {}
  OBVIOUS
<1>2. CoveredBack(s, 0) = {w \in Addresses : \E j \in Z : s[j].start <= w /\ w < s[j].end}
  BY DEF CoveredBack
<1> HIDE DEF Z
<1> QED BY <1>1, <1>2

\* dup_mmap
LEMMA DupMmapIs ==
  ASSUME NEW k, NEW H, Checked = {}, Good(k), NEW to \in Procs, NEW from \in Procs, to # from,
         HasMm(k, to), HasMm(k, from), k.halt = "none" => Clean(k, H) /\ Bared(k, to),
         NEW t, t = DupMmap(k, to, from)
  PROVE  /\ Good(t) /\ Near(k, t, to) /\ HasMm(t, to)
         /\ t.halt = "none" => /\ Clean(k, H) /\ Clean(t, H) /\ CellsBeside(k, t, to)
                               /\ \A v \in Addresses : CellIn(t, to, v) = CellIn(k, from, v)
<1> DEFINE s == k.mm[from].areas
           n == Len(s)
<1>1. s \in Seq(AreaTypes)
  BY MmKinds
<1>2. n \in Nat /\ Len(s) \in Nat /\ \A i \in 1 .. n : s[i] \in AreaTypes
  BY <1>1
<1>3. PICK x : x[0] = k /\ (\A i \in 1 .. n : x[i] = DupArea(x[i - 1], to, from, s[n - i + 1])) /\ x[n] = DupMmap(k, to, from)
  BY <1>2, DupTurns, SMTT(30)
<1> DEFINE P == [i \in 0 .. n |-> Duplicated(k, H, to, from, CoveredBack(s, i), x[i])]
<1>4. DOMAIN s = 1 .. n
  <2>1. DOMAIN s = 1 .. Len(s)
    BY <1>1, LenProperties, Zenon
  <2> QED BY <2>1
<1>5. n = Len(s)
  OBVIOUS
<1> HIDE DEF s, n
<1>6. P[0]
  <2>1. Duplicated(k, H, to, from, {}, k)
    BY NearSelf DEF Duplicated, CellsBeside, Bared
  <2>2. CoveredBack(s, 0) = {}
    BY <1>2, CoveredBackNone
  <2>3. 0 \in 0 .. n
    BY <1>2
  <2>4. P[0] = Duplicated(k, H, to, from, CoveredBack(s, 0), x[0])
    BY <2>3
  <2> HIDE DEF P
  <2> QED BY <1>3, <2>1, <2>2, <2>4
<1>7. ASSUME NEW i \in 1 .. n, P[i - 1] PROVE P[i]
  <2>1. i - 1 \in 0 .. n /\ i \in 0 .. n /\ n - i + 1 \in 1 .. n
    BY <1>2
  <2>2. Duplicated(k, H, to, from, CoveredBack(s, i - 1), x[i - 1])
    BY <1>7, <2>1
  <2>3. Duplicated(k, H, to, from, CoveredBack(s, i - 1) \cup Within(s[n - i + 1]), x[i])
    <3>1. CoveredBack(s, i - 1) \subseteq Addresses
      BY DEF CoveredBack
    <3>2. s[n - i + 1] \in AreaTypes /\ x[i] = DupArea(x[i - 1], to, from, s[n - i + 1])
      BY <1>2, <1>3, <2>1
    <3> HIDE DEF P
    <3> QED BY <2>2, <3>1, <3>2, DupAreaIs
  <2>4. CoveredBack(s, i) = CoveredBack(s, i - 1) \cup Within(s[n - i + 1])
    BY <1>2, <1>5, CoveredBackMore
  <2>5. P[i] = Duplicated(k, H, to, from, CoveredBack(s, i), x[i])
    BY <2>1
  <2> HIDE DEF P
  <2> QED BY <2>3, <2>4, <2>5
<1>8. Duplicated(k, H, to, from, CoveredBack(s, n), t)
  <2>1. P[n]
    <3> HIDE DEF P
    <3> QED BY <1>2, <1>6, <1>7, Upward
  <2>2. P[n] = Duplicated(k, H, to, from, CoveredBack(s, n), x[n])
    BY <1>2
  <2> HIDE DEF P
  <2> QED BY <1>3, <2>1, <2>2
<1>9. ASSUME t.halt = "none", NEW v \in Addresses PROVE CellIn(t, to, v) = CellIn(k, from, v)
  <2>1. /\ Clean(k, H) /\ \A w \in CoveredBack(s, n) : CellIn(t, to, w) = CellIn(k, from, w)
        /\ \A w \in Addresses \ CoveredBack(s, n) : t.mm[to].pte[w] = Zero
        /\ HasMm(t, to)
    BY <1>8, <1>9 DEF Duplicated
  <2>2. MmSound(k.mm[from])
    BY <2>1 DEF Clean, Sound
  <2>3. InArea(s, v) => v \in CoveredBack(s, n)
    <3>1. n - n + 1 = 1
      BY <1>2
    <3> QED BY <1>4, <1>5, <3>1 DEF InArea, CoveredBack
  <2>4. CASE v \in CoveredBack(s, n)
    BY <2>1, <2>4
  <2>5. CASE v \notin CoveredBack(s, n)
    <3>1. k.mm[from].pte[v] = Zero
      BY <2>2, <2>3, <2>5 DEF MmSound, s
    <3>2. t.mm[to].pte[v] = Zero
      BY <2>1, <2>5
    <3> QED BY <2>1, <3>1, <3>2, EntriesApart DEF CellIn
  <2> QED BY <2>4, <2>5
<1> QED BY <1>8, <1>9 DEF Duplicated

-----------------------------------------------------------------------------
(* A program is loaded.                                                    *)

\* The addresses of D are loaded, as far as the load got.
Filling(k, H, q, g, D, t) ==
  /\ Good(t) /\ Near(k, t, q) /\ HasMm(t, q) /\ t.mm[q].areas = k.mm[q].areas
  /\ t.halt = "none" =>
       /\ Clean(k, H) /\ Clean(t, H) /\ CellsBeside(k, t, q)
       /\ \A v \in Addresses \ D : t.mm[q].pte[v] = k.mm[q].pte[v] /\ CellIn(t, q, v) = CellIn(k, q, v)
       /\ t.ret = "ok" => \A v \in D : CellIn(t, q, v) = IF v < g.start + g.file THEN {"file"} ELSE {"zero"}

\* load_icode, one page more of a segment
LEMMA LoadPageIs ==
  ASSUME NEW k, NEW H, Checked = {}, NEW q \in Procs, NEW g, NEW D, D \subseteq Addresses,
         NEW s, Filling(k, H, q, g, D, s), NEW v \in Addresses \ D,
         k.halt = "none" => InArea(k.mm[q].areas, v) /\ k.mm[q].pte[v] = Zero,
         NEW t, t = LoadPage(s, q, g, v)
  PROVE  Filling(k, H, q, g, D \cup {v}, t)
<1>1. Good(s) /\ Near(k, s, q) /\ HasMm(s, q) /\ s.mm[q].areas = k.mm[q].areas
  BY DEF Filling
<1>2. CASE s.ret # "ok"
  <2>1. t = s
    BY <1>2 DEF LoadPage
  <2> QED BY <1>2, <2>1 DEF Filling
<1>3. CASE s.ret = "ok"
  <2> DEFINE x == IF v < g.start + g.file THEN "file" ELSE "zero"
             u == PgdirAllocPage(s, q, v, x)
             y == IF g.wrong = "short" THEN "short" ELSE u.ret
  <2>1. t = [u EXCEPT !.ret = y]
    BY <1>3 DEF LoadPage
  <2> HIDE DEF x, y
  <2>2. s.halt = "none" => MayMap(s, H, q, v)
    BY <1>1 DEF MayMap, Filling, Clean
  <2>3. /\ Good(u) /\ Beside(s, u, q)
        /\ u.halt = "none" => Mapped(s, H, q, v, u) /\ CellIn(u, q, v) = {x}
    <3>1. u = PgdirAllocPage(s, q, v, x) /\ Good(s) /\ HasMm(s, q) /\ v \in Addresses
      BY <1>1 DEF Filling
    <3> HIDE DEF u
    <3>2. PICK c : c = x
      OBVIOUS
    <3>3. u = PgdirAllocPage(s, q, v, c)
      BY <3>1, <3>2
    <3>4. /\ Good(u) /\ Beside(s, u, q)
          /\ u.halt = "none" => Mapped(s, H, q, v, u) /\ Holds(u, q, v, c)
      BY <2>2, <3>1, <3>3, PgdirAllocIs
    <3> QED BY <3>2, <3>4 DEF Holds
  <2> HIDE DEF u
  <2>4. /\ Good(t) /\ t.mm = u.mm /\ t.halt = u.halt
        /\ (Clean(u, H) => Clean(t, H)) /\ Near(u, t, q) /\ (HasMm(u, q) => HasMm(t, q)) /\ CellsSame(u, t)
    BY <2>1, <2>3, RetIs
  <2>5. HasMm(t, q) /\ t.mm[q].areas = k.mm[q].areas /\ Near(k, t, q)
    <3>1. HasMm(u, q) /\ u.mm[q].areas = s.mm[q].areas /\ Near(s, u, q)
      BY <2>3, BesideNear DEF Beside
    <3>2. Near(s, t, q)
      BY <2>4, <3>1, NearTwice
    <3> QED BY <1>1, <2>4, <3>1, <3>2, NearTwice
  <2>6. ASSUME t.halt = "none"
        PROVE  /\ Clean(k, H) /\ Clean(t, H) /\ CellsBeside(k, t, q)
               /\ \A w \in Addresses \ (D \cup {v}) : t.mm[q].pte[w] = k.mm[q].pte[w] /\ CellIn(t, q, w) = CellIn(k, q, w)
               /\ t.ret = "ok" => \A w \in D \cup {v} : CellIn(t, q, w) = IF w < g.start + g.file THEN {"file"} ELSE {"zero"}
    <3>1. Mapped(s, H, q, v, u) /\ CellIn(u, q, v) = {x} /\ u.halt = "none"
      BY <2>3, <2>4, <2>6
    <3>2. s.halt = "none" /\ CellsBut(s, u, q, v) /\ \A w \in Addresses : w # v => u.mm[q].pte[w] = s.mm[q].pte[w]
      BY <3>1 DEF Mapped
    <3>3. /\ Clean(k, H) /\ Clean(s, H) /\ CellsBeside(k, s, q)
          /\ \A w \in Addresses \ D : s.mm[q].pte[w] = k.mm[q].pte[w] /\ CellIn(s, q, w) = CellIn(k, q, w)
          /\ \A w \in D : CellIn(s, q, w) = IF w < g.start + g.file THEN {"file"} ELSE {"zero"}
      BY <1>3, <3>2 DEF Filling
    <3>4. Clean(t, H)
      <4>1. Clean(u, H)
        BY <1>1, <2>3, <3>1, <3>3, MappedClean
      <4> QED BY <2>4, <4>1
    <3>5. CellsBut(s, t, q, v) /\ CellIn(t, q, v) = {x}
      BY <2>4, <3>1, <3>2 DEF CellsBut, CellsSame
    <3>6. CellsBeside(k, t, q)
      BY <3>3, <3>5 DEF CellsBut, CellsBeside
    <3>7. \A w \in Addresses \ (D \cup {v}) : t.mm[q].pte[w] = k.mm[q].pte[w] /\ CellIn(t, q, w) = CellIn(k, q, w)
      BY <2>4, <3>2, <3>3, <3>5 DEF CellsBut
    <3>8. ASSUME NEW w \in D \cup {v} PROVE CellIn(t, q, w) = IF w < g.start + g.file THEN {"file"} ELSE {"zero"}
      <4>1. CASE w = v
        BY <3>5, <4>1 DEF x
      <4>2. CASE w # v
        <5>1. w \in D /\ CellIn(t, q, w) = CellIn(s, q, w)
          BY <3>5, <4>2 DEF CellsBut
        <5> QED BY <3>3, <5>1
      <4> QED BY <4>1, <4>2
    <3> QED BY <3>3, <3>4, <3>6, <3>7, <3>8
  <2> QED BY <2>4, <2>5, <2>6 DEF Filling
<1> QED BY <1>2, <1>3

\* The pages of a segment; extent is the area it has.
Extent(g) == [start |-> g.start, end |-> g.start + g.mem, write |-> g.write]

\* The pages of a segment hold what the file says, or zero.
LEMMA LoadPagesIs ==
  ASSUME NEW k, NEW H, Checked = {}, Good(k), NEW q \in Procs, HasMm(k, q), NEW g \in Segments, k.ret = "ok",
         Extent(g) \in AreaTypes,
         k.halt = "none" => /\ Clean(k, H)
                            /\ \A v \in Within(Extent(g)) : InArea(k.mm[q].areas, v) /\ k.mm[q].pte[v] = Zero,
         NEW t, t = LoadPages(k, q, g)
  PROVE  Filling(k, H, q, g, Within(Extent(g)), t)
<1> DEFINE n == g.mem
           b == g.start
           Part(i) == {w \in Addresses : b <= w /\ w < b + i}
<1>1. b \in Nat /\ n \in Nat /\ b + n <= Top /\ Top \in Nat
  BY VmAssumption DEF AreaTypes, Segments, Extent
<1>2. n \in Nat
  BY <1>1
<1>3. PICK x : x[0] = k /\ (\A i \in 1 .. n : x[i] = LoadPage(x[i - 1], q, g, b + i - 1)) /\ x[n] = LoadPages(k, q, g)
  BY <1>2, LoadTurns
<1>4. Addresses \subseteq Nat
  BY <1>1 DEF Addresses
<1>7. Part(n) = Within(Extent(g))
  BY DEF Within, Extent
<1> HIDE DEF n, b
<1>5. Part(0) = {}
  <2>1. \A w \in Addresses : ~(b <= w /\ w < b + 0)
    BY <1>1, <1>4
  <2> QED BY <2>1
<1>6. ASSUME NEW i \in 1 .. n
      PROVE  /\ b + i - 1 \in Addresses \ Part(i - 1) /\ b + i - 1 \in Within(Extent(g))
             /\ Part(i) = Part(i - 1) \cup {b + i - 1}
  <2>1. b + i - 1 \in Addresses
    BY <1>1, <1>2 DEF Addresses
  <2>2. ASSUME NEW w \in Addresses
        PROVE  w < b + i <=> w < b + (i - 1) \/ w = b + i - 1
    BY <1>1, <1>2, <1>4
  <2>3. b <= b + i - 1 /\ b + i - 1 < b + n /\ ~(b + i - 1 < b + (i - 1))
    BY <1>1, <1>2
  <2>4. b + i - 1 \in Part(n)
    BY <2>1, <2>3
  <2> QED BY <1>7, <2>1, <2>2, <2>3, <2>4
<1> DEFINE P == [i \in 0 .. n |-> Filling(k, H, q, g, Part(i), x[i])]
<1>8. P[0]
  <2>1. Filling(k, H, q, g, {}, x[0])
    BY <1>3, NearSelf DEF Filling, CellsBeside
  <2>2. P[0] = Filling(k, H, q, g, Part(0), x[0])
    BY <1>2
  <2> HIDE DEF P, Part
  <2> QED BY <1>5, <2>1, <2>2
<1>9. ASSUME NEW i \in 1 .. n, P[i - 1] PROVE P[i]
  <2>1. i - 1 \in 0 .. n /\ i \in 0 .. n
    BY <1>2
  <2>2. P[i - 1] = Filling(k, H, q, g, Part(i - 1), x[i - 1]) /\ P[i] = Filling(k, H, q, g, Part(i), x[i])
    BY <2>1
  <2>3. Part(i - 1) \subseteq Addresses
    OBVIOUS
  <2> HIDE DEF P, Part
  <2>4. Filling(k, H, q, g, Part(i - 1) \cup {b + i - 1}, x[i])
    <3> DEFINE v == b + i - 1
               D == Part(i - 1)
    <3>1. /\ D \subseteq Addresses /\ v \in Addresses \ D /\ Filling(k, H, q, g, D, x[i - 1])
          /\ x[i] = LoadPage(x[i - 1], q, g, v)
          /\ (k.halt = "none" => InArea(k.mm[q].areas, v) /\ k.mm[q].pte[v] = Zero)
      BY <1>3, <1>6, <1>9, <2>2, <2>3
    <3> HIDE DEF v, D
    <3>2. Filling(k, H, q, g, D \cup {v}, x[i])
      BY <3>1, LoadPageIs
    <3> QED BY <3>2 DEF v, D
  <2>5. Part(i - 1) \cup {b + i - 1} = Part(i)
    BY <1>6
  <2> QED BY <2>2, <2>4, <2>5
<1>10. P[n]
  <2> HIDE DEF P, n
  <2> QED BY <1>2, <1>8, <1>9, Upward
<1>11. P[n] = Filling(k, H, q, g, Part(n), x[n])
  <2>1. n \in 0 .. n
    BY <1>2
  <2> HIDE DEF n, Part
  <2> QED BY <2>1
<1> HIDE DEF P, Part
<1> QED BY <1>3, <1>7, <1>10, <1>11

\* After a failure nothing more is loaded.
LEMMA LoadPagesNot ==
  ASSUME NEW k, NEW q, NEW g \in Segments, k.ret # "ok"
  PROVE  LoadPages(k, q, g) = k
<1> DEFINE n == g.mem
<1>1. n \in Nat
  BY DEF Segments
<1>2. PICK x : x[0] = k /\ (\A i \in 1 .. n : x[i] = LoadPage(x[i - 1], q, g, g.start + i - 1)) /\ x[n] = LoadPages(k, q, g)
  BY <1>1, LoadTurns
<1> HIDE DEF n
<1> DEFINE P == [i \in 0 .. n |-> x[i] = k]
<1>3. P[0]
  <2>1. P[0] = (x[0] = k)
    BY <1>1
  <2> HIDE DEF P
  <2> QED BY <1>2, <2>1
<1>4. ASSUME NEW i \in 1 .. n, P[i - 1] PROVE P[i]
  <2>1. i - 1 \in 0 .. n /\ i \in 0 .. n
    BY <1>1
  <2>2. x[i - 1] = k
    BY <1>4, <2>1
  <2>3. x[i] = k
    BY <1>2, <2>2 DEF LoadPage
  <2> QED BY <2>1, <2>3
<1>5. P[n]
  <2> HIDE DEF P
  <2> QED BY <1>1, <1>3, <1>4, Upward
<1>6. P[n] = (x[n] = k)
  BY <1>1
<1> HIDE DEF P
<1> QED BY <1>2, <1>5, <1>6

-----------------------------------------------------------------------------
\* What the first n segments make of a cell.
Of(segs, n, v)   == {i \in 1 .. n : segs[i].file > 0 /\ v \in Within(Extent(segs[i]))}
Begun(segs, n, v) ==
  IF \E i \in Of(segs, n, v) : v < segs[i].start + segs[i].file THEN {"file"}
  ELSE IF Of(segs, n, v) # {} THEN {"zero"} ELSE {}

\* A segment more.
LEMMA OfMore ==
  ASSUME NEW segs, NEW i \in Nat \ {0}, NEW v
  PROVE  Of(segs, i, v) = IF segs[i].file > 0 /\ v \in Within(Extent(segs[i]))
                          THEN Of(segs, i - 1, v) \cup {i} ELSE Of(segs, i - 1, v)
<1>1. 1 .. i = 1 .. (i - 1) \cup {i}
  OBVIOUS
<1> DEFINE X == 1 .. i
           Y == 1 .. (i - 1)
<1>2. X = Y \cup {i}
  BY <1>1
<1>3. Of(segs, i, v) = {j \in X : segs[j].file > 0 /\ v \in Within(Extent(segs[j]))}
  BY DEF Of
<1>4. Of(segs, i - 1, v) = {j \in Y : segs[j].file > 0 /\ v \in Within(Extent(segs[j]))}
  BY DEF Of
<1> HIDE DEF X, Y
<1> QED BY <1>2, <1>3, <1>4

\* The first i segments are loaded, or the load has failed.
Imaged(k, H, q, segs, i, t) ==
  /\ Good(t) /\ Near(k, t, q) /\ HasMm(t, q)
  /\ t.halt = "none" =>
       /\ Clean(k, H) /\ Clean(t, H) /\ CellsBeside(k, t, q)
       /\ t.ret = "ok" => \A v \in Addresses : CellIn(t, q, v) = Begun(segs, i, v)

\* load_icode, one segment more
LEMMA LoadSegmentIs ==
  ASSUME NEW k, NEW H, Checked = {}, NEW q \in Procs, NEW segs, NEW i \in Nat \ {0},
         NEW s, Imaged(k, H, q, segs, i - 1, s), segs[i] \in Segments, NEW t, t = LoadSegment(s, q, segs[i])
  PROVE  Imaged(k, H, q, segs, i, t)
<1> DEFINE g == segs[i]
           u == MmMap(s, q, Extent(g))
<1>1. Good(s) /\ Near(k, s, q) /\ HasMm(s, q) /\ (s.halt = "none" => Clean(s, H))
  BY DEF Imaged
<1>2. g \in Segments /\ g.file \in Nat
  BY DEF Segments
<1>3. CASE s.ret # "ok"
  <2>1. t = s
    BY <1>3 DEF LoadSegment
  <2> QED BY <1>3, <2>1 DEF Imaged
<1>4. CASE s.ret = "ok" /\ g.file = 0
  <2>1. t = s
    BY <1>4 DEF LoadSegment
  <2>2. \A v : Of(segs, i, v) = Of(segs, i - 1, v)
    BY <1>4, OfMore
  <2>3. \A v : Begun(segs, i, v) = Begun(segs, i - 1, v)
    BY <2>2 DEF Begun
  <2> QED BY <2>1, <2>3 DEF Imaged
<1>5. CASE s.ret = "ok" /\ g.file # 0
  <2>1. t = LoadPages(u, q, g)
    BY <1>5 DEF LoadSegment, Extent
  <2>2. Extent(g) \in [start : Nat, end : Nat, write : BOOLEAN]
    <3>1. g.start \in Nat /\ g.mem \in Nat /\ g.write \in BOOLEAN
      BY <1>2 DEF Segments
    <3>2. g.start + g.mem \in Nat
      BY <3>1
    <3> HIDE DEF g
    <3> QED BY <3>1, <3>2 DEF Extent
  <2>3. /\ Good(u) /\ Near(s, u, q) /\ HasMm(u, q) /\ u.mm[q].pte = s.mm[q].pte
        /\ u.ret = "inval" \/ (Extent(g) \in AreaTypes /\ u.ret = s.ret)
        /\ u.halt = "none" => /\ Clean(s, H) /\ Clean(u, H) /\ CellsSame(s, u)
                              /\ u.ret = "inval" \/ Added(s, H, q, Extent(g), u)
    <3> DEFINE a == Extent(g)
    <3>1. a \in [start : Nat, end : Nat, write : BOOLEAN] /\ u = MmMap(s, q, a)
      BY <2>2
    <3> HIDE DEF a, u
    <3>2. /\ Good(u) /\ Near(s, u, q) /\ HasMm(u, q) /\ u.mm[q].pte = s.mm[q].pte
          /\ u.ret = "inval" \/ (a \in AreaTypes /\ u.ret = s.ret)
          /\ u.halt = "none" => /\ Clean(s, H) /\ Clean(u, H) /\ CellsSame(s, u)
                                /\ u.ret = "inval" \/ Added(s, H, q, a, u)
      BY <1>1, <3>1, MmMapIs
    <3> QED BY <3>2 DEF a
  <2> HIDE DEF u, g
  <2>4. Near(k, u, q)
    BY <1>1, <2>3, NearTwice
  <2>5. u.halt = "none" => Clean(k, H) /\ CellsBeside(k, u, q)
    <3>1. s.halt = "none" => Clean(k, H) /\ CellsBeside(k, s, q)
      BY DEF Imaged
    <3> QED BY <2>3, <3>1 DEF Clean, CellsBeside, CellsSame
  <2>6. CASE u.ret = "inval"
    <3>1. t = u
      BY <1>2, <2>1, <2>6, LoadPagesNot
    <3> QED BY <2>3, <2>4, <2>5, <2>6, <3>1 DEF Imaged
  <2>7. CASE u.ret # "inval"
    <3> DEFINE D == Within(Extent(g))
    <3>1. Extent(g) \in AreaTypes /\ u.ret = "ok"
      BY <1>5, <2>3, <2>7
    <3>2. u.halt = "none" => /\ Clean(u, H)
                             /\ \A v \in D : InArea(u.mm[q].areas, v) /\ u.mm[q].pte[v] = Zero
      BY <2>3, <2>7 DEF Added, Within
    <3>3. Filling(u, H, q, g, D, t)
      BY <1>2, <2>1, <2>3, <3>1, <3>2, LoadPagesIs
    <3>4. D \subseteq Addresses
      BY DEF Within
    <3> HIDE DEF D
    <3>5. Good(t) /\ Near(k, t, q) /\ HasMm(t, q)
      BY <2>4, <3>3, NearTwice DEF Filling
    <3>6. ASSUME t.halt = "none"
          PROVE  /\ Clean(k, H) /\ Clean(t, H) /\ CellsBeside(k, t, q)
                 /\ t.ret = "ok" => \A v \in Addresses : CellIn(t, q, v) = Begun(segs, i, v)
      <4>1. /\ Clean(u, H) /\ Clean(t, H) /\ CellsBeside(u, t, q) /\ u.halt = "none"
            /\ \A v \in Addresses \ D : CellIn(t, q, v) = CellIn(u, q, v)
            /\ t.ret = "ok" => \A v \in D : CellIn(t, q, v) = IF v < g.start + g.file THEN {"file"} ELSE {"zero"}
        BY <3>3, <3>6 DEF Filling, Clean
      <4>2. Clean(k, H) /\ CellsBeside(k, t, q)
        BY <2>5, <4>1 DEF CellsBeside
      <4>3. s.halt = "none" /\ CellsSame(s, u) /\ \A v \in Addresses : CellIn(s, q, v) = Begun(segs, i - 1, v)
        <5>1. s.halt = "none" /\ CellsSame(s, u)
          BY <2>3, <4>1 DEF Clean
        <5> QED BY <1>5, <5>1 DEF Imaged
      <4>4. ASSUME t.ret = "ok", NEW v \in Addresses PROVE CellIn(t, q, v) = Begun(segs, i, v)
        <5>0. Of(segs, i, v) = IF g.file > 0 /\ v \in D THEN Of(segs, i - 1, v) \cup {i} ELSE Of(segs, i - 1, v)
          BY OfMore DEF g, D
        <5>1. CASE v \in D
          <6>1. Of(segs, i, v) = Of(segs, i - 1, v) \cup {i}
            BY <1>2, <1>5, <5>0, <5>1
          <6>2. CellIn(s, q, v) = {}
            <7>1. s.mm[q].pte[v] = Zero
              BY <2>3, <3>2, <4>1, <5>1
            <7> QED BY <1>1, <7>1, EntriesApart DEF CellIn
          <6>3. Of(segs, i - 1, v) = {}
            <7>1. Begun(segs, i - 1, v) = {}
              BY <4>3, <6>2
            <7> QED BY <7>1 DEF Begun
          <6>4. Begun(segs, i, v) = IF v < g.start + g.file THEN {"file"} ELSE {"zero"}
            <7>1. Of(segs, i, v) = {i}
              BY <6>1, <6>3
            <7> QED BY <7>1 DEF Begun, g
          <6> QED BY <4>1, <4>4, <5>1, <6>4
        <5>2. CASE v \notin D
          <6>1. Begun(segs, i, v) = Begun(segs, i - 1, v)
            <7>1. Of(segs, i, v) = Of(segs, i - 1, v)
              BY <5>0, <5>2
            <7> QED BY <7>1 DEF Begun
          <6>2. CellIn(t, q, v) = CellIn(s, q, v)
            BY <4>1, <4>3, <5>2 DEF CellsSame
          <6> QED BY <4>3, <6>1, <6>2
        <5> QED BY <5>1, <5>2
      <4> QED BY <4>1, <4>2, <4>4
    <3> QED BY <3>5, <3>6 DEF Imaged
  <2> QED BY <2>6, <2>7
<1> QED BY <1>3, <1>4, <1>5

\* Every segment is loaded, or the load has failed.
LEMMA LoadSegmentsIs ==
  ASSUME NEW k, NEW H, Checked = {}, Good(k), NEW q \in Procs, HasMm(k, q), NEW segs \in Seq(Segments),
         k.halt = "none" => Clean(k, H) /\ Bared(k, q), NEW t, t = LoadSegments(k, q, segs)
  PROVE  Imaged(k, H, q, segs, Len(segs), t)
<1> DEFINE n == Len(segs)
<1>1. n \in Nat /\ Len(segs) \in Nat /\ \A i \in 1 .. n : segs[i] \in Segments
  OBVIOUS
<1>2. PICK x : x[0] = k /\ (\A i \in 1 .. n : x[i] = LoadSegment(x[i - 1], q, segs[i])) /\ x[n] = LoadSegments(k, q, segs)
  BY <1>1, SegmentsTurns
<1> HIDE DEF n
<1> DEFINE P == [i \in 0 .. n |-> Imaged(k, H, q, segs, i, x[i])]
<1>3. P[0]
  <2>1. \A v : Of(segs, 0, v) = {}
    <3>1. 1 .. 0 = {}
      OBVIOUS
    <3> DEFINE X == 1 .. 0
    <3>2. \A v : Of(segs, 0, v) = {j \in X : segs[j].file > 0 /\ v \in Within(Extent(segs[j]))}
      BY DEF Of
    <3>3. X = {}
      BY <3>1
    <3> HIDE DEF X
    <3> QED BY <3>2, <3>3
  <2>2. \A v : Begun(segs, 0, v) = {}
    BY <2>1 DEF Begun
  <2>3. k.halt = "none" => \A v \in Addresses : CellIn(k, q, v) = {}
    BY EntriesApart DEF CellIn, Bared
  <2>4. Imaged(k, H, q, segs, 0, k)
    BY <2>2, <2>3, NearSelf DEF Imaged, CellsBeside
  <2>5. P[0] = Imaged(k, H, q, segs, 0, x[0])
    BY <1>1
  <2> HIDE DEF P
  <2> QED BY <1>2, <2>4, <2>5
<1>4. ASSUME NEW i \in 1 .. n, P[i - 1] PROVE P[i]
  <2>1. i - 1 \in 0 .. n /\ i \in 0 .. n /\ i \in Nat \ {0}
    BY <1>1
  <2>2. P[i - 1] = Imaged(k, H, q, segs, i - 1, x[i - 1]) /\ P[i] = Imaged(k, H, q, segs, i, x[i])
    BY <2>1
  <2> HIDE DEF P
  <2>3. Imaged(k, H, q, segs, i - 1, x[i - 1]) /\ segs[i] \in Segments /\ x[i] = LoadSegment(x[i - 1], q, segs[i])
    BY <1>1, <1>2, <1>4, <2>2
  <2>4. Imaged(k, H, q, segs, i, x[i])
    BY <2>1, <2>3, LoadSegmentIs
  <2> QED BY <2>2, <2>4
<1>5. P[n]
  <2> HIDE DEF P
  <2> QED BY <1>1, <1>3, <1>4, Upward
<1>6. P[n] = Imaged(k, H, q, segs, n, x[n])
  BY <1>1
<1> HIDE DEF P
<1> QED BY <1>2, <1>5, <1>6 DEF n

\* The last n pages are mapped.
Stacked(k, H, q, n, t) ==
  /\ Good(t) /\ Near(k, t, q) /\ HasMm(t, q) /\ t.ret = k.ret /\ t.mm[q].areas = k.mm[q].areas
  /\ t.halt = "none" =>
       /\ Clean(k, H) /\ Clean(t, H) /\ CellsBeside(k, t, q)
       /\ \A v \in Addresses : v < Top - n => t.mm[q].pte[v] = k.mm[q].pte[v]
       /\ \A v \in Addresses : CellIn(t, q, v) = IF v >= Top - n THEN {Old} ELSE CellIn(k, q, v)

\* load_icode, one page more of the user stack
LEMMA StackMore ==
  ASSUME NEW k, NEW H, Checked = {}, NEW q \in Procs, NEW n \in Nat, n + 1 <= Top,
         NEW s, Stacked(k, H, q, n, s),
         k.halt = "none" => InArea(k.mm[q].areas, Top - (n + 1)) /\ k.mm[q].pte[Top - (n + 1)] = Zero,
         NEW t, t = PgdirAllocPage(s, q, Top - (n + 1), Old)
  PROVE  Stacked(k, H, q, n + 1, t)
<1> DEFINE v == Top - (n + 1)
<1>0. Top \in Nat
  BY VmAssumption
<1>1. v \in Addresses /\ v < Top - n /\ \A w \in Addresses : w \in Nat /\ (w >= v <=> w = v \/ w >= Top - n)
  BY <1>0 DEF Addresses
<1>2. t = PgdirAllocPage(s, q, v, Old) /\ (k.halt = "none" => InArea(k.mm[q].areas, v) /\ k.mm[q].pte[v] = Zero)
  OBVIOUS
<1>3. v = Top - (n + 1)
  OBVIOUS
<1> HIDE DEF v
<1>4. Good(s) /\ Near(k, s, q) /\ HasMm(s, q) /\ s.ret = k.ret /\ s.mm[q].areas = k.mm[q].areas
  BY DEF Stacked
<1>5. s.halt = "none" => MayMap(s, H, q, v)
  BY <1>1, <1>2, <1>4 DEF MayMap, Stacked, Clean
<1>6. /\ Good(t) /\ Beside(s, t, q)
      /\ t.halt = "none" => Mapped(s, H, q, v, t) /\ CellIn(t, q, v) = {Old}
  <2>1. PICK x : x = Old
    OBVIOUS
  <2>2. v \in Addresses /\ t = PgdirAllocPage(s, q, v, x) /\ Good(s) /\ HasMm(s, q)
    BY <1>1, <1>2, <1>4, <2>1
  <2>3. /\ Good(t) /\ Beside(s, t, q)
        /\ t.halt = "none" => Mapped(s, H, q, v, t) /\ Holds(t, q, v, x)
    BY <1>5, <2>2, PgdirAllocIs
  <2> QED BY <2>1, <2>3 DEF Holds
<1>7. Near(k, t, q) /\ HasMm(t, q) /\ t.ret = k.ret /\ t.mm[q].areas = k.mm[q].areas
  <2>1. Near(s, t, q) /\ HasMm(t, q) /\ t.ret = s.ret /\ t.mm[q].areas = s.mm[q].areas
    BY <1>6, BesideNear DEF Beside
  <2> QED BY <1>4, <2>1, NearTwice
<1>8. ASSUME t.halt = "none"
      PROVE  /\ Clean(k, H) /\ Clean(t, H) /\ CellsBeside(k, t, q)
             /\ \A w \in Addresses : w < v => t.mm[q].pte[w] = k.mm[q].pte[w]
             /\ \A w \in Addresses : CellIn(t, q, w) = IF w >= v THEN {Old} ELSE CellIn(k, q, w)
  <2>1. Mapped(s, H, q, v, t) /\ CellIn(t, q, v) = {Old}
    BY <1>6, <1>8
  <2>2. s.halt = "none" /\ CellsBut(s, t, q, v) /\ \A w \in Addresses : w # v => t.mm[q].pte[w] = s.mm[q].pte[w]
    BY <2>1 DEF Mapped
  <2>3. /\ Clean(k, H) /\ Clean(s, H) /\ CellsBeside(k, s, q)
        /\ \A w \in Addresses : w < Top - n => s.mm[q].pte[w] = k.mm[q].pte[w]
        /\ \A w \in Addresses : CellIn(s, q, w) = IF w >= Top - n THEN {Old} ELSE CellIn(k, q, w)
    BY <2>2 DEF Stacked
  <2>4. Clean(t, H)
    BY <1>4, <1>6, <1>8, <1>1, <2>1, <2>3, MappedClean
  <2>5. CellsBeside(k, t, q)
    BY <2>2, <2>3 DEF CellsBut, CellsBeside
  <2>6. ASSUME NEW w \in Addresses, w < v PROVE t.mm[q].pte[w] = k.mm[q].pte[w]
    <3>1. w # v /\ w < Top - n
      BY <1>0, <1>1, <1>3, <2>6
    <3> QED BY <2>2, <2>3, <3>1
  <2>7. ASSUME NEW w \in Addresses PROVE CellIn(t, q, w) = IF w >= v THEN {Old} ELSE CellIn(k, q, w)
    <3>1. CASE w = v
      <4>1. w >= v
        BY <1>1, <3>1
      <4> QED BY <2>1, <3>1, <4>1
    <3>2. CASE w # v
      <4>1. CellIn(t, q, w) = CellIn(s, q, w) /\ (w >= v <=> w >= Top - n)
        BY <1>1, <2>2, <3>2 DEF CellsBut
      <4> QED BY <2>3, <4>1
    <3> QED BY <3>1, <3>2
  <2> QED BY <2>3, <2>4, <2>5, <2>6, <2>7
<1> QED BY <1>3, <1>6, <1>7, <1>8 DEF Stacked

\* The last pages of the user stack are mapped at once.
LEMMA MapStackIs ==
  ASSUME NEW k, NEW H, Checked = {}, Good(k), NEW q \in Procs, HasMm(k, q),
         k.halt = "none" => /\ Clean(k, H)
                            /\ \A v \in Within(Stack) : InArea(k.mm[q].areas, v) /\ k.mm[q].pte[v] = Zero,
         NEW t, t = MapStack(k, q)
  PROVE  Stacked(k, H, q, EagerPages, t)
<1> DEFINE n == EagerPages
<1>1. n \in Nat /\ n <= Top /\ Top \in Nat /\ StackPages \in Nat /\ n <= StackPages /\ StackPages <= Top
  BY VmAssumption
<1>2. PICK x : x[0] = k /\ (\A i \in 1 .. n : x[i] = PgdirAllocPage(x[i - 1], q, Top - i, Old)) /\ x[n] = MapStack(k, q)
  BY StackTurns
<1> HIDE DEF n
<1>3. ASSUME NEW i \in 1 .. n PROVE Top - i \in Within(Stack)
  BY <1>1 DEF Within, Stack, Addresses
<1> DEFINE P == [i \in 0 .. n |-> Stacked(k, H, q, i, x[i])]
<1>4. P[0]
  <2>1. \A w \in Addresses : ~(w >= Top - 0)
    BY <1>1 DEF Addresses
  <2>2. Stacked(k, H, q, 0, k)
    BY <2>1, NearSelf DEF Stacked, CellsBeside
  <2>3. P[0] = Stacked(k, H, q, 0, x[0])
    BY <1>1
  <2> HIDE DEF P
  <2> QED BY <1>2, <2>2, <2>3
<1>5. ASSUME NEW i \in 1 .. n, P[i - 1] PROVE P[i]
  <2>1. i - 1 \in 0 .. n /\ i \in 0 .. n /\ i - 1 \in Nat /\ (i - 1) + 1 = i /\ i <= Top
    BY <1>1
  <2>2. P[i - 1] = Stacked(k, H, q, i - 1, x[i - 1]) /\ P[i] = Stacked(k, H, q, i, x[i])
    BY <2>1
  <2> HIDE DEF P
  <2>3. /\ Stacked(k, H, q, i - 1, x[i - 1]) /\ x[i] = PgdirAllocPage(x[i - 1], q, Top - i, Old)
        /\ (k.halt = "none" => InArea(k.mm[q].areas, Top - i) /\ k.mm[q].pte[Top - i] = Zero)
    BY <1>2, <1>3, <1>5, <2>2
  <2>4. PICK j \in Nat : j + 1 = i /\ j = i - 1
    BY <2>1
  <2>5. /\ Stacked(k, H, q, j, x[j]) /\ x[i] = PgdirAllocPage(x[j], q, Top - (j + 1), Old)
        /\ (k.halt = "none" => InArea(k.mm[q].areas, Top - (j + 1)) /\ k.mm[q].pte[Top - (j + 1)] = Zero)
        /\ j + 1 <= Top
    BY <2>1, <2>3, <2>4
  <2>6. Stacked(k, H, q, j + 1, x[i])
    BY <2>5, StackMore
  <2> QED BY <2>2, <2>4, <2>6
<1>6. P[n]
  <2> HIDE DEF P
  <2> QED BY <1>1, <1>4, <1>5, Upward
<1>7. P[n] = Stacked(k, H, q, n, x[n])
  BY <1>1
<1> HIDE DEF P
<1> QED BY <1>2, <1>6, <1>7 DEF n

\* What a program's cells hold after the load is its image.
LEMMA ImageIs ==
  ASSUME NEW prog \in Programs, NEW v \in Addresses
  PROVE  ImageOf(prog)[v] = IF Begun(prog.segs, Len(prog.segs), v) # {}
                            THEN Begun(prog.segs, Len(prog.segs), v)
                            ELSE IF v >= Top - EagerPages THEN {Old} ELSE {}
<1> DEFINE s == prog.segs
           g == {h \in Range(s) : h.file > 0 /\ v \in h.start .. h.start + h.mem - 1}
           n == Len(s)
<1>1. ImageOf(prog)[v] = IF \E h \in g : v < h.start + h.file THEN {"file"}
                         ELSE IF g # {} THEN {"zero"} ELSE IF v >= Top - EagerPages THEN {Old} ELSE {}
  BY Zenon DEF ImageOf
<1>2. s \in Seq(Segments)
  BY VmAssumption
<1> HIDE DEF s
<1>3. DOMAIN s = 1 .. n /\ \A i \in 1 .. n : s[i] \in Segments
  <2>1. DOMAIN s = 1 .. Len(s)
    BY <1>2, LenProperties, Zenon
  <2> QED BY <1>2, <2>1
<1> HIDE DEF n
<1>4. v \in Nat
  BY VmAssumption DEF Addresses
<1>5. \A i \in 1 .. n : v \in Within(Extent(s[i])) <=> v \in s[i].start .. s[i].start + s[i].mem - 1
  <2> SUFFICES ASSUME NEW i \in 1 .. n
               PROVE  v \in Within(Extent(s[i])) <=> v \in s[i].start .. s[i].start + s[i].mem - 1
    OBVIOUS
  <2>1. s[i].start \in Nat /\ s[i].mem \in Nat
    BY <1>3 DEF Segments
  <2>2. Extent(s[i]).start = s[i].start /\ Extent(s[i]).end = s[i].start + s[i].mem
    BY DEF Extent
  <2> QED BY <1>4, <2>1, <2>2 DEF Within
<1>6. \A h : h \in g <=> \E i \in Of(s, n, v) : h = s[i]
  <2>1. \A h : h \in Range(s) <=> \E i \in 1 .. n : h = s[i]
    BY <1>3 DEF Range
  <2> QED BY <1>5, <2>1 DEF Of
<1> HIDE DEF g
<1>7. (\E h \in g : v < h.start + h.file) <=> \E i \in Of(s, n, v) : v < s[i].start + s[i].file
  BY <1>6
<1>8. g # {} <=> Of(s, n, v) # {}
  BY <1>6
<1>9. Begun(s, n, v) = IF \E h \in g : v < h.start + h.file THEN {"file"} ELSE IF g # {} THEN {"zero"} ELSE {}
  BY <1>7, <1>8 DEF Begun
<1> QED BY <1>1, <1>9 DEF s, n

\* load_icode: the program is there, or nothing is.
Loaded(k, H, q, prog, t) ==
  /\ Clean(k, H) /\ Clean(t, H) /\ CellsBeside(k, t, q)
  /\ t.ret = "ok" => \A v \in Addresses : CellIn(t, q, v) = ImageOf(prog)[v]

\* load_icode makes the image of the program, or gives back all it took.
LEMMA LoadIcodeIs ==
  ASSUME NEW k, NEW H, Checked = {}, Good(k), NEW q \in Procs, k.mm[q] = NoMm,
         k.halt = "none" => Clean(k, H), NEW prog \in Programs, NEW t, t = LoadIcode(k, q, prog)
  PROVE  /\ Good(t) /\ Near(k, t, q) /\ (t.ret # "ok" => t.mm[q] = NoMm)
         /\ t.halt = "none" => Loaded(k, H, q, prog, t)
<1> DEFINE m == NewMm(k, q)
           y == IF prog.wrong = "header" THEN "elf" ELSE "ok"
           new == [m EXCEPT !.ret = y]
           s == LoadSegments(new, q, prog.segs)
           u == IF s.ret = "ok" THEN MmMap(s, q, Stack) ELSE s
<1>1. t = IF u.ret = "ok" THEN MapStack(u, q) ELSE FreeMm(u, q)
  BY Zenon DEF LoadIcode
<1> HIDE DEF y
<1>2. /\ Good(m) /\ Near(k, m, q) /\ HasMm(m, q) /\ Bared(m, q)
      /\ m.halt = "none" => Clean(k, H) /\ Clean(m, H) /\ CellsSame(k, m)
  BY NewMmIs
<1> HIDE DEF m
<1>3. /\ Good(new) /\ new.mm = m.mm /\ new.halt = m.halt /\ (Clean(m, H) => Clean(new, H))
      /\ Near(m, new, q) /\ HasMm(new, q) /\ CellsSame(m, new)
  BY <1>2, RetIs
<1> HIDE DEF new
<1>4. Near(k, new, q) /\ Bared(new, q)
  BY <1>2, <1>3, NearTwice DEF Bared
<1>5. new.halt = "none" => Clean(k, H) /\ Clean(new, H) /\ CellsBeside(k, new, q)
  BY <1>2, <1>3 DEF CellsBeside, CellsSame
<1> DEFINE n == Len(prog.segs)
<1>6. Imaged(new, H, q, prog.segs, n, s)
  <2>1. prog.segs \in Seq(Segments)
    BY VmAssumption
  <2> QED BY <1>3, <1>4, <1>5, <2>1, LoadSegmentsIs
<1> HIDE DEF s, n
<1>7. /\ Good(s) /\ Near(k, s, q) /\ HasMm(s, q)
      /\ s.halt = "none" =>
           /\ Clean(k, H) /\ Clean(s, H) /\ CellsBeside(k, s, q)
           /\ s.ret = "ok" => \A v \in Addresses : CellIn(s, q, v) = Begun(prog.segs, n, v)
  <2>1. Good(s) /\ Near(new, s, q) /\ HasMm(s, q)
    BY <1>6 DEF Imaged
  <2>2. Near(k, s, q)
    BY <1>4, <2>1, NearTwice
  <2>3. s.halt = "none" => /\ Clean(new, H) /\ Clean(s, H) /\ CellsBeside(new, s, q)
                           /\ s.ret = "ok" => \A v \in Addresses : CellIn(s, q, v) = Begun(prog.segs, n, v)
    BY <1>6 DEF Imaged
  <2>4. s.halt = "none" => Clean(k, H) /\ CellsBeside(k, s, q)
    BY <1>5, <2>3 DEF Clean, CellsBeside
  <2> QED BY <2>1, <2>2, <2>3, <2>4
\* The area of the stack
<1>8. /\ Good(u) /\ Near(k, u, q) /\ HasMm(u, q) /\ u.mm[q].pte = s.mm[q].pte
      /\ u.halt = "none" =>
           /\ Clean(k, H) /\ Clean(u, H) /\ CellsBeside(k, u, q)
           /\ u.ret = "ok" => /\ s.ret = "ok" /\ Added(s, H, q, Stack, u)
  <2>1. CASE s.ret # "ok"
    BY <1>7, <2>1
  <2>2. CASE s.ret = "ok"
    <3>1. Stack \in [start : Nat, end : Nat, write : BOOLEAN]
      <4>1. Top \in Nat /\ Top - StackPages \in Nat
        BY VmAssumption
      <4> QED BY <4>1 DEF Stack
    <3>2. u = MmMap(s, q, Stack)
      BY <2>2
    <3> HIDE DEF u
    <3>3. /\ Good(u) /\ Near(s, u, q) /\ HasMm(u, q) /\ u.mm[q].pte = s.mm[q].pte
          /\ u.halt = "none" => /\ Clean(s, H) /\ Clean(u, H) /\ CellsSame(s, u)
                                /\ u.ret = "inval" \/ Added(s, H, q, Stack, u)
      <4>1. s.halt = "none" => Clean(s, H)
        BY <1>7
      <4>2. PICK a \in [start : Nat, end : Nat, write : BOOLEAN] : a = Stack
        BY <3>1
      <4>3. u = MmMap(s, q, a)
        BY <3>2, <4>2
      <4>4. /\ Good(u) /\ Near(s, u, q) /\ HasMm(u, q) /\ u.mm[q].pte = s.mm[q].pte
            /\ u.halt = "none" => /\ Clean(s, H) /\ Clean(u, H) /\ CellsSame(s, u)
                                  /\ u.ret = "inval" \/ Added(s, H, q, a, u)
        BY <1>7, <4>1, <4>3, MmMapIs
      <4> QED BY <4>2, <4>4
    <3>4. Near(k, u, q)
      BY <1>7, <3>3, NearTwice
    <3>5. u.halt = "none" => Clean(k, H) /\ CellsBeside(k, u, q)
      BY <1>7, <3>3 DEF Clean, CellsBeside, CellsSame
    <3>6. u.ret = "ok" => u.ret # "inval"
      OBVIOUS
    <3> QED BY <2>2, <3>3, <3>4, <3>5, <3>6
  <2> QED BY <2>1, <2>2
<1> HIDE DEF u
<1>9. CASE u.ret # "ok"
  <2>1. t = FreeMm(u, q)
    BY <1>1, <1>9
  <2>2. /\ Good(t) /\ Near(u, t, q) /\ t.mm[q] = NoMm /\ t.halt = u.halt /\ t.ret = u.ret
        /\ t.halt = "none" => Freed(u, H, q, t)
    <3>1. u.halt = "none" => Clean(u, H)
      BY <1>8
    <3> QED BY <1>8, <2>1, <3>1, FreeMmIs
  <2>3. Near(k, t, q)
    BY <1>8, <2>2, NearTwice
  <2>4. t.halt = "none" => Loaded(k, H, q, prog, t)
    BY <1>8, <1>9, <2>2 DEF Loaded, Freed, CellsBeside
  <2> QED BY <2>2, <2>3, <2>4
<1>10. CASE u.ret = "ok"
  <2>1. t = MapStack(u, q)
    BY <1>1, <1>10
  <2>2. u.halt = "none" => /\ Clean(u, H)
                           /\ \A v \in Within(Stack) : InArea(u.mm[q].areas, v) /\ u.mm[q].pte[v] = Zero
    BY <1>8, <1>10 DEF Added, Within
  <2>3. Stacked(u, H, q, EagerPages, t)
    BY <1>8, <2>1, <2>2, MapStackIs
  <2>4. Good(t) /\ Near(k, t, q) /\ t.ret = "ok"
    BY <1>8, <1>10, <2>3, NearTwice DEF Stacked
  <2>5. ASSUME t.halt = "none" PROVE Loaded(k, H, q, prog, t)
    <3>1. /\ Clean(u, H) /\ Clean(t, H) /\ CellsBeside(u, t, q)
          /\ \A v \in Addresses : CellIn(t, q, v) = IF v >= Top - EagerPages THEN {Old} ELSE CellIn(u, q, v)
      BY <2>3, <2>5 DEF Stacked
    <3>2. Clean(k, H) /\ CellsBeside(k, u, q) /\ s.ret = "ok" /\ Added(s, H, q, Stack, u) /\ u.halt = "none"
      BY <1>8, <1>10, <3>1 DEF Clean
    <3>3. CellsBeside(k, t, q)
      BY <3>1, <3>2 DEF CellsBeside
    <3>4. s.halt = "none" /\ CellsSame(s, u) /\ \A v \in Within(Stack) : u.mm[q].pte[v] = Zero
      BY <3>2 DEF Added, Clean, Within
    <3>5. ASSUME NEW v \in Addresses PROVE CellIn(t, q, v) = ImageOf(prog)[v]
      <4>1. CellIn(u, q, v) = Begun(prog.segs, n, v)
        BY <1>7, <3>2, <3>4 DEF CellsSame
      <4>2. ImageOf(prog)[v] = IF Begun(prog.segs, n, v) # {} THEN Begun(prog.segs, n, v)
                               ELSE IF v >= Top - EagerPages THEN {Old} ELSE {}
        BY ImageIs DEF n
      <4>3. CASE v >= Top - EagerPages
        <5>1. v \in Within(Stack)
          BY <4>3, VmAssumption DEF Within, Stack, Addresses
        <5>2. CellIn(u, q, v) = {}
          BY <1>8, <3>4, <5>1, EntriesApart DEF CellIn
        <5> QED BY <3>1, <4>1, <4>2, <4>3, <5>2
      <4>4. CASE ~(v >= Top - EagerPages)
        BY <3>1, <4>1, <4>2, <4>4
      <4> QED BY <4>3, <4>4
    <3> QED BY <3>1, <3>2, <3>3, <3>5 DEF Loaded
  <2> QED BY <2>4, <2>5
<1> QED BY <1>9, <1>10

-----------------------------------------------------------------------------
(* The handlers of processes.                                              *)

\* A free page is put at an empty place in a kernel stack.
LEMMA MoveExact ==
  ASSUME NEW A, NEW F, NEW H, NEW R, Exact(A, F, H, R), NEW p \in F, NEW s \in Slots, A[s] = NoPage,
         ~CountsAt(s), NEW B, SetAt(A, B, s, p)
  PROVE  Exact(B, F \ {p}, H, R)
<1> DEFINE G == H \cup {p}
<1>1. Exact(A, F \ {p}, G, R)
  BY TakeExact
<1>2. p \in G /\ p \in Pages /\ R[p] = 0 /\ DOMAIN R = Pages
  BY DEF Exact
<1>3. \A x \in Pages : R[x] = IF x = p /\ CountsAt(s) THEN 1 ELSE R[x]
  OBVIOUS
<1>4. p \notin H
  BY DEF Exact
<1>5. G \ {p} = H
  BY <1>4
<1> HIDE DEF G
<1>6. Exact(B, F \ {p}, G \ {p}, R)
  BY <1>1, <1>2, <1>3, PutExact
<1> QED BY <1>5, <1>6

\* A page leaves its place in a kernel stack and is free.
LEMMA LeaveExact ==
  ASSUME NEW A, NEW F, NEW H, NEW R, Exact(A, F, H, R), NEW s \in Slots, A[s] # NoPage, ~CountsAt(s),
         NEW B, SetAt(A, B, s, NoPage)
  PROVE  Exact(B, F \cup {A[s]}, H, R)
<1>1. R[A[s]] = 0 /\ DOMAIN R = Pages
  BY DEF Exact
<1>2. \A x \in Pages : R[x] = IF x = A[s] THEN 0 ELSE R[x]
  BY <1>1
<1> QED BY <1>1, <1>2, DropExact

\* The mm of q is given back, if it has one.
LEMMA DropMmIs ==
  ASSUME NEW k, NEW H, Good(k), NEW q \in Procs, k.halt = "none" => Clean(k, H),
         NEW t, t = DropMm(k, q)
  PROVE  /\ Good(t) /\ Near(k, t, q) /\ t.mm[q] = NoMm /\ t.halt = k.halt /\ t.ret = k.ret
         /\ t.halt = "none" => Freed(k, H, q, t)
<1>1. CASE k.mm[q] = NoMm
  <2>1. t = k
    BY <1>1 DEF DropMm
  <2> QED BY <1>1, <2>1, NearSelf DEF Freed, CellsBeside
<1>2. CASE k.mm[q] # NoMm
  <2>1. t = FreeMm(k, q) /\ HasMm(k, q)
    BY <1>2, MmKinds DEF DropMm
  <2> QED BY <2>1, FreeMmIs
<1> QED BY <1>1, <1>2

\* Only the states of processes are others.
LEMMA StateSame ==
  ASSUME NEW k, Good(k), NEW s, NEW t, t = [k EXCEPT !.state = s]
  PROVE  /\ Good(t) /\ t.mm = k.mm /\ t.kstack = k.kstack /\ t.halt = k.halt /\ t.state = s
         /\ t.disk = k.disk /\ t.data = k.data
         /\ \A H : (Sound(k, H) => Sound(t, H)) /\ (Clean(k, H) => Clean(t, H))
         /\ CellsSame(k, t)
<1>1. /\ DOMAIN t = KFields /\ t.mm = k.mm /\ t.kstack = k.kstack /\ t.halt = k.halt /\ t.state = s
      /\ t.area = k.area /\ t.ref = k.ref /\ t.data = k.data /\ t.disk = k.disk
  BY DEF Good, KFields
<1>2. Good(t)
  BY <1>1 DEF Good
<1>3. \A H : (Sound(k, H) => Sound(t, H)) /\ (NoSwap(k) => NoSwap(t))
  BY <1>1, SoundSame
<1>4. CellsSame(k, t)
  BY <1>1 DEF CellsSame, CellIn, HasMm
<1> QED BY <1>1, <1>2, <1>3, <1>4 DEF Clean

\* do_exit
LEMMA ExitWithIs ==
  ASSUME NEW k, NEW H, Good(k), NEW q \in Procs, k.halt = "none" => Clean(k, H),
         NEW t, t = ExitWith(k, q)
  PROVE  /\ Good(t) /\ OnlyMm(k, t, q) /\ t.mm[q] = NoMm /\ t.halt = k.halt
         /\ t.kstack = k.kstack /\ t.state = [k.state EXCEPT ![q] = "zombie"]
         /\ t.halt = "none" => Freed(k, H, q, t)
<1> DEFINE d == DropMm(k, q)
           s == [k.state EXCEPT ![q] = "zombie"]
<1>1. /\ Good(d) /\ Near(k, d, q) /\ d.mm[q] = NoMm /\ d.halt = k.halt /\ d.ret = k.ret
      /\ d.halt = "none" => Freed(k, H, q, d)
  BY DropMmIs
<1>2. t = [d EXCEPT !.state[q] = "zombie"]
  BY DEF ExitWith
<1> HIDE DEF d
<1>3. d.state = k.state /\ d.kstack = k.kstack /\ OnlyMm(k, d, q)
  BY <1>1 DEF Near
<1>4. t = [d EXCEPT !.state = s]
  BY <1>2, <1>3
<1> HIDE DEF s
<1>5. /\ Good(t) /\ t.mm = d.mm /\ t.kstack = d.kstack /\ t.halt = d.halt /\ t.state = s
      /\ (Clean(d, H) => Clean(t, H)) /\ CellsSame(d, t)
  BY <1>1, <1>4, StateSame
<1>6. OnlyMm(k, t, q)
  BY <1>3, <1>5 DEF OnlyMm
<1>7. t.halt = "none" => Freed(k, H, q, t)
  BY <1>1, <1>5 DEF Freed, CellsBeside, CellsSame
<1> QED BY <1>1, <1>3, <1>5, <1>6, <1>7 DEF s

\* Only the kernel stack of q is another.
OnlyStack(k, t, q) == t.mm = k.mm /\ \A r \in Procs \ {q} : t.kstack[r] = k.kstack[r]
\* The places s0 and s1 are those of the kernel stack of q; those of others are as they were.
StackPlaces(k, t, q, s0, s1) ==
  /\ s0 \in Slots /\ s1 \in Slots /\ s0 # s1 /\ ~CountsAt(s0) /\ ~CountsAt(s1)
  /\ Map(k)[s0] = IF k.kstack[q] = NoPage THEN NoPage ELSE k.kstack[q] + 0
  /\ Map(k)[s1] = IF k.kstack[q] = NoPage THEN NoPage ELSE k.kstack[q] + 1
  /\ Map(t)[s0] = IF t.kstack[q] = NoPage THEN NoPage ELSE t.kstack[q] + 0
  /\ Map(t)[s1] = IF t.kstack[q] = NoPage THEN NoPage ELSE t.kstack[q] + 1
  /\ \A s \in Slots : s # s0 /\ s # s1 => Map(t)[s] = Map(k)[s]

\* A process has two of them.
LEMMA StackMap ==
  ASSUME NEW k, NEW t, NEW q \in Procs, OnlyStack(k, t, q)
  PROVE  \E s0, s1 : StackPlaces(k, t, q, s0, s1)
<1>0. PICK s0, s1 : s0 = <<"stack", q, 0>> /\ s1 = <<"stack", q, 1>>
  OBVIOUS
<1>1. /\ s0 \in Slots /\ s1 \in Slots
      /\ Map(k)[s0] = IF k.kstack[q] = NoPage THEN NoPage ELSE k.kstack[q] + 0
      /\ Map(k)[s1] = IF k.kstack[q] = NoPage THEN NoPage ELSE k.kstack[q] + 1
      /\ Map(t)[s0] = IF t.kstack[q] = NoPage THEN NoPage ELSE t.kstack[q] + 0
      /\ Map(t)[s1] = IF t.kstack[q] = NoPage THEN NoPage ELSE t.kstack[q] + 1
  BY <1>0, SlotsOf
<1>2. s0 # s1 /\ ~CountsAt(s0) /\ ~CountsAt(s1)
  BY <1>0 DEF CountsAt
<1>3. ASSUME NEW s \in Slots, s # s0, s # s1 PROVE Map(t)[s] = Map(k)[s]
  <2>1. Map(t)[s] = At(t, s) /\ Map(k)[s] = At(k, s)
    BY DEF Map
  <2>2. CASE s[1] = "stack"
    <3>1. s[2] \in Procs /\ s = <<s[1], s[2], s[3]>> /\ s[3] \in {0, 1}
      BY <2>2, SlotKinds
    <3>2. s[2] # q
      BY <1>0, <1>3, <2>2, <3>1
    <3>3. t.kstack[s[2]] = k.kstack[s[2]]
      BY <3>1, <3>2 DEF OnlyStack
    <3> QED BY <2>1, <2>2, <3>3 DEF At
  <2>3. CASE s[1] # "stack"
    BY <2>1, <2>3 DEF At, HasMm, OnlyStack
  <2> QED BY <2>2, <2>3
<1> QED BY <1>1, <1>2, <1>3 DEF StackPlaces

\* Process q is there with kernel stack a, and is gone.
Arrived(k, q, a) == [k EXCEPT !.area = a.area, !.kstack[q] = a.page, !.state[q] = "live"]
Gone(k, q) == [k EXCEPT !.area = FreePages(@, k.kstack[q], KStackPages),
                        !.kstack[q] = NoPage, !.state[q] = "free"]

HasArrived(k, H, q, a, t) ==
  /\ Good(t) /\ Sound(t, H) /\ CellsSame(k, t) /\ t.mm = k.mm /\ t.halt = k.halt
  /\ t.kstack = [k.kstack EXCEPT ![q] = a.page] /\ t.state = [k.state EXCEPT ![q] = "live"]
  /\ a.page \in Pages /\ a.page + 1 \in Pages
IsGone(k, H, q, t) ==
  /\ Good(t) /\ Sound(t, H) /\ CellsSame(k, t) /\ t.mm = k.mm /\ t.halt = k.halt
  /\ t.kstack = [k.kstack EXCEPT ![q] = NoPage] /\ t.state = [k.state EXCEPT ![q] = "free"]

\* do_fork finds two pages in a row for the kernel stack.
LEMMA StackTaken ==
  ASSUME NEW k, NEW H, Good(k), Sound(k, H), NEW q \in Procs, DOMAIN k.kstack = Procs,
         k.kstack[q] = NoPage, NEW a, a = AllocPages(k.area, KStackPages), a.page # NoPage,
         NEW t, t = Arrived(k, q, a)
  PROVE  HasArrived(k, H, q, a, t)
<1> DEFINE p == a.page
           F == Free(k.area)
<1>1. /\ DOMAIN t = KFields /\ t.mm = k.mm /\ t.halt = k.halt /\ t.area = a.area /\ t.ref = k.ref
      /\ t.data = k.data /\ t.disk = k.disk
      /\ t.kstack = [k.kstack EXCEPT ![q] = p] /\ t.state = [k.state EXCEPT ![q] = "live"]
  BY DEF Good, KFields, Arrived
<1>2. /\ p \in Pages /\ Row(p, KStackPages) \subseteq F /\ AreaOK(a.area)
      /\ Free(a.area) = F \ Row(p, KStackPages)
  <2>1. AreaOK(k.area)
    BY DEF Sound
  <2>2. KStackPages \in Nat \ {0}
    BY DEF KStackPages
  <2> QED BY <2>1, <2>2, AllocIs
<1>3. p \in F /\ p + 1 \in F /\ p \in Nat /\ Row(p, KStackPages) = {p, p + 1}
  <2>1. p \in Nat
    BY <1>2, NotPage
  <2>2. \A x : x \in Row(p, KStackPages) <=> x = p \/ x = p + 1
    BY <2>1 DEF Row, KStackPages
  <2> QED BY <1>2, <2>1, <2>2
<1>4. p # NoPage /\ p + 1 # NoPage /\ p # p + 1
  BY <1>2, <1>3, NotPage DEF Sound, Exact
<1> HIDE DEF p, F
<1>5. PICK s0, s1 : StackPlaces(k, t, q, s0, s1)
  <2>1. OnlyStack(k, t, q)
    BY <1>1 DEF OnlyStack
  <2> QED BY <2>1, StackMap
<1>6. t.kstack[q] = p /\ p + 0 = p
  BY <1>1, <1>3
<1>7. /\ s0 \in Slots /\ s1 \in Slots /\ s0 # s1 /\ ~CountsAt(s0) /\ ~CountsAt(s1)
      /\ Map(k)[s0] = NoPage /\ Map(k)[s1] = NoPage
      /\ Map(t)[s0] = p /\ Map(t)[s1] = p + 1
      /\ \A s \in Slots : s # s0 /\ s # s1 => Map(t)[s] = Map(k)[s]
  BY <1>4, <1>5, <1>6 DEF StackPlaces
<1>8. PICK B : B = [s \in Slots |-> IF s = s0 THEN p ELSE Map(k)[s]]
  OBVIOUS
<1>9. Exact(Map(k), F, H, k.ref)
  BY DEF Sound, F
<1>10. Exact(B, F \ {p}, H, k.ref)
  <2>1. SetAt(Map(k), B, s0, p)
    BY <1>8 DEF SetAt
  <2> QED BY <1>3, <1>7, <1>9, <2>1, MoveExact
<1>11. Exact(Map(t), (F \ {p}) \ {p + 1}, H, k.ref)
  <2>1. SetAt(B, Map(t), s1, p + 1)
    BY <1>7, <1>8 DEF SetAt
  <2>2. B[s1] = NoPage
    BY <1>7, <1>8
  <2>3. p + 1 \in F \ {p}
    BY <1>3, <1>4
  <2> QED BY <1>7, <1>10, <2>1, <2>2, <2>3, MoveExact
<1>12. Exact(Map(t), Free(t.area), H, t.ref)
  <2>1. (F \ {p}) \ {p + 1} = F \ {p, p + 1}
    OBVIOUS
  <2>2. Free(t.area) = F \ {p, p + 1}
    BY <1>1, <1>2, <1>3 DEF p
  <2> QED BY <1>1, <1>11, <2>1, <2>2
<1>13. Good(t)
  BY <1>1 DEF Good
<1>14. Sound(t, H)
  BY <1>1, <1>2, <1>12 DEF Sound, HasMm
<1>15. CellsSame(k, t)
  BY <1>1 DEF CellsSame, CellIn, HasMm
<1>16. F \subseteq Pages
  BY <1>9 DEF Exact
<1> QED BY <1>1, <1>2, <1>3, <1>13, <1>14, <1>15, <1>16 DEF p, HasArrived

\* do_wait gives them back.
LEMMA StackGone ==
  ASSUME NEW k, NEW H, Good(k), Sound(k, H), NEW q \in Procs, DOMAIN k.kstack = Procs,
         k.kstack[q] \in Pages, k.kstack[q] + 1 \in Pages, NEW p, p = k.kstack[q],
         NEW t, t = Gone(k, q)
  PROVE  IsGone(k, H, q, t)
<1> DEFINE F == Free(k.area)
<1>1. /\ DOMAIN t = KFields /\ t.mm = k.mm /\ t.halt = k.halt /\ t.ref = k.ref
      /\ t.area = FreePages(k.area, p, KStackPages) /\ t.data = k.data /\ t.disk = k.disk
      /\ t.kstack = [k.kstack EXCEPT ![q] = NoPage] /\ t.state = [k.state EXCEPT ![q] = "free"]
  BY DEF Good, KFields, Gone
<1>2. t.kstack[q] = NoPage
  BY <1>1
<1>3. PICK s0, s1 : StackPlaces(k, t, q, s0, s1)
  <2>1. OnlyStack(k, t, q)
    BY <1>1 DEF OnlyStack
  <2> QED BY <2>1, StackMap
<1>4. Exact(Map(k), F, H, k.ref) /\ AreaOK(k.area)
  BY DEF Sound
<1> HIDE DEF F
<1>6. /\ p \in Pages /\ p + 1 \in Pages /\ p \in Nat /\ p + 0 = p /\ p # p + 1
      /\ p # NoPage /\ p + 1 # NoPage
  BY NotPage
<1>5. /\ s0 \in Slots /\ s1 \in Slots /\ s0 # s1 /\ ~CountsAt(s0) /\ ~CountsAt(s1)
      /\ Map(k)[s0] = p + 0 /\ Map(k)[s1] = p + 1 /\ Map(t)[s0] = NoPage /\ Map(t)[s1] = NoPage
      /\ \A s \in Slots : s # s0 /\ s # s1 => Map(t)[s] = Map(k)[s]
  BY <1>2, <1>3, <1>6 DEF StackPlaces
<1>7. PICK B : B = [s \in Slots |-> IF s = s0 THEN NoPage ELSE Map(k)[s]]
  OBVIOUS
<1>8. Exact(B, F \cup {p}, H, k.ref)
  <2>1. SetAt(Map(k), B, s0, NoPage)
    BY <1>7 DEF SetAt
  <2>2. Map(k)[s0] = p
    BY <1>5, <1>6
  <2>3. Exact(B, F \cup {Map(k)[s0]}, H, k.ref)
    BY <1>4, <1>5, <1>6, <2>1, <2>2, LeaveExact
  <2> QED BY <2>2, <2>3
<1>9. Exact(Map(t), (F \cup {p}) \cup {p + 1}, H, k.ref)
  <2>1. SetAt(B, Map(t), s1, NoPage)
    BY <1>5, <1>7 DEF SetAt
  <2>2. B[s1] = p + 1
    BY <1>5, <1>7
  <2>3. Exact(Map(t), (F \cup {p}) \cup {B[s1]}, H, k.ref)
    BY <1>5, <1>6, <1>8, <2>1, <2>2, LeaveExact
  <2> QED BY <2>2, <2>3
<1>10. p \notin F /\ p + 1 \notin F
  BY <1>4, <1>5, <1>6 DEF Exact
<1>11. Row(p, KStackPages) = {p, p + 1}
  <2>1. \A x : x \in Row(p, KStackPages) <=> x = p \/ x = p + 1
    BY <1>6 DEF Row, KStackPages
  <2> QED BY <2>1
<1>12. AreaOK(t.area) /\ Free(t.area) = F \cup {p, p + 1}
  <2>1. Row(p, KStackPages) \subseteq Pages /\ Row(p, KStackPages) \cap Free(k.area) = {}
    BY <1>6, <1>10, <1>11 DEF F
  <2>2. KStackPages \in Nat \ {0}
    BY DEF KStackPages
  <2>3. AreaOK(t.area) /\ Free(t.area) = Free(k.area) \cup Row(p, KStackPages)
    BY <1>1, <1>4, <1>6, <2>1, <2>2, FreeIs
  <2> QED BY <1>11, <2>3 DEF F
<1>13. Exact(Map(t), Free(t.area), H, t.ref)
  <2>1. (F \cup {p}) \cup {p + 1} = F \cup {p, p + 1}
    OBVIOUS
  <2> QED BY <1>1, <1>9, <1>12, <2>1
<1>14. Good(t)
  BY <1>1 DEF Good
<1>15. Sound(t, H)
  BY <1>1, <1>12, <1>13 DEF Sound, HasMm
<1>16. CellsSame(k, t)
  BY <1>1 DEF CellsSame, CellIn, HasMm
<1> QED BY <1>1, <1>14, <1>15, <1>16 DEF IsGone

-----------------------------------------------------------------------------
(* Steps of processes.                                                     *)

\* The variables, as a copy n of them, are what the copy t is.
Agree(t, n) ==
  /\ n.area = t.area /\ n.state = t.state /\ n.kstack = t.kstack /\ n.mm = t.mm /\ n.ref = t.ref
  /\ n.data = t.data /\ n.disk = t.disk /\ n.fifo = t.fifo /\ n.pra = t.pra

\* Nothing but what a handler keeps for itself is another.
LEMMA AgreeKeeps ==
  ASSUME NEW t, NEW n, Agree(t, n), DOMAIN n = KFields, n.halt # "assert", Good(t)
  PROVE  /\ Good(n) /\ CellsSame(t, n)
         /\ \A H : Sound(t, H) => Sound(n, H)
         /\ NoSwap(t) => NoSwap(n)
<1>1. Good(n)
  BY DEF Good, Agree
<1>2. n.area = t.area /\ n.ref = t.ref /\ n.data = t.data /\ n.mm = t.mm /\ n.kstack = t.kstack
  BY DEF Agree
<1>3. (\A H : Sound(t, H) => Sound(n, H)) /\ (NoSwap(t) => NoSwap(n))
  BY <1>2, SoundSame
<1>4. CellsSame(t, n)
  BY DEF CellsSame, CellIn, HasMm, Agree
<1> QED BY <1>1, <1>3, <1>4

\* The handler ended, or the kernel did.
LEMMA BecomeIs ==
  ASSUME NEW t, Become(t)
  PROVE  /\ DOMAIN Now' = KFields /\ (Now').halt = halt'
         /\ \/ t.halt = "none" /\ halt' = halt /\ Agree(t, Now')
            \/ t.halt # "none" /\ halt' = t.halt /\ Agree(Now, Now')
<1>1. DOMAIN Now' = KFields /\ (Now').halt = halt'
  BY DEF Now, KFields
<1>2. CASE t.halt = "none"
  BY <1>1, <1>2 DEF Become, Now, Agree
<1>3. CASE t.halt # "none"
  BY <1>1, <1>3 DEF Become, Now, Agree
<1> QED BY <1>1, <1>2, <1>3

\* Who is there has a kernel stack, and who runs may have memory.
Life(k) ==
  /\ DOMAIN k.state = Procs /\ DOMAIN k.kstack = Procs
  /\ \A q \in Procs :
       /\ k.state[q] \in {"free", "live", "zombie"}
       /\ k.state[q] = "free" <=> k.kstack[q] = NoPage
       /\ k.kstack[q] # NoPage => k.kstack[q] \in Pages /\ k.kstack[q] + 1 \in Pages
       /\ k.mm[q] # NoMm => k.state[q] = "live"
Peers(k, H) == Good(k) /\ Sound(k, H) /\ NoSwap(k) /\ Life(k)

\* What a step keeps for the handler's copy it keeps for the variables.
LEMMA PeersBecome ==
  ASSUME NEW H, Peers(Now, H), NEW t, Good(t), t.halt = "none" => Peers(t, H), Become(t)
  PROVE  /\ Peers(Now', H)
         /\ t.halt = "none" => CellsSame(t, Now')
         /\ t.halt # "none" => CellsSame(Now, Now')
<1>1. PICK n : n = Now'
  OBVIOUS
<1>2. PICK k : k = Now
  OBVIOUS
<1>3. /\ DOMAIN n = KFields /\ n.halt = halt'
      /\ \/ t.halt = "none" /\ halt' = halt /\ Agree(t, n)
         \/ t.halt # "none" /\ halt' = t.halt /\ Agree(k, n)
  BY <1>1, <1>2, BecomeIs
<1>4. k.halt = halt /\ Peers(k, H)
  BY <1>2 DEF Now
<1>5. n.halt # "assert"
  BY <1>3, <1>4 DEF Good, Peers
<1>6. CASE t.halt = "none"
  <2>1. Agree(t, n) /\ Peers(t, H)
    BY <1>3, <1>6
  <2>2. Good(n) /\ CellsSame(t, n) /\ Sound(n, H) /\ NoSwap(n)
    BY <1>3, <1>5, <2>1, AgreeKeeps DEF Peers
  <2>3. Life(n)
    BY <2>1 DEF Peers, Life, Agree
  <2> QED BY <1>1, <1>2, <1>6, <2>2, <2>3 DEF Peers
<1>7. CASE t.halt # "none"
  <2>1. Agree(k, n)
    BY <1>3, <1>7
  <2>2. Good(n) /\ CellsSame(k, n) /\ Sound(n, H) /\ NoSwap(n)
    BY <1>3, <1>4, <1>5, <2>1, AgreeKeeps DEF Peers
  <2>3. Life(n)
    BY <1>4, <2>1 DEF Peers, Life, Agree
  <2> QED BY <1>1, <1>2, <1>7, <2>2, <2>3 DEF Peers
<1> QED BY <1>6, <1>7

\* What a step makes of the cells of processes.
Leaves(k, t, q)   == CellsBeside(k, t, q) /\ \A v \in Addresses : CellIn(t, q, v) = {}
Copies(k, t, q, c) ==
  /\ q # c /\ CellsBeside(k, t, c)
  /\ \A v \in Addresses : CellIn(k, c, v) = {} /\ CellIn(t, c, v) = CellIn(k, q, v)
Executes(k, t, q, prog) ==
  CellsBeside(k, t, q) /\ \A v \in Addresses : CellIn(t, q, v) = ImageOf(prog)[v]
Stores(k, t, q, v, x) == CellIn(k, q, v) # {} /\ CellsBut(k, t, q, v) /\ Holds(t, q, v, x)
Touches(k, t, q, v)   == CellIn(k, q, v) = {} /\ CellsBut(k, t, q, v) /\ Holds(t, q, v, Old)
SpaceStep(k, t) ==
  \/ CellsSame(k, t)
  \/ \E q \in Procs : \/ Leaves(k, t, q)
                      \/ \E c \in Procs : Copies(k, t, q, c)
                      \/ \E prog \in Programs : Executes(k, t, q, prog)
                      \/ \E v \in Addresses : \E x \in Values : Stores(k, t, q, v, x)
                      \/ \E v \in Addresses : Touches(k, t, q, v)

\* So it is when the result is the same elsewhere.
LEMMA SpaceStepSame ==
  ASSUME NEW k, NEW t, NEW n, SpaceStep(k, t), CellsSame(t, n)
  PROVE  SpaceStep(k, n)
<1>1. CASE CellsSame(k, t)
  BY <1>1 DEF SpaceStep, CellsSame
<1>2. ASSUME NEW q \in Procs, Leaves(k, t, q) PROVE SpaceStep(k, n)
  <2>1. Leaves(k, n, q)
    BY <1>2 DEF Leaves, CellsBeside, CellsSame
  <2> QED BY <2>1 DEF SpaceStep
<1>3. ASSUME NEW q \in Procs, NEW c \in Procs, Copies(k, t, q, c) PROVE SpaceStep(k, n)
  <2>1. Copies(k, n, q, c)
    BY <1>3 DEF Copies, CellsBeside, CellsSame
  <2> QED BY <2>1 DEF SpaceStep
<1>4. ASSUME NEW q \in Procs, NEW prog \in Programs, Executes(k, t, q, prog) PROVE SpaceStep(k, n)
  <2>1. Executes(k, n, q, prog)
    BY <1>4 DEF Executes, CellsBeside, CellsSame
  <2> QED BY <2>1 DEF SpaceStep
<1>5. ASSUME NEW q \in Procs, NEW v \in Addresses, NEW x \in Values, Stores(k, t, q, v, x) PROVE SpaceStep(k, n)
  <2>1. Stores(k, n, q, v, x)
    BY <1>5 DEF Stores, CellsBut, CellsSame, Holds
  <2> QED BY <2>1 DEF SpaceStep
<1>6. ASSUME NEW q \in Procs, NEW v \in Addresses, Touches(k, t, q, v) PROVE SpaceStep(k, n)
  <2>1. Touches(k, n, q, v)
    BY <1>6 DEF Touches, CellsBut, CellsSame, Holds
  <2> QED BY <2>1 DEF SpaceStep
<1> QED BY <1>1, <1>2, <1>3, <1>4, <1>5, <1>6 DEF SpaceStep

\* A handler's step in all: the variables keep what the copy does.
LEMMA PeersStep ==
  ASSUME NEW H, Peers(Now, H), NEW t, Good(t),
         t.halt = "none" => Peers(t, H) /\ SpaceStep(Now, t), Become(t)
  PROVE  Peers(Now', H) /\ SpaceStep(Now, Now')
<1>1. /\ Peers(Now', H)
      /\ t.halt = "none" => CellsSame(t, Now')
      /\ t.halt # "none" => CellsSame(Now, Now')
  BY PeersBecome
<1>2. PICK n : n = Now'
  OBVIOUS
<1>3. PICK k : k = Now
  OBVIOUS
<1>4. SpaceStep(k, n)
  BY <1>1, <1>2, <1>3, SpaceStepSame DEF SpaceStep
<1> QED BY <1>1, <1>2, <1>3, <1>4

\* The boot checks are over.
LEMMA NoneChecked == ASSUME NEW H, Peers(Now, H) PROVE Checked = {}
<1>1. \A q \in Procs : state[q] # "check"
  BY DEF Peers, Life, Now
<1> QED BY <1>1 DEF Checked

\* What a process is found with at the start of its step.
LEMMA PeersNow ==
  ASSUME NEW H, Peers(Now, H), halt = "none", NEW k, k = Now
  PROVE  /\ Good(k) /\ Clean(k, H) /\ Life(k) /\ k.halt = "none" /\ k.state = state /\ k.kstack = kstack
         /\ k.mm = mm /\ k.area = area /\ k.data = data
<1>1. k.halt = "none" /\ k.state = state /\ k.kstack = kstack /\ k.mm = mm /\ k.area = area /\ k.data = data
  BY DEF Now
<1> QED BY <1>1 DEF Peers, Clean

\* do_fork
LEMMA ForkKeeps ==
  ASSUME NEW H, Peers(Now, H), halt = "none", NEW q \in Procs, NEW child \in Procs, Fork(q, child)
  PROVE  Peers(Now', H) /\ SpaceStep(Now, Now')
<1>1. PICK k : k = Now
  OBVIOUS
<1>2. PICK a : a = AllocPages(area, KStackPages)
  OBVIOUS
<1> DEFINE s == [k EXCEPT !.area = a.area, !.kstack[child] = a.page, !.state[child] = "live"]
           u == NewMm(s, child)
           t == IF mm[q] = NoMm THEN s ELSE DupMmap(u, child, q)
<1>3. /\ Good(k) /\ Clean(k, H) /\ Life(k) /\ k.halt = "none" /\ k.state = state /\ k.kstack = kstack
      /\ k.mm = mm /\ k.area = area
  BY <1>1, PeersNow
<1>4. /\ state[q] = "live" /\ state[child] = "free"
      /\ \/ a.page = NoPage /\ UNCHANGED vmVars
         \/ a.page # NoPage /\ Become(t)
  BY <1>1, <1>2 DEF Fork
<1>5. CASE a.page = NoPage /\ UNCHANGED vmVars
  <2>1. Now' = Now
    BY <1>5 DEF Now, vmVars
  <2> QED BY <2>1 DEF SpaceStep, CellsSame
<1>6. CASE a.page # NoPage /\ Become(t)
  <2>1. q # child /\ kstack[child] = NoPage /\ mm[child] = NoMm /\ Checked = {}
    BY <1>3, <1>4, NoneChecked DEF Life
  <2>2. DOMAIN k.kstack = Procs /\ DOMAIN k.state = Procs /\ Sound(k, H)
    BY <1>3 DEF Life, Clean
  <2>3. /\ Good(s) /\ Sound(s, H) /\ CellsSame(k, s) /\ s.mm = k.mm /\ s.halt = k.halt
        /\ s.kstack = [k.kstack EXCEPT ![child] = a.page] /\ s.state = [k.state EXCEPT ![child] = "live"]
        /\ a.page \in Pages /\ a.page + 1 \in Pages
    <3>1. a = AllocPages(k.area, KStackPages) /\ k.kstack[child] = NoPage
      BY <1>2, <1>3, <2>1
    <3>2. s = Arrived(k, child, a)
      BY DEF Arrived
    <3> HIDE DEF s
    <3>3. PICK w : w = s
      OBVIOUS
    <3>4. a.page # NoPage /\ w = Arrived(k, child, a)
      BY <1>6, <3>2, <3>3
    <3>5. HasArrived(k, H, child, a, w)
      BY <1>3, <2>2, <3>1, <3>4, StackTaken
    <3> QED BY <3>3, <3>5 DEF HasArrived
  <2> HIDE DEF s
  <2>4. Clean(s, H)
    <3>1. NoSwap(s)
      BY <1>3, <2>3 DEF Clean, NoSwap, HasMm
    <3> QED BY <1>3, <2>3, <3>1 DEF Clean
  <2>5. ASSUME NEW r \in Procs
        PROVE  /\ s.state[r] \in {"free", "live", "zombie"}
               /\ s.state[r] = "free" <=> s.kstack[r] = NoPage
               /\ s.kstack[r] # NoPage => s.kstack[r] \in Pages /\ s.kstack[r] + 1 \in Pages
               /\ mm[r] # NoMm => s.state[r] = "live"
    <3>1. CASE r = child
      BY <1>6, <2>2, <2>3, <3>1
    <3>2. CASE r # child
      BY <1>3, <2>2, <2>3, <3>2 DEF Life
    <3> QED BY <3>1, <3>2
  <2>6. DOMAIN s.state = Procs /\ DOMAIN s.kstack = Procs /\ s.state[child] = "live"
    BY <2>2, <2>3
  <2>7. CASE mm[q] = NoMm
    <3>1. Peers(s, H)
      BY <1>3, <2>3, <2>4, <2>5, <2>6 DEF Peers, Clean, Life
    <3>2. SpaceStep(k, s)
      BY <2>3 DEF SpaceStep
    <3>3. Become(s)
      BY <1>6, <2>7
    <3> QED BY <1>1, <2>3, <3>1, <3>2, <3>3, PeersStep
  <2>8. CASE mm[q] # NoMm
    <3> HIDE DEF u
    <3>1. /\ Good(u) /\ Near(s, u, child) /\ HasMm(u, child) /\ u.ret = s.ret /\ Bared(u, child)
          /\ u.halt = "none" => Clean(s, H) /\ Clean(u, H) /\ CellsSame(s, u)
      <4>1. s.mm[child] = NoMm
        BY <1>3, <2>1, <2>3
      <4> QED BY <2>1, <2>3, <2>4, <4>1, NewMmIs DEF u
    <3>2. HasMm(u, q) /\ t = DupMmap(u, child, q)
      <4>1. HasMm(k, q)
        BY <1>3, <2>8, MmKinds
      <4>2. u.mm[q] = k.mm[q]
        BY <2>1, <2>3, <3>1 DEF Near, OnlyMm
      <4> QED BY <2>8, <4>1, <4>2 DEF HasMm
    <3> HIDE DEF t
    <3>3. /\ Good(t) /\ Near(u, t, child) /\ HasMm(t, child)
          /\ t.halt = "none" => /\ Clean(u, H) /\ Clean(t, H) /\ CellsBeside(u, t, child)
                                /\ \A v \in Addresses : CellIn(t, child, v) = CellIn(u, q, v)
      <4>1. u.halt = "none" => Clean(u, H) /\ Bared(u, child)
        BY <3>1
      <4> QED BY <2>1, <3>1, <3>2, <4>1, DupMmapIs
    <3>4. Near(s, t, child)
      BY <3>1, <3>3, NearTwice
    <3>5. Life(t)
      <4>1. t.state = s.state /\ t.kstack = s.kstack /\ \A r \in Procs : r # child => t.mm[r] = mm[r]
        BY <1>3, <2>3, <3>4 DEF Near, OnlyMm
      <4> QED BY <2>5, <2>6, <4>1 DEF Life
    <3>6. ASSUME t.halt = "none" PROVE Peers(t, H) /\ SpaceStep(k, t)
      <4>1. Peers(t, H)
        BY <3>3, <3>5, <3>6 DEF Peers, Clean
      <4>2. Clean(u, H) /\ CellsBeside(u, t, child) /\ CellsSame(s, u) /\ CellsSame(k, s)
            /\ \A v \in Addresses : CellIn(t, child, v) = CellIn(u, q, v)
        BY <2>3, <3>1, <3>3, <3>6 DEF Clean
      <4>3. CellsBeside(k, t, child)
        BY <4>2 DEF CellsBeside, CellsSame
      <4>4. \A v \in Addresses : CellIn(k, child, v) = {}
        <5>1. ~HasMm(k, child)
          BY <1>3, <2>1, MmKinds
        <5> QED BY <5>1 DEF CellIn
      <4>5. \A v \in Addresses : CellIn(t, child, v) = CellIn(k, q, v)
        BY <4>2 DEF CellsSame
      <4>6. Copies(k, t, q, child)
        BY <2>1, <4>3, <4>4, <4>5 DEF Copies
      <4> QED BY <4>1, <4>6 DEF SpaceStep
    <3> QED BY <1>1, <1>6, <3>3, <3>6, PeersStep
  <2> QED BY <2>7, <2>8
<1> QED BY <1>4, <1>5, <1>6

\* Only the state and the mm of q are others, and it ended.
LEMMA ZombieLife ==
  ASSUME NEW k, Life(k), NEW q \in Procs, k.state[q] = "live", NEW t, t.kstack = k.kstack,
         t.state = [k.state EXCEPT ![q] = "zombie"], OnlyMm(k, t, q), t.mm[q] = NoMm
  PROVE  Life(t)
<1>1. DOMAIN t.state = Procs /\ DOMAIN t.kstack = Procs
  BY DEF Life
<1>2. ASSUME NEW r \in Procs
      PROVE  /\ t.state[r] \in {"free", "live", "zombie"}
             /\ t.state[r] = "free" <=> t.kstack[r] = NoPage
             /\ t.kstack[r] # NoPage => t.kstack[r] \in Pages /\ t.kstack[r] + 1 \in Pages
             /\ t.mm[r] # NoMm => t.state[r] = "live"
  <2>1. CASE r = q
    BY <2>1 DEF Life
  <2>2. CASE r # q
    BY <2>2 DEF Life, OnlyMm
  <2> QED BY <2>1, <2>2
<1> QED BY <1>1, <1>2 DEF Life

\* Only the mm of q, who runs, is another.
LEMMA NearLife ==
  ASSUME NEW k, Life(k), NEW q \in Procs, k.state[q] = "live", NEW t, Near(k, t, q)
  PROVE  Life(t)
  BY DEF Life, Near, OnlyMm

\* do_exit
LEMMA ExitKeeps ==
  ASSUME NEW H, Peers(Now, H), halt = "none", NEW q \in Procs, Exit(q)
  PROVE  Peers(Now', H) /\ SpaceStep(Now, Now')
<1>1. PICK k : k = Now
  OBVIOUS
<1>2. PICK t : t = ExitWith(k, q)
  OBVIOUS
<1>3. /\ Good(k) /\ Clean(k, H) /\ Life(k) /\ k.halt = "none" /\ k.state = state
  BY <1>1, PeersNow
<1>4. state[q] = "live" /\ Become(t)
  BY <1>1, <1>2 DEF Exit
<1>5. /\ Good(t) /\ OnlyMm(k, t, q) /\ t.mm[q] = NoMm /\ t.halt = k.halt
      /\ t.kstack = k.kstack /\ t.state = [k.state EXCEPT ![q] = "zombie"]
      /\ t.halt = "none" => Freed(k, H, q, t)
  BY <1>2, <1>3, ExitWithIs
<1>6. Life(t)
  BY <1>3, <1>4, <1>5, ZombieLife
<1>7. Freed(k, H, q, t) /\ Peers(t, H)
  BY <1>3, <1>5, <1>6 DEF Peers, Freed, Clean
<1>8. SpaceStep(k, t)
  <2>1. \A v \in Addresses : CellIn(t, q, v) = {}
    <3>1. ~HasMm(t, q)
      BY <1>5, MmKinds
    <3> QED BY <3>1 DEF CellIn
  <2>2. Leaves(k, t, q)
    BY <1>7, <2>1 DEF Leaves, Freed
  <2> QED BY <2>2 DEF SpaceStep
<1> QED BY <1>1, <1>4, <1>5, <1>7, <1>8, PeersStep

\* do_execve
LEMMA ExecKeeps ==
  ASSUME NEW H, Peers(Now, H), halt = "none", NEW q \in Procs, NEW prog \in Programs, Exec(q, prog)
  PROVE  Peers(Now', H) /\ SpaceStep(Now, Now')
<1>1. PICK k : k = Now
  OBVIOUS
<1> DEFINE d == DropMm(k, q)
           u == LoadIcode(d, q, prog)
           t == IF u.ret = "ok" THEN u ELSE ExitWith(u, q)
<1>2. state[q] = "live" /\ Become(t)
  BY <1>1 DEF Exec
<1>3. /\ Good(k) /\ Clean(k, H) /\ Life(k) /\ k.halt = "none" /\ k.state = state
  BY <1>1, PeersNow
<1>4. /\ Good(d) /\ Near(k, d, q) /\ d.mm[q] = NoMm /\ d.halt = k.halt /\ d.ret = k.ret
      /\ d.halt = "none" => Freed(k, H, q, d)
  BY <1>3, DropMmIs
<1> HIDE DEF d
<1>5. /\ Good(u) /\ Near(d, u, q) /\ (u.ret # "ok" => u.mm[q] = NoMm)
      /\ u.halt = "none" => Loaded(d, H, q, prog, u)
  <2>1. d.halt = "none" => Clean(d, H)
    BY <1>4 DEF Freed
  <2>2. Checked = {}
    BY NoneChecked
  <2> QED BY <1>4, <2>1, <2>2, LoadIcodeIs
<1>6. Near(k, u, q)
  BY <1>4, <1>5, NearTwice
<1>7. u.halt = "none" => /\ Clean(u, H) /\ CellsBeside(k, u, q)
                         /\ u.ret = "ok" => \A v \in Addresses : CellIn(u, q, v) = ImageOf(prog)[v]
  BY <1>3, <1>4, <1>5 DEF Freed, Loaded, CellsBeside
<1>8. CASE u.ret = "ok"
  <2>1. t = u
    BY <1>8
  <2> HIDE DEF t, u
  <2>2. Life(u)
    BY <1>2, <1>3, <1>6, NearLife
  <2>3. ASSUME u.halt = "none" PROVE Peers(u, H) /\ SpaceStep(k, u)
    <3>1. Executes(k, u, q, prog)
      BY <1>7, <1>8, <2>3 DEF Executes
    <3> QED BY <1>5, <1>7, <2>2, <2>3, <3>1 DEF SpaceStep, Peers, Clean
  <2> QED BY <1>1, <1>2, <1>5, <2>1, <2>3, PeersStep
<1>9. CASE u.ret # "ok"
  <2>1. t = ExitWith(u, q)
    BY <1>9
  <2> HIDE DEF t, u
  <2>2. /\ Good(t) /\ OnlyMm(u, t, q) /\ t.mm[q] = NoMm /\ t.halt = u.halt
        /\ t.kstack = u.kstack /\ t.state = [u.state EXCEPT ![q] = "zombie"]
        /\ t.halt = "none" => Freed(u, H, q, t)
    <3>1. u.halt = "none" => Clean(u, H)
      BY <1>7
    <3> QED BY <1>5, <2>1, <3>1, ExitWithIs
  <2>3. Life(t)
    <3>1. t.kstack = k.kstack /\ t.state = [k.state EXCEPT ![q] = "zombie"] /\ OnlyMm(k, t, q)
      BY <1>6, <2>2 DEF Near, OnlyMm
    <3> QED BY <1>2, <1>3, <2>2, <3>1, ZombieLife
  <2>4. ASSUME t.halt = "none" PROVE Peers(t, H) /\ SpaceStep(k, t)
    <3>1. \A v \in Addresses : CellIn(t, q, v) = {}
      <4>1. ~HasMm(t, q)
        BY <2>2, MmKinds
      <4> QED BY <4>1 DEF CellIn
    <3>2. Leaves(k, t, q)
      BY <1>7, <2>2, <2>4, <3>1 DEF Leaves, Freed, CellsBeside
    <3> QED BY <2>2, <2>3, <2>4, <3>2 DEF SpaceStep, Peers, Freed, Clean
  <2> QED BY <1>1, <1>2, <2>2, <2>4, PeersStep
<1> QED BY <1>8, <1>9

\* do_wait
LEMMA ReapKeeps ==
  ASSUME NEW H, Peers(Now, H), halt = "none", NEW q \in Procs, Reap(q)
  PROVE  Peers(Now', H) /\ SpaceStep(Now, Now')
<1>1. PICK k : k = Now
  OBVIOUS
<1>2. PICK t : t = Gone(k, q)
  OBVIOUS
<1>3. /\ Good(k) /\ Clean(k, H) /\ Life(k) /\ k.halt = "none" /\ k.state = state /\ k.kstack = kstack
  BY <1>1, PeersNow
<1>4. state[q] = "zombie" /\ Become(t)
  BY <1>1, <1>2, <1>3 DEF Reap, Gone
<1>5. DOMAIN k.kstack = Procs /\ DOMAIN k.state = Procs /\ k.kstack[q] \in Pages /\ k.kstack[q] + 1 \in Pages
      /\ k.mm[q] = NoMm /\ Sound(k, H)
  BY <1>3, <1>4 DEF Life, Clean
<1>6. IsGone(k, H, q, t)
  BY <1>2, <1>3, <1>5, StackGone
<1>7. Peers(t, H)
  <2>1. NoSwap(t)
    BY <1>3, <1>6 DEF IsGone, Clean, NoSwap, HasMm
  <2>2. DOMAIN t.state = Procs /\ DOMAIN t.kstack = Procs
    BY <1>5, <1>6 DEF IsGone
  <2>3. ASSUME NEW r \in Procs
        PROVE  /\ t.state[r] \in {"free", "live", "zombie"}
               /\ t.state[r] = "free" <=> t.kstack[r] = NoPage
               /\ t.kstack[r] # NoPage => t.kstack[r] \in Pages /\ t.kstack[r] + 1 \in Pages
               /\ t.mm[r] # NoMm => t.state[r] = "live"
    <3>1. CASE r = q
      BY <1>5, <1>6, <3>1 DEF IsGone
    <3>2. CASE r # q
      BY <1>3, <1>5, <1>6, <3>2 DEF Life, IsGone
    <3> QED BY <3>1, <3>2
  <2>4. Life(t)
    BY <2>2, <2>3 DEF Life
  <2> QED BY <1>6, <2>1, <2>4 DEF Peers, IsGone
<1>8. SpaceStep(k, t)
  BY <1>6 DEF SpaceStep, IsGone
<1> QED BY <1>1, <1>4, <1>7, <1>8, PeersStep DEF Peers

\* The program stores x at v.
Stored(k, n, q, v, x) ==
  /\ Agree([k EXCEPT !.data[k.mm[q].pte[v]] = x], n) /\ DOMAIN n = KFields /\ n.halt = k.halt

\* A store changes the one cell.
LEMMA StoreIs ==
  ASSUME NEW k, NEW H, Good(k), Sound(k, H), NEW q \in Procs, HasMm(k, q), NEW v \in Addresses,
         k.mm[q].pte[v] \in Pages, NEW x, NEW n, Stored(k, n, q, v, x)
  PROVE  /\ Good(n) /\ Sound(n, H) /\ (NoSwap(k) => NoSwap(n))
         /\ CellIn(k, q, v) # {} /\ CellsBut(k, n, q, v) /\ Holds(n, q, v, x)
<1> DEFINE p == k.mm[q].pte[v]
<1>1. /\ n.area = k.area /\ n.mm = k.mm /\ n.kstack = k.kstack /\ n.ref = k.ref /\ n.disk = k.disk
      /\ n.data = [k.data EXCEPT ![p] = x] /\ DOMAIN n = KFields /\ n.halt = k.halt
  BY DEF Good, KFields, Stored, Agree
<1>2. p \in Pages /\ \A r \in Procs, w \in Addresses : HasMm(k, r) /\ k.mm[r].pte[w] = p => r = q /\ w = v
  BY PageAt DEF Sound
<1>3. DOMAIN k.data = Pages
  BY DEF Sound
<1> HIDE DEF p
<1>4. Good(n)
  BY <1>1 DEF Good
<1>5. Map(n) = Map(k)
  BY <1>1, MapSame
<1>6. Sound(n, H)
  BY <1>1, <1>3, <1>5 DEF Sound, HasMm
<1>7. NoSwap(k) => NoSwap(n)
  BY <1>1 DEF NoSwap, HasMm
<1>8. CellIn(k, q, v) # {}
  <2>1. CellIn(k, q, v) = {k.data[p]}
    BY DEF CellIn, p
  <2> QED BY <2>1
<1>9. CellsBut(k, n, q, v)
  <2> SUFFICES ASSUME NEW r \in Procs, NEW w \in Addresses, r # q \/ w # v
               PROVE  CellIn(n, r, w) = CellIn(k, r, w)
    BY DEF CellsBut
  <2>1. HasMm(k, r) <=> HasMm(n, r)
    BY <1>1 DEF HasMm
  <2>2. HasMm(k, r) /\ k.mm[r].pte[w] \in Pages => n.data[k.mm[r].pte[w]] = k.data[k.mm[r].pte[w]]
    BY <1>1, <1>2, <1>3
  <2> QED BY <1>1, <2>1, <2>2 DEF CellIn
<1>10. Holds(n, q, v, x)
  <2>1. HasMm(n, q) /\ n.mm[q].pte[v] = p /\ n.data[p] = x
    BY <1>1, <1>2, <1>3 DEF HasMm, p
  <2> QED BY <1>2, <2>1 DEF Holds, CellIn
<1> QED BY <1>4, <1>6, <1>7, <1>8, <1>9, <1>10

\* An address is in one area at most.
LEMMA HitOne ==
  ASSUME NEW k, NEW H, Good(k), Sound(k, H), NEW q \in Procs, HasMm(k, q), NEW v \in Addresses,
         NEW hit, hit = FindVma(k.mm[q], v)
  PROVE  /\ hit # {} <=> InArea(k.mm[q].areas, v)
         /\ \A i \in hit : Min(hit) = i
<1> DEFINE s == k.mm[q].areas
<1>1. s \in Seq(AreaTypes) /\ AreasApart(s)
  BY MmKinds DEF Sound, MmSound
<1>2. DOMAIN s = 1 .. Len(s) /\ Len(s) \in Nat /\ \A i \in DOMAIN s : s[i] \in AreaTypes
  BY <1>1
<1>3. hit = {i \in DOMAIN s : s[i].start <= v /\ v < s[i].end}
  BY DEF FindVma
<1> HIDE DEF s
<1>4. v \in Nat /\ \A i \in DOMAIN s : s[i].start \in Nat /\ s[i].end \in Nat
  BY <1>2, VmAssumption DEF AreaTypes, Addresses
<1>5. ASSUME NEW i \in hit, NEW j \in hit PROVE i = j
  <2>1. ASSUME NEW x \in hit, NEW y \in hit, x < y PROVE FALSE
    <3>1. x \in DOMAIN s /\ y \in DOMAIN s /\ v < s[x].end /\ s[y].start <= v
      BY <1>3
    <3>2. s[x].end <= s[y].start
      BY <1>1, <2>1, <3>1 DEF AreasApart
    <3> QED BY <1>4, <3>1, <3>2
  <2>2. i \in Nat /\ j \in Nat
    BY <1>2, <1>3
  <2> QED BY <2>1, <2>2
<1>6. hit # {} <=> InArea(s, v)
  BY <1>3 DEF InArea
<1>7. ASSUME NEW i \in hit PROVE Min(hit) = i
  <2>1. i \in Nat /\ hit = {i}
    BY <1>2, <1>3, <1>5, <1>7
  <2>2. Min(hit) = CHOOSE x \in hit : \A y \in hit : x <= y
    BY DEF Min
  <2>3. \A x : (x \in hit /\ \A y \in hit : x <= y) <=> x = i
    BY <2>1
  <2> QED BY <2>1, <2>2, <2>3
<1> QED BY <1>6, <1>7 DEF s

\* do_pgfault: the page is brought, or the access is wrong.
Faulty(k, q, v, write) ==
  \/ k.mm[q].pte[v] \notin Pages
  \/ write /\ \E i \in FindVma(k.mm[q], v) : ~k.mm[q].areas[i].write

\* What do_pgfault does with an access that faults.
LEMMA FaultIs ==
  ASSUME NEW k, NEW H, Good(k), Sound(k, H), NEW q \in Procs, HasMm(k, q), NEW v \in Addresses,
         NEW write \in BOOLEAN, Faulty(k, q, v, write),
         NEW g, g = GetPte(k, q, v), InArea(k.mm[q].areas, v) => g.mm[q].pte = k.mm[q].pte,
         NEW d, d = DoPgfault(k, q, v, write)
  PROVE  \/ d = [k EXCEPT !.ret = "inval"]
         \/ /\ InArea(k.mm[q].areas, v) /\ k.mm[q].pte[v] = Zero
            /\ d = PgdirAllocPage(g, q, v, Old)
         \/ /\ InArea(k.mm[q].areas, v) /\ k.mm[q].pte[v] = SwapEntry
            /\ d = SwapIn(g, q, v)
<1> DEFINE hit == FindVma(k.mm[q], v)
           e   == g.mm[q].pte[v]
           Bring(h) == CASE h.mm[q].pte[v] = Zero      -> PgdirAllocPage(h, q, v, Old)
                         [] h.mm[q].pte[v] = SwapEntry -> SwapIn(h, q, v)
                         [] OTHER                      -> PanicIf(h, TRUE, "assert")
<1>1. d = IF hit = {} \/ (write /\ ~k.mm[q].areas[Min(hit)].write) THEN [k EXCEPT !.ret = "inval"]
          ELSE Bring(g)
  <2>1. d = IF hit = {} \/ (write /\ ~k.mm[q].areas[Min(hit)].write) THEN [k EXCEPT !.ret = "inval"]
            ELSE Bring(GetPte(k, q, v))
    BY Zenon DEF DoPgfault
  <2> HIDE DEF Bring, hit
  <2> QED BY <2>1
<1>2. (hit # {} <=> InArea(k.mm[q].areas, v)) /\ \A i \in hit : Min(hit) = i
  BY HitOne
<1>3. InArea(k.mm[q].areas, v) => e \in Pages \cup {Zero, SwapEntry} /\ e = k.mm[q].pte[v]
  BY DEF Sound, MmSound
<1>4. e = Zero => Bring(g) = PgdirAllocPage(g, q, v, Old)
  BY EntriesApart
<1>5. e = SwapEntry => Bring(g) = SwapIn(g, q, v)
  BY EntriesApart
<1>6. k.mm[q].pte[v] \notin Pages \/ (write /\ \E i \in hit : ~k.mm[q].areas[i].write)
  BY DEF Faulty
<1> HIDE DEF hit, e, Bring
<1> QED BY <1>1, <1>2, <1>3, <1>4, <1>5, <1>6

\* A store of a program
LEMMA WriteKeeps ==
  ASSUME NEW H, Peers(Now, H), halt = "none", NEW q \in Procs, NEW v \in Addresses, NEW x \in Values,
         Write(q, v, x)
  PROVE  Peers(Now', H) /\ SpaceStep(Now, Now')
<1>1. PICK k : k = Now
  OBVIOUS
<1>2. PICK n : n = Now'
  OBVIOUS
<1>3. /\ Good(k) /\ Clean(k, H) /\ Life(k) /\ k.halt = "none" /\ k.state = state /\ k.kstack = kstack
      /\ k.mm = mm
  BY <1>1, PeersNow
<1>4. mm[q] # NoMm /\ mm[q].pte[v] \in Pages
  BY DEF Write, Runs
<1>5. Stored(k, n, q, v, x)
  BY <1>1, <1>2 DEF Write, Stored, Agree, Now, KFields
<1>6. HasMm(k, q)
  BY <1>3, <1>4, MmKinds
<1>7. /\ Good(n) /\ Sound(n, H) /\ (NoSwap(k) => NoSwap(n))
      /\ CellIn(k, q, v) # {} /\ CellsBut(k, n, q, v) /\ Holds(n, q, v, x)
  BY <1>3, <1>4, <1>5, <1>6, StoreIs DEF Clean
<1>8. Life(n)
  <2>1. n.state = k.state /\ n.kstack = k.kstack /\ n.mm = k.mm
    BY <1>5, <1>3 DEF Stored, Agree, Good, KFields
  <2> QED BY <1>3, <2>1 DEF Life
<1>9. SpaceStep(k, n)
  BY <1>7 DEF SpaceStep, Stores
<1> QED BY <1>1, <1>2, <1>3, <1>7, <1>8, <1>9 DEF Peers, Clean

\* do_pgfault, when nothing is swapped
LEMMA FaultKeeps ==
  ASSUME NEW H, Peers(Now, H), halt = "none", NEW q \in Procs, NEW v \in Addresses, NEW write \in BOOLEAN,
         Fault(q, v, write)
  PROVE  Peers(Now', H) /\ SpaceStep(Now, Now')
<1>1. PICK k : k = Now
  OBVIOUS
<1> DEFINE g == GetPte(k, q, v)
           d == DoPgfault(k, q, v, write)
           t == PanicIf(d, d.ret # "ok", "fault")
<1>2. /\ Good(k) /\ Clean(k, H) /\ Life(k) /\ k.halt = "none" /\ k.state = state /\ k.kstack = kstack
      /\ k.mm = mm /\ k.ret = "ok"
  BY <1>1, PeersNow DEF Now
<1>3. Faulty(k, q, v, write) /\ mm[q] # NoMm /\ state[q] \in {"live", "check"} /\ Become(t)
  BY <1>1, <1>2 DEF Fault, Faulty, Runs
<1>4. HasMm(k, q) /\ Checked = {} /\ Sound(k, H) /\ state[q] = "live"
  BY <1>2, <1>3, MmKinds, NoneChecked DEF Clean, Life
<1>5. t = IF d.ret # "ok" /\ d.halt = "none" THEN [d EXCEPT !.halt = "fault"] ELSE d
  BY DEF PanicIf
<1> HIDE DEF t
<1>6. CASE d = [k EXCEPT !.ret = "inval"]
  <2>1. DOMAIN d = KFields /\ d.ret # "ok" /\ d.halt = "none" /\ d.mm = k.mm
    BY <1>2, <1>6 DEF Good, KFields
  <2> HIDE DEF d
  <2>2. DOMAIN t = KFields /\ t.halt = "fault" /\ t.mm = k.mm
    BY <1>5, <2>1 DEF KFields
  <2>3. Good(t)
    BY <1>2, <2>2 DEF Good
  <2> QED BY <1>3, <2>2, <2>3, PeersStep
<1>7. CASE ~(d = [k EXCEPT !.ret = "inval"])
  <2>1. PICK y : y = Old
    OBVIOUS
  <2>2. /\ InArea(k.mm[q].areas, v) /\ k.mm[q].pte[v] = Zero
        /\ d = PgdirAllocPage(g, q, v, y)
    <3>1. InArea(k.mm[q].areas, v) => g.mm[q].pte = k.mm[q].pte
      <4>1. CASE InArea(k.mm[q].areas, v)
        <5>1. k.halt = "none" => Sound(k, H) /\ InArea(k.mm[q].areas, v)
          BY <1>4, <4>1
        <5> QED BY <1>2, <1>4, <5>1, GetPteIs
      <4> QED BY <4>1
    <3>2. g = GetPte(k, q, v) /\ d = DoPgfault(k, q, v, write)
      OBVIOUS
    <3> HIDE DEF g, d
    <3>3. \/ d = [k EXCEPT !.ret = "inval"]
          \/ /\ InArea(k.mm[q].areas, v) /\ k.mm[q].pte[v] = Zero
             /\ d = PgdirAllocPage(g, q, v, Old)
          \/ /\ InArea(k.mm[q].areas, v) /\ k.mm[q].pte[v] = SwapEntry
             /\ d = SwapIn(g, q, v)
      BY <1>2, <1>3, <1>4, <3>1, <3>2, FaultIs
    <3>4. k.mm[q].pte[v] # SwapEntry
      BY <1>2, <1>4 DEF Clean, NoSwap
    <3> QED BY <1>7, <2>1, <3>3, <3>4
  <2> HIDE DEF d
  <2>3. /\ Good(g) /\ Beside(k, g, q) /\ g.mm[q].pte = k.mm[q].pte
        /\ g.halt = "none" =>
             /\ k.halt = "none" /\ Sound(g, H) /\ g.mm[q].pd[Dir(v)] # NoPage
             /\ g.data = k.data /\ CellsSame(k, g)
    <3>1. k.halt = "none" => Sound(k, H) /\ InArea(k.mm[q].areas, v)
      BY <1>4, <2>2
    <3> QED BY <1>2, <1>4, <3>1, GetPteIs
  <2> HIDE DEF g
  <2>4. HasMm(g, q) /\ (g.halt = "none" => MayMap(g, H, q, v))
    BY <2>2, <2>3 DEF MayMap, Beside
  <2>5. /\ Good(d) /\ Beside(g, d, q)
        /\ d.halt = "none" => Mapped(g, H, q, v, d) /\ Holds(d, q, v, y)
    BY <1>4, <2>2, <2>3, <2>4, PgdirAllocIs
  <2>6. Beside(k, d, q)
    BY <2>3, <2>5, BesideTwice
  <2>7. Near(k, d, q) /\ HasMm(d, q) /\ d.ret = "ok"
    BY <1>2, <2>6, BesideNear
  <2>8. t = d
    BY <1>5, <2>7
  <2>9. Life(d)
    BY <1>2, <1>4, <2>7, NearLife
  <2>10. ASSUME d.halt = "none" PROVE Peers(d, H) /\ SpaceStep(k, d)
    <3>1. Mapped(g, H, q, v, d) /\ Holds(d, q, v, Old) /\ g.halt = "none" /\ Sound(d, H)
      BY <2>1, <2>5, <2>10 DEF Mapped
    <3>2. Sound(g, H) /\ CellsSame(k, g)
      BY <2>3, <3>1
    <3>3. Clean(g, H)
      <4>1. NoSwap(g)
        <5>1. \A r \in Procs : r # q => g.mm[r] = k.mm[r]
          BY <2>3 DEF Beside, OnlyMm
        <5> QED BY <1>2, <1>4, <2>3, <5>1 DEF NoSwap, Clean, HasMm
      <4> QED BY <3>1, <3>2, <4>1 DEF Clean
    <3>4. Clean(d, H)
      BY <2>4, <2>5, <2>10, <3>1, <3>3, MappedClean
    <3>5. Touches(k, d, q, v)
      <4>1. CellsBut(k, d, q, v)
        BY <3>1, <3>2 DEF Mapped, CellsBut, CellsSame
      <4>2. CellIn(k, q, v) = {}
        BY <1>4, <2>2, EntriesApart DEF CellIn
      <4> QED BY <3>1, <4>1, <4>2 DEF Touches
    <3> QED BY <2>5, <2>9, <3>4, <3>5 DEF Peers, Clean, SpaceStep
  <2> QED BY <1>1, <1>3, <2>5, <2>8, <2>10, PeersStep
<1> QED BY <1>6, <1>7

\* No step of the processes loses or shares a page.
LEMMA VmKeeps ==
  ASSUME NEW H, Peers(Now, H), halt = "none", VmNext
  PROVE  Peers(Now', H) /\ SpaceStep(Now, Now')
<1>1. PICK q \in Procs :
        \/ \E child \in Procs : Fork(q, child)
        \/ \E prog \in Programs : Exec(q, prog)
        \/ Exit(q)
        \/ Reap(q)
        \/ \E v \in Addresses : \/ \E x \in Values : Write(q, v, x)
                                \/ \E w \in BOOLEAN : Fault(q, v, w)
  BY DEF VmNext
<1>2. CASE \E child \in Procs : Fork(q, child)
  BY <1>2, ForkKeeps
<1>3. CASE \E prog \in Programs : Exec(q, prog)
  BY <1>3, ExecKeeps
<1>4. CASE Exit(q)
  BY <1>4, ExitKeeps
<1>5. CASE Reap(q)
  BY <1>5, ReapKeeps
<1>6. CASE \E v \in Addresses, x \in Values : Write(q, v, x)
  BY <1>6, WriteKeeps
<1>7. CASE \E v \in Addresses, w \in BOOLEAN : Fault(q, v, w)
  BY <1>7, FaultKeeps
<1> QED BY <1>1, <1>2, <1>3, <1>4, <1>5, <1>6, <1>7

-----------------------------------------------------------------------------
(* The boot checks, when pages are swapped.                                *)

\* What the quotient is.
LEMMA QuotientIs ==
  ASSUME NEW v \in Nat, NEW n \in Nat \ {0}
  PROVE  v \div n \in Nat /\ n * (v \div n) <= v /\ v < n * (v \div n) + n
  OBVIOUS

\* The entries of the page directory are counted from 0.
LEMMA DirsAre == Dirs = 0 .. NDirs - 1 /\ NDirs \in Nat
<1> DEFINE n == TablePages
           m == (Top - 1) \div n
<1>1. n \in Nat \ {0} /\ Top - 1 \in Nat /\ Top \in Nat
  BY VmAssumption
<1> HIDE DEF n
<1>2. m \in Nat /\ n * m <= Top - 1 /\ Top - 1 < n * m + n
  BY <1>1, QuotientIs
<1> HIDE DEF m
<1>3. ASSUME NEW v \in Addresses PROVE Dir(v) \in 0 .. m
  <2>1. v \in Nat /\ v <= Top - 1
    BY <1>1 DEF Addresses
  <2>2. PICK d : d = v \div n
    OBVIOUS
  <2>3. d \in Nat /\ n * d <= v
    BY <1>1, <2>1, <2>2, QuotientIs
  <2>4. d <= m
    <3>1. SUFFICES ASSUME d >= m + 1 PROVE FALSE
      BY <1>2, <2>3
    <3>2. n * d >= n * (m + 1)
      BY <1>1, <1>2, <2>3, <3>1
    <3>3. n * (m + 1) = n * m + n
      BY <1>1, <1>2
    <3> QED BY <1>1, <1>2, <2>1, <2>3, <3>2, <3>3
  <2> QED BY <1>2, <2>2, <2>3, <2>4 DEF Dir, n
<1>4. ASSUME NEW d \in 0 .. m PROVE \E v \in Addresses : Dir(v) = d
  <2>1. d \in Nat /\ n * d \in Nat
    BY <1>1, <1>2
  <2>2. n * d <= n * m
    BY <1>1, <1>2, <2>1
  <2>3. n * d \in Addresses
    BY <1>1, <1>2, <2>1, <2>2 DEF Addresses
  <2>4. PICK e : e = (n * d) \div n
    OBVIOUS
  <2>5. e \in Nat /\ n * e <= n * d /\ n * d < n * e + n
    BY <1>1, <2>1, <2>4, QuotientIs
  <2>6. e = d
    <3>1. n * e + n = n * (e + 1)
      BY <1>1, <2>5
    <3>2. CASE e > d
      <4>1. n * e >= n * (d + 1) /\ n * (d + 1) = n * d + n
        BY <1>1, <2>1, <2>5, <3>2
      <4> QED BY <1>1, <2>1, <2>5, <4>1
    <3>3. CASE e < d
      <4>1. n * d >= n * (e + 1)
        BY <1>1, <2>1, <2>5, <3>3
      <4> QED BY <1>1, <2>1, <2>5, <3>1, <4>1
    <3> QED BY <2>1, <2>5, <3>2, <3>3
  <2> QED BY <2>3, <2>4, <2>6 DEF Dir, n
<1>5. Dirs = 0 .. m
  BY <1>3, <1>4 DEF Dirs
<1>6. NDirs = m + 1
  <2>1. Cardinality(0 .. m) = m - 0 + 1
    BY <1>2, FS_Interval
  <2> QED BY <1>2, <1>5, <2>1 DEF NDirs
<1> QED BY <1>2, <1>5, <1>6

\* The list has the pages that are mapped, each once with its address.
FifoOf(l, at, slots, pte) ==
  /\ l \in Seq(Pages) /\ DOMAIN at = Pages /\ DOMAIN slots = Addresses
  /\ \A i, j \in DOMAIN l : i # j => l[i] # l[j]
  /\ \A i \in DOMAIN l : at[l[i]] \in Addresses /\ pte[at[l[i]]] = l[i]
  /\ \A v \in Addresses : pte[v] \in Pages => \E i \in DOMAIN l : l[i] = pte[v]
FifoOK(k) == FifoOf(k.fifo, k.pra, k.disk, k.mm[InitProc].pte)

\* init alone has memory, and all of its page tables.
Alone(k) ==
  /\ k.state = [q \in Procs |-> IF q = InitProc THEN "check" ELSE "free"]
  /\ k.kstack = [q \in Procs |-> NoPage]
  /\ HasMm(k, InitProc) /\ \A q \in Procs \ {InitProc} : k.mm[q] = NoMm
  /\ k.mm[InitProc].pgdir = 0 /\ \A d \in Dirs : k.mm[InitProc].pd[d] = d + 1
Boot(k, H) == Good(k) /\ Sound(k, H) /\ FifoOK(k) /\ Alone(k) /\ NDirs + 1 \in Pages \ H

\* It is the one whose mm is swapped.
LEMMA InitChecked == ASSUME Alone(Now) PROVE Checked = {InitProc} /\ (CHOOSE q \in Checked : TRUE) = InitProc
<1>1. \A q \in Procs : state[q] = "check" <=> q = InitProc
  BY DEF Alone, Now
<1>2. Checked = {InitProc}
  BY <1>1, VmAssumption DEF Checked
<1> QED BY <1>2

\* When no page is free, one of the program's is on the list.
LEMMA FifoFull ==
  ASSUME NEW k, NEW H, Boot(k, H), Free(k.area) = {}
  PROVE  k.fifo # <<>>
<1> DEFINE p == NDirs + 1
           m == k.mm[InitProc]
<1>1. InitProc \in Procs /\ p \in Pages \ H /\ p # NoPage
  BY VmAssumption, NotPage DEF Boot
<1>2. PICK s \in Slots : Map(k)[s] = p
  BY <1>1 DEF Boot, Sound, Exact
<1>3. /\ s[2] \in Procs /\ s = <<s[1], s[2], s[3]>>
      /\ \/ s[1] = "stack" /\ s[3] \in {0, 1}
         \/ s[1] = "pgdir" /\ s[3] = 0
         \/ s[1] = "table" /\ s[3] \in Dirs
         \/ s[1] = "user" /\ s[3] \in Addresses
  BY SlotKinds
<1>4. At(k, s) = p
  BY <1>2 DEF Map
<1>5. NDirs \in Nat /\ \A d \in Dirs : d \in Nat /\ d < NDirs
  BY DirsAre
<1>6. k.kstack[s[2]] = NoPage
  BY <1>3 DEF Boot, Alone
<1>7. s[2] # InitProc => k.mm[s[2]] = NoMm /\ ~HasMm(k, s[2])
  <2>1. s[2] # InitProc => k.mm[s[2]] = NoMm
    BY <1>3 DEF Boot, Alone
  <2> QED BY <1>3, <2>1, MmKinds DEF Boot
<1>8. HasMm(k, InitProc) /\ m.pgdir = 0 /\ \A d \in Dirs : m.pd[d] = d + 1
  BY DEF Boot, Alone
<1> HIDE DEF m
<1>9. s[1] = "user" /\ s[2] = InitProc
  <2>1. CASE s[1] = "stack"
    BY <1>1, <1>4, <1>6, <2>1 DEF At
  <2>2. CASE s[1] = "pgdir"
    <3>1. p = k.mm[s[2]].pgdir
      BY <1>4, <2>2 DEF At
    <3>2. s[2] = InitProc => p = 0
      BY <1>8, <3>1 DEF m
    <3>3. s[2] # InitProc => p = NoPage
      BY <1>7, <3>1 DEF NoMm
    <3> QED BY <1>1, <1>5, <3>2, <3>3
  <2>3. CASE s[1] = "table"
    <3>1. s[2] = InitProc
      BY <1>1, <1>4, <1>7, <2>3 DEF At
    <3>2. p = m.pd[s[3]] /\ s[3] \in Dirs
      BY <1>3, <1>4, <1>8, <2>3, <3>1 DEF At, m
    <3> QED BY <1>5, <1>8, <3>2
  <2>4. CASE s[1] = "user"
    BY <1>1, <1>4, <1>7, <2>4 DEF At
  <2> QED BY <1>3, <2>1, <2>2, <2>3, <2>4
<1>10. s[3] \in Addresses /\ m.pte[s[3]] \in Pages
  BY <1>1, <1>3, <1>4, <1>8, <1>9 DEF At, m
<1>11. \E i \in DOMAIN k.fifo : TRUE
  BY <1>10 DEF Boot, FifoOK, FifoOf, m
<1> QED BY <1>11

\* The page at the tail of the list, and its address.
TailOf(k, p, v, l) ==
  /\ p \in Pages /\ v \in Addresses /\ k.mm[InitProc].pte[v] = p
  /\ l \in Seq(Pages) /\ \A i, j \in DOMAIN l : i # j => l[i] # l[j]
  /\ \A i \in DOMAIN l : l[i] # p /\ i \in DOMAIN k.fifo /\ l[i] = k.fifo[i]
  /\ \A i \in DOMAIN k.fifo : k.fifo[i] # p => i \in DOMAIN l

\* _fifo_swap_out_victim takes the oldest page, which is mapped where its pra_vaddr says.
LEMMA TailIs ==
  ASSUME NEW k, NEW H, Boot(k, H), k.fifo # <<>>, NEW p, p = Last(k.fifo), NEW v, v = k.pra[p],
         NEW l, l = Front(k.fifo)
  PROVE  TailOf(k, p, v, l)
<1> DEFINE s == k.fifo
           n == Len(s)
<1>1. s \in Seq(Pages) /\ n \in Nat /\ n > 0 /\ DOMAIN s = 1 .. n /\ \A i \in 1 .. n : s[i] \in Pages
  BY LenProperties DEF Boot, FifoOK, FifoOf
<1>2. \A i, j \in DOMAIN s : i # j => s[i] # s[j]
  BY DEF Boot, FifoOK, FifoOf
<1>3. p = s[n]
  BY DEF Last
<1>4. n \in DOMAIN s /\ p \in Pages
  BY <1>1, <1>3
<1>5. l = SubSeq(s, 1, n - 1)
  BY DEF Front
<1>6. v \in Addresses /\ k.mm[InitProc].pte[v] = p
  BY <1>3, <1>4 DEF Boot, FifoOK, FifoOf
<1> HIDE DEF s, n
<1>7. l \in Seq(Pages) /\ Len(l) = n - 1 /\ DOMAIN l = 1 .. n - 1 /\ \A i \in 1 .. n - 1 : l[i] = s[i]
  BY <1>1, <1>5 DEF n
<1>8. \A i, j \in DOMAIN l : i # j => l[i] # l[j]
  BY <1>1, <1>2, <1>7
<1>9. \A i \in DOMAIN l : l[i] # p /\ i \in DOMAIN s /\ l[i] = s[i]
  BY <1>1, <1>2, <1>3, <1>4, <1>7
<1>10. \A i \in DOMAIN s : s[i] # p => i \in DOMAIN l
  BY <1>1, <1>3, <1>7, SMTT(30)
<1> QED BY <1>4, <1>6, <1>7, <1>8, <1>9, <1>10 DEF s, TailOf

\* swap_out of a page: it is free, and what it held is in its slot.
SwappedOut(k, H, t) ==
  /\ Boot(t, H) /\ CellsSame(k, t) /\ t.halt = k.halt /\ t.ret = k.ret
  /\ t.mm[InitProc].areas = k.mm[InitProc].areas
  /\ \A w \in Addresses : k.mm[InitProc].pte[w] \notin Pages => t.mm[InitProc].pte[w] = k.mm[InitProc].pte[w]

\* swap_out: the page is free, and what it held is on the disk.
LEMMA EvictIs ==
  ASSUME NEW k, NEW H, Boot(k, H), k.fifo # <<>>, NEW p, p = Last(k.fifo), NEW v, v = k.pra[p],
         NEW t, t = Evict(k, InitProc, p, v)
  PROVE  SwappedOut(k, H, t) /\ p \in Free(t.area)
<1> DEFINE q == InitProc
<1>0. q \in Procs
  BY VmAssumption
<1>20. PICK l : l = Front(k.fifo)
  OBVIOUS
<1>1. /\ p \in Pages /\ v \in Addresses /\ k.mm[q].pte[v] = p
      /\ l \in Seq(Pages) /\ \A i, j \in DOMAIN l : i # j => l[i] # l[j]
      /\ \A i \in DOMAIN l : l[i] # p /\ i \in DOMAIN k.fifo /\ l[i] = k.fifo[i]
      /\ \A i \in DOMAIN k.fifo : k.fifo[i] # p => i \in DOMAIN l
  <2>1. TailOf(k, p, v, l)
    BY <1>20, TailIs
  <2> QED BY <2>1 DEF TailOf
<1> HIDE DEF q
<1>2. Good(k) /\ HasMm(k, q) /\ DOMAIN k = KFields /\ k.halt # "assert"
  BY DEF Boot, Alone, Good, q
<1> DEFINE e == [k EXCEPT !.fifo = l, !.disk[v] = k.data[p], !.mm[q].pte[v] = SwapEntry]
<1>3. t = FreePage(e, p)
  BY <1>1, <1>20 DEF Evict, PanicIf, q
<1>4. /\ DOMAIN e = KFields /\ e.halt = k.halt /\ e.ret = k.ret /\ e.state = k.state /\ e.kstack = k.kstack
      /\ e.area = k.area /\ e.ref = k.ref /\ e.data = k.data /\ e.pra = k.pra /\ e.fifo = l
      /\ e.disk = [k.disk EXCEPT ![v] = k.data[p]] /\ e.mm = [k.mm EXCEPT ![q].pte[v] = SwapEntry]
  BY <1>2 DEF KFields
<1> HIDE DEF e
<1>5. /\ DOMAIN t = KFields /\ t.halt = k.halt /\ t.ret = k.ret /\ t.state = k.state /\ t.kstack = k.kstack
      /\ t.area = FreePages(k.area, p, 1) /\ t.ref = [k.ref EXCEPT ![p] = 0]
      /\ t.data = [k.data EXCEPT ![p] = Old] /\ t.pra = k.pra /\ t.fifo = l
      /\ t.disk = [k.disk EXCEPT ![v] = k.data[p]] /\ t.mm = [k.mm EXCEPT ![q].pte[v] = SwapEntry]
  BY <1>3, <1>4, SMTT(30) DEF FreePage, KFields
<1>6. PteSet(k, t, q, v, SwapEntry)
  BY <1>0, <1>1, <1>2, <1>5, PteChange
<1>7. Good(t) /\ HasMm(t, q)
  BY <1>0, <1>2, <1>5, <1>6, PteGood
<1>8. /\ OnlyMm(k, t, q) /\ t.mm[q].pgdir = k.mm[q].pgdir /\ t.mm[q].areas = k.mm[q].areas
      /\ t.mm[q].pd = k.mm[q].pd
      /\ \A w \in Addresses : t.mm[q].pte[w] = IF w = v THEN SwapEntry ELSE k.mm[q].pte[w]
  BY <1>6 DEF PteSet
<1>9. /\ DOMAIN k.data = Pages /\ AreaOK(k.area) /\ Exact(Map(k), Free(k.area), H, k.ref)
      /\ \A x \in Procs : HasMm(k, x) => MmSound(k.mm[x])
  BY DEF Boot, Sound
<1>10. /\ p \notin Free(k.area) \cup H /\ DOMAIN k.ref = Pages
       /\ \A r \in Procs, w \in Addresses : HasMm(k, r) /\ k.mm[r].pte[w] = p => r = q /\ w = v
  <2>1. k.mm[q].pte[v] \in Pages
    BY <1>1
  <2>2. /\ k.mm[q].pte[v] \notin Free(k.area) \cup H
        /\ \A r \in Procs, w \in Addresses :
             HasMm(k, r) /\ k.mm[r].pte[w] = k.mm[q].pte[v] => r = q /\ w = v
    BY <1>0, <1>1, <1>2, <1>9, <2>1, PageAt
  <2>3. DOMAIN k.ref = Pages
    BY <1>9 DEF Exact
  <2> QED BY <1>1, <2>2, <2>3
<1>11. AreaOK(t.area) /\ Free(t.area) = Free(k.area) \cup {p}
  BY <1>1, <1>5, <1>9, <1>10, FreeOne
<1>12. Exact(Map(t), Free(t.area), H, t.ref)
  <2>5. PICK s : s = <<"user", q, v>>
    OBVIOUS
  <2>1. s \in Slots /\ Map(k)[s] = p /\ p # NoPage
    <3>1. s \in Slots /\ Map(k)[s] = IF k.mm[q].pte[v] \in Pages THEN k.mm[q].pte[v] ELSE NoPage
      BY <1>0, <1>1, <1>2, <2>5, UserSlot
    <3> QED BY <1>1, <3>1, NotPage
  <2>2. SetAt(Map(k), Map(t), s, NoPage)
    <3>1. SetAt(Map(k), Map(t), s, IF SwapEntry \in Pages THEN SwapEntry ELSE NoPage)
      BY <1>0, <1>1, <1>2, <1>5, <1>6, <2>5, PteMap
    <3> QED BY <3>1, EntriesApart
  <2>3. DOMAIN t.ref = Pages /\ \A x \in Pages : t.ref[x] = IF x = p THEN 0 ELSE k.ref[x]
    BY <1>5, <1>10
  <2>4. Exact(Map(t), Free(k.area) \cup {Map(k)[s]}, H, t.ref)
    BY <1>9, <2>1, <2>2, <2>3, DropExact
  <2> QED BY <1>11, <2>1, <2>4
<1>13. ASSUME NEW x \in Procs, HasMm(t, x) PROVE MmSound(t.mm[x])
  <2>1. CASE x # q
    <3>1. t.mm[x] = k.mm[x]
      BY <1>8, <2>1, SMTT(30) DEF OnlyMm
    <3> QED BY <1>9, <1>13, <3>1, SMTT(30) DEF HasMm
  <2>2. CASE x = q
    <3>1. MmSound(k.mm[q])
      BY <1>0, <1>2, <1>9
    <3>2. k.mm[q].pte[v] # Zero
      BY <1>1, EntriesApart
    <3> QED BY <1>8, <2>2, <3>1, <3>2, ZenonT(60) DEF MmSound
  <2> QED BY <2>1, <2>2
<1>14. Sound(t, H)
  <2>1. DOMAIN t.data = Pages
    BY <1>5, <1>9
  <2> QED BY <1>11, <1>12, <1>13, <2>1 DEF Sound
<1>15. Alone(t)
  <2>1. \A r \in Procs \ {q} : t.mm[r] = k.mm[r]
    BY <1>8 DEF OnlyMm
  <2> QED BY <1>5, <1>7, <1>8, <2>1 DEF Boot, Alone, q
<1>16. FifoOK(t)
  <2>1. /\ DOMAIN k.pra = Pages /\ DOMAIN k.disk = Addresses
        /\ \A i \in DOMAIN k.fifo : k.pra[k.fifo[i]] \in Addresses /\ k.mm[q].pte[k.pra[k.fifo[i]]] = k.fifo[i]
        /\ \A w \in Addresses : k.mm[q].pte[w] \in Pages => \E i \in DOMAIN k.fifo : k.fifo[i] = k.mm[q].pte[w]
    BY SMTT(30) DEF Boot, FifoOK, FifoOf, q
  <2>2. DOMAIN t.pra = Pages /\ DOMAIN t.disk = Addresses
    BY <1>5, <2>1
  <2>3. ASSUME NEW i \in DOMAIN l
        PROVE  t.pra[l[i]] \in Addresses /\ t.mm[q].pte[t.pra[l[i]]] = l[i]
    <3>1. l[i] # p /\ i \in DOMAIN k.fifo /\ l[i] = k.fifo[i]
      BY <1>1, <2>3
    <3>2. k.pra[l[i]] \in Addresses /\ k.mm[q].pte[k.pra[l[i]]] = l[i]
      BY <2>1, <3>1
    <3>3. k.pra[l[i]] # v
      BY <1>1, <3>1, <3>2
    <3> QED BY <1>5, <1>8, <3>2, <3>3
  <2>4. ASSUME NEW w \in Addresses, t.mm[q].pte[w] \in Pages
        PROVE  \E i \in DOMAIN l : l[i] = t.mm[q].pte[w]
    <3>1. w # v /\ t.mm[q].pte[w] = k.mm[q].pte[w]
      BY <1>8, <2>4, EntriesApart, SMTT(30)
    <3>2. PICK i \in DOMAIN k.fifo : k.fifo[i] = k.mm[q].pte[w]
      BY <2>1, <2>4, <3>1
    <3>3. k.fifo[i] # p
      BY <1>0, <1>2, <1>10, <3>1, <3>2
    <3> QED BY <1>1, <3>1, <3>2, <3>3, SMTT(30)
  <2>5. t.fifo = l /\ l \in Seq(Pages) /\ \A i, j \in DOMAIN l : i # j => l[i] # l[j]
    BY <1>1, <1>5, SMTT(30)
  <2>6. FifoOf(l, t.pra, t.disk, t.mm[q].pte)
    BY <2>2, <2>3, <2>4, <2>5 DEF FifoOf
  <2> QED BY <2>5, <2>6 DEF FifoOK, q
<1>17. CellsSame(k, t)
  <2> SUFFICES ASSUME NEW r \in Procs, NEW w \in Addresses
               PROVE  CellIn(t, r, w) = CellIn(k, r, w)
    BY DEF CellsSame
  <2>1. CASE r = q /\ w = v
    <3>1. CellIn(k, r, w) = {k.data[p]}
      BY <1>1, <1>2, <2>1 DEF CellIn
    <3>2. t.mm[r].pte[w] = SwapEntry /\ t.disk[w] = k.data[p]
      <4>1. DOMAIN k.disk = Addresses
        BY DEF Boot, FifoOK, FifoOf
      <4> QED BY <1>1, <1>5, <1>8, <2>1, <4>1
    <3>3. CellIn(t, r, w) = {t.disk[w]}
      BY <1>7, <2>1, <3>2, EntriesApart, SMTT(30) DEF CellIn
    <3> QED BY <3>1, <3>2, <3>3, SMTT(30)
  <2>2. CASE r = q /\ w # v
    <3>1. t.mm[r].pte[w] = k.mm[r].pte[w] /\ t.disk[w] = k.disk[w] /\ HasMm(k, r) /\ HasMm(t, r)
      BY <1>2, <1>5, <1>7, <1>8, <2>2
    <3>2. k.mm[r].pte[w] \in Pages => t.data[k.mm[r].pte[w]] = k.data[k.mm[r].pte[w]]
      BY <1>2, <1>5, <1>9, <1>10, <2>2
    <3> QED BY <3>1, <3>2 DEF CellIn
  <2>3. CASE r # q
    <3>1. k.mm[r] = NoMm /\ t.mm[r] = NoMm
      BY <1>8, <2>3 DEF OnlyMm, Boot, Alone, q
    <3>2. ~HasMm(k, r) /\ ~HasMm(t, r)
      BY <1>2, <1>7, <3>1, MmKinds
    <3> QED BY <3>2, SMTT(30) DEF CellIn
  <2> QED BY <2>1, <2>2, <2>3
<1>18. Boot(t, H)
  BY <1>7, <1>14, <1>15, <1>16, SMTT(30) DEF Boot
<1>19. \A w \in Addresses : k.mm[q].pte[w] \notin Pages => t.mm[q].pte[w] = k.mm[q].pte[w]
  BY <1>1, <1>8
<1> QED BY <1>5, <1>8, <1>11, <1>17, <1>18, <1>19 DEF SwappedOut, q

\* alloc_page: when no page is free, one is swapped out first.
LEMMA TakeSwap ==
  ASSUME Alone(Now), NEW k, NEW H, Boot(k, H), NEW t, t = TakePage(k)
  PROVE  \E s : SwappedOut(k, H, s) /\ t = TakePage(s) /\ AllocPages(s.area, 1).page # NoPage
<1>1. AreaOK(k.area)
  BY DEF Boot, Sound
<1>2. CASE AllocPages(k.area, 1).page # NoPage
  <2>1. SwappedOut(k, H, k)
    BY DEF SwappedOut, CellsSame
  <2> QED BY <1>2, <2>1
<1>3. CASE AllocPages(k.area, 1).page = NoPage
  <2>1. Free(k.area) = {}
    BY <1>1, <1>3, AllocIs
  <2>2. k.fifo # <<>>
    BY <2>1, FifoFull
  <2>3. PICK p : p = Last(k.fifo)
    OBVIOUS
  <2>4. PICK v : v = k.pra[p]
    OBVIOUS
  <2>5. PICK s : s = Evict(k, InitProc, p, v)
    OBVIOUS
  <2>6. SwappedOut(k, H, s) /\ p \in Free(s.area)
    BY <2>2, <2>3, <2>4, <2>5, EvictIs
  <2>7. Checked = {InitProc} /\ SwapOut(k) = s
    BY <2>2, <2>3, <2>4, <2>5, InitChecked, Zenon DEF SwapOut
  <2>8. AllocPages(s.area, 1).page # NoPage
    <3>1. AreaOK(s.area)
      BY <2>6 DEF SwappedOut, Boot, Sound
    <3> QED BY <2>6, <3>1, AllocIs
  <2>9. t = TakePage(s)
    <3> DEFINE Got(x, a) == IF a.page = NoPage THEN PanicIf(x, TRUE, "no page")
                            ELSE [x EXCEPT !.area = a.area, !.got = a.page]
               Try(x)    == Got(x, AllocPages(x.area, 1))
    <3>1. \A x : TakePage(x) = Try(IF AllocPages(x.area, 1).page # NoPage \/ Checked = {} THEN x ELSE SwapOut(x))
      BY Zenon DEF TakePage
    <3> HIDE DEF Try
    <3>2. TakePage(k) = Try(s)
      BY <1>3, <2>7, <3>1
    <3>3. TakePage(s) = Try(s)
      BY <2>8, <3>1
    <3> QED BY <3>2, <3>3
  <2> QED BY <2>6, <2>8, <2>9
<1> QED BY <1>2, <1>3

\* A page table is there for every address.
LEMMA TablesThere ==
  ASSUME NEW k, NEW H, Boot(k, H), NEW v \in Addresses
  PROVE  k.mm[InitProc].pd[Dir(v)] # NoPage /\ GetPte(k, InitProc, v) = k
<1>1. Dir(v) \in Dirs /\ NDirs \in Nat /\ Dir(v) \in Nat /\ Dir(v) < NDirs
  BY DirOf, DirsAre
<1>2. NDirs + 1 \in Pages /\ k.mm[InitProc].pd[Dir(v)] = Dir(v) + 1
  BY <1>1 DEF Boot, Alone
<1>3. Dir(v) + 1 # NoPage
  BY <1>1, <1>2, PagesAssumption DEF NoPage, Pages
<1>4. k.mm[InitProc].pd[Dir(v)] # NoPage
  BY <1>2, <1>3
<1> QED BY <1>4, Zenon DEF GetPte

\* page_insert at an address without a page, below a page table that is there.
LEMMA FilledPte ==
  ASSUME NEW s, Good(s), NEW q \in Procs, HasMm(s, q), NEW v \in Addresses, s.mm[q].pte[v] \notin Pages,
         s.mm[q].pd[Dir(v)] # NoPage, s.got \in Pages, NEW x, NEW t, t = Filled(s, q, v, x)
  PROVE  t.mm[q].pd = s.mm[q].pd
<1> DEFINE p == s.got
           f == [s EXCEPT !.data[p] = x]
           r == [f EXCEPT !.ref[p] = @ + 1]
           Put(u) == IF u.mm[q].pte[v] = p THEN u
                     ELSE [RemovePte([u EXCEPT !.ref[p] = @ + 1], q, v) EXCEPT !.mm[q].pte[v] = p]
<1>1. t = PageInsert(f, q, p, v)
  BY DEF Filled
<1>2. DOMAIN f = KFields /\ f.mm = s.mm /\ f.halt = s.halt
  BY DEF Good, KFields
<1> HIDE DEF f
<1>3. GetPte(f, q, v) = f
  BY <1>2, Zenon DEF GetPte
<1>4. PageInsert(f, q, p, v) = Put(GetPte(f, q, v))
  BY Zenon DEF PageInsert
<1>5. DOMAIN r = KFields /\ r.mm = s.mm /\ r.halt = s.halt
  BY <1>2 DEF KFields
<1>6. RemovePte(r, q, v) = r
  <2> HIDE DEF r
  <2> QED BY <1>5, SMTT(30) DEF RemovePte
<1>7. Put(f) = [r EXCEPT !.mm[q].pte[v] = p]
  <2>1. f.mm[q].pte[v] # p
    BY <1>2
  <2> QED BY <1>6, <2>1
<1> HIDE DEF Put, r
<1>8. t = [r EXCEPT !.mm[q].pte[v] = p]
  BY <1>1, <1>3, <1>4, <1>7
<1>9. t.mm = [s.mm EXCEPT ![q].pte[v] = p]
  BY <1>5, <1>8 DEF KFields
<1>10. PteSet(s, t, q, v, p)
  BY <1>9, PteChange
<1> QED BY <1>10 DEF PteSet

\* A page that was not on the list comes to its head, with the address at which it is mapped.
LEMMA ListedIs ==
  ASSUME NEW l, NEW at, NEW slots, NEW pte, FifoOf(l, at, slots, pte), NEW v \in Addresses, pte[v] \notin Pages,
         NEW p \in Pages, \A w \in Addresses : pte[w] # p,
         NEW new, \A w \in Addresses : new[w] = IF w = v THEN p ELSE pte[w]
  PROVE  FifoOf(<<p>> \o l, [at EXCEPT ![p] = v], slots, new)
<1> DEFINE n == Len(l)
           m == <<p>> \o l
           to == [at EXCEPT ![p] = v]
<1>1. l \in Seq(Pages) /\ n \in Nat /\ DOMAIN l = 1 .. n /\ \A i \in 1 .. n : l[i] \in Pages
  BY LenProperties DEF FifoOf
<1>2. /\ DOMAIN at = Pages /\ DOMAIN slots = Addresses
      /\ \A i, j \in 1 .. n : i # j => l[i] # l[j]
      /\ \A i \in 1 .. n : at[l[i]] \in Addresses /\ pte[at[l[i]]] = l[i]
      /\ \A w \in Addresses : pte[w] \in Pages => \E i \in 1 .. n : l[i] = pte[w]
  BY <1>1 DEF FifoOf
<1>3. /\ m \in Seq(Pages) /\ Len(m) = n + 1 /\ DOMAIN m = 1 .. n + 1 /\ m[1] = p
      /\ \A i \in 1 .. n : m[i + 1] = l[i]
  BY <1>1
<1>4. DOMAIN to = Pages /\ to[p] = v /\ \A x \in Pages : x # p => to[x] = at[x]
  BY <1>2
<1> HIDE DEF m, n, to
<1>5. \A i \in 1 .. n : l[i] # p
  BY <1>2
<1>6. \A i \in 1 .. n + 1 : i = 1 \/ \E j \in 1 .. n : i = j + 1
  <2> SUFFICES ASSUME NEW i \in 1 .. n + 1, i # 1 PROVE \E j \in 1 .. n : i = j + 1
    OBVIOUS
  <2>1. i - 1 \in 1 .. n /\ i = (i - 1) + 1
    BY <1>1
  <2> QED BY <2>1
<1>7. \A i, j \in DOMAIN m : i # j => m[i] # m[j]
  <2> SUFFICES ASSUME NEW i \in 1 .. n + 1, NEW j \in 1 .. n + 1, i # j PROVE m[i] # m[j]
    BY <1>3
  <2>1. CASE i = 1
    <3>1. PICK b \in 1 .. n : j = b + 1
      BY <1>6, <2>1
    <3> QED BY <1>3, <1>5, <2>1, <3>1
  <2>2. CASE j = 1
    <3>1. PICK a \in 1 .. n : i = a + 1
      BY <1>6, <2>2
    <3> QED BY <1>3, <1>5, <2>2, <3>1
  <2>3. CASE i # 1 /\ j # 1
    <3>1. PICK a \in 1 .. n : i = a + 1
      BY <1>6, <2>3
    <3>2. PICK b \in 1 .. n : j = b + 1
      BY <1>6, <2>3
    <3>3. a # b
      BY <3>1, <3>2
    <3> QED BY <1>2, <1>3, <3>1, <3>2, <3>3
  <2> QED BY <2>1, <2>2, <2>3
<1>8. ASSUME NEW i \in DOMAIN m PROVE to[m[i]] \in Addresses /\ new[to[m[i]]] = m[i]
  <2>1. CASE i = 1
    BY <1>3, <1>4, <2>1
  <2>2. ASSUME NEW j \in 1 .. n, i = j + 1 PROVE to[m[i]] \in Addresses /\ new[to[m[i]]] = m[i]
    <3>1. m[i] = l[j] /\ l[j] # p /\ l[j] \in Pages
      BY <1>1, <1>3, <1>5, <2>2
    <3>2. to[m[i]] = at[l[j]] /\ at[l[j]] \in Addresses /\ pte[at[l[j]]] = l[j]
      BY <1>2, <1>4, <3>1
    <3>3. at[l[j]] # v
      BY <3>1, <3>2
    <3> QED BY <3>1, <3>2, <3>3
  <2> QED BY <1>3, <1>6, <2>1, <2>2
<1>9. ASSUME NEW w \in Addresses, new[w] \in Pages PROVE \E i \in DOMAIN m : m[i] = new[w]
  <2>1. CASE w = v
    <3>1. 1 \in DOMAIN m
      BY <1>1, <1>3
    <3> QED BY <1>3, <2>1, <3>1
  <2>2. CASE w # v
    <3>1. PICK i \in 1 .. n : l[i] = new[w]
      BY <1>2, <1>9, <2>2
    <3>2. i + 1 \in DOMAIN m
      BY <1>1, <1>3
    <3> QED BY <1>3, <3>1, <3>2
  <2> QED BY <2>1, <2>2
<1> QED BY <1>2, <1>3, <1>4, <1>7, <1>8, <1>9 DEF FifoOf, m, to

\* A page is taken, filled with x, mapped at v and listed.
Listed(u, q, v, x) == MapSwappable(Filled(u, q, v, x), u.got, v)
Brought(k, H, v, x, t) ==
  t.halt = "none" => Boot(t, H) /\ CellsBut(k, t, InitProc, v) /\ Holds(t, InitProc, v, x)

\* do_pgfault of the swap check: the page is mapped, is listed and holds x.
LEMMA BroughtIs ==
  ASSUME Alone(Now), NEW k, NEW H, Boot(k, H), k.halt = "none", NEW v \in Addresses,
         InArea(k.mm[InitProc].areas, v), k.mm[InitProc].pte[v] \notin Pages,
         NEW u, u = TakePage(k), NEW x, NEW t, t = Listed(u, InitProc, v, x)
  PROVE  /\ Good(t) /\ t.ret = k.ret /\ Brought(k, H, v, x, t) /\ (t.halt = "none" => t.ref[u.got] = 1)
         /\ k.mm[InitProc].pte[v] = SwapEntry => CellIn(k, InitProc, v) = {u.disk[v]}
<1> DEFINE q == InitProc
<1>0. q \in Procs
  BY VmAssumption
<1>1. PICK s : SwappedOut(k, H, s) /\ u = TakePage(s) /\ AllocPages(s.area, 1).page # NoPage
  BY TakeSwap
<1>2. /\ Boot(s, H) /\ CellsSame(k, s) /\ s.halt = k.halt /\ s.ret = k.ret /\ s.mm[q].areas = k.mm[q].areas
      /\ s.mm[q].pte[v] = k.mm[q].pte[v]
  BY <1>1 DEF SwappedOut
<1>3. Good(s) /\ Sound(s, H) /\ FifoOK(s) /\ Alone(s) /\ HasMm(s, q)
  BY <1>2 DEF Boot, Alone
<1>4. s.mm[q].pd[Dir(v)] # NoPage
  BY <1>2, TablesThere
<1>5. /\ Good(u) /\ u.mm = s.mm /\ Same(s, u) /\ u.ref = s.ref /\ u.data = s.data
      /\ u.halt = "none" => /\ s.halt = "none" /\ u.got \in Pages \ H /\ u.got \in Free(s.area)
                            /\ Sound(u, H \cup {u.got})
  BY <1>1, <1>3, TakeIs
<1>6. PICK f : f = Filled(u, q, v, x)
  OBVIOUS
<1>7. HasMm(u, q) /\ u.mm[q].pd[Dir(v)] # NoPage /\ (u.halt = "none" => MayFill(u, H, q, v))
  BY <1>2, <1>3, <1>4, <1>5 DEF HasMm, MayFill
<1>8. /\ Good(f) /\ Beside(u, f, q)
      /\ f.halt = "none" => IsFilled(u, H, q, v, x, f)
  BY <1>0, <1>5, <1>6, <1>7, FilledIs
<1> HIDE DEF q
<1>9. t = [f EXCEPT !.fifo = <<u.got>> \o @, !.pra[u.got] = v]
  BY <1>6 DEF Listed, MapSwappable, q
<1>10. /\ DOMAIN t = KFields /\ t.halt = f.halt /\ t.ret = f.ret /\ t.area = f.area /\ t.state = f.state
       /\ t.kstack = f.kstack /\ t.mm = f.mm /\ t.ref = f.ref /\ t.data = f.data /\ t.disk = f.disk
       /\ t.fifo = <<u.got>> \o f.fifo /\ t.pra = [f.pra EXCEPT ![u.got] = v]
  BY <1>8, <1>9 DEF Good, KFields
<1>11. Good(t)
  BY <1>8, <1>10 DEF Good
<1>12. f.ret = u.ret /\ u.ret = s.ret /\ f.fifo = s.fifo /\ f.pra = s.pra /\ f.disk = s.disk /\ u.disk = s.disk
       /\ f.state = s.state /\ f.kstack = s.kstack
  BY <1>5, <1>8 DEF Beside, Same
<1>13. t.ret = k.ret
  BY <1>2, <1>10, <1>12
<1>14. k.mm[q].pte[v] = SwapEntry => CellIn(k, q, v) = {u.disk[v]}
  <2>1. CellIn(k, q, v) = CellIn(s, q, v)
    BY <1>0, <1>2 DEF CellsSame
  <2> QED BY <1>2, <1>3, <1>12, <2>1, EntriesApart DEF CellIn
<1>15. ASSUME t.halt = "none" PROVE /\ Boot(t, H) /\ CellsBut(k, t, q, v) /\ Holds(t, q, v, x)
                                      /\ t.ref[u.got] = 1
  <2>1. /\ u.halt = "none" /\ Sound(f, H) /\ CellsBut(u, f, q, v) /\ CellIn(f, q, v) = {x}
        /\ u.got \in Pages /\ f.ref[u.got] = 1
        /\ \A w \in Addresses : f.mm[q].pte[w] = IF w = v THEN u.got ELSE u.mm[q].pte[w]
    BY <1>8, <1>10, <1>15 DEF IsFilled
  <2>2. u.got \in Free(s.area)
    BY <1>5, <2>1
  <2>3. \A w \in Addresses : s.mm[q].pte[w] # u.got
    <3> SUFFICES ASSUME NEW w \in Addresses, s.mm[q].pte[w] = u.got PROVE FALSE
      OBVIOUS
    <3>1. Exact(Map(s), Free(s.area), H, s.ref) /\ s.mm[q].pte[w] \in Pages
      BY <1>3, <2>1 DEF Sound
    <3>2. s.mm[q].pte[w] \notin Free(s.area) \cup H
      BY <1>0, <1>3, <3>1, PageAt
    <3> QED BY <2>2, <3>2
  <2>4. FifoOK(t)
    <3>1. FifoOf(s.fifo, s.pra, s.disk, s.mm[q].pte) /\ s.mm[q].pte[v] \notin Pages
      BY <1>2, <1>3 DEF FifoOK, q
    <3>2. \A w \in Addresses : f.mm[q].pte[w] = IF w = v THEN u.got ELSE s.mm[q].pte[w]
      BY <1>5, <2>1
    <3>3. FifoOf(<<u.got>> \o s.fifo, [s.pra EXCEPT ![u.got] = v], s.disk, f.mm[q].pte)
      BY <2>1, <2>3, <3>1, <3>2, ListedIs
    <3> QED BY <1>10, <1>12, <3>3 DEF FifoOK, q
  <2>5. f.mm[q].pd = u.mm[q].pd
    BY <1>0, <1>2, <1>5, <1>6, <1>7, <2>1, FilledPte DEF q
  <2>6. Alone(t)
    <3>1. HasMm(f, q) /\ f.mm[q].pgdir = u.mm[q].pgdir /\ \A r \in Procs \ {q} : f.mm[r] = u.mm[r]
      BY <1>8 DEF Beside, OnlyMm
    <3> QED BY <1>3, <1>5, <1>10, <1>12, <2>5, <3>1 DEF Alone, HasMm, q
  <2>7. Sound(t, H) /\ CellsSame(f, t)
    <3>1. Sound(t, H)
      BY <1>10, <2>1, SoundSame
    <3>2. CellsSame(f, t)
      BY <1>10 DEF CellsSame, CellIn, HasMm
    <3> QED BY <3>1, <3>2
  <2>8. Boot(t, H)
    BY <1>2, <1>11, <2>4, <2>6, <2>7 DEF Boot
  <2>9. CellsSame(k, u)
    <3>1. CellsSame(s, u)
      BY <1>5 DEF CellsSame, CellIn, HasMm, Same
    <3> QED BY <1>2, <3>1 DEF CellsSame
  <2>10. CellsBut(k, t, q, v)
    BY <2>1, <2>7, <2>9 DEF CellsBut, CellsSame
  <2>11. Holds(t, q, v, x)
    BY <1>0, <2>1, <2>7 DEF Holds, CellsSame
  <2>12. t.ref[u.got] = 1
    BY <1>10, <2>1
  <2> QED BY <2>8, <2>10, <2>11, <2>12
<1> QED BY <1>11, <1>13, <1>14, <1>15 DEF Brought, q

\* The assertion of pgdir_alloc_page holds.
LEMMA BootAllocIs ==
  ASSUME Alone(Now), NEW k, NEW H, Boot(k, H), k.halt = "none", NEW v \in Addresses,
         InArea(k.mm[InitProc].areas, v), k.mm[InitProc].pte[v] = Zero,
         NEW x, NEW t, t = PgdirAllocPage(k, InitProc, v, x)
  PROVE  Good(t) /\ t.ret = k.ret /\ Brought(k, H, v, x, t)
<1> DEFINE q == InitProc
<1>1. PICK u : u = TakePage(k)
  OBVIOUS
<1>2. PICK l : l = Listed(u, q, v, x)
  OBVIOUS
<1>3. k.mm[q].pte[v] \notin Pages
  BY EntriesApart
<1>4. /\ Good(l) /\ l.ret = k.ret /\ Brought(k, H, v, x, l)
      /\ l.halt = "none" => l.ref[u.got] = 1
  BY <1>1, <1>2, <1>3, BroughtIs
<1>5. Checked = {q}
  BY InitChecked
<1>6. PICK f : f = Filled(u, q, v, x)
  OBVIOUS
<1>7. l = MapSwappable(f, u.got, v)
  BY <1>2, <1>6 DEF Listed
<1>8. t = PanicIf(MapSwappable(f, u.got, v), f.ref[u.got] # 1, "assert")
  <2> DEFINE Swappable(i, p) == PanicIf(MapSwappable(i, p, v), i.ref[p] # 1, "assert")
             PutIn(i, p) == IF q \in Checked THEN Swappable(i, p) ELSE i
             Fill(s)   == PutIn(PageInsert([s EXCEPT !.data[s.got] = x], q, s.got, v), s.got)
  <2>1. t = Fill(u)
    BY <1>1, Zenon DEF PgdirAllocPage
  <2>2. Fill(u) = PutIn(f, u.got)
    BY <1>6, Zenon DEF Filled
  <2>3. PutIn(f, u.got) = Swappable(f, u.got)
    BY <1>5, Zenon
  <2> QED BY <2>1, <2>2, <2>3
<1>9. l.ref = f.ref
  BY <1>4, <1>7 DEF MapSwappable, Good, KFields
<1>10. t = l
  BY <1>4, <1>7, <1>8, <1>9 DEF PanicIf
<1> QED BY <1>4, <1>10

\* swap_in: the page has what it had when it was swapped out.
LEMMA SwapInIs ==
  ASSUME Alone(Now), NEW k, NEW H, Boot(k, H), k.halt = "none", NEW v \in Addresses,
         InArea(k.mm[InitProc].areas, v), k.mm[InitProc].pte[v] = SwapEntry,
         NEW t, t = SwapIn(k, InitProc, v)
  PROVE  Good(t) /\ t.ret = k.ret /\ (t.halt = "none" => Boot(t, H) /\ CellsSame(k, t))
<1> DEFINE q == InitProc
<1>0. q \in Procs
  BY VmAssumption
<1>1. PICK u : u = TakePage(k)
  OBVIOUS
<1>2. PICK x : x = u.disk[v]
  OBVIOUS
<1>3. k.mm[q].pte[v] \notin Pages
  BY EntriesApart
<1>4. t = Listed(u, q, v, x)
  BY <1>1, <1>2, Zenon DEF SwapIn, Listed, Filled
<1>5. Good(t) /\ t.ret = k.ret /\ Brought(k, H, v, x, t) /\ CellIn(k, q, v) = {x}
  BY <1>1, <1>2, <1>3, <1>4, BroughtIs
<1>6. ASSUME t.halt = "none" PROVE Boot(t, H) /\ CellsSame(k, t)
  <2>1. Boot(t, H) /\ CellsBut(k, t, q, v) /\ Holds(t, q, v, x)
    BY <1>5, <1>6 DEF Brought
  <2>2. CellIn(t, q, v) = CellIn(k, q, v)
    BY <1>5, <2>1 DEF Holds
  <2> QED BY <2>1, <2>2 DEF CellsBut, CellsSame
<1> QED BY <1>5, <1>6

\* Boot speaks of nothing but the variables.
LEMMA BootAgree ==
  ASSUME NEW H, NEW t, NEW n, Agree(t, n), DOMAIN n = KFields, n.halt # "assert", Boot(t, H)
  PROVE  Boot(n, H) /\ CellsSame(t, n)
<1>1. Good(n) /\ CellsSame(t, n) /\ Sound(n, H)
  BY AgreeKeeps DEF Boot
<1>2. FifoOK(n)
  BY DEF Boot, FifoOK, Agree
<1>3. Alone(n)
  BY DEF Boot, Alone, Agree, HasMm
<1> QED BY <1>1, <1>2, <1>3 DEF Boot

\* A handler's step in all, during the checks.
LEMMA BootStep ==
  ASSUME NEW H, Boot(Now, H), NEW t, t.halt = "none" => Boot(t, H) /\ SpaceStep(Now, t), t.halt # "assert", Become(t)
  PROVE  Boot(Now', H) /\ SpaceStep(Now, Now')
<1>1. PICK n : n = Now'
  OBVIOUS
<1>2. PICK k : k = Now
  OBVIOUS
<1>3. /\ DOMAIN n = KFields /\ n.halt = halt'
      /\ \/ t.halt = "none" /\ halt' = halt /\ Agree(t, n)
         \/ t.halt # "none" /\ halt' = t.halt /\ Agree(k, n)
  BY <1>1, <1>2, BecomeIs
<1>4. k.halt = halt /\ Boot(k, H)
  BY <1>2 DEF Now
<1>5. n.halt # "assert"
  BY <1>3, <1>4 DEF Good, Boot
<1>6. CASE t.halt = "none"
  <2>1. Boot(n, H) /\ CellsSame(t, n) /\ SpaceStep(k, t)
    BY <1>2, <1>3, <1>5, <1>6, BootAgree
  <2>2. SpaceStep(k, n)
    BY <2>1, SpaceStepSame
  <2> QED BY <1>1, <1>2, <2>1, <2>2
<1>7. CASE t.halt # "none"
  <2>1. Boot(n, H) /\ CellsSame(k, n)
    BY <1>3, <1>4, <1>5, <1>7, BootAgree
  <2> QED BY <1>1, <1>2, <2>1 DEF SpaceStep
<1> QED BY <1>6, <1>7

\* A store during the checks
LEMMA BootWrite ==
  ASSUME NEW H, Boot(Now, H), halt = "none", NEW v \in Addresses, NEW x \in Values, Write(InitProc, v, x)
  PROVE  Boot(Now', H) /\ SpaceStep(Now, Now')
<1> DEFINE q == InitProc
<1>0. q \in Procs
  BY VmAssumption
<1>1. PICK k : k = Now
  OBVIOUS
<1>2. PICK n : n = Now'
  OBVIOUS
<1>3. Boot(k, H) /\ Good(k) /\ Sound(k, H) /\ HasMm(k, q) /\ FifoOK(k) /\ Alone(k)
  BY <1>1 DEF Boot, Alone
<1>4. k.mm = mm /\ mm[q].pte[v] \in Pages
  BY <1>1 DEF Write, Now
<1>5. Stored(k, n, q, v, x)
  BY <1>1, <1>2 DEF Write, Stored, Agree, Now, KFields
<1>6. /\ Good(n) /\ Sound(n, H)
      /\ CellIn(k, q, v) # {} /\ CellsBut(k, n, q, v) /\ Holds(n, q, v, x)
  BY <1>0, <1>3, <1>4, <1>5, StoreIs
<1>7. n.state = k.state /\ n.kstack = k.kstack /\ n.mm = k.mm /\ n.fifo = k.fifo /\ n.pra = k.pra /\ n.disk = k.disk
  BY <1>3, <1>5 DEF Stored, Agree, Good, KFields
<1>8. FifoOK(n) /\ Alone(n)
  BY <1>3, <1>7 DEF FifoOK, Alone, HasMm
<1>9. SpaceStep(k, n)
  BY <1>0, <1>6 DEF SpaceStep, Stores
<1> QED BY <1>1, <1>2, <1>3, <1>6, <1>8, <1>9 DEF Boot

\* do_pgfault during the checks
LEMMA BootFault ==
  ASSUME NEW H, Boot(Now, H), halt = "none", NEW v \in Addresses, NEW write \in BOOLEAN, Fault(InitProc, v, write)
  PROVE  Boot(Now', H) /\ SpaceStep(Now, Now')
<1> DEFINE q == InitProc
<1>0. q \in Procs
  BY VmAssumption
<1>1. PICK k : k = Now
  OBVIOUS
<1> DEFINE d == DoPgfault(k, q, v, write)
           t == PanicIf(d, d.ret # "ok", "fault")
<1>2. /\ Boot(k, H) /\ Good(k) /\ Sound(k, H) /\ HasMm(k, q) /\ Alone(k) /\ k.halt = "none" /\ k.mm = mm
      /\ k.ret = "ok"
  BY <1>1 DEF Boot, Alone, Now
<1>3. Faulty(k, q, v, write) /\ Become(t)
  BY <1>1, <1>2 DEF Fault, Faulty
<1>4. PICK g : g = GetPte(k, q, v)
  OBVIOUS
<1>5. g = k
  BY <1>2, <1>4, TablesThere
<1>6. t = IF d.ret # "ok" /\ d.halt = "none" THEN [d EXCEPT !.halt = "fault"] ELSE d
  BY DEF PanicIf
<1> HIDE DEF t
<1>7. \/ d = [k EXCEPT !.ret = "inval"]
      \/ /\ InArea(k.mm[q].areas, v) /\ k.mm[q].pte[v] = Zero
         /\ d = PgdirAllocPage(k, q, v, Old)
      \/ /\ InArea(k.mm[q].areas, v) /\ k.mm[q].pte[v] = SwapEntry
         /\ d = SwapIn(k, q, v)
  <2>1. PICK e : e = d
    OBVIOUS
  <2>2. e = DoPgfault(k, q, v, write)
    BY <2>1
  <2>3. g.mm[q].pte = k.mm[q].pte
    BY <1>5
  <2> HIDE DEF q, d
  <2>4. \/ e = [k EXCEPT !.ret = "inval"]
        \/ /\ InArea(k.mm[q].areas, v) /\ k.mm[q].pte[v] = Zero
           /\ e = PgdirAllocPage(g, q, v, Old)
        \/ /\ InArea(k.mm[q].areas, v) /\ k.mm[q].pte[v] = SwapEntry
           /\ e = SwapIn(g, q, v)
    BY <1>0, <1>2, <1>3, <1>4, <2>2, <2>3, FaultIs
  <2> QED BY <1>5, <2>1, <2>4
<1> HIDE DEF d
<1>8. CASE d = [k EXCEPT !.ret = "inval"]
  <2>1. DOMAIN d = KFields /\ d.ret # "ok" /\ d.halt = "none"
    BY <1>2, <1>8 DEF Good, KFields
  <2>2. t.halt = "fault"
    BY <1>6, <2>1 DEF KFields
  <2> QED BY <1>3, <2>2, BootStep
<1>9. CASE /\ InArea(k.mm[q].areas, v) /\ k.mm[q].pte[v] = Zero
           /\ d = PgdirAllocPage(k, q, v, Old)
  <2>1. PICK x : x = Old
    OBVIOUS
  <2>2. d = PgdirAllocPage(k, q, v, x)
    BY <1>9, <2>1
  <2>3. Good(d) /\ d.ret = k.ret /\ Brought(k, H, v, x, d)
    BY <1>1, <1>2, <1>9, <2>2, BootAllocIs
  <2>4. t = d /\ t.halt # "assert"
    BY <1>2, <1>6, <2>3 DEF Good
  <2>5. ASSUME t.halt = "none" PROVE Boot(t, H) /\ SpaceStep(k, t)
    <3>1. Boot(t, H) /\ CellsBut(k, t, q, v) /\ Holds(t, q, v, Old)
      BY <2>1, <2>3, <2>4, <2>5 DEF Brought
    <3>2. CellIn(k, q, v) = {}
      BY <1>9, EntriesApart DEF CellIn
    <3> QED BY <1>0, <3>1, <3>2 DEF SpaceStep, Touches
  <2> QED BY <1>1, <1>3, <2>4, <2>5, BootStep
<1>10. CASE /\ InArea(k.mm[q].areas, v) /\ k.mm[q].pte[v] = SwapEntry
            /\ d = SwapIn(k, q, v)
  <2>3. Good(d) /\ d.ret = k.ret /\ (d.halt = "none" => Boot(d, H) /\ CellsSame(k, d))
    BY <1>1, <1>2, <1>10, SwapInIs
  <2>4. t = d /\ t.halt # "assert"
    BY <1>2, <1>6, <2>3 DEF Good
  <2>5. t.halt = "none" => Boot(t, H) /\ SpaceStep(k, t)
    BY <2>3, <2>4 DEF SpaceStep
  <2> QED BY <1>1, <1>3, <2>4, <2>5, BootStep
<1> QED BY <1>7, <1>8, <1>9, <1>10

\* No step of the checks loses a page or what it holds.
LEMMA BootKeeps ==
  ASSUME NEW H, Boot(Now, H), halt = "none", VmNext
  PROVE  Boot(Now', H) /\ SpaceStep(Now, Now')
<1>1. PICK q \in Procs :
        \/ \E child \in Procs : Fork(q, child)
        \/ \E prog \in Programs : Exec(q, prog)
        \/ Exit(q)
        \/ Reap(q)
        \/ \E v \in Addresses : \/ \E x \in Values : Write(q, v, x)
                                \/ \E w \in BOOLEAN : Fault(q, v, w)
  BY DEF VmNext
<1>2. state[q] \notin {"live", "zombie"} /\ (state[q] = "check" => q = InitProc)
  <2>1. state = [r \in Procs |-> IF r = InitProc THEN "check" ELSE "free"]
    BY DEF Boot, Alone, Now
  <2> QED BY <2>1
<1>3. ~(\E child \in Procs : Fork(q, child)) /\ ~(\E prog \in Programs : Exec(q, prog)) /\ ~Exit(q) /\ ~Reap(q)
  BY <1>2 DEF Fork, Exec, Exit, Reap
<1>4. CASE \E v \in Addresses, x \in Values : Write(q, v, x)
  <2>1. PICK v \in Addresses, x \in Values : Write(q, v, x)
    BY <1>4
  <2>2. q = InitProc
    BY <1>2, <2>1 DEF Write, Runs
  <2> QED BY <2>1, <2>2, BootWrite
<1>5. CASE \E v \in Addresses, w \in BOOLEAN : Fault(q, v, w)
  <2>1. PICK v \in Addresses, w \in BOOLEAN : Fault(q, v, w)
    BY <1>5
  <2>2. q = InitProc
    BY <1>2, <2>1 DEF Fault, Runs
  <2> QED BY <2>1, <2>2, BootFault
<1> QED BY <1>1, <1>3, <1>4, <1>5

-----------------------------------------------------------------------------
(* Memory as a whole.                                                      *)

\* Without processes no page is at a place of theirs.
Idle ==
  /\ state = [q \in Procs |-> "free"]
  /\ mm = [q \in Procs |-> NoMm] /\ kstack = [q \in Procs |-> NoPage] /\ ref = [p \in Pages |-> 0]

\* The heap has asked for nothing.
NoHeap == grown = {} /\ bigblocks = <<>> /\ held \subseteq Pages

MemInv ==
  /\ SlobInv /\ halt # "assert"
  /\ \/ load = "heap"      /\ Shared /\ Idle
     \/ load = "processes" /\ NoHeap /\ Peers(Now, held)
     \/ load = "check"     /\ NoHeap /\ Boot(Now, held)

\* The runs of the heap begin with all pages told apart.
LEMMA HeapBegins ==
  ASSUME Init, load = "heap"
  PROVE  Shared /\ Idle
<1>1. SlobInv /\ SlobUnits(slob) = {Arena} /\ BigPages(bigblocks) = {} /\ grown = {}
  BY HeapStarts DEF Init
<1>2. area = FreeArea(0, HeapPages) /\ held = HeapPages .. NPages - 1
  BY DEF Init
<1>3. HeapPages \in Nat /\ HeapPages > 0 /\ HeapPages <= NPages /\ NPages \in Nat
  BY MemoryAssumption, PagesAssumption
<1>4. AreaOK(area) /\ Free(area) = Row(0, HeapPages)
  BY <1>2, <1>3, FreeAreaIs
<1>5. Row(0, HeapPages) \cap held = {} /\ Row(0, HeapPages) \cup held = Pages
  BY <1>2, <1>3 DEF Row, Pages
<1>6. Shared
  BY <1>1, <1>4, <1>5 DEF Shared
<1>7. Idle
  BY DEF Init, Idle
<1> QED BY <1>6, <1>7

\* init alone runs, on a kernel stack.
LEMMA PeersBegin ==
  ASSUME Init, load = "processes"
  PROVE  Peers(Now, {}) /\ held = {}
<1>1. PICK k : k = Now
  OBVIOUS
<1>2. /\ k.area = FreeArea(2, NPages - 2) /\ k.halt = "none"
      /\ k.state = [q \in Procs |-> IF q = InitProc THEN "live" ELSE "free"]
      /\ k.kstack = [q \in Procs |-> IF q = InitProc THEN 0 ELSE NoPage]
      /\ k.mm = [q \in Procs |-> NoMm] /\ k.ref = [p \in Pages |-> 0]
      /\ k.data = [p \in Pages |-> Old] /\ DOMAIN k = KFields /\ held = {}
  BY <1>1 DEF Init, Now, KStackPages, KFields
<1>3. NPages \in Nat /\ NPages > 2 /\ InitProc \in Procs
  BY MemoryAssumption, PagesAssumption, VmAssumption DEF KStackPages
<1>4. AreaOK(k.area) /\ Free(k.area) = 2 .. NPages - 1
  <2>1. PICK n : n = NPages - 2
    OBVIOUS
  <2>2. n \in Nat \ {0} /\ 2 + n <= NPages /\ Row(2, n) = 2 .. NPages - 1
    BY <1>3, <2>1 DEF Row
  <2>3. AreaOK(FreeArea(2, n)) /\ Free(FreeArea(2, n)) = Row(2, n)
    BY <2>2, FreeAreaIs
  <2> QED BY <1>2, <2>1, <2>2, <2>3
<1>5. \A q \in Procs : k.mm[q] = NoMm /\ ~HasMm(k, q)
  <2>1. DOMAIN NoMm # MmFields
    BY DEF NoMm, MmFields
  <2> QED BY <1>2, <2>1 DEF HasMm
<1>6. Good(k)
  BY <1>2, <1>5 DEF Good, MmFormed
<1>7. 0 \in Pages /\ 1 \in Pages /\ NoPage \notin Pages /\ 0 # NoPage /\ NoPage = NPages
  BY <1>3 DEF Pages, NoPage
<1>8. \A s \in Slots : /\ s # <<"stack", InitProc, 0>> /\ s # <<"stack", InitProc, 1>> => Map(k)[s] = NoPage
                       /\ s[1] \in {"table", "user"} => Map(k)[s] = NoPage
  <2> SUFFICES ASSUME NEW s \in Slots
               PROVE  /\ s # <<"stack", InitProc, 0>> /\ s # <<"stack", InitProc, 1>> => Map(k)[s] = NoPage
                      /\ s[1] \in {"table", "user"} => Map(k)[s] = NoPage
    OBVIOUS
  <2>1. PICK q : q = s[2]
    OBVIOUS
  <2>2. PICK z : z = s[3]
    OBVIOUS
  <2>3. /\ q \in Procs /\ s = <<s[1], q, z>>
        /\ \/ s[1] = "stack" /\ z \in {0, 1}
           \/ s[1] = "pgdir" /\ z = 0
           \/ s[1] = "table" /\ z \in Dirs
           \/ s[1] = "user" /\ z \in Addresses
    BY <2>1, <2>2, SlotKinds
  <2>4. k.mm[q].pgdir = NoPage /\ ~HasMm(k, q) /\ (q # InitProc => k.kstack[q] = NoPage)
    BY <1>2, <1>5, <2>3 DEF NoMm
  <2>5. /\ Map(k)[<<"stack", q, 0>>] = IF k.kstack[q] = NoPage THEN NoPage ELSE k.kstack[q] + 0
        /\ Map(k)[<<"stack", q, 1>>] = IF k.kstack[q] = NoPage THEN NoPage ELSE k.kstack[q] + 1
        /\ Map(k)[<<"pgdir", q, 0>>] = k.mm[q].pgdir
        /\ \A d \in Dirs : Map(k)[<<"table", q, d>>] = NoPage
        /\ \A v \in Addresses : Map(k)[<<"user", q, v>>] = NoPage
    BY <2>3, <2>4, SlotsOf
  <2>6. CASE s[1] = "stack"
    <3>1. s = <<"stack", q, 0>> \/ s = <<"stack", q, 1>>
      BY <2>3, <2>6
    <3> QED BY <2>4, <2>5, <2>6, <3>1
  <2>7. CASE s[1] # "stack"
    <3>1. Map(k)[s] = NoPage
      BY <2>3, <2>4, <2>5, <2>7
    <3> QED BY <3>1
  <2> QED BY <2>6, <2>7
<1>9. /\ <<"stack", InitProc, 0>> \in Slots /\ Map(k)[<<"stack", InitProc, 0>>] = 0
      /\ <<"stack", InitProc, 1>> \in Slots /\ Map(k)[<<"stack", InitProc, 1>>] = 1
  <2>1. k.kstack[InitProc] = 0
    BY <1>2, <1>3
  <2>2. /\ <<"stack", InitProc, 0>> \in Slots /\ <<"stack", InitProc, 1>> \in Slots
        /\ Map(k)[<<"stack", InitProc, 0>>] = IF k.kstack[InitProc] = NoPage THEN NoPage ELSE k.kstack[InitProc] + 0
        /\ Map(k)[<<"stack", InitProc, 1>>] = IF k.kstack[InitProc] = NoPage THEN NoPage ELSE k.kstack[InitProc] + 1
    BY <1>3, SlotsOf
  <2> QED BY <1>7, <2>1, <2>2
<1>10. Exact(Map(k), Free(k.area), {}, k.ref)
  <2> DEFINE s0 == <<"stack", InitProc, 0>>
             s1 == <<"stack", InitProc, 1>>
  <2>1. PICK A : A = Map(k)
    OBVIOUS
  <2>2. \A s \in Slots : A[s] = NoPage \/ (s = s0 /\ A[s] = 0) \/ (s = s1 /\ A[s] = 1)
    BY <1>8, <1>9, <2>1
  <2>3. s0 \in Slots /\ A[s0] = 0 /\ s1 \in Slots /\ A[s1] = 1
    BY <1>9, <2>1
  <2>4. ~CountsAt(s0) /\ ~CountsAt(s1)
    BY DEF CountsAt
  <2> HIDE DEF s0, s1
  <2>5. \A p \in Pages : p \notin Free(k.area) <=> p = 0 \/ p = 1
    BY <1>3, <1>4, <1>7 DEF Pages
  <2>6. Free(k.area) \subseteq Pages
    BY <1>3, <1>4 DEF Pages
  <2>7. \A s \in Slots : A[s] = NoPage \/ A[s] \in Pages \ (Free(k.area) \cup {})
    BY <1>7, <2>2, <2>5
  <2>8. \A s, u \in Slots : A[s] = A[u] /\ A[s] # NoPage => s = u
    BY <2>2
  <2>9. \A p \in Pages \ (Free(k.area) \cup {}) : \E s \in Slots : A[s] = p
    BY <2>3, <2>5
  <2>10. DOMAIN k.ref = Pages /\ \A p \in Pages : k.ref[p] = 0
    BY <1>2
  <2>11. \A s \in Slots : A[s] # NoPage => k.ref[A[s]] = IF CountsAt(s) THEN 1 ELSE 0
    BY <1>7, <2>2, <2>4, <2>10
  <2> QED BY <2>1, <2>6, <2>7, <2>8, <2>9, <2>10, <2>11 DEF Exact
<1>11. Sound(k, {})
  BY <1>2, <1>4, <1>5, <1>10 DEF Sound
<1>12. NoSwap(k)
  BY <1>5 DEF NoSwap
<1>13. Life(k)
  BY <1>2, <1>3, <1>5, <1>7 DEF Life
<1> QED BY <1>1, <1>2, <1>6, <1>11, <1>12, <1>13 DEF Peers

\* So do those of the swap check.
LEMMA BootBegins ==
  ASSUME Init, load = "check"
  PROVE  Boot(Now, held) /\ held \subseteq Pages
<1> DEFINE I == InitProc
<1>1. PICK k : k = Now
  OBVIOUS
<1>2. /\ k.area = FreeArea(NDirs + 1, SwapPages) /\ k.halt = "none"
      /\ k.state = [q \in Procs |-> IF q = I THEN "check" ELSE "free"]
      /\ k.kstack = [q \in Procs |-> NoPage]
      /\ k.mm = [q \in Procs |-> IF q = I THEN CheckMm ELSE NoMm]
      /\ k.ref = [p \in Pages |-> IF p \in 1 .. NDirs THEN 1 ELSE 0]
      /\ k.data = [p \in Pages |-> Old] /\ DOMAIN k = KFields
      /\ k.disk = [v \in Addresses |-> Old] /\ k.fifo = <<>> /\ k.pra = [p \in Pages |-> 0]
      /\ held = NDirs + 1 + SwapPages .. NPages - 1
  BY <1>1 DEF Init, Now, KFields
<1>3. /\ NPages \in Nat /\ SwapPages \in Nat \ {0} /\ NDirs \in Nat /\ NDirs + 1 + SwapPages <= NPages
      /\ I \in Procs /\ Dirs = 0 .. NDirs - 1
  BY MemoryAssumption, PagesAssumption, VmAssumption, DirsAre
<1> HIDE DEF I
<1>4. AreaOK(k.area) /\ Free(k.area) = NDirs + 1 .. NDirs + SwapPages
  <2>1. NDirs + 1 \in Nat /\ Row(NDirs + 1, SwapPages) = NDirs + 1 .. NDirs + SwapPages
    BY <1>3 DEF Row
  <2> QED BY <1>2, <1>3, <2>1, FreeAreaIs
<1>5. PICK m : m = CheckMm
  OBVIOUS
<1>6. /\ DOMAIN m = MmFields /\ m.pgdir = 0 /\ m.areas = <<[start |-> 0, end |-> Top, write |-> TRUE]>>
      /\ m.pd = [d \in Dirs |-> d + 1] /\ m.pte = [v \in Addresses |-> Zero]
  BY <1>5 DEF CheckMm, EmptyMm, MmFields
<1>7. k.mm[I] = m /\ HasMm(k, I) /\ \A q \in Procs \ {I} : k.mm[q] = NoMm /\ ~HasMm(k, q)
  <2>1. DOMAIN NoMm # MmFields
    BY DEF NoMm, MmFields
  <2> QED BY <1>2, <1>3, <1>5, <1>6, <2>1 DEF HasMm
<1>8. m.areas \in Seq(AreaTypes) /\ AreasApart(m.areas) /\ \A v \in Addresses : InArea(m.areas, v)
  <2>1. PICK a : a = [start |-> 0, end |-> Top, write |-> TRUE]
    OBVIOUS
  <2>2. a \in AreaTypes /\ a.start = 0 /\ a.end = Top /\ Top \in Nat
    BY <2>1, VmAssumption DEF AreaTypes
  <2>3. m.areas = <<a>>
    BY <1>6, <2>1
  <2>4. m.areas \in Seq(AreaTypes) /\ DOMAIN m.areas = {1} /\ m.areas[1] = a
    BY <2>2, <2>3
  <2>5. \A v \in Addresses : 0 <= v /\ v < Top
    BY <2>2 DEF Addresses
  <2> QED BY <2>2, <2>4, <2>5 DEF AreasApart, InArea
<1>9. Good(k)
  <2>1. MmFormed(m)
    BY <1>6, <1>8 DEF MmFormed
  <2> QED BY <1>2, <1>7, <2>1 DEF Good, MmFormed
<1>10. NoPage \notin Pages /\ NoPage = NPages /\ \A d \in Dirs : d + 1 \in Pages /\ d + 1 # NoPage /\ d \in Nat
  BY <1>3 DEF Pages, NoPage
<1>11. Zero \notin Pages
  BY EntriesApart
<1>12. MmSound(m)
  <2>1. m.pgdir # NoPage
    BY <1>3, <1>6, <1>10
  <2>2. \A v \in Addresses : m.pte[v] = Zero
    BY <1>6
  <2>3. \A d \in Dirs : \E v \in Addresses : Dir(v) = d /\ InArea(m.areas, v)
    BY <1>8 DEF Dirs
  <2> QED BY <1>8, <2>1, <2>2, <2>3 DEF MmSound
<1>13. PICK A : A = Map(k)
  OBVIOUS
<1>14. \A s \in Slots : \/ A[s] = NoPage
                        \/ s = <<"pgdir", I, 0>> /\ A[s] = 0
                        \/ \E d \in Dirs : s = <<"table", I, d>> /\ A[s] = d + 1
  <2> SUFFICES ASSUME NEW s \in Slots, A[s] # NoPage
               PROVE  \/ s = <<"pgdir", I, 0>> /\ A[s] = 0
                      \/ \E d \in Dirs : s = <<"table", I, d>> /\ A[s] = d + 1
    OBVIOUS
  <2>1. PICK q : q = s[2]
    OBVIOUS
  <2>2. PICK z : z = s[3]
    OBVIOUS
  <2>3. /\ q \in Procs /\ s = <<s[1], q, z>>
        /\ \/ s[1] = "stack" /\ z \in {0, 1}
           \/ s[1] = "pgdir" /\ z = 0
           \/ s[1] = "table" /\ z \in Dirs
           \/ s[1] = "user" /\ z \in Addresses
    BY <2>1, <2>2, SlotKinds
  <2>4. A[s] = At(k, s)
    BY <1>13 DEF Map
  <2>5. k.kstack[q] = NoPage
    BY <1>2, <2>3
  <2>6. s[1] # "stack"
    BY <2>1, <2>4, <2>5 DEF At
  <2>7. CASE s[1] = "pgdir"
    <3>1. A[s] = k.mm[q].pgdir
      BY <2>1, <2>4, <2>7 DEF At
    <3>2. q = I
      BY <1>7, <2>3, <3>1 DEF NoMm
    <3>3. s = <<"pgdir", I, 0>>
      BY <2>3, <2>7, <3>2
    <3> QED BY <1>6, <1>7, <3>1, <3>2, <3>3
  <2>8. CASE s[1] = "table"
    <3>1. A[s] = IF ~HasMm(k, q) THEN NoPage ELSE k.mm[q].pd[z]
      BY <2>1, <2>2, <2>4, <2>8 DEF At
    <3>2. q = I /\ z \in Dirs
      BY <1>7, <2>3, <2>8, <3>1
    <3>3. A[s] = z + 1 /\ s = <<"table", I, z>>
      BY <1>6, <1>7, <2>3, <2>8, <3>1, <3>2
    <3> QED BY <3>2, <3>3
  <2>9. CASE s[1] = "user"
    <3>1. A[s] = IF ~HasMm(k, q) THEN NoPage
                 ELSE IF k.mm[q].pte[z] \in Pages THEN k.mm[q].pte[z] ELSE NoPage
      BY <2>1, <2>2, <2>4, <2>9 DEF At
    <3>2. q = I /\ z \in Addresses
      BY <1>7, <2>3, <2>9, <3>1
    <3> QED BY <1>6, <1>7, <1>11, <3>1, <3>2
  <2> QED BY <2>3, <2>6, <2>7, <2>8, <2>9
<1>15. /\ <<"pgdir", I, 0>> \in Slots /\ A[<<"pgdir", I, 0>>] = 0
       /\ \A d \in Dirs : <<"table", I, d>> \in Slots /\ A[<<"table", I, d>>] = d + 1
  <2>1. /\ <<"pgdir", I, 0>> \in Slots /\ A[<<"pgdir", I, 0>>] = k.mm[I].pgdir
        /\ \A d \in Dirs : <<"table", I, d>> \in Slots
        /\ \A d \in Dirs : A[<<"table", I, d>>] = k.mm[I].pd[d]
    <3>1. I \in Procs
      BY <1>3
    <3>2. /\ <<"pgdir", I, 0>> \in Slots /\ Map(k)[<<"pgdir", I, 0>>] = k.mm[I].pgdir
          /\ \A d \in Dirs : <<"table", I, d>> \in Slots
      BY <3>1, SlotsOf
    <3>3. HasMm(k, I)
      BY <1>7
    <3>4. ASSUME NEW d \in Dirs PROVE Map(k)[<<"table", I, d>>] = k.mm[I].pd[d]
      BY <3>1, <3>3, TableSlot
    <3> QED BY <1>13, <3>2, <3>4
  <2> QED BY <1>6, <1>7, <2>1
<1>16. Exact(A, Free(k.area), held, k.ref)
  <2>1. Free(k.area) \subseteq Pages /\ held \subseteq Pages /\ Free(k.area) \cap held = {}
    BY <1>2, <1>3, <1>4 DEF Pages
  <2>2. \A p \in Pages : p \notin Free(k.area) \cup held <=> p = 0 \/ p - 1 \in Dirs
    BY <1>2, <1>3, <1>4 DEF Pages
  <2>3. 0 \in Pages
    BY <1>3 DEF Pages
  <2>4. \A s \in Slots : A[s] = NoPage \/ A[s] \in Pages \ (Free(k.area) \cup held)
    <3> SUFFICES ASSUME NEW s \in Slots, A[s] # NoPage PROVE A[s] \in Pages \ (Free(k.area) \cup held)
      OBVIOUS
    <3>1. CASE A[s] = 0
      BY <2>2, <2>3, <3>1
    <3>2. CASE \E d \in Dirs : A[s] = d + 1
      <4>1. PICK d \in Dirs : A[s] = d + 1
        BY <3>2
      <4>2. d + 1 \in Pages /\ d \in Nat /\ d \in Dirs
        BY <1>10
      <4>3. d + 1 \notin Free(k.area) \cup held
        BY <1>2, <1>3, <1>4, <4>2
      <4> QED BY <4>1, <4>2, <4>3
    <3> QED BY <1>14, <3>1, <3>2
  <2>5. \A s, u \in Slots : A[s] = A[u] /\ A[s] # NoPage => s = u
    <3> SUFFICES ASSUME NEW s \in Slots, NEW u \in Slots, A[s] = A[u], A[s] # NoPage PROVE s = u
      OBVIOUS
    <3>1. \A d \in Dirs : d + 1 # 0 /\ \A e \in Dirs : d + 1 = e + 1 => d = e
      BY <1>10
    <3>2. \/ s = <<"pgdir", I, 0>> /\ A[s] = 0
          \/ \E d \in Dirs : s = <<"table", I, d>> /\ A[s] = d + 1
      BY <1>14
    <3>3. \/ u = <<"pgdir", I, 0>> /\ A[u] = 0
          \/ \E d \in Dirs : u = <<"table", I, d>> /\ A[u] = d + 1
      BY <1>14
    <3> QED BY <3>1, <3>2, <3>3
  <2>6. \A p \in Pages \ (Free(k.area) \cup held) : \E s \in Slots : A[s] = p
    <3> SUFFICES ASSUME NEW p \in Pages, p \notin Free(k.area) \cup held PROVE \E s \in Slots : A[s] = p
      OBVIOUS
    <3>1. CASE p = 0
      BY <1>15, <3>1
    <3>2. CASE p # 0
      <4>1. p - 1 \in Dirs /\ p = (p - 1) + 1
        BY <1>3, <2>2, <3>2 DEF Pages
      <4> QED BY <1>15, <4>1
    <3> QED BY <3>1, <3>2
  <2>7. DOMAIN k.ref = Pages /\ \A p \in Pages : k.ref[p] = IF p \in 1 .. NDirs THEN 1 ELSE 0
    BY <1>2
  <2>8. \A p \in Free(k.area) \cup held : k.ref[p] = 0
    <3>1. \A p \in Free(k.area) \cup held : p \in Pages /\ p \notin 1 .. NDirs
      BY <1>2, <1>3, <1>4, <2>1
    <3> QED BY <2>7, <3>1
  <2>9. \A s \in Slots : A[s] # NoPage => k.ref[A[s]] = IF CountsAt(s) THEN 1 ELSE 0
    <3> SUFFICES ASSUME NEW s \in Slots, A[s] # NoPage PROVE k.ref[A[s]] = IF CountsAt(s) THEN 1 ELSE 0
      OBVIOUS
    <3>1. CASE s = <<"pgdir", I, 0>> /\ A[s] = 0
      <4>1. ~CountsAt(s)
        BY <3>1 DEF CountsAt
      <4> QED BY <2>3, <2>7, <3>1, <4>1
    <3>2. CASE \E d \in Dirs : s = <<"table", I, d>> /\ A[s] = d + 1
      <4>1. PICK d \in Dirs : s = <<"table", I, d>> /\ A[s] = d + 1
        BY <3>2
      <4>2. CountsAt(s)
        BY <4>1 DEF CountsAt
      <4>3. d + 1 \in 1 .. NDirs /\ d + 1 \in Pages
        BY <1>3, <1>10
      <4> QED BY <2>7, <4>1, <4>2, <4>3
    <3> QED BY <1>14, <3>1, <3>2
  <2> QED BY <2>1, <2>4, <2>5, <2>6, <2>7, <2>8, <2>9 DEF Exact
<1>17. Sound(k, held)
  BY <1>2, <1>4, <1>7, <1>12, <1>13, <1>16 DEF Sound
<1>18. FifoOK(k)
  <2>1. \A v \in Addresses : k.mm[I].pte[v] \notin Pages
    BY <1>6, <1>7, <1>11
  <2>2. k.fifo \in Seq(Pages) /\ DOMAIN k.fifo = {}
    BY <1>2
  <2>3. DOMAIN k.pra = Pages /\ DOMAIN k.disk = Addresses
    BY <1>2
  <2> QED BY <2>1, <2>2, <2>3 DEF FifoOK, FifoOf, I
<1>19. Alone(k)
  BY <1>2, <1>6, <1>7 DEF Alone, I
<1>20. NDirs + 1 \in Pages \ held
  BY <1>2, <1>3 DEF Pages
<1>21. held \subseteq Pages
  BY <1>16 DEF Exact
<1> QED BY <1>1, <1>9, <1>17, <1>18, <1>19, <1>20, <1>21 DEF Boot

\* Every initial state satisfies the invariant.
LEMMA MemStarts == ASSUME Init PROVE MemInv
<1>1. SlobInv /\ grown = {} /\ bigblocks = <<>>
  BY HeapStarts DEF Init, HeapInit
<1>2. halt # "assert" /\ load \in {"heap", "processes", "check"}
  BY DEF Init
<1>3. CASE load = "heap"
  BY <1>1, <1>2, <1>3, HeapBegins DEF MemInv
<1>4. CASE load = "processes"
  BY <1>1, <1>2, <1>4, PeersBegin DEF MemInv, NoHeap
<1>5. CASE load = "check"
  BY <1>1, <1>2, <1>5, BootBegins DEF MemInv, NoHeap
<1> QED BY <1>2, <1>3, <1>4, <1>5

\* What a step of processes or of the checks does to their memory.
LEMMA VmStep ==
  ASSUME MemInv, halt = "none", load # "heap", VmNext,
         UNCHANGED <<slob, bigblocks, objects, grown, load, held>>
  PROVE  MemInv' /\ SpaceStep(Now, Now')
<1>1. SlobInv' /\ (NoHeap => NoHeap')
  BY DEF MemInv, SlobInv, NoHeap
<1>2. CASE load = "processes"
  <2>1. PICK H : H = held
    OBVIOUS
  <2>2. Peers(Now, H) /\ NoHeap
    BY <1>2, <2>1 DEF MemInv
  <2>3. Peers(Now', H) /\ SpaceStep(Now, Now')
    BY <2>2, VmKeeps
  <2>4. halt' # "assert" /\ held' = H
    <3>1. (Now').halt = halt'
      BY DEF Now
    <3> QED BY <2>1, <2>3, <3>1 DEF Peers, Good
  <2> QED BY <1>1, <1>2, <2>2, <2>3, <2>4 DEF MemInv
<1>3. CASE load = "check"
  <2>1. PICK H : H = held
    OBVIOUS
  <2>2. Boot(Now, H) /\ NoHeap
    BY <1>3, <2>1 DEF MemInv
  <2>3. Boot(Now', H) /\ SpaceStep(Now, Now')
    BY <2>2, BootKeeps
  <2>4. halt' # "assert" /\ held' = H
    <3>1. (Now').halt = halt'
      BY DEF Now
    <3> QED BY <2>1, <2>3, <3>1 DEF Boot, Good
  <2> QED BY <1>1, <1>3, <2>2, <2>3, <2>4 DEF MemInv
<1> QED BY <1>2, <1>3 DEF MemInv

\* Every step preserves it.
LEMMA MemStep == ASSUME MemInv, [Next]_vars PROVE MemInv'
<1>1. CASE halt = "none" /\ load = "heap" /\ HeapNext
           /\ UNCHANGED <<state, kstack, mm, ref, data, disk, fifo, pra, load, held>>
  <2>1. SlobInv /\ Shared /\ Idle
    BY <1>1 DEF MemInv
  <2>2. SlobInv' /\ Shared' /\ halt' \in {"none", "no page"}
    BY <1>1, <2>1, HeapKeeps
  <2>3. Idle'
    BY <1>1, <2>1 DEF Idle
  <2> QED BY <1>1, <2>2, <2>3 DEF MemInv
<1>2. CASE halt = "none" /\ load # "heap" /\ VmNext /\ UNCHANGED <<slob, bigblocks, objects, grown, load, held>>
  BY <1>2, VmStep
<1>3. CASE UNCHANGED vars
  <2>1. /\ Now' = Now /\ SlobInv' = SlobInv /\ Shared' = Shared /\ Idle' = Idle /\ NoHeap' = NoHeap
        /\ load' = load /\ halt' = halt /\ held' = held
    BY <1>3 DEF Now, SlobInv, Shared, Idle, NoHeap, vars
  <2> QED BY <2>1 DEF MemInv
<1> QED BY <1>1, <1>2, <1>3 DEF Next, Stopped

-----------------------------------------------------------------------------
(* The uses of pages, and their places.                                    *)

\* Sets of which each member goes with one of the other are as large.
LEMMA OneEach ==
  ASSUME NEW T, IsFiniteSet(T), NEW S, NEW f \in [S -> T],
         \A x, y \in S : f[x] = f[y] => x = y, \A z \in T : \E x \in S : f[x] = z
  PROVE  Cardinality(S) = Cardinality(T)
<1>1. f \in Bijection(S, T)
  BY DEF Bijection, Injection, Surjection, IsInjective
<1>2. ExistsBijection(T, S)
  BY <1>1, Fun_ExistsBijSymmetric DEF ExistsBijection
<1> QED BY <1>2, FS_Bijection

\* Every page is free, in H, or at a place, and the places are what the variables say.
Placed(H) ==
  /\ AreaOK(area) /\ Exact(Map(Now), Free(area), H, ref)
  /\ \A q \in Procs :
       /\ mm[q] = NoMm \/ (HasMm(Now, q) /\ mm[q] # NoMm /\ mm[q].pgdir # NoPage)
       /\ kstack[q] = NoPage \/ (kstack[q] \in Pages /\ kstack[q] + 1 \in Pages)

\* The pages that processes cannot have.
Reserved == held \cup grown \cup BigPages(bigblocks)

\* The pages of processes are exactly theirs.
LEMMA SoundPlaced ==
  ASSUME NEW H, Good(Now), Sound(Now, H),
         \A q \in Procs : kstack[q] = NoPage \/ (kstack[q] \in Pages /\ kstack[q] + 1 \in Pages)
  PROVE  Placed(H)
<1>1. PICK k : k = Now
  OBVIOUS
<1>2. k.area = area /\ k.mm = mm /\ k.ref = ref /\ k.kstack = kstack
  BY <1>1 DEF Now
<1>3. Good(k) /\ Sound(k, H)
  BY <1>1
<1>4. AreaOK(area) /\ Exact(Map(k), Free(area), H, ref)
  BY <1>2, <1>3 DEF Sound
<1>5. ASSUME NEW q \in Procs PROVE mm[q] = NoMm \/ (HasMm(k, q) /\ mm[q] # NoMm /\ mm[q].pgdir # NoPage)
  <2>1. CASE HasMm(k, q)
    BY <1>2, <1>3, <2>1, MmKinds DEF Sound, MmSound
  <2>2. CASE ~HasMm(k, q)
    BY <1>2, <1>3, <2>2, MmKinds
  <2> QED BY <2>1, <2>2
<1> QED BY <1>1, <1>4, <1>5 DEF Placed

\* Without processes, the pages of the heap are exactly its own.
LEMMA IdlePlaced ==
  ASSUME Shared, Idle, BigOK(bigblocks), grown \subseteq Pages
  PROVE  Placed(Reserved)
<1>1. PICK k : k = Now
  OBVIOUS
<1>2. k.area = area /\ k.mm = mm /\ k.ref = ref /\ k.kstack = kstack
  BY <1>1 DEF Now
<1>3. \A q \in Procs : mm[q] = NoMm /\ kstack[q] = NoPage /\ ~HasMm(k, q) /\ k.mm[q].pgdir = NoPage
  <2>1. DOMAIN NoMm # MmFields /\ NoMm.pgdir = NoPage
    BY DEF NoMm, MmFields
  <2> QED BY <1>2, <2>1 DEF Idle, HasMm
<1>4. PICK A : A = Map(k)
  OBVIOUS
<1>5. \A s \in Slots : A[s] = NoPage
  <2> SUFFICES ASSUME NEW s \in Slots PROVE A[s] = NoPage
    OBVIOUS
  <2>1. A[s] = At(k, s)
    BY <1>4 DEF Map
  <2>2. s[2] \in Procs
    BY SlotKinds
  <2> QED BY <1>2, <1>3, <2>1, <2>2 DEF At
<1>6. PICK F : F = Free(area)
  OBVIOUS
<1>7. PICK H : H = Reserved
  OBVIOUS
<1>8. F \cup H = Pages /\ F \cap H = {}
  BY <1>6, <1>7 DEF Shared, Reserved
<1>9. DOMAIN ref = Pages /\ \A p \in Pages : ref[p] = 0
  BY DEF Idle
<1>10. Exact(A, F, H, ref)
  BY <1>5, <1>8, <1>9, NotPage DEF Exact
<1> QED BY <1>1, <1>3, <1>4, <1>6, <1>7, <1>10 DEF Placed, Shared

\* Who of the kernel has a page is one alone.
KernelApart ==
  /\ BigPages(bigblocks) \cap (held \cup grown) = {} /\ BigOK(bigblocks)

\* The invariant gives every page of the memory one place.
LEMMA MemPlaced ==
  ASSUME MemInv
  PROVE  Placed(Reserved) /\ KernelApart
<1>1. SlobInv /\ BigOK(bigblocks) /\ grown \subseteq Pages
  BY DEF MemInv, SlobInv
<1>2. CASE load = "heap" /\ Shared /\ Idle
  BY <1>1, <1>2, IdlePlaced DEF KernelApart, Shared
<1>3. CASE NoHeap /\ (Peers(Now, held) \/ Boot(Now, held))
  <2>1. BigPages(bigblocks) = {} /\ Reserved = held
    <3>1. DOMAIN bigblocks = {} /\ grown = {}
      BY <1>3 DEF NoHeap
    <3> QED BY <3>1 DEF BigPages, Reserved
  <2>2. PICK k : k = Now
    OBVIOUS
  <2>3. k.kstack = kstack
    BY <2>2 DEF Now
  <2>4. \A q \in Procs : kstack[q] = NoPage \/ (kstack[q] \in Pages /\ kstack[q] + 1 \in Pages)
    BY <1>3, <2>2, <2>3 DEF Peers, Life, Boot, Alone
  <2>5. Placed(held)
    BY <1>3, <2>4, SoundPlaced DEF Peers, Boot
  <2> QED BY <1>1, <2>1, <2>5 DEF KernelApart
<1> QED BY <1>2, <1>3 DEF MemInv

\* The use of the page at a place.
UseAt(A, s) ==
  IF s[1] = "stack" THEN <<"kstack", s[2], A[s]>>
  ELSE IF s[1] = "pgdir" THEN <<"pgdir", s[2], A[s]>>
  ELSE <<s[1], <<s[2], s[3]>>, A[s]>>
AtPlace(A, u) == \E s \in Slots : A[s] # NoPage /\ u = UseAt(A, s)
BigUse(u)     == \E i \in DOMAIN bigblocks : \E p \in BigRow(bigblocks[i]) : u = <<"big", bigblocks[i].at, p>>
KernelUse(u)  == \E p \in held \cup grown : u = <<"kernel", 0, p>>
FreeUse(u)    == \E p \in Free(area) : u = <<"free", 0, p>>

\* The uses of a process are at its places.
LEMMA StackUsesAre ==
  ASSUME NEW H, Placed(H), NEW A, A = Map(Now), NEW u
  PROVE  u \in StackUses <=> \E s \in Slots : s[1] = "stack" /\ A[s] # NoPage /\ u = UseAt(A, s)
<1>1. \A q \in Procs : \A z \in {0, 1} :
        /\ <<"stack", q, z>> \in Slots
        /\ A[<<"stack", q, z>>] = IF kstack[q] = NoPage THEN NoPage ELSE kstack[q] + z
  BY DEF Slots, Map, At, Now
<1>2. \A q \in Procs : kstack[q] # NoPage => /\ kstack[q] \in Nat /\ kstack[q] # NoPage /\ kstack[q] + 1 # NoPage
                                             /\ kstack[q] .. kstack[q] + 1 = {kstack[q] + 0, kstack[q] + 1}
                                             /\ kstack[q] + 0 = kstack[q]
  <2> SUFFICES ASSUME NEW q \in Procs, kstack[q] # NoPage
               PROVE  /\ kstack[q] \in Nat /\ kstack[q] # NoPage /\ kstack[q] + 1 # NoPage
                      /\ kstack[q] .. kstack[q] + 1 = {kstack[q] + 0, kstack[q] + 1}
                      /\ kstack[q] + 0 = kstack[q]
    OBVIOUS
  <2>1. PICK x : x = kstack[q]
    OBVIOUS
  <2>2. x \in Pages /\ x + 1 \in Pages /\ x \in Nat
    BY <2>1, NotPage DEF Placed
  <2>3. x .. x + 1 = {x + 0, x + 1} /\ x + 0 = x
    BY <2>2
  <2> QED BY <2>1, <2>2, <2>3, NotPage
<1>3. \A q, z : UseAt(A, <<"stack", q, z>>) = <<"kstack", q, A[<<"stack", q, z>>]>>
  BY DEF UseAt
<1>4. ASSUME u \in StackUses PROVE \E s \in Slots : s[1] = "stack" /\ A[s] # NoPage /\ u = UseAt(A, s)
  <2>1. PICK q \in Procs : kstack[q] # NoPage /\ \E p \in kstack[q] .. kstack[q] + 1 : u = <<"kstack", q, p>>
    BY <1>4 DEF StackUses
  <2>2. PICK z \in {0, 1} : u = <<"kstack", q, kstack[q] + z>>
    BY <1>2, <2>1
  <2>3. kstack[q] + z # NoPage
    BY <1>2, <2>1, <2>2
  <2>4. PICK s : s = <<"stack", q, z>>
    OBVIOUS
  <2>5. s \in Slots /\ A[s] = kstack[q] + z /\ s[1] = "stack"
    BY <1>1, <2>1, <2>4
  <2>6. u = UseAt(A, s)
    BY <1>3, <2>2, <2>4, <2>5
  <2> QED BY <2>3, <2>5, <2>6
<1>5. ASSUME NEW s \in Slots, s[1] = "stack", A[s] # NoPage, u = UseAt(A, s) PROVE u \in StackUses
  <2>1. PICK q : q = s[2]
    OBVIOUS
  <2>2. PICK z : z = s[3]
    OBVIOUS
  <2>3. q \in Procs /\ z \in {0, 1} /\ s = <<"stack", q, z>>
    BY <1>5, <2>1, <2>2, SlotKinds
  <2>4. A[s] = kstack[q] + z /\ kstack[q] # NoPage
    BY <1>1, <1>5, <2>3
  <2>5. u = <<"kstack", q, kstack[q] + z>>
    BY <1>3, <1>5, <2>3, <2>4
  <2>6. kstack[q] + z \in kstack[q] .. kstack[q] + 1
    BY <1>2, <2>3, <2>4
  <2> QED BY <2>3, <2>4, <2>5, <2>6 DEF StackUses
<1> QED BY <1>4, <1>5

\* The uses of pages as directories are the places of that kind.
LEMMA PgdirUsesAre ==
  ASSUME NEW H, Placed(H), NEW A, A = Map(Now), NEW u
  PROVE  u \in PgdirUses <=> \E s \in Slots : s[1] = "pgdir" /\ A[s] # NoPage /\ u = UseAt(A, s)
<1>1. \A q \in Procs : <<"pgdir", q, 0>> \in Slots /\ A[<<"pgdir", q, 0>>] = mm[q].pgdir
  BY DEF Slots, Map, At, Now
<1>2. \A q \in Procs : mm[q] # NoMm <=> mm[q].pgdir # NoPage
  <2>1. NoMm.pgdir = NoPage
    BY DEF NoMm
  <2> QED BY <2>1 DEF Placed
<1>3. \A q : UseAt(A, <<"pgdir", q, 0>>) = <<"pgdir", q, A[<<"pgdir", q, 0>>]>>
  BY DEF UseAt
<1>4. ASSUME u \in PgdirUses PROVE \E s \in Slots : s[1] = "pgdir" /\ A[s] # NoPage /\ u = UseAt(A, s)
  <2>1. PICK q \in Procs : mm[q] # NoMm /\ u = <<"pgdir", q, mm[q].pgdir>>
    BY <1>4 DEF PgdirUses
  <2>2. PICK s : s = <<"pgdir", q, 0>>
    OBVIOUS
  <2>3. s \in Slots /\ A[s] = mm[q].pgdir /\ s[1] = "pgdir"
    BY <1>1, <2>1, <2>2
  <2>4. u = UseAt(A, s)
    BY <1>3, <2>1, <2>2, <2>3
  <2> QED BY <1>2, <2>1, <2>3, <2>4
<1>5. ASSUME NEW s \in Slots, s[1] = "pgdir", A[s] # NoPage, u = UseAt(A, s) PROVE u \in PgdirUses
  <2>1. PICK q : q = s[2]
    OBVIOUS
  <2>2. q \in Procs /\ s = <<"pgdir", q, 0>>
    BY <1>5, <2>1, SlotKinds
  <2>3. A[s] = mm[q].pgdir /\ mm[q] # NoMm
    BY <1>1, <1>2, <1>5, <2>2
  <2>4. u = <<"pgdir", q, mm[q].pgdir>>
    BY <1>3, <1>5, <2>2, <2>3
  <2> QED BY <2>2, <2>3, <2>4 DEF PgdirUses
<1> QED BY <1>4, <1>5

\* So are those as page tables,
LEMMA TableUsesAre ==
  ASSUME NEW H, Placed(H), NEW A, A = Map(Now), NEW u
  PROVE  u \in TableUses <=> \E s \in Slots : s[1] = "table" /\ A[s] # NoPage /\ u = UseAt(A, s)
<1>0. PICK k : k = Now
  OBVIOUS
<1>1. \A q \in Procs : \A d \in Dirs :
        /\ <<"table", q, d>> \in Slots
        /\ A[<<"table", q, d>>] = IF ~HasMm(k, q) THEN NoPage ELSE mm[q].pd[d]
  <2> SUFFICES ASSUME NEW q \in Procs, NEW d \in Dirs
               PROVE  /\ <<"table", q, d>> \in Slots
                      /\ A[<<"table", q, d>>] = IF ~HasMm(k, q) THEN NoPage ELSE mm[q].pd[d]
    OBVIOUS
  <2>1. PICK s : s = <<"table", q, d>>
    OBVIOUS
  <2>2. s \in Slots /\ s[1] = "table" /\ s[2] = q /\ s[3] = d
    BY <2>1 DEF Slots
  <2>3. A[s] = At(k, s)
    BY <1>0, <2>2 DEF Map
  <2>4. k.mm = mm
    BY <1>0 DEF Now
  <2> QED BY <2>1, <2>2, <2>3, <2>4 DEF At
<1>2. \A q \in Procs : mm[q] # NoMm <=> HasMm(k, q)
  <2>1. DOMAIN NoMm # MmFields
    BY DEF NoMm, MmFields
  <2>2. k.mm = mm
    BY <1>0 DEF Now
  <2> QED BY <1>0, <2>1, <2>2 DEF Placed, HasMm
<1>3. \A q, d : UseAt(A, <<"table", q, d>>) = <<"table", <<q, d>>, A[<<"table", q, d>>]>>
  BY DEF UseAt
<1>4. ASSUME u \in TableUses PROVE \E s \in Slots : s[1] = "table" /\ A[s] # NoPage /\ u = UseAt(A, s)
  <2>1. PICK q \in Procs : mm[q] # NoMm /\ \E d \in Dirs : mm[q].pd[d] # NoPage /\ u = <<"table", <<q, d>>, mm[q].pd[d]>>
    BY <1>4 DEF TableUses
  <2>2. PICK d \in Dirs : mm[q].pd[d] # NoPage /\ u = <<"table", <<q, d>>, mm[q].pd[d]>>
    BY <2>1
  <2>3. PICK s : s = <<"table", q, d>>
    OBVIOUS
  <2>4. s \in Slots /\ A[s] = mm[q].pd[d] /\ s[1] = "table"
    BY <1>1, <1>2, <2>1, <2>3
  <2>5. u = UseAt(A, s)
    BY <1>3, <2>2, <2>3, <2>4
  <2> QED BY <2>2, <2>4, <2>5
<1>5. ASSUME NEW s \in Slots, s[1] = "table", A[s] # NoPage, u = UseAt(A, s) PROVE u \in TableUses
  <2>1. PICK q : q = s[2]
    OBVIOUS
  <2>2. PICK d : d = s[3]
    OBVIOUS
  <2>3. q \in Procs /\ d \in Dirs /\ s = <<"table", q, d>>
    BY <1>5, <2>1, <2>2, SlotKinds
  <2>4. A[s] = mm[q].pd[d] /\ mm[q] # NoMm
    BY <1>1, <1>2, <1>5, <2>3
  <2>5. u = <<"table", <<q, d>>, mm[q].pd[d]>>
    BY <1>3, <1>5, <2>3, <2>4
  <2> QED BY <1>5, <2>3, <2>4, <2>5 DEF TableUses
<1> QED BY <1>4, <1>5

\* and those as pages of the user.
LEMMA UserUsesAre ==
  ASSUME NEW H, Placed(H), NEW A, A = Map(Now), NEW u
  PROVE  u \in UserUses <=> \E s \in Slots : s[1] = "user" /\ A[s] # NoPage /\ u = UseAt(A, s)
<1>0. PICK k : k = Now
  OBVIOUS
<1>1. \A q \in Procs : \A v \in Addresses :
        /\ <<"user", q, v>> \in Slots
        /\ A[<<"user", q, v>>] = IF ~HasMm(k, q) THEN NoPage
                                 ELSE IF mm[q].pte[v] \in Pages THEN mm[q].pte[v] ELSE NoPage
  <2> SUFFICES ASSUME NEW q \in Procs, NEW v \in Addresses
               PROVE  /\ <<"user", q, v>> \in Slots
                      /\ A[<<"user", q, v>>] = IF ~HasMm(k, q) THEN NoPage
                                               ELSE IF mm[q].pte[v] \in Pages THEN mm[q].pte[v] ELSE NoPage
    OBVIOUS
  <2>1. PICK s : s = <<"user", q, v>>
    OBVIOUS
  <2>2. s \in Slots /\ s[1] = "user" /\ s[2] = q /\ s[3] = v
    BY <2>1 DEF Slots
  <2>3. A[s] = At(k, s)
    BY <1>0, <2>2 DEF Map
  <2>4. k.mm = mm
    BY <1>0 DEF Now
  <2> QED BY <2>1, <2>2, <2>3, <2>4 DEF At
<1>2. \A q \in Procs : mm[q] # NoMm <=> HasMm(k, q)
  <2>1. DOMAIN NoMm # MmFields
    BY DEF NoMm, MmFields
  <2>2. k.mm = mm
    BY <1>0 DEF Now
  <2> QED BY <1>0, <2>1, <2>2 DEF Placed, HasMm
<1>3. \A q, d : UseAt(A, <<"user", q, d>>) = <<"user", <<q, d>>, A[<<"user", q, d>>]>>
  BY DEF UseAt
<1>4. ASSUME u \in UserUses PROVE \E s \in Slots : s[1] = "user" /\ A[s] # NoPage /\ u = UseAt(A, s)
  <2>1. PICK q \in Procs : mm[q] # NoMm /\ \E v \in Addresses : mm[q].pte[v] \in Pages /\ u = <<"user", <<q, v>>, mm[q].pte[v]>>
    BY <1>4 DEF UserUses
  <2>2. PICK v \in Addresses : mm[q].pte[v] \in Pages /\ u = <<"user", <<q, v>>, mm[q].pte[v]>>
    BY <2>1
  <2>3. PICK s : s = <<"user", q, v>>
    OBVIOUS
  <2>4. s \in Slots /\ A[s] = mm[q].pte[v] /\ s[1] = "user"
    BY <1>1, <1>2, <2>1, <2>2, <2>3
  <2>5. u = UseAt(A, s)
    BY <1>3, <2>2, <2>3, <2>4
  <2> QED BY <2>2, <2>4, <2>5, NotPage
<1>5. ASSUME NEW s \in Slots, s[1] = "user", A[s] # NoPage, u = UseAt(A, s) PROVE u \in UserUses
  <2>1. PICK q : q = s[2]
    OBVIOUS
  <2>2. PICK v : v = s[3]
    OBVIOUS
  <2>3. q \in Procs /\ v \in Addresses /\ s = <<"user", q, v>>
    BY <1>5, <2>1, <2>2, SlotKinds
  <2>4. A[s] = mm[q].pte[v] /\ mm[q] # NoMm /\ mm[q].pte[v] \in Pages
    BY <1>1, <1>2, <1>5, <2>3
  <2>5. u = <<"user", <<q, v>>, mm[q].pte[v]>>
    BY <1>3, <1>5, <2>3, <2>4
  <2> QED BY <1>5, <2>3, <2>4, <2>5 DEF UserUses
<1> QED BY <1>4, <1>5

\* Every use is of the allocator, of the kernel or at a place.
LEMMA UsesAre ==
  ASSUME NEW H, Placed(H), KernelApart, NEW A, A = Map(Now), NEW u
  PROVE  u \in Uses <=> FreeUse(u) \/ KernelUse(u) \/ BigUse(u) \/ AtPlace(A, u)
<1>2. u \in FreeUses <=> FreeUse(u)
  <2>1. FreeIn(area) = Free(area)
    BY DEF FreeIn, Free, Cover
  <2> QED BY <2>1 DEF FreeUse, FreeUses
<1>3. u \in KernelUses <=> KernelUse(u)
  BY DEF KernelUse, KernelUses
<1>4. u \in BigUses <=> BigUse(u)
  <2>1. Range(bigblocks) = {bigblocks[i] : i \in DOMAIN bigblocks}
    BY DEF Range
  <2>2. \A bb : bb.page .. bb.page + 2^bb.order - 1 = BigRow(bb)
    BY DEF BigRow, Row
  <2>3. ASSUME u \in BigUses PROVE BigUse(u)
    <3>1. PICK bb \in Range(bigblocks) : \E p \in bb.page .. bb.page + 2^bb.order - 1 : u = <<"big", bb.at, p>>
      BY <2>3 DEF BigUses
    <3>2. PICK i \in DOMAIN bigblocks : bb = bigblocks[i]
      BY <2>1, <3>1
    <3> QED BY <2>2, <3>1, <3>2 DEF BigUse
  <2>4. ASSUME BigUse(u) PROVE u \in BigUses
    <3>1. PICK i \in DOMAIN bigblocks : \E p \in BigRow(bigblocks[i]) : u = <<"big", bigblocks[i].at, p>>
      BY <2>4 DEF BigUse
    <3>2. PICK bb : bb = bigblocks[i]
      OBVIOUS
    <3>3. bb \in Range(bigblocks)
      BY <2>1, <3>2
    <3>4. \E p \in bb.page .. bb.page + 2^bb.order - 1 : u = <<"big", bb.at, p>>
      BY <2>2, <3>1, <3>2
    <3> QED BY <3>3, <3>4 DEF BigUses
  <2> QED BY <2>3, <2>4
<1>5. u \in StackUses \cup PgdirUses \cup TableUses \cup UserUses <=> AtPlace(A, u)
  <2>1. u \in StackUses <=> \E s \in Slots : s[1] = "stack" /\ A[s] # NoPage /\ u = UseAt(A, s)
    BY StackUsesAre
  <2>2. u \in PgdirUses <=> \E s \in Slots : s[1] = "pgdir" /\ A[s] # NoPage /\ u = UseAt(A, s)
    BY PgdirUsesAre
  <2>3. u \in TableUses <=> \E s \in Slots : s[1] = "table" /\ A[s] # NoPage /\ u = UseAt(A, s)
    BY TableUsesAre
  <2>4. u \in UserUses <=> \E s \in Slots : s[1] = "user" /\ A[s] # NoPage /\ u = UseAt(A, s)
    BY UserUsesAre
  <2>5. \A s \in Slots : s[1] \in {"stack", "pgdir", "table", "user"}
    BY SlotKinds
  <2> QED BY <2>1, <2>2, <2>3, <2>4, <2>5 DEF AtPlace
<1> QED BY <1>2, <1>3, <1>4, <1>5 DEF Uses

\* The page of a use, and what kind it is.
LEMMA UseIs ==
  ASSUME NEW H, Placed(H), H = Reserved, KernelApart, NEW A, A = Map(Now), NEW u
  PROVE  /\ FreeUse(u) => u[1] = "free" /\ u[3] \in Free(area)
         /\ KernelUse(u) => u[1] = "kernel" /\ u[3] \in H /\ u[3] \notin BigPages(bigblocks)
         /\ BigUse(u) => u[1] = "big" /\ u[3] \in H /\ u[3] \in BigPages(bigblocks)
         /\ AtPlace(A, u) =>
              /\ u[3] \in Pages \ (Free(area) \cup H)
              /\ \E s \in Slots : /\ A[s] = u[3] /\ u = UseAt(A, s)
                                  /\ CountsAt(s) <=> u[1] \in {"user", "table"}
<1>1. FreeUse(u) => u[1] = "free" /\ u[3] \in Free(area)
  BY DEF FreeUse
<1>2. KernelUse(u) => u[1] = "kernel" /\ u[3] \in H /\ u[3] \notin BigPages(bigblocks)
  BY DEF KernelUse, KernelApart, Reserved
<1>3. BigUse(u) => u[1] = "big" /\ u[3] \in H /\ u[3] \in BigPages(bigblocks)
  BY DEF BigUse, Reserved, BigPages
<1>4. ASSUME AtPlace(A, u)
      PROVE  /\ u[3] \in Pages \ (Free(area) \cup H)
             /\ \E s \in Slots : /\ A[s] = u[3] /\ u = UseAt(A, s)
                                 /\ CountsAt(s) <=> u[1] \in {"user", "table"}
  <2>1. PICK s \in Slots : A[s] # NoPage /\ u = UseAt(A, s)
    BY <1>4 DEF AtPlace
  <2>2. s[1] \in {"stack", "pgdir", "table", "user"}
    BY SlotKinds
  <2>3. u[3] = A[s] /\ (u[1] = s[1] \/ (u[1] = "kstack" /\ s[1] = "stack"))
    BY <2>1, <2>2 DEF UseAt
  <2>4. A[s] \in Pages \ (Free(area) \cup H)
    BY <2>1 DEF Placed, Exact
  <2>5. CountsAt(s) <=> u[1] \in {"user", "table"}
    BY <2>2, <2>3 DEF CountsAt
  <2> QED BY <2>1, <2>3, <2>4, <2>5
<1> QED BY <1>1, <1>2, <1>3, <1>4

\* No page has two uses.
LEMMA UsesApart ==
  ASSUME NEW H, Placed(H), H = Reserved, KernelApart, NEW u \in Uses, NEW w \in Uses, u[3] = w[3]
  PROVE  u = w
<1>1. PICK A : A = Map(Now)
  OBVIOUS
<1>2. FreeUse(u) \/ KernelUse(u) \/ BigUse(u) \/ AtPlace(A, u)
  BY <1>1, UsesAre
<1>3. FreeUse(w) \/ KernelUse(w) \/ BigUse(w) \/ AtPlace(A, w)
  BY <1>1, UsesAre
<1>4. /\ FreeUse(u) => u[3] \in Free(area)
      /\ KernelUse(u) => u[3] \in H /\ u[3] \notin BigPages(bigblocks)
      /\ BigUse(u) => u[3] \in H /\ u[3] \in BigPages(bigblocks)
      /\ AtPlace(A, u) => u[3] \notin Free(area) \cup H
  BY <1>1, UseIs
<1>5. /\ FreeUse(w) => w[3] \in Free(area)
      /\ KernelUse(w) => w[3] \in H /\ w[3] \notin BigPages(bigblocks)
      /\ BigUse(w) => w[3] \in H /\ w[3] \in BigPages(bigblocks)
      /\ AtPlace(A, w) => w[3] \notin Free(area) \cup H
  BY <1>1, UseIs
<1>6. Free(area) \cap H = {}
  BY DEF Placed, Exact
<1>7. CASE FreeUse(u) /\ FreeUse(w)
  BY <1>7 DEF FreeUse
<1>8. CASE KernelUse(u) /\ KernelUse(w)
  BY <1>8 DEF KernelUse
<1>9. CASE BigUse(u) /\ BigUse(w)
  <2>1. PICK i \in DOMAIN bigblocks : \E p \in BigRow(bigblocks[i]) : u = <<"big", bigblocks[i].at, p>>
    BY <1>9 DEF BigUse
  <2>2. PICK j \in DOMAIN bigblocks : \E p \in BigRow(bigblocks[j]) : w = <<"big", bigblocks[j].at, p>>
    BY <1>9 DEF BigUse
  <2>3. u[3] \in BigRow(bigblocks[i]) /\ u[3] \in BigRow(bigblocks[j])
    BY <2>1, <2>2
  <2>4. i = j
    BY <2>3 DEF KernelApart, BigOK
  <2> QED BY <2>1, <2>2, <2>4
<1>10. CASE AtPlace(A, u) /\ AtPlace(A, w)
  <2>1. PICK s \in Slots : A[s] = u[3] /\ u = UseAt(A, s)
    BY <1>1, <1>10, UseIs
  <2>2. PICK r \in Slots : A[r] = w[3] /\ w = UseAt(A, r)
    BY <1>1, <1>10, UseIs
  <2>3. u[3] \in Pages
    BY <1>1, <1>10, UseIs
  <2>4. A[s] = A[r] /\ A[s] # NoPage
    BY <2>1, <2>2, <2>3, NotPage
  <2>5. s = r
    BY <1>1, <2>4 DEF Placed, Exact
  <2> QED BY <2>1, <2>2, <2>5
<1> QED BY <1>2, <1>3, <1>4, <1>5, <1>6, <1>7, <1>8, <1>9, <1>10

\* Every page has one.
LEMMA UsesCover ==
  ASSUME NEW H, Placed(H), H = Reserved, KernelApart
  PROVE  {u[3] : u \in Uses} = Pages
<1>1. PICK A : A = Map(Now)
  OBVIOUS
<1>2. Exact(A, Free(area), H, ref)
  BY <1>1 DEF Placed
<1>3. ASSUME NEW u \in Uses PROVE u[3] \in Pages
  <2>1. FreeUse(u) \/ KernelUse(u) \/ BigUse(u) \/ AtPlace(A, u)
    BY <1>1, UsesAre
  <2>2. u[3] \in Free(area) \/ u[3] \in H \/ u[3] \in Pages
    BY <1>1, <2>1, UseIs
  <2> QED BY <1>2, <2>2 DEF Exact
<1>4. ASSUME NEW p \in Pages PROVE \E u \in Uses : u[3] = p
  <2>1. CASE p \in Free(area)
    <3>1. PICK u : u = <<"free", 0, p>>
      OBVIOUS
    <3>2. FreeUse(u) /\ u[3] = p
      BY <2>1, <3>1 DEF FreeUse
    <3> QED BY <1>1, <3>2, UsesAre
  <2>2. CASE p \in held \cup grown
    <3>1. PICK u : u = <<"kernel", 0, p>>
      OBVIOUS
    <3>2. KernelUse(u) /\ u[3] = p
      BY <2>2, <3>1 DEF KernelUse
    <3> QED BY <1>1, <3>2, UsesAre
  <2>3. CASE p \in BigPages(bigblocks)
    <3>1. PICK i \in DOMAIN bigblocks : p \in BigRow(bigblocks[i])
      BY <2>3 DEF BigPages
    <3>2. PICK u : u = <<"big", bigblocks[i].at, p>>
      OBVIOUS
    <3>3. BigUse(u) /\ u[3] = p
      BY <3>1, <3>2 DEF BigUse
    <3> QED BY <1>1, <3>3, UsesAre
  <2>4. CASE p \notin Free(area) \cup H
    <3>1. PICK s \in Slots : A[s] = p
      BY <1>2, <2>4 DEF Exact
    <3>2. PICK u : u = UseAt(A, s)
      OBVIOUS
    <3>3. u[3] = p
      BY <3>1, <3>2 DEF UseAt
    <3>4. AtPlace(A, u)
      BY <3>1, <3>2, NotPage DEF AtPlace
    <3> QED BY <1>1, <3>3, <3>4, UsesAre
  <2> QED BY <2>1, <2>2, <2>3, <2>4 DEF Reserved
<1> QED BY <1>3, <1>4

\* The invariant says what PagesExact does.
LEMMA MemInvPages == ASSUME MemInv PROVE PagesExact
<1>1. PICK H : H = Reserved
  OBVIOUS
<1>2. Placed(H) /\ KernelApart
  BY <1>1, MemPlaced
<1>3. AreaExact(area)
  BY <1>2, ExactArea DEF Placed
<1>4. {u[3] : u \in Uses} = Pages
  BY <1>1, <1>2, UsesCover
<1>5. Cardinality(Uses) = NPages
  <2>1. PICK f : f = [u \in Uses |-> u[3]]
    OBVIOUS
  <2>2. f \in [Uses -> Pages] /\ \A u \in Uses : f[u] = u[3]
    BY <1>4, <2>1
  <2>3. \A u, w \in Uses : f[u] = f[w] => u = w
    BY <1>1, <1>2, <2>2, UsesApart
  <2>4. \A p \in Pages : \E u \in Uses : f[u] = p
    BY <1>4, <2>2
  <2>5. IsFiniteSet(Pages) /\ Cardinality(Pages) = NPages
    <3>1. NPages \in Nat
      BY PagesAssumption
    <3>2. 0 + NPages - 1 = NPages - 1
      BY <3>1
    <3> QED BY <3>1, <3>2, RowSize DEF Pages
  <2> QED BY <2>2, <2>3, <2>4, <2>5, OneEach
<1>6. ASSUME NEW u \in Uses PROVE ref[u[3]] = IF u[1] \in {"user", "table"} THEN 1 ELSE 0
  <2>1. PICK A : A = Map(Now)
    OBVIOUS
  <2>2. FreeUse(u) \/ KernelUse(u) \/ BigUse(u) \/ AtPlace(A, u)
    BY <1>2, <2>1, UsesAre
  <2>3. Exact(A, Free(area), H, ref)
    BY <1>2, <2>1 DEF Placed
  <2>4. CASE FreeUse(u) \/ KernelUse(u) \/ BigUse(u)
    <3>1. u[3] \in Free(area) \cup H /\ u[1] \in {"free", "kernel", "big"}
      BY <1>1, <1>2, <2>1, <2>4, UseIs
    <3> QED BY <2>3, <3>1 DEF Exact
  <2>5. CASE AtPlace(A, u)
    <3>1. PICK s \in Slots : /\ A[s] = u[3] /\ u = UseAt(A, s)
                             /\ CountsAt(s) <=> u[1] \in {"user", "table"}
      BY <1>1, <1>2, <2>1, <2>5, UseIs
    <3>2. u[3] \in Pages
      BY <1>1, <1>2, <2>1, <2>5, UseIs
    <3>3. A[s] # NoPage
      BY <3>1, <3>2, NotPage
    <3> QED BY <2>3, <3>1, <3>3 DEF Exact
  <2> QED BY <2>2, <2>4, <2>5
<1> QED BY <1>3, <1>4, <1>5, <1>6 DEF PagesExact

\* Every page is free or has one use, with the count that it needs, whatever processes,
\* the heap and the boot checks allocate, copy, swap and free.
THEOREM EveryPageOnce == Spec => []PagesExact
<1>1. Init => MemInv
  BY MemStarts
<1>2. MemInv /\ [Next]_vars => MemInv'
  BY MemStep
<1>3. MemInv => PagesExact
  BY MemInvPages
<1> QED BY <1>1, <1>2, <1>3, PTL DEF Spec

\* What the mm of a process is.
MappingOK(q) ==
  /\ \A i \in DOMAIN mm[q].areas :
       /\ mm[q].areas[i].start < mm[q].areas[i].end /\ mm[q].areas[i].end <= Top
       /\ i > 1 => mm[q].areas[i - 1].end <= mm[q].areas[i].start
  /\ \A v \in Addresses : mm[q].pte[v] # Zero => FindVma(mm[q], v) # {} /\ mm[q].pd[Dir(v)] # NoPage

\* What the list of the pages that may be swapped is.
ListOfSwap(q) ==
  /\ Len(fifo) = Cardinality({v \in Addresses : mm[q].pte[v] \in Pages})
  /\ \A i \in DOMAIN fifo : mm[q].pte[pra[fifo[i]]] = fifo[i]
  /\ IsInjective(fifo)

\* The pages mapped by a sound mm are those MappingOK speaks of.
LEMMA SoundMapping ==
  ASSUME NEW H, Good(Now), Sound(Now, H), NEW q \in Procs, mm[q] # NoMm
  PROVE  MappingOK(q)
<1>1. PICK k : k = Now
  OBVIOUS
<1>2. k.mm = mm
  BY <1>1 DEF Now
<1>3. Good(k) /\ Sound(k, H) /\ HasMm(k, q)
  BY <1>1, <1>2, MmKinds
<1>4. PICK m : m = mm[q]
  OBVIOUS
<1>5. MmSound(m) /\ m.areas \in Seq(AreaTypes)
  BY <1>2, <1>3, <1>4, MmKinds DEF Sound
<1>6. PICK s : s = m.areas
  OBVIOUS
<1>7. s \in Seq(AreaTypes) /\ AreasApart(s)
  BY <1>5, <1>6 DEF MmSound
<1>8. ASSUME NEW i \in DOMAIN s
      PROVE  s[i].start < s[i].end /\ s[i].end <= Top /\ (i > 1 => s[i - 1].end <= s[i].start)
  <2>1. s[i].start < s[i].end /\ s[i].end <= Top
    BY <1>7 DEF AreaTypes
  <2>2. ASSUME i > 1 PROVE s[i - 1].end <= s[i].start
    <3>1. i - 1 \in DOMAIN s /\ i - 1 < i
      BY <1>7, <2>2
    <3> QED BY <1>7, <3>1 DEF AreasApart
  <2> QED BY <2>1, <2>2
<1>9. ASSUME NEW v \in Addresses, m.pte[v] # Zero
      PROVE  FindVma(m, v) # {} /\ m.pd[Dir(v)] # NoPage
  <2>1. InArea(m.areas, v) /\ m.pd[Dir(v)] # NoPage
    BY <1>5, <1>9 DEF MmSound
  <2> QED BY <2>1 DEF InArea, FindVma
<1> QED BY <1>4, <1>6, <1>8, <1>9 DEF MappingOK

\* The list of pages to swap is the one of the invariant.
LEMMA BootList ==
  ASSUME NEW H, Boot(Now, H)
  PROVE  ListOfSwap(InitProc)
<1>1. PICK k : k = Now
  OBVIOUS
<1>2. k.mm = mm /\ k.fifo = fifo /\ k.pra = pra /\ k.disk = disk
  BY <1>1 DEF Now
<1>3. Boot(k, H) /\ InitProc \in Procs /\ HasMm(k, InitProc) /\ Sound(k, H)
  BY <1>1, VmAssumption DEF Boot, Alone
<1>4. PICK pte : pte = mm[InitProc].pte
  OBVIOUS
<1>5. FifoOf(fifo, pra, disk, pte)
  BY <1>2, <1>3, <1>4 DEF Boot, FifoOK
<1>6. PICK M : M = {v \in Addresses : pte[v] \in Pages}
  OBVIOUS
<1>7. PICK f : f = [i \in DOMAIN fifo |-> pra[fifo[i]]]
  OBVIOUS
<1>8. \A i \in DOMAIN fifo : f[i] = pra[fifo[i]] /\ pra[fifo[i]] \in Addresses /\ pte[pra[fifo[i]]] = fifo[i] /\ fifo[i] \in Pages
  BY <1>5, <1>7 DEF FifoOf
<1>9. f \in [DOMAIN fifo -> M]
  BY <1>6, <1>7, <1>8
<1>10. \A i, j \in DOMAIN fifo : f[i] = f[j] => i = j
  BY <1>5, <1>8 DEF FifoOf
<1>11. \A v \in M : \E i \in DOMAIN fifo : f[i] = v
  <2> SUFFICES ASSUME NEW v \in M PROVE \E i \in DOMAIN fifo : f[i] = v
    OBVIOUS
  <2>1. v \in Addresses /\ pte[v] \in Pages
    BY <1>6
  <2>2. PICK i \in DOMAIN fifo : fifo[i] = pte[v]
    BY <1>5, <2>1 DEF FifoOf
  <2>3. PICK w : w = pra[fifo[i]]
    OBVIOUS
  <2>4. w \in Addresses /\ pte[w] = pte[v]
    BY <1>8, <2>2, <2>3
  <2>5. Exact(Map(k), Free(k.area), H, k.ref) /\ k.mm[InitProc].pte = pte
    BY <1>2, <1>3, <1>4 DEF Sound
  <2>6. w = v
    BY <1>3, <2>1, <2>4, <2>5, PageAt
  <2> QED BY <1>8, <2>3, <2>6
<1>12. IsFiniteSet(M)
  <2>1. M \subseteq 0 .. Top - 1 /\ Top \in Nat
    BY <1>6, VmAssumption DEF Addresses
  <2>2. IsFiniteSet(0 .. Top - 1)
    BY <2>1, FS_Interval
  <2> QED BY <2>1, <2>2, FS_Subset
<1>13. Cardinality(DOMAIN fifo) = Cardinality(M)
  BY <1>9, <1>10, <1>11, <1>12, OneEach
<1>14. DOMAIN fifo = 1 .. Len(fifo) /\ Len(fifo) \in Nat
  BY <1>5 DEF FifoOf
<1>15. Cardinality(1 .. Len(fifo)) = Len(fifo)
  <2>1. 1 + Len(fifo) - 1 = Len(fifo)
    BY <1>14
  <2> QED BY <1>14, <2>1, RowSize
<1>16. IsInjective(fifo)
  BY <1>5 DEF FifoOf, IsInjective
<1> QED BY <1>4, <1>6, <1>8, <1>13, <1>14, <1>15, <1>16 DEF ListOfSwap

\* The invariant says what MappingsExact does.
LEMMA MemInvMappings == ASSUME MemInv PROVE MappingsExact
<1>1. halt # "assert"
  BY DEF MemInv
<1>2. ASSUME NEW q \in Procs, mm[q] # NoMm PROVE MappingOK(q)
  <2>1. ~Idle
    BY <1>2 DEF Idle
  <2> QED BY <1>2, <2>1, SoundMapping DEF MemInv, Peers, Boot
<1>3. ASSUME NEW q \in Checked PROVE ListOfSwap(q)
  <2>1. CASE load = "heap"
    BY <1>3, <2>1 DEF MemInv, Idle, Checked
  <2>2. CASE load = "processes"
    BY <1>3, <2>2, NoneChecked DEF MemInv
  <2>3. CASE load = "check"
    <3>1. Boot(Now, held)
      BY <2>3 DEF MemInv
    <3>2. q = InitProc
      BY <1>3, <3>1, InitChecked DEF Boot
    <3> QED BY <3>1, <3>2, BootList
  <2> QED BY <2>1, <2>2, <2>3 DEF MemInv
<1> QED BY <1>1, <1>2, <1>3, Zenon DEF MappingsExact, MappingOK, ListOfSwap

\* Areas are in order, mapped pages lie in them below page tables, the list of swapping
\* has the mapped pages, and no assertion of the kernel fails.
THEOREM MappingsHold == Spec => []MappingsExact
<1>1. Init => MemInv
  BY MemStarts
<1>2. MemInv /\ [Next]_vars => MemInv'
  BY MemStep
<1>3. MemInv => MappingsExact
  BY MemInvMappings
<1> QED BY <1>1, <1>2, <1>3, PTL DEF Spec

-----------------------------------------------------------------------------
(* Memory implements AddressSpaces.                                        *)

\* The cells of a copy.
SpacesIn(k) == [q \in Procs |-> [v \in Addresses |-> CellIn(k, q, v)]]

\* What Cell says of the variables, CellIn says of a copy.
CellOf(k, q, v) ==
  IF k.mm[q] = NoMm THEN {}
  ELSE CASE k.mm[q].pte[v] \in Pages   -> {k.data[k.mm[q].pte[v]]}
         [] k.mm[q].pte[v] = SwapEntry -> {k.disk[v]}
         [] OTHER                      -> {}

\* What a cell holds is told by the entry of the page table.
LEMMA CellKinds ==
  ASSUME NEW k, \A q \in Procs : HasMm(k, q) <=> k.mm[q] # NoMm
  PROVE  \A q \in Procs, v \in Addresses : CellOf(k, q, v) = CellIn(k, q, v)
<1> SUFFICES ASSUME NEW q \in Procs, NEW v \in Addresses PROVE CellOf(k, q, v) = CellIn(k, q, v)
  OBVIOUS
<1>0. SwapEntry \notin Pages
  BY EntriesApart
<1>1. CASE k.mm[q] = NoMm
  <2>1. ~HasMm(k, q)
    BY <1>1
  <2>2. CellIn(k, q, v) = {}
    BY <2>1 DEF CellIn
  <2>3. CellOf(k, q, v) = {}
    BY <1>1, EntriesApart DEF CellOf
  <2> QED BY <2>2, <2>3
<1>2. CASE k.mm[q] # NoMm /\ k.mm[q].pte[v] \in Pages
  <2>1. HasMm(k, q)
    BY <1>2
  <2>2. PICK c : c = {k.data[k.mm[q].pte[v]]}
    OBVIOUS
  <2>3. CellIn(k, q, v) = c
    BY <1>2, <2>1, <2>2 DEF CellIn
  <2>4. CellOf(k, q, v) = c
    BY <1>0, <1>2, <2>2 DEF CellOf
  <2> QED BY <2>3, <2>4
<1>3. CASE k.mm[q] # NoMm /\ k.mm[q].pte[v] \notin Pages /\ k.mm[q].pte[v] = SwapEntry
  BY <1>0, <1>3 DEF CellOf, CellIn
<1>4. CASE k.mm[q] # NoMm /\ k.mm[q].pte[v] \notin Pages /\ k.mm[q].pte[v] # SwapEntry
  BY <1>4 DEF CellOf, CellIn
<1> QED BY <1>1, <1>2, <1>3, <1>4

\* Who has an mm has all of it.
LEMMA MemMm == MemInv => \A q \in Procs : HasMm(Now, q) <=> (Now).mm[q] # NoMm
<1> SUFFICES ASSUME MemInv PROVE \A q \in Procs : HasMm(Now, q) <=> (Now).mm[q] # NoMm
  OBVIOUS
<1>1. PICK k : k = Now
  OBVIOUS
<1>2. k.mm = mm
  BY <1>1 DEF Now
<1>3. DOMAIN NoMm # MmFields
  BY DEF NoMm, MmFields
<1>4. PICK H : Placed(H)
  BY MemPlaced
<1> QED BY <1>1, <1>2, <1>3, <1>4 DEF Placed, HasMm

\* The spaces are those of the kernel, before a step
LEMMA SpacesAre ==
  ASSUME \A q \in Procs : HasMm(Now, q) <=> (Now).mm[q] # NoMm
  PROVE  Spaces = SpacesIn(Now)
<1>1. PICK k : k = Now
  OBVIOUS
<1>2. \A q \in Procs, v \in Addresses : CellOf(k, q, v) = CellIn(k, q, v)
  BY <1>1, CellKinds
<1>3. k.mm = mm /\ k.data = data /\ k.disk = disk
  BY <1>1 DEF Now
<1>4. \A q, v : Cell(q, v) = CellOf(k, q, v)
  BY <1>3 DEF Cell, CellOf
<1>5. Spaces = SpacesIn(k)
  BY <1>2, <1>4 DEF Spaces, SpacesIn
<1> QED BY <1>1, <1>5

\* and after it.
LEMMA SpacesAreNext ==
  ASSUME \A q \in Procs : HasMm(Now', q) <=> (Now').mm[q] # NoMm
  PROVE  Spaces' = SpacesIn(Now')
<1>1. PICK k : k = Now'
  OBVIOUS
<1>2. \A q \in Procs, v \in Addresses : CellOf(k, q, v) = CellIn(k, q, v)
  BY <1>1, CellKinds
<1>3. k.mm = mm' /\ k.data = data' /\ k.disk = disk'
  BY <1>1 DEF Now
<1>4. \A q, v : Cell(q, v)' = CellOf(k, q, v)
  BY <1>3 DEF Cell, CellOf
<1>5. Spaces' = SpacesIn(k)
  BY <1>2, <1>4 DEF Spaces, SpacesIn
<1> QED BY <1>1, <1>5

\* The cells of the other processes, or the other cells, are as they were.
LEMMA SpacesBeside ==
  ASSUME NEW k, NEW t, NEW q \in Procs, CellsBeside(k, t, q), NEW row, \A v \in Addresses : CellIn(t, q, v) = row[v],
         row = [v \in Addresses |-> row[v]]
  PROVE  SpacesIn(t) = [SpacesIn(k) EXCEPT ![q] = row]
<1>1. \A r \in Procs, v \in Addresses : r # q => CellIn(t, r, v) = CellIn(k, r, v)
  BY DEF CellsBeside
<1>2. ASSUME NEW r \in Procs PROVE SpacesIn(t)[r] = [SpacesIn(k) EXCEPT ![q] = row][r]
  <2>1. CASE r = q
    <3>1. SpacesIn(t)[q] = row
      BY DEF SpacesIn
    <3>2. [SpacesIn(k) EXCEPT ![q] = row][q] = row
      BY DEF SpacesIn
    <3> QED BY <2>1, <3>1, <3>2
  <2>2. CASE r # q
    <3>1. SpacesIn(t)[r] = SpacesIn(k)[r]
      BY <1>1, <2>2 DEF SpacesIn
    <3> QED BY <2>2, <3>1 DEF SpacesIn
  <2> QED BY <2>1, <2>2
<1> QED BY <1>2 DEF SpacesIn

\* A change of one cell is one of the spaces.
LEMMA SpacesBut ==
  ASSUME NEW k, NEW t, NEW q \in Procs, NEW v \in Addresses, NEW x, CellsBut(k, t, q, v), Holds(t, q, v, x)
  PROVE  SpacesIn(t) = [SpacesIn(k) EXCEPT ![q][v] = {x}]
<1>1. \A r \in Procs, w \in Addresses : r # q \/ w # v => CellIn(t, r, w) = CellIn(k, r, w)
  BY DEF CellsBut
<1>2. CellIn(t, q, v) = {x}
  BY DEF Holds
<1>3. PICK c : c = {x}
  OBVIOUS
<1>4. ASSUME NEW r \in Procs PROVE SpacesIn(t)[r] = [SpacesIn(k) EXCEPT ![q][v] = c][r]
  <2>1. CASE r = q
    <3>1. SpacesIn(t)[q] = [SpacesIn(k)[q] EXCEPT ![v] = c]
      <4>1. SpacesIn(t)[q] = [w \in Addresses |-> CellIn(t, q, w)]
        BY DEF SpacesIn
      <4>2. SpacesIn(k)[q] = [w \in Addresses |-> CellIn(k, q, w)]
        BY DEF SpacesIn
      <4> QED BY <1>1, <1>2, <1>3, <4>1, <4>2
    <3>2. [SpacesIn(k) EXCEPT ![q][v] = c][q] = [SpacesIn(k)[q] EXCEPT ![v] = c]
      BY DEF SpacesIn
    <3> QED BY <2>1, <3>1, <3>2
  <2>2. CASE r # q
    <3>1. SpacesIn(t)[r] = SpacesIn(k)[r]
      BY <1>1, <2>2 DEF SpacesIn
    <3> QED BY <2>2, <3>1 DEF SpacesIn
  <2> QED BY <2>1, <2>2
<1>5. SpacesIn(t) = [SpacesIn(k) EXCEPT ![q][v] = c]
  BY <1>4 DEF SpacesIn
<1> QED BY <1>3, <1>5

\* A step of the cells is one of the spaces.
LEMMA SpaceMaps ==
  ASSUME Spaces = SpacesIn(Now), Spaces' = SpacesIn(Now'), SpaceStep(Now, Now')
  PROVE  Private!Next \/ UNCHANGED Spaces
<1>1. PICK k : k = Now
  OBVIOUS
<1>2. PICK t : t = Now'
  OBVIOUS
<1>3. Spaces = SpacesIn(k) /\ Spaces' = SpacesIn(t) /\ SpaceStep(k, t)
  BY <1>1, <1>2
<1>4. \A q \in Procs : \A v \in Addresses : Spaces[q][v] = CellIn(k, q, v)
  BY <1>3 DEF SpacesIn
<1>5. CASE CellsSame(k, t)
  BY <1>3, <1>5 DEF CellsSame, SpacesIn
<1>6. CASE \E q \in Procs : Leaves(k, t, q)
  <2>1. PICK q \in Procs : Leaves(k, t, q)
    BY <1>6
  <2>2. PICK row : row = Private!Nothing
    OBVIOUS
  <2>3. row = [v \in Addresses |-> {}]
    BY <2>2 DEF Private!Nothing
  <2>4. \A v \in Addresses : CellIn(t, q, v) = row[v]
    BY <2>1, <2>3 DEF Leaves
  <2>5. SpacesIn(t) = [SpacesIn(k) EXCEPT ![q] = row]
    BY <2>1, <2>3, <2>4, SpacesBeside DEF Leaves
  <2>6. Private!Leave(q)
    BY <1>3, <2>2, <2>5 DEF Private!Leave
  <2> QED BY <2>1, <2>6 DEF Private!Next
<1>7. CASE \E q \in Procs, c \in Procs : Copies(k, t, q, c)
  <2>1. PICK q \in Procs, c \in Procs : Copies(k, t, q, c)
    BY <1>7
  <2>2. PICK row : row = [v \in Addresses |-> CellIn(k, q, v)]
    OBVIOUS
  <2>3. \A v \in Addresses : CellIn(t, c, v) = row[v]
    BY <2>1, <2>2 DEF Copies
  <2>4. SpacesIn(t) = [SpacesIn(k) EXCEPT ![c] = row]
    BY <2>1, <2>2, <2>3, SpacesBeside DEF Copies
  <2>5. row = Spaces[q]
    BY <1>3, <2>2 DEF SpacesIn
  <2>6. Spaces[c] = Private!Nothing
    <3>1. Spaces[c] = [v \in Addresses |-> CellIn(k, c, v)]
      BY <1>3 DEF SpacesIn
    <3> QED BY <2>1, <3>1 DEF Copies, Private!Nothing
  <2>7. Private!Copy(q, c)
    BY <1>3, <2>4, <2>5, <2>6 DEF Private!Copy
  <2> QED BY <2>1, <2>7 DEF Private!Next, Copies
<1>8. CASE \E q \in Procs : \E prog \in Programs : Executes(k, t, q, prog)
  <2>1. PICK q \in Procs, prog \in Programs : Executes(k, t, q, prog)
    BY <1>8
  <2>2. PICK row : row = ImageOf(prog)
    OBVIOUS
  <2>3. row = [v \in Addresses |-> row[v]]
    BY <2>2, Zenon DEF ImageOf
  <2>4. \A v \in Addresses : CellIn(t, q, v) = row[v]
    BY <2>1, <2>2 DEF Executes
  <2>5. SpacesIn(t) = [SpacesIn(k) EXCEPT ![q] = row]
    BY <2>1, <2>3, <2>4, SpacesBeside DEF Executes
  <2>6. Private!Execute(q, row)
    BY <1>3, <2>5 DEF Private!Execute
  <2>7. row \in {ImageOf(p) : p \in Programs}
    BY <2>1, <2>2
  <2> QED BY <2>1, <2>6, <2>7 DEF Private!Next
<1>9. CASE \E q \in Procs : \E v \in Addresses : \E x \in Values : Stores(k, t, q, v, x)
  <2>1. PICK q \in Procs, v \in Addresses, x \in Values : Stores(k, t, q, v, x)
    BY <1>9
  <2>6. CellsBut(k, t, q, v) /\ Holds(t, q, v, x)
    BY <2>1 DEF Stores
  <2>2. SpacesIn(t) = [SpacesIn(k) EXCEPT ![q][v] = {x}]
    BY <2>6, SpacesBut
  <2>3. Spaces[q][v] # {}
    BY <1>4, <2>1 DEF Stores
  <2>4. PICK c : c = {x}
    OBVIOUS
  <2>5. Private!Store(q, v, c) /\ c \in {{y} : y \in Values}
    BY <1>3, <2>2, <2>3, <2>4 DEF Private!Store
  <2> QED BY <2>1, <2>5 DEF Private!Next
<1>10. CASE \E q \in Procs : \E v \in Addresses : Touches(k, t, q, v)
  <2>1. PICK q \in Procs, v \in Addresses : Touches(k, t, q, v)
    BY <1>10
  <2>2. SpacesIn(t) = [SpacesIn(k) EXCEPT ![q][v] = {Old}]
    BY <2>1, SpacesBut DEF Touches
  <2>3. Spaces[q][v] = {}
    BY <1>4, <2>1 DEF Touches
  <2>4. Private!Touch(q, v)
    BY <1>3, <2>2, <2>3 DEF Private!Touch
  <2> QED BY <2>1, <2>4 DEF Private!Next
<1> QED BY <1>3, <1>5, <1>6, <1>7, <1>8, <1>9, <1>10 DEF SpaceStep

\* Every step of the memory is a step of the spaces, or changes none.
LEMMA NextMaps == ASSUME MemInv, MemInv', [Next]_vars PROVE [Private!Next]_Spaces
<1>1. CASE UNCHANGED <<mm, data, disk>>
  <2>1. \A q, v : Cell(q, v)' = Cell(q, v)
    BY <1>1 DEF Cell
  <2>2. Spaces' = Spaces
    BY <2>1 DEF Spaces
  <2> QED BY <2>2
<1>2. CASE halt = "none" /\ load # "heap" /\ VmNext /\ UNCHANGED <<slob, bigblocks, objects, grown, load, held>>
  <2>1. SpaceStep(Now, Now')
    BY <1>2, VmStep
  <2>2. Spaces = SpacesIn(Now)
    BY MemMm, SpacesAre
  <2>3. Spaces' = SpacesIn(Now')
    <3>1. \A q \in Procs : HasMm(Now', q) <=> (Now').mm[q] # NoMm
      <4>1. (MemInv => \A q \in Procs : HasMm(Now, q) <=> (Now).mm[q] # NoMm)'
        BY MemMm, PTL
      <4> QED BY <4>1
    <3> QED BY <3>1, SpacesAreNext
  <2> QED BY <2>1, <2>2, <2>3, SpaceMaps
<1> QED BY <1>1, <1>2 DEF Next, Stopped, vars

\* No process sees what another does to its memory: memory implements AddressSpaces.
THEOREM SpacesArePrivate == Spec => SpacesPrivate
<1>1. Init => MemInv
  BY MemStarts
<1>2. MemInv /\ [Next]_vars => MemInv'
  BY MemStep
<1>3. MemInv /\ MemInv' /\ [Next]_vars => [Private!Next]_Spaces
  BY NextMaps
<1> QED BY <1>1, <1>2, <1>3, PTL DEF Spec, SpacesPrivate, Private!Spec

\* The units of the heap are each in a free block or in use, and the ring is in order,
\* whatever was allocated and freed (slob_alloc, slob_free and kfree, mm/kmalloc.c).
THEOREM SlobCorrect == Spec => []SlobExact
<1>1. Init => MemInv
  BY MemStarts
<1>2. MemInv /\ [Next]_vars => MemInv'
  BY MemStep
<1>3. MemInv => SlobExact
  BY SlobInvExact DEF MemInv
<1> QED BY <1>1, <1>2, <1>3, PTL DEF Spec
=============================================================================

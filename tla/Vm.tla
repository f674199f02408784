--------------------------------- MODULE Vm ---------------------------------
(***************************************************************************)
(* Address spaces: areas (mm/vmm.c), page tables and the counts of pages   *)
(* (mm/pmm.c), swapping (mm/swap.c, mm/swap_fifo.c), and how fork, exec,   *)
(* exit and wait use them (process/proc.c).                                *)
(*                                                                         *)
(* A handler takes and gives back many pages, and nothing runs in between: *)
(* it is one step.  It is written as a function of a copy k of the state,  *)
(* the fields of which are the variables below; k.got is the page last     *)
(* taken, k.ret what the function in hand returned.                        *)
(*                                                                         *)
(* An address is the number of a page of user space, 0 .. Top - 1.  Only   *)
(* alloc_page can run out of memory: the structures that kmalloc gives are *)
(* left to Kmalloc.  After the boot alloc_page never returns NULL either,  *)
(* so that the paths of failed copies are dead code, which is not here.    *)
(***************************************************************************)
EXTENDS FirstFit, Integers

CONSTANTS Procs, InitProc, Top, TablePages,  \* pages below a page table, NPTENTRY
          StackPages, EagerPages,  \* USTACKSIZE; what load_icode maps of it
          Programs, Values

KStackPages == 2

VARIABLES state,       \* "free", "live", "zombie"; "check" for the boot checks
          kstack,      \* process |-> first page of its kernel stack
          mm,          \* process |-> its mm, or NoMm
          ref,         \* page |-> page->ref
          data,        \* page |-> what it holds
          disk,        \* swap entry, one for each address |-> what it holds
          fifo,        \* pra_list_head, from head on
          pra          \* page |-> page->pra_vaddr

vmVars == <<area, halt, state, kstack, mm, ref, data, disk, fifo, pra>>

\* Program headers: what of the file, and how much of memory.
Segments == [start : Nat, file : Nat, mem : Nat, write : BOOLEAN, wrong : {"no", "short"}]

ASSUME VmAssumption ==
  /\ InitProc \in Procs
  /\ Top \in Nat \ {0} /\ TablePages \in Nat \ {0}
  /\ StackPages \in 1 .. Top /\ EagerPages \in 1 .. StackPages
  /\ \A prog \in Programs : prog.segs \in Seq(Segments)

Addresses == 0 .. Top - 1
Dir(v)    == v \div TablePages
Dirs      == {Dir(v) : v \in Addresses}
Zero      == NPages            \* a page table entry of 0
SwapEntry == NPages + 1        \* the entry of a page that is in its swap slot
Old       == "old"             \* what a page holds that nobody cleared
NoMm      == [pgdir |-> NoPage]
EmptyMm(p) == [pgdir |-> p, areas |-> <<>>,
               pd  |-> [d \in Dirs |-> NoPage], pte |-> [v \in Addresses |-> Zero]]

Now == [area |-> area, halt |-> halt, state |-> state, kstack |-> kstack, mm |-> mm,
        ref |-> ref, data |-> data, disk |-> disk, fifo |-> fifo, pra |-> pra,
        got |-> 0, ret |-> "ok"]

\* After a panic nothing else is seen of the handler.
Become(k) ==
  \/ /\ k.halt = "none" /\ UNCHANGED halt
     /\ area' = k.area /\ state' = k.state /\ kstack' = k.kstack /\ mm' = k.mm
     /\ ref' = k.ref /\ data' = k.data /\ disk' = k.disk /\ fifo' = k.fifo /\ pra' = k.pra
  \/ /\ k.halt # "none" /\ halt' = k.halt
     /\ UNCHANGED <<area, state, kstack, mm, ref, data, disk, fifo, pra>>

PanicIf(k, bad, why) == IF bad /\ k.halt = "none" THEN [k EXCEPT !.halt = why] ELSE k

-----------------------------------------------------------------------------
(* Pages: mm/pmm.c, mm/swap.c *)

FreePage(k, p) ==
  [k EXCEPT !.area = FreePages(@, p, 1), !.ref[p] = 0, !.data[p] = Old]

Checked == {q \in Procs : state[q] = "check"}   \* whose mm is check_mm_struct

\* swap_map_swappable and the address that the caller notes
MapSwappable(k, p, v) == [k EXCEPT !.fifo = <<p>> \o @, !.pra[p] = v]

\* swap_out of one page, the one at the tail of the list.
Evict(k, q, p, v) ==
  FreePage([PanicIf(k, k.mm[q].pte[v] \notin Pages, "assert") EXCEPT
              !.fifo = Front(@), !.disk[v] = k.data[p], !.mm[q].pte[v] = SwapEntry], p)
SwapOut(k) ==
  IF k.fifo = <<>> THEN PanicIf(k, TRUE, "assert")
  ELSE Evict(k, CHOOSE q \in Checked : TRUE, Last(k.fifo), k.pra[Last(k.fifo)])

\* alloc_page.  Without a page it swaps one out, of check_mm_struct, which is
\* NULL once the boot checks are over.
TakePage(k) ==
  LET Got(s, a) == IF a.page = NoPage THEN PanicIf(s, TRUE, "no page")
                   ELSE [s EXCEPT !.area = a.area, !.got = a.page]
      Try(s)    == Got(s, AllocPages(s.area, 1))
  IN  Try(IF AllocPages(k.area, 1).page # NoPage \/ Checked = {} THEN k ELSE SwapOut(k))

\* get_pte(pgdir, v, 1)
GetPte(k, q, v) ==
  LET Put(t) == [t EXCEPT !.ref[t.got] = 1, !.mm[q].pd[Dir(v)] = t.got]
  IN  IF k.mm[q].pd[Dir(v)] # NoPage THEN k ELSE Put(TakePage(k))

\* page_remove_pte
RemovePte(k, q, v) ==
  LET p == k.mm[q].pte[v]
      r == [k EXCEPT !.ref[p] = @ - 1, !.mm[q].pte[v] = Zero]
  IN  CASE p \notin Pages                -> k
        [] p \in Pages /\ r.ref[p] = 0 -> FreePage(r, p)
        [] OTHER                         -> r

\* page_insert
PageInsert(k, q, p, v) ==
  LET Put(t) == IF t.mm[q].pte[v] = p THEN t
                ELSE [RemovePte([t EXCEPT !.ref[p] = @ + 1], q, v) EXCEPT !.mm[q].pte[v] = p]
  IN  Put(GetPte(k, q, v))

\* pgdir_alloc_page; x is what the caller puts into the page.
PgdirAllocPage(k, q, v, x) ==
  LET Swappable(i, p) == PanicIf(MapSwappable(i, p, v), i.ref[p] # 1, "assert")
      Map(i, p) == IF q \in Checked THEN Swappable(i, p) ELSE i
      Fill(t)   == Map(PageInsert([t EXCEPT !.data[t.got] = x], q, t.got, v), t.got)
  IN  Fill(TakePage(k))

-----------------------------------------------------------------------------
(* Areas: mm/vmm.c *)

FindVma(m, v) == {i \in DOMAIN m.areas : m.areas[i].start <= v /\ v < m.areas[i].end}

\* Mutated form of Clash: only the area before is looked at.
ClashBefore(s, at, a) == at > 1 /\ s[at - 1].end > a.start

\* check_vma_overlap with the areas before and after
Clash(s, at, a) == \/ at > 1 /\ s[at - 1].end > a.start
                   \/ at <= Len(s) /\ a.end > s[at].start

\* insert_vma_struct: before the first area that starts later.
InsertVma(k, q, a) ==
  LET s     == k.mm[q].areas
      later == {i \in DOMAIN s : s[i].start > a.start}
      at    == IF later = {} THEN Len(s) + 1 ELSE Min(later)
  IN  PanicIf([k EXCEPT !.mm[q].areas = InsertAt(@, at, a)], Clash(s, at, a), "overlap")

\* mm_map looks for an area at the first address alone.
MmMap(k, q, a) ==
  IF a.start >= a.end \/ a.end > Top \/ FindVma(k.mm[q], a.start) # {}
  THEN [k EXCEPT !.ret = "inval"]
  ELSE InsertVma(k, q, a)

\* unmap_range; addresses without a page table are passed over.
UnmapRange(k, q, a) ==
  LET Turn(s, i) == RemovePte(s, q, a.start + i - 1) IN Loop(Turn, k, a.end - a.start)

\* exit_range: the page tables, each once.
DropTable(k, q, d) ==
  LET t == k.mm[q].pd[d] IN
  IF t = NoPage THEN k ELSE [FreePage(k, t) EXCEPT !.mm[q].pd[d] = NoPage]
ExitRange(k, q, a) ==
  LET Turn(s, i) == DropTable(s, q, Dir(a.start + i - 1)) IN Loop(Turn, k, a.end - a.start)

\* exit_mmap: all areas are unmapped before the first page table goes.
UnmapAreas(k, q, areas) ==
  LET Turn(s, i) == UnmapRange(s, q, areas[i]) IN Loop(Turn, k, Len(areas))
ExitAreas(k, q, areas) ==
  LET Turn(s, i) == ExitRange(s, q, areas[i]) IN Loop(Turn, k, Len(areas))

\* exit_mmap, put_pgdir and mm_destroy
FreeMm(k, q) ==
  LET areas   == k.mm[q].areas
      Drop(s) == [FreePage(s, s.mm[q].pgdir) EXCEPT !.mm[q] = NoMm]
  IN  Drop(ExitAreas(UnmapAreas(k, q, areas), q, areas))

\* setup_pgdir for a new mm
NewMm(k, q) == LET Put(t) == [t EXCEPT !.mm[q] = EmptyMm(t.got)] IN Put(TakePage(k))

\* Mutated form of CopyPage: the page is shared.
CopyShared(k, to, from, v) ==
  IF k.mm[from].pte[v] \notin Pages THEN k
  ELSE PageInsert(GetPte(k, to, v), to, k.mm[from].pte[v], v)

\* One page of copy_range
CopyPage(k, to, from, v) ==
  LET Put(t) == PageInsert([t EXCEPT !.data[t.got] = t.data[t.mm[from].pte[v]]], to, t.got, v)
  IN  IF k.mm[from].pte[v] \notin Pages THEN k ELSE Put(TakePage(GetPte(k, to, v)))

CopyRange(k, to, from, a) ==
  LET Turn(s, i) == CopyPage(s, to, from, a.start + i - 1) IN Loop(Turn, k, a.end - a.start)

\* dup_mmap goes through the areas from the last to the first.
DupArea(k, to, from, a) == CopyRange(InsertVma(k, to, a), to, from, a)
DupMmap(k, to, from) ==
  LET areas      == k.mm[from].areas
      Turn(s, i) == DupArea(s, to, from, areas[Len(areas) - i + 1])
  IN  Loop(Turn, k, Len(areas))

\* do_pgfault; a page in its slot is read back by swap_in.
SwapIn(k, q, v) ==
  LET Put(t) == MapSwappable(PageInsert([t EXCEPT !.data[t.got] = t.disk[v]], q, t.got, v), t.got, v)
  IN  Put(TakePage(k))

DoPgfault(k, q, v, write) ==
  LET hit     == FindVma(k.mm[q], v)
      Bring(g) == CASE g.mm[q].pte[v] = Zero      -> PgdirAllocPage(g, q, v, Old)
                    [] g.mm[q].pte[v] = SwapEntry -> SwapIn(g, q, v)
                    [] OTHER                      -> PanicIf(g, TRUE, "assert")
  IN  IF hit = {} \/ (write /\ ~k.mm[q].areas[Min(hit)].write) THEN [k EXCEPT !.ret = "inval"]
      ELSE Bring(GetPte(k, q, v))

-----------------------------------------------------------------------------
(* A program is a sequence of segments of file and mem pages from start.   *)
(* What is wrong with it, if anything: "header", or in a segment "short"   *)
(* (the file ends before it does).  A segment with p_filesz > p_memsz ends *)
(* the load as one does that mm_map refuses; one that has nothing in the   *)
(* file is passed over, and its pages are never mapped.                    *)

Stack == [start |-> Top - StackPages, end |-> Top, write |-> TRUE]

\* The pages of a segment, until one fails.
LoadPage(k, q, g, v) ==
  IF k.ret # "ok" THEN k
  ELSE [PgdirAllocPage(k, q, v, IF v < g.start + g.file THEN "file" ELSE "zero")
          EXCEPT !.ret = IF g.wrong = "short" THEN "short" ELSE @]
LoadPages(k, q, g) ==
  LET Turn(s, i) == LoadPage(s, q, g, g.start + i - 1) IN Loop(Turn, k, g.mem)

LoadSegment(k, q, g) ==
  LET extent == [start |-> g.start, end |-> g.start + g.mem, write |-> g.write]
  IN  IF k.ret # "ok" \/ g.file = 0 THEN k ELSE LoadPages(MmMap(k, q, extent), q, g)
LoadSegments(k, q, segs) ==
  LET Turn(s, i) == LoadSegment(s, q, segs[i]) IN Loop(Turn, k, Len(segs))

\* The first pages of the stack.
MapStack(k, q) ==
  LET Turn(s, i) == PgdirAllocPage(s, q, Top - i, Old) IN Loop(Turn, k, EagerPages)

LoadIcode(k, q, prog) ==
  LET new      == [NewMm(k, q) EXCEPT !.ret = IF prog.wrong = "header" THEN "elf" ELSE "ok"]
      Parts(s) == IF s.ret = "ok" THEN MmMap(s, q, Stack) ELSE s
      End(s)   == IF s.ret = "ok" THEN MapStack(s, q) ELSE FreeMm(s, q)
  IN  End(Parts(LoadSegments(new, q, prog.segs)))

\* What a program finds in its cells, by its headers.
ImageOf(prog) ==
  [v \in Addresses |->
     LET g == {h \in Range(prog.segs) : h.file > 0 /\ v \in h.start .. h.start + h.mem - 1} IN
     IF \E h \in g : v < h.start + h.file THEN {"file"}
     ELSE IF g # {} THEN {"zero"}
     ELSE IF v >= Top - EagerPages THEN {Old}
     ELSE {}]

DropMm(k, q) == IF k.mm[q] = NoMm THEN k ELSE FreeMm(k, q)

\* do_exit, as far as memory goes
ExitWith(k, q) == [DropMm(k, q) EXCEPT !.state[q] = "zombie"]

-----------------------------------------------------------------------------
(* do_fork.  The kernel stack is two pages in a row: without them the call *)
(* fails.  A kernel thread has no mm to copy.                              *)
Fork(q, child) ==
  /\ state[q] = "live" /\ state[child] = "free"
  /\ \A c \in Procs : c < child => state[c] # "free"
  /\ \E a \in {AllocPages(area, KStackPages)} :
       LET s == [Now EXCEPT !.area = a.area, !.kstack[child] = a.page, !.state[child] = "live"] IN
       \/ a.page = NoPage /\ UNCHANGED vmVars
       \/ a.page # NoPage /\ Become(IF mm[q] = NoMm THEN s ELSE DupMmap(NewMm(s, child), child, q))

\* do_execve; the file is there, or is not.
Exec(q, prog) ==
  /\ state[q] = "live" /\ q # InitProc
  /\ \E k \in {LoadIcode(DropMm(Now, q), q, prog)} :
       Become(IF k.ret = "ok" THEN k ELSE ExitWith(k, q))

\* do_exit: by the process, by a kill, or when do_execve finds no file.
Exit(q) == state[q] = "live" /\ q # InitProc /\ Become(ExitWith(Now, q))

\* do_wait gives the kernel stack back.
Reap(q) ==
  /\ state[q] = "zombie"
  /\ Become([Now EXCEPT !.area = FreePages(@, kstack[q], KStackPages),
                        !.kstack[q] = NoPage, !.state[q] = "free"])

Runs(q) == state[q] \in {"live", "check"} /\ mm[q] # NoMm

\* The program stores into a page that is there.
Write(q, v, x) ==
  /\ Runs(q) /\ mm[q].pte[v] \in Pages
  /\ \A i \in FindVma(mm[q], v) : mm[q].areas[i].write
  /\ data' = [data EXCEPT ![mm[q].pte[v]] = x]
  /\ UNCHANGED <<area, halt, state, kstack, mm, ref, disk, fifo, pra>>

\* An access that the page tables do not allow.  When do_pgfault fails,
\* trap_dispatch panics, before the do_exit that it has for the process.
Fault(q, v, write) ==
  /\ Runs(q)
  /\ \/ mm[q].pte[v] \notin Pages
     \/ write /\ \E i \in FindVma(mm[q], v) : ~mm[q].areas[i].write
  /\ \E k \in {DoPgfault(Now, q, v, write)} : Become(PanicIf(k, k.ret # "ok", "fault"))

VmNext == \E q \in Procs :
  \/ \E child \in Procs : Fork(q, child)
  \/ \E prog \in Programs : Exec(q, prog)
  \/ Exit(q)
  \/ Reap(q)
  \/ \E v \in Addresses : \/ \E x \in Values : Write(q, v, x)
                          \/ \E w \in BOOLEAN : Fault(q, v, w)
=============================================================================

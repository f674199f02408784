------------------------------- MODULE Stride -------------------------------
(***************************************************************************)
(* The stride scheduler (kern/schedule/default_sched.c) with its run queue,*)
(* the skew heap of libs/skew_heap.h, and processes that share the         *)
(* processor, sleep and come back.                                         *)
(*                                                                         *)
(* While nobody sleeps the scheduler implements StridePolicy.  A process   *)
(* that sleeps, or is created late, has a stride that may be any distance  *)
(* behind the others when it is queued.                                    *)
(***************************************************************************)
EXTENDS StrideWords, FiniteSets

CONSTANTS
  Sharers,     \* the processes, without idleproc
  None,        \* idleproc runs; the null pointer
  Priorities   \* bound: the priorities that processes set

ASSUME StrideAssumption ==
  /\ IsFiniteSet(Sharers) /\ None \notin Sharers
  /\ Priorities \subseteq 0 .. Words - 1

VARIABLES
  stride,     \* proc->lab6_stride
  priority,   \* proc->lab6_priority
  heap,       \* rq->lab6_run_pool, and left, right and parent of every process
  running,    \* current
  asleep,     \* the processes that sleep, or are not created yet
  sleepers,   \* the processes that may sleep; the others always run
  wrapped     \* history: some stride has wrapped

strideVars == <<stride, priority, heap, running, asleep, sleepers, wrapped>>

\* (Mutated form: strides are compared as the numbers they are.)
CompUnsigned(p, q) == stride[p] - stride[q]

Comp(p, q) == Signed(stride[p] - stride[q])

-----------------------------------------------------------------------------
(* The skew heap.  A heap has a root, and left, right and parent of each   *)
(* process.                                                                *)
Links == Sharers \cup {None}

Heaps == [root : Links, left : [Sharers -> Links], right : [Sharers -> Links],
          parent : [Sharers -> Links]]

\* Which of two roots comes to the top.
Top(a, b) ==
  IF a = None THEN b
  ELSE IF b = None \/ Comp(a, b) < 0 THEN a
  ELSE b

\* A call of skew_heap_merge for a and b that makes a nested call: who is on top gets
\* what that one returns on its left, and what it had there on its right.  The value
\* has the roots of the nested call.  (Mutated form: what it had is lost.)
CallLoses == [x \in [h : Heaps, a : Links, b : Links] |->
  IF None \in {x.a, x.b} THEN x
  ELSE LET p == Top(x.a, x.b)
           a == IF p = x.a THEN x.h.right[p] ELSE x.a
           b == IF p = x.a THEN x.b ELSE x.h.right[p]
           q == Top(a, b)
       IN  [h |-> [x.h EXCEPT !.left[p] = q, !.right[p] = None, !.parent[q] = p],
            a |-> a, b |-> b]]

Call == [x \in [h : Heaps, a : Links, b : Links] |->
  IF None \in {x.a, x.b} THEN x
  ELSE LET p == Top(x.a, x.b)
           a == IF p = x.a THEN x.h.right[p] ELSE x.a
           b == IF p = x.a THEN x.b ELSE x.h.right[p]
           q == Top(a, b)
       IN  [h |-> [x.h EXCEPT !.left[p] = q, !.right[p] = x.h.left[p], !.parent[q] = p],
            a |-> a, b |-> b]]

\* The first call, and those nested in it.
Calls(h, a, b) ==
  LET x[n \in 0 .. Cardinality(Sharers)] ==
        IF n = 0 THEN [h |-> h, a |-> a, b |-> b] ELSE Call[x[n - 1]]
  IN x

\* skew_heap_merge
Merge(h, a, b) == [Calls(h, a, b)[Cardinality(Sharers)].h EXCEPT !.root = Top(a, b)]

\* skew_heap_insert
HeapInsert(h, p) ==
  Merge([h EXCEPT !.left[p] = None, !.right[p] = None, !.parent[p] = None], h.root, p)

\* skew_heap_remove.  The pointers of p, which skew_heap_insert sets anew, are forgotten.
HeapRemove(h, p) ==
  LET m == Merge(h, h.left[p], h.right[p])
      u == h.parent[p]
      t == IF m.root = None THEN m ELSE [m EXCEPT !.parent[m.root] = u]
      r == IF u = None THEN t
           ELSE IF t.left[u] = p THEN [t EXCEPT !.root = h.root, !.left[u] = m.root]
           ELSE [t EXCEPT !.root = h.root, !.right[u] = m.root]
  IN  [r EXCEPT !.left[p] = None, !.right[p] = None, !.parent[p] = None]

Queued == Sharers \ (asleep \cup {running})

-----------------------------------------------------------------------------
\* Either everybody may sleep, or nobody; nobody has been queued.
StrideInit ==
  /\ stride = [p \in Sharers |-> 0]
  /\ priority = [p \in Sharers |-> 0]
  /\ running = None
  /\ sleepers \in {{}, Sharers}
  /\ asleep = Sharers
  /\ wrapped = FALSE
  /\ LET null == [p \in Sharers |-> None]
     IN  heap = [root |-> None, left |-> null, right |-> null, parent |-> null]

\* What the stride of p grows by each time it is taken.
\* (Mutated forms: the word's greatest value for the lowest priority; nothing.)
PassTooLarge(p) == IF priority[p] = 0 THEN Words - 1 ELSE BigStride \div priority[p]

PassNothing(p) == 0

Pass(p) == IF priority[p] = 0 THEN BigStride ELSE BigStride \div priority[p]

\* schedule() takes the root of h, or idleproc if there is none.
StridePickNext(h) ==
  /\ running' = h.root
  /\ IF h.root = None THEN UNCHANGED <<stride, wrapped>> /\ heap' = h
     ELSE /\ stride' = [stride EXCEPT ![h.root] = Wrapped(@ + Pass(h.root))]
          /\ wrapped' = (wrapped \/ stride[h.root] + Pass(h.root) >= Words)
          /\ heap' = HeapRemove(h, h.root)

\* schedule() called by a process that stays runnable.
Yield ==
  /\ running # None
  /\ \E h \in {HeapInsert(heap, running)} : StridePickNext(h)
  /\ UNCHANGED <<priority, asleep, sleepers>>

\* schedule() called by a process that sleeps, or exits and is not seen again.
Block ==
  /\ running \in sleepers
  /\ asleep' = asleep \cup {running}
  /\ StridePickNext(heap)
  /\ UNCHANGED <<priority, sleepers>>

\* schedule() called by idleproc.  (Those that never sleep are all there from the start.)
StrideIdle ==
  /\ running = None
  /\ sleepers = {} => asleep = {}
  /\ StridePickNext(heap)
  /\ UNCHANGED <<priority, asleep, sleepers>>

Wakeup(p) ==
  /\ p \in asleep
  /\ asleep' = asleep \ {p}
  /\ heap' = HeapInsert(heap, p)
  /\ UNCHANGED <<stride, priority, running, sleepers, wrapped>>

SetPriority(n) ==
  /\ running # None
  /\ priority' = [priority EXCEPT ![running] = IF n = 0 THEN 1 ELSE n]
  /\ UNCHANGED <<stride, heap, running, asleep, sleepers, wrapped>>

StrideNext ==
  \/ Yield
  \/ Block
  \/ StrideIdle
  \/ \E p \in Sharers : Wakeup(p)
  \/ \E n \in Priorities : SetPriority(n)

StrideSpec == StrideInit /\ [][StrideNext]_strideVars

\* idleproc, and whoever uses up its slice, calls schedule() again.  Those that never
\* sleep are queued one after the other.
StrideFairSpec ==
  /\ StrideSpec
  /\ WF_strideVars(Yield \/ Block \/ StrideIdle)
  /\ WF_strideVars(sleepers = {} /\ \E p \in Sharers : Wakeup(p))

-----------------------------------------------------------------------------
(* The heap is a tree of exactly the queued processes, whatever was merged *)
(* in which order: its pointers fit, also those to parents, the root has   *)
(* none, and nowhere do they lead in a circle.                             *)
HeapExact ==
  /\ heap.root = None <=> Queued = {}
  /\ heap.root # None => heap.root \in Queued /\ heap.parent[heap.root] = None
  /\ \A p \in Queued :
       /\ \A c \in {heap.left[p], heap.right[p]} \ {None} : c \in Queued /\ heap.parent[c] = p
       /\ heap.left[p] = heap.right[p] => heap.left[p] = None
       /\ p # heap.root =>
            LET u == heap.parent[p] IN u \in Queued /\ p \in {heap.left[u], heap.right[u]}
  /\ \A loop \in (SUBSET Queued) \ {{}} : \E p \in loop : heap.parent[p] \notin loop

\* How far the stride of p is ahead of that of q, as a uint32_t.
Ahead(p, q) ==
  IF stride[p] >= stride[q] THEN stride[p] - stride[q] ELSE stride[p] - stride[q] + Words

(* If the strides in the queue lie within BIG_STRIDE of the least, however *)
(* they came there, the process taken next has the least, also when the    *)
(* heap was built while they did not.                                      *)
LeastFirst ==
  \A q \in Queued :
    (\A p \in Queued : Ahead(p, q) <= BigStride) => stride[heap.root] = stride[q]

(* While nobody sleeps the heap and the words that wrap implement the      *)
(* policy, in which nobody is passed over unduly.                          *)
Policy == INSTANCE StridePolicy WITH
  stride <- IF sleepers = {} THEN stride ELSE [p \in Sharers |-> 0]
PolicySpec == Policy!Spec

(* A process that does not sleep for good runs again and again, also when  *)
(* others have slept and come back with strides that are no order any more *)
(* - unless others go on to sleep and come back without end, or processes  *)
(* with a priority above BIG_STRIDE, whose pass is 0, run again and again. *)
RunnerHasNoPass == running # None /\ priority[running] > BigStride

NoStarvation ==
  \A p \in Sharers :
    \/ []<>(running = p)
    \/ <>[](p \in asleep)
    \/ []<><<asleep' # asleep>>_strideVars
    \/ []<>RunnerHasNoPass

(* What the comment of stride_pick_next says: it takes the element with    *)
(* the minimum value of stride.  Here as long as no stride has wrapped, so *)
(* that there is no doubt which one is the minimum.                        *)
PicksMinimum ==
  ~wrapped => \A q \in Queued : stride[heap.root] <= stride[q]
=============================================================================

-------------------------------- MODULE Sem --------------------------------
(***************************************************************************)
(* Kernel semaphores (kern/sync/sem.c, over the wait queues of             *)
(* kern/sync/wait.c).  A semaphore is handed over: up() with somebody in   *)
(* the queue leaves the value alone and wakes the first in the queue, who  *)
(* has the unit from that moment on, although it runs later.               *)
(*                                                                         *)
(* The module has the state and the operations; modules that extend it add *)
(* the code that calls them.  A process that calls down() gives the place  *)
(* where it goes on; while it waits it is at "down_sched" (before          *)
(* schedule()) or "down_wake" (after it).                                  *)
(***************************************************************************)
EXTENDS Sched, Sequences, FiniteSets

CONSTANT Sems   \* the semaphores

VARIABLES
  pc,      \* where the process is
  value,   \* sem->value
  queue,   \* sem->wait_queue, the first to be woken first
  flags,   \* wait->wakeup_flags of the process' wait_t
  on,      \* the semaphore the process waits for
  then     \* where the process goes on when it has it

semData == <<value, queue, flags, on>>
semVars == <<schedVars, pc, semData, then>>

SemTypeOK(labels) ==
  /\ SchedTypeOK
  /\ pc \in [Procs -> labels]
  /\ value \in [Sems -> Nat]
  /\ queue \in [Sems -> Seq(Procs)]
  /\ flags \in [Procs -> {"WT_INTERRUPTED", "WT_KSEM"}]
  /\ on \in [Procs -> Sems]
  /\ then \in [Procs -> labels]

\* What on has when its process does not wait; no meaning.
NoSem == CHOOSE s \in Sems : TRUE

\* Processes P are runnable, one of them runs; semaphores have the values init.
SemInit(P, start, init) ==
  /\ current \in P
  /\ state = [p \in Procs |-> "RUNNABLE"]
  /\ waitState = [p \in Procs |-> "NONE"]
  /\ needResched = [p \in Procs |-> FALSE]
  /\ slice = [p \in Procs |-> IF p = Idle THEN 0 ELSE MaxTimeSlice]
  /\ rq = [p \in Procs |-> IF p \in P \ {current} THEN 1 ELSE 0]
  /\ pc = [p \in Procs |-> IF p = Idle THEN "idle" ELSE start]
  /\ value = init
  /\ queue = [s \in Sems |-> <<>>]
  /\ flags = [p \in Procs |-> "WT_INTERRUPTED"]
  /\ on = [p \in Procs |-> NoSem]
  /\ then = [p \in Procs |-> "idle"]

At(p, l) == current = p /\ pc[p] = l

Goto(p, l) == pc' = [pc EXCEPT ![p] = l]

SwitchTo(p, l) == Schedule /\ Goto(p, l)

-----------------------------------------------------------------------------
\* up(s).  (Mutated forms: the value is raised although the unit was handed
\* over; the last in the queue is woken; the woken is not told why.)
UpRaises(s) ==
  IF queue[s] = <<>>
  THEN /\ value' = [value EXCEPT ![s] = @ + 1]
       /\ UNCHANGED <<queue, flags, schedVars>>
  ELSE /\ queue' = [queue EXCEPT ![s] = Tail(@)]
       /\ flags' = [flags EXCEPT ![Head(queue[s])] = "WT_KSEM"]
       /\ WakeupProc(Head(queue[s]))
       /\ value' = [value EXCEPT ![s] = @ + 1]

UpLast(s) ==
  IF queue[s] = <<>>
  THEN /\ value' = [value EXCEPT ![s] = @ + 1]
       /\ UNCHANGED <<queue, flags, schedVars>>
  ELSE LET last == queue[s][Len(queue[s])] IN
       /\ queue' = [queue EXCEPT ![s] = SubSeq(@, 1, Len(@) - 1)]
       /\ flags' = [flags EXCEPT ![last] = "WT_KSEM"]
       /\ WakeupProc(last)
       /\ UNCHANGED value

UpNoFlags(s) ==
  IF queue[s] = <<>>
  THEN /\ value' = [value EXCEPT ![s] = @ + 1]
       /\ UNCHANGED <<queue, flags, schedVars>>
  ELSE /\ queue' = [queue EXCEPT ![s] = Tail(@)]
       /\ WakeupProc(Head(queue[s]))
       /\ UNCHANGED <<value, flags>>

Up(s) ==
  IF queue[s] = <<>>
  THEN /\ value' = [value EXCEPT ![s] = @ + 1]
       /\ UNCHANGED <<queue, flags, schedVars>>
  ELSE /\ queue' = [queue EXCEPT ![s] = Tail(@)]
       /\ flags' = [flags EXCEPT ![Head(queue[s])] = "WT_KSEM"]
       /\ WakeupProc(Head(queue[s]))
       /\ UNCHANGED value

\* down(s) called by p, which goes on at l.
Down(p, s, l) ==
  IF value[s] > 0
  THEN /\ value' = [value EXCEPT ![s] = @ - 1]
       /\ Goto(p, l)
       /\ UNCHANGED <<schedVars, queue, flags, on, then>>
  ELSE /\ SetSleeping("WT_KSEM")
       /\ queue' = [queue EXCEPT ![s] = Append(@, p)]
       /\ flags' = [flags EXCEPT ![p] = "WT_INTERRUPTED"]
       /\ on' = [on EXCEPT ![p] = s]
       /\ then' = [then EXCEPT ![p] = l]
       /\ Goto(p, "down_sched")
       /\ UNCHANGED <<current, needResched, slice, rq, value>>

DownSchedule(p) ==
  /\ At(p, "down_sched")
  /\ SwitchTo(p, "down_wake")
  /\ UNCHANGED <<semData, then>>

\* wait_in_queue and wait_queue_del.
InQueue(p, s) == \E i \in DOMAIN queue[s] : queue[s][i] = p

Without(q, p) == SelectSeq(q, LAMBDA r : r # p)

\* After schedule(): the wait_t leaves the queue if it is still in it, and is gone.
DownEnd(p) ==
  /\ At(p, "down_wake")
  /\ queue' = IF InQueue(p, on[p]) THEN [queue EXCEPT ![on[p]] = Without(@, p)] ELSE queue
  /\ Goto(p, then[p])
  /\ then' = [then EXCEPT ![p] = "idle"]
  /\ flags' = [flags EXCEPT ![p] = "WT_INTERRUPTED"]
  /\ on' = [on EXCEPT ![p] = NoSem]
  /\ UNCHANGED <<schedVars, value>>

-----------------------------------------------------------------------------
(* The assertions of __up and down: whoever is in the queue sleeps for a   *)
(* semaphore, and whoever comes back from down() was given the unit.       *)
UpDownAssertions ==
  /\ \A s \in Sems : queue[s] # <<>> => waitState[Head(queue[s])] = "WT_KSEM"
  /\ \A p \in Procs : At(p, "down_wake") => flags[p] = "WT_KSEM"

(* Nobody waits for a semaphore that is free, and who waits is in exactly  *)
(* one queue, once; who was given the unit is in none.                     *)
QueuesExact ==
  /\ \A s \in Sems : value[s] > 0 => queue[s] = <<>>
  /\ \A p \in Procs, s \in Sems :
       Cardinality({i \in DOMAIN queue[s] : queue[s][i] = p})
         = IF pc[p] \in {"down_sched", "down_wake"} /\ on[p] = s /\ flags[p] = "WT_INTERRUPTED"
           THEN 1 ELSE 0
=============================================================================

------------------------------- MODULE Sched -------------------------------
(***************************************************************************)
(* The scheduler core of the kernel: the state words of a process that    *)
(* kern/schedule/sched.c reads and writes, and the steps every sleeping    *)
(* and waking path of the kernel is made of (wakeup_proc, schedule and     *)
(* the scheduler's part of the clock interrupt).  Modules that model such  *)
(* a path extend this one.                                                 *)
(*                                                                         *)
(* One processor, and a kernel that is not preemptive: kernel code gives   *)
(* the processor away only by calling schedule(); between two such calls   *)
(* only interrupt handlers interleave with it, and only where interrupts   *)
(* are enabled.                                                            *)
(*                                                                         *)
(* The policy (default_sched.c, stride scheduling) is abstracted: pick_next*)
(* may return any queued process.                                          *)
(***************************************************************************)
EXTENDS Naturals

CONSTANTS
  Procs,         \* process slots; a slot stands for its struct and its pid
  Idle,          \* idleproc, pid 0
  MaxTimeSlice   \* rq->max_time_slice

ASSUME SchedAssumption ==
  /\ Idle \in Procs
  /\ MaxTimeSlice \in Nat \ {0}

VARIABLES
  current,      \* the process that has the processor
  state,        \* proc->state; "UNUSED" is a slot with no process
  waitState,    \* proc->wait_state
  needResched,  \* proc->need_resched
  slice,        \* proc->time_slice
  rq            \* how many times a process is in the run queue

schedVars == <<current, state, waitState, needResched, slice, rq>>

States == {"UNUSED", "SLEEPING", "RUNNABLE", "ZOMBIE"}

WaitStates == {"NONE", "WT_CHILD", "WT_KSEM", "WT_TIMER", "WT_KBD"}

\* wait_state & WT_INTERRUPTED
Interrupted(w) == w \in {"WT_CHILD", "WT_TIMER", "WT_KBD"}

SchedTypeOK ==
  /\ current \in Procs
  /\ state \in [Procs -> States]
  /\ waitState \in [Procs -> WaitStates]
  /\ needResched \in [Procs -> BOOLEAN]
  /\ slice \in [Procs -> 0 .. MaxTimeSlice]
  /\ rq \in [Procs -> Nat]

-----------------------------------------------------------------------------
(* sched_class_enqueue of every process of S; idleproc is never queued.    *)

EnqueueQueue(q, S) ==
  [p \in Procs |-> IF p \in S \ {Idle} THEN q[p] + 1 ELSE q[p]]

EnqueueSlice(sl, S) ==
  [p \in Procs |-> IF /\ p \in S \ {Idle}
                      /\ sl[p] = 0 \/ sl[p] > MaxTimeSlice
                   THEN MaxTimeSlice ELSE sl[p]]

\* wakeup_proc of every process of W, each at most once: one that is already
\* runnable is left alone, and the running process is not queued.
\* (Mutated forms: the running process is overlooked; it is queued as well;
\* the wait reason is kept.)
WokenOthers(W) == {p \in W \ {current} : state[p] # "RUNNABLE"}

Woken(W) == {p \in W : state[p] # "RUNNABLE"}

ToQueueAll(W) == Woken(W)

ToQueue(W) == Woken(W) \ {current}

MakeRunnableKeepsReason(W) ==
  /\ state' = [p \in Procs |-> IF p \in Woken(W) THEN "RUNNABLE" ELSE state[p]]
  /\ rq' = EnqueueQueue(rq, ToQueue(W))
  /\ UNCHANGED waitState

MakeRunnable(W) ==
  /\ state' = [p \in Procs |-> IF p \in Woken(W) THEN "RUNNABLE" ELSE state[p]]
  /\ waitState' = [p \in Procs |-> IF p \in Woken(W) THEN "NONE" ELSE waitState[p]]
  /\ rq' = EnqueueQueue(rq, ToQueue(W))

WokenSlice(W) == EnqueueSlice(slice, ToQueue(W))

WakeupProc(p) ==
  /\ MakeRunnable({p})
  /\ slice' = WokenSlice({p})
  /\ UNCHANGED <<current, needResched>>

\* The running process goes to sleep in wait state w; it keeps the processor
\* until it calls schedule().
SetSleeping(w) ==
  /\ state' = [state EXCEPT ![current] = "SLEEPING"]
  /\ waitState' = [waitState EXCEPT ![current] = w]

\* What schedule() may take next: any queued process, idleproc if there is none.
PickNext(q) ==
  IF \E p \in Procs : q[p] > 0 THEN {p \in Procs : q[p] > 0} ELSE {Idle}

Schedule ==
  LET self   == IF state[current] = "RUNNABLE" THEN {current} ELSE {}
      queued == EnqueueQueue(rq, self)
  IN  \E next \in PickNext(queued) :
        /\ current' = next
        /\ rq' = IF queued[next] > 0 THEN [queued EXCEPT ![next] = @ - 1] ELSE queued
        /\ slice' = EnqueueSlice(slice, self)
        /\ needResched' = [needResched EXCEPT ![current] = FALSE]
        /\ UNCHANGED <<state, waitState>>

\* stride_proc_tick of the running process, after the slices have become sl.
\* (Mutated form: the slice is charged without looking whether any is left.)
StrideTickUnchecked(sl) ==
  /\ slice' = [sl EXCEPT ![current] = @ - 1]
  /\ needResched' = [needResched EXCEPT ![current] = @ \/ sl[current] <= 1]

StrideTick(sl) ==
  /\ slice' = [sl EXCEPT ![current] = IF @ > 0 THEN @ - 1 ELSE 0]
  /\ needResched' = [needResched EXCEPT ![current] = @ \/ sl[current] <= 1]

ProcTick(sl) ==
  IF current = Idle
  THEN needResched' = [needResched EXCEPT ![Idle] = TRUE] /\ slice' = sl
  ELSE StrideTick(sl)

\* The scheduler's part of run_timer_list: wake the processes whose timers
\* fire, then charge the running process.
RunTimers(fired) ==
  /\ MakeRunnable(fired)
  /\ ProcTick(WokenSlice(fired))
  /\ UNCHANGED current

-----------------------------------------------------------------------------
(* Every runnable process that does not run is in the run queue, once, and *)
(* no other process is (sched.c: wakeup_proc does not queue `current', and *)
(* schedule() queues it only if it is still runnable): a process marked    *)
(* sleeping whose wakeup comes before it has called schedule() is neither  *)
(* lost nor queued twice.                                                  *)
RunQueueExact ==
  \A p \in Procs :
    rq[p] = IF state[p] = "RUNNABLE" /\ p # current /\ p # Idle THEN 1 ELSE 0

(* The state word and the wait reason agree: a process has a reason to     *)
(* wait exactly while it sleeps (do_fork asserts it of its caller, the     *)
(* wake-ups of do_exit, do_kill and run_timer_list decide by it).          *)
WaitStateConsistent ==
  \A p \in Procs : state[p] = "SLEEPING" <=> waitState[p] # "NONE"
=============================================================================

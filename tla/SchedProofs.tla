---------------------------- MODULE SchedProofs ----------------------------
(***************************************************************************)
(* What wakeup_proc, schedule and the clock preserve, for any set of        *)
(* processes and any time slice.  The proofs about modules that extend      *)
(* Sched cite these lemmas.                                                 *)
(***************************************************************************)
EXTENDS Sched, TLAPS

(* What the scheduler core keeps of its state: the types and the exact run *)
(* queue, given that idleproc never sleeps.                                *)
SchedInv ==
  /\ SchedTypeOK
  /\ RunQueueExact
  /\ state[Idle] = "RUNNABLE"

(* Queueing a set of processes counts each of them once, idleproc not at   *)
(* all, and leaves slices in their range (sched_class_enqueue).            *)
LEMMA EnqueueType ==
  ASSUME NEW S, NEW q \in [Procs -> Nat], NEW sl \in [Procs -> 0 .. MaxTimeSlice]
  PROVE  /\ EnqueueQueue(q, S) \in [Procs -> Nat]
         /\ EnqueueSlice(sl, S) \in [Procs -> 0 .. MaxTimeSlice]
  BY SchedAssumption, SMT DEF EnqueueQueue, EnqueueSlice

(* Waking any set of processes keeps the run queue exact: a woken process  *)
(* is queued once, the running one not at all (wakeup_proc).               *)
LEMMA MakeRunnableKeeps ==
  ASSUME SchedInv, NEW W, W \subseteq Procs, MakeRunnable(W), UNCHANGED current
  PROVE  /\ state' \in [Procs -> States]
         /\ waitState' \in [Procs -> WaitStates]
         /\ rq' \in [Procs -> Nat]
         /\ RunQueueExact'
         /\ state'[Idle] = "RUNNABLE"
<1>1. rq' \in [Procs -> Nat]
  BY EnqueueType DEF SchedInv, SchedTypeOK, MakeRunnable
<1>2. state' \in [Procs -> States] /\ waitState' \in [Procs -> WaitStates]
  BY DEF SchedInv, SchedTypeOK, MakeRunnable, States, WaitStates
<1>3. ASSUME NEW p \in Procs
      PROVE  rq'[p] = IF state'[p] = "RUNNABLE" /\ p # current /\ p # Idle THEN 1 ELSE 0
  <2>1. CASE p \in ToQueue(W)
    BY <2>1, SMT DEF SchedInv, SchedTypeOK, RunQueueExact, MakeRunnable, EnqueueQueue, ToQueue, Woken
  <2>2. CASE p \notin ToQueue(W)
    BY <2>2, SMT DEF SchedInv, SchedTypeOK, RunQueueExact, MakeRunnable, EnqueueQueue, ToQueue, Woken
  <2> QED BY <2>1, <2>2
<1>4. state'[Idle] = "RUNNABLE"
  BY SchedAssumption DEF SchedInv, MakeRunnable, Woken
<1> QED BY <1>1, <1>2, <1>3, <1>4 DEF RunQueueExact

(* wakeup_proc of one process.                                             *)
LEMMA WakeupProcKeeps ==
  ASSUME SchedInv, NEW p \in Procs, WakeupProc(p)
  PROVE  SchedInv'
<1>1. UNCHANGED current /\ MakeRunnable({p})
  BY DEF WakeupProc
<1>2. /\ state' \in [Procs -> States]
      /\ waitState' \in [Procs -> WaitStates]
      /\ rq' \in [Procs -> Nat]
      /\ RunQueueExact'
      /\ state'[Idle] = "RUNNABLE"
  BY <1>1, MakeRunnableKeeps
<1>3. slice' \in [Procs -> 0 .. MaxTimeSlice]
  BY EnqueueType DEF WakeupProc, WokenSlice, SchedInv, SchedTypeOK
<1> QED BY <1>2, <1>3 DEF WakeupProc, SchedInv, SchedTypeOK

(* schedule(): the process that gets the processor is runnable, and the    *)
(* run queue stays exact whether the caller still runs, sleeps or exits.   *)
LEMMA ScheduleKeeps ==
  ASSUME SchedInv, Schedule
  PROVE  SchedInv' /\ state'[current'] = "RUNNABLE" /\ UNCHANGED <<state, waitState>>
<1> DEFINE self == IF state[current] = "RUNNABLE" THEN {current} ELSE {}
           queued == EnqueueQueue(rq, self)
<1>1. PICK next \in PickNext(queued) :
        /\ current' = next
        /\ rq' = IF queued[next] > 0 THEN [queued EXCEPT ![next] = @ - 1] ELSE queued
        /\ slice' = EnqueueSlice(slice, self)
        /\ needResched' = [needResched EXCEPT ![current] = FALSE]
        /\ UNCHANGED <<state, waitState>>
  BY DEF Schedule
<1>2. queued \in [Procs -> Nat] /\ EnqueueSlice(slice, self) \in [Procs -> 0 .. MaxTimeSlice]
  BY EnqueueType DEF SchedInv, SchedTypeOK
<1>3. ASSUME NEW p \in Procs
      PROVE  queued[p] = IF state[p] = "RUNNABLE" /\ p # Idle THEN 1 ELSE 0
  <2>1. /\ rq[p] = IF state[p] = "RUNNABLE" /\ p # current /\ p # Idle THEN 1 ELSE 0
        /\ queued[p] = IF p \in self \ {Idle} THEN rq[p] + 1 ELSE rq[p]
    BY DEF SchedInv, RunQueueExact, EnqueueQueue
  <2>2. p \in self <=> p = current /\ state[p] = "RUNNABLE"
    OBVIOUS
  <2> HIDE DEF self, queued
  <2> QED BY <2>1, <2>2, SMT
<1>4. next \in Procs /\ state[next] = "RUNNABLE"
  BY <1>3, SchedAssumption DEF PickNext, SchedInv
<1>5. rq' \in [Procs -> Nat]
  BY <1>1, <1>2, <1>4, SMT
<1>6. ASSUME NEW p \in Procs
      PROVE  rq'[p] = IF state[p] = "RUNNABLE" /\ p # next /\ p # Idle THEN 1 ELSE 0
  <2>1. CASE queued[next] > 0
    BY <1>1, <1>2, <1>3, <1>4, <2>1, SMT
  <2>2. CASE ~(queued[next] > 0)
    <3>1. next = Idle
      BY <1>2, <1>3, <1>4, <2>2, SMT
    <3> QED BY <1>1, <1>3, <2>2, <3>1
  <2> QED BY <2>1, <2>2
<1>7. RunQueueExact'
  BY <1>1, <1>6 DEF RunQueueExact
<1>8. SchedTypeOK'
  BY <1>1, <1>2, <1>4, <1>5 DEF SchedInv, SchedTypeOK
<1> QED BY <1>1, <1>4, <1>7, <1>8 DEF SchedInv

(* idleproc gets the processor only if no other process is runnable.       *)
LEMMA IdleRunsLast ==
  ASSUME SchedInv, Schedule, current' = Idle, NEW p \in Procs \ {Idle}
  PROVE  state[p] # "RUNNABLE"
<1> DEFINE self == IF state[current] = "RUNNABLE" THEN {current} ELSE {}
           queued == EnqueueQueue(rq, self)
<1>1. queued \in [Procs -> Nat] /\ Idle \in PickNext(queued)
  BY EnqueueType DEF Schedule, SchedInv, SchedTypeOK
<1>2. /\ rq[p] = IF state[p] = "RUNNABLE" /\ p # current THEN 1 ELSE 0
      /\ queued[p] = IF p \in self THEN rq[p] + 1 ELSE rq[p]
      /\ rq[Idle] = 0 /\ queued[Idle] = rq[Idle]
  BY SchedAssumption DEF SchedInv, RunQueueExact, EnqueueQueue
<1>3. p \in self <=> p = current /\ state[p] = "RUNNABLE"
  OBVIOUS
<1> HIDE DEF self, queued
<1>4. queued[Idle] = 0 /\ (state[p] = "RUNNABLE" => queued[p] > 0)
  BY <1>2, <1>3, SMT
<1> QED BY <1>1, <1>4 DEF PickNext

(* The scheduler's part of the clock interrupt.                            *)
LEMMA RunTimersKeeps ==
  ASSUME SchedInv, NEW W, W \subseteq Procs, RunTimers(W)
  PROVE  SchedInv'
<1>1. UNCHANGED current /\ MakeRunnable(W) /\ ProcTick(WokenSlice(W))
  BY DEF RunTimers
<1>2. /\ state' \in [Procs -> States]
      /\ waitState' \in [Procs -> WaitStates]
      /\ rq' \in [Procs -> Nat]
      /\ RunQueueExact'
      /\ state'[Idle] = "RUNNABLE"
  BY <1>1, MakeRunnableKeeps
<1>3. WokenSlice(W) \in [Procs -> 0 .. MaxTimeSlice]
  BY EnqueueType DEF WokenSlice, SchedInv, SchedTypeOK
<1>4. slice' \in [Procs -> 0 .. MaxTimeSlice]
  BY <1>1, <1>3, SchedAssumption, SMT DEF ProcTick, StrideTick, SchedInv, SchedTypeOK
<1>5. needResched' \in [Procs -> BOOLEAN]
  BY <1>1, Zenon DEF ProcTick, StrideTick, SchedInv, SchedTypeOK
<1> QED BY <1>1, <1>2, <1>4, <1>5 DEF SchedInv, SchedTypeOK

(* Going to sleep in a state that only the running process has: it is not  *)
(* in the run queue, so the queue stays exact.                             *)
LEMMA SetSleepingKeeps ==
  ASSUME SchedInv, NEW w \in WaitStates, SetSleeping(w), current # Idle,
         UNCHANGED <<current, needResched, slice, rq>>
  PROVE  SchedInv'
  BY SchedAssumption DEF SchedInv, SchedTypeOK, RunQueueExact, SetSleeping, States
(* Waking nobody.                                                          *)
LEMMA NobodyWoken ==
  ASSUME SchedInv, UNCHANGED schedVars
  PROVE  SchedInv' /\ UNCHANGED current /\ MakeRunnable({})
<1>1. SchedInv' /\ UNCHANGED current
  BY DEF SchedInv, SchedTypeOK, RunQueueExact, schedVars
<1>2. \A p \in Procs : p \notin Woken({}) /\ p \notin ToQueue({}) \ {Idle}
  BY DEF Woken, ToQueue
<1>3. state' = [p \in Procs |-> IF p \in Woken({}) THEN "RUNNABLE" ELSE state[p]]
  BY <1>2 DEF SchedInv, SchedTypeOK, schedVars
<1>4. waitState' = [p \in Procs |-> IF p \in Woken({}) THEN "NONE" ELSE waitState[p]]
  BY <1>2 DEF SchedInv, SchedTypeOK, schedVars
<1>5. rq' = EnqueueQueue(rq, ToQueue({}))
  BY <1>2 DEF SchedInv, SchedTypeOK, schedVars, EnqueueQueue
<1> QED BY <1>1, <1>3, <1>4, <1>5 DEF MakeRunnable
=============================================================================

--------------------------- MODULE MonitorProofs ---------------------------
(***************************************************************************)
(* Proofs about Monitor in any use (MonitorUse), for any number of         *)
(* processes and of condition variables.                                   *)
(*                                                                         *)
(* The heart is that the monitor is a token: exactly one process has it,   *)
(* or it lies in the mutex.  Whoever gives it away decides by next_count   *)
(* and cv.count whether somebody waits for it; so the counts must be those *)
(* of the waiting, the queues must hold exactly them, and an up() must     *)
(* never meet an empty queue where a count has promised a process.         *)
(*                                                                         *)
(* The second half shows that Monitor implements HoareMonitor.  An up() of *)
(* the code is the moment at which the monitor changes hands; the down()   *)
(* that follows a signal or begins a wait changes nothing for the monitor, *)
(* since the caller counts as the last in the queue from the signal or the *)
(* wait on.                                                                *)
(***************************************************************************)
EXTENDS MonitorUse, SchedProofs, FiniteSetTheorems, SequenceTheorems

InDown(p) == pc[p] \in {"down_sched", "down_wake"}

\* Between two calls of schedule() inside of cond_signal or cond_wait.
Inside == {"sig_down", "sig_end", "wait_down", "wait_end"}

(* Where a process is, and its state.                                      *)
PlaceOK(p) ==
  /\ pc[p] = "idle" <=> p = Idle
  /\ state[p] \in {"RUNNABLE", "SLEEPING"}
  /\ state[p] = "SLEEPING" <=> InDown(p) /\ flags[p] = "WT_INTERRUPTED"
  /\ state[p] = "SLEEPING" => waitState[p] = "WT_KSEM"
  /\ pc[p] = "down_sched" <=> p = current /\ state[p] = "SLEEPING"
  /\ pc[p] \in Inside => p = current

(* Where a process that waits goes on is the way from its semaphore.       *)
ReturnOK(p) ==
  /\ InDown(p) =>
       \/ on[p] = mutex /\ then[p] = "in"
       \/ on[p] = next /\ then[p] = "sig_end" /\ ret[p] = "in"
       \/ on[p] = CvSem(cv[p]) /\ then[p] = "wait_end" /\ ret[p] = "in"
  /\ pc[p] \in Inside => ret[p] = "in"

(* The queue of a semaphore holds those that wait for it, each once.       *)
QueueOK ==
  /\ \A s \in Sems : \A i \in DOMAIN queue[s] : Waits(queue[s][i], s)
  /\ \A s \in Sems : \A i, j \in DOMAIN queue[s] : queue[s][i] = queue[s][j] => i = j
  /\ \A p \in Procs, s \in Sems : Waits(p, s) => InQueue(p, s)

(* One process has the monitor or the mutex is free, and when it is free   *)
(* nobody stands at the door or stands back.                               *)
OwnerOK ==
  /\ \A p, q \in Owners : p = q
  /\ \A s \in Sems : value[s] = IF s = mutex /\ Owners = {} THEN 1 ELSE 0
  /\ Owners = {} => /\ queue[mutex] = <<>> /\ queue[next] = <<>>
                    /\ \A p \in Users : pc[p] # "sig_down"

(* idleproc runs when nobody else can.                                     *)
IdleOK == current = Idle => \A p \in Users : state[p] # "RUNNABLE"

IInv ==
  /\ TypeOK
  /\ SchedInv
  /\ \A p \in Procs : PlaceOK(p)
  /\ \A p \in Users : ReturnOK(p)
  /\ QueueOK
  /\ OwnerOK
  /\ CountsExact
  /\ IdleOK

-----------------------------------------------------------------------------
LEMMA SemNames ==
  /\ mutex \in Sems /\ next \in Sems /\ mutex # next
  /\ \A c \in Cvs : CvSem(c) \in Sems /\ CvSem(c) # mutex /\ CvSem(c) # next
  /\ \A c, d \in Cvs : CvSem(c) = CvSem(d) => c = d
  /\ \A s \in Sems : s = mutex \/ s = next \/ \E c \in Cvs : s = CvSem(c)
  /\ NoSem \in Sems /\ NoCv \in Cvs
<1>1. mutex \in Sems /\ next \in Sems /\ \A c \in Cvs : CvSem(c) \in Sems
  BY MonitorAssumption
<1>2. mutex # next /\ \A c \in Cvs : CvSem(c) # mutex /\ CvSem(c) # next
  BY DEF mutex, next, CvSem
<1>3. \A c, d \in Cvs : CvSem(c) = CvSem(d) => c = d
  BY DEF CvSem
<1>4. \A s \in Sems : s = mutex \/ s = next \/ \E c \in Cvs : s = CvSem(c)
  BY MonitorAssumption
<1>5. NoSem \in Sems /\ NoCv \in Cvs
  BY <1>1, MonitorAssumption DEF NoSem, NoCv
<1> QED BY <1>1, <1>2, <1>3, <1>4, <1>5

(* The process that runs a routine of the monitor and does not wait.       *)
LEMMA Caller ==
  ASSUME IInv, NEW p \in Users, current = p, pc[p] # "down_sched", pc[p] # "down_wake"
  PROVE  /\ p \in Procs /\ p # Idle /\ state[p] = "RUNNABLE" /\ ~InDown(p)
         /\ \A q \in Procs : q # p => pc[q] \notin Inside /\ pc[q] # "down_sched"
  BY DEF IInv, PlaceOK, Users, InDown

(* Who has the monitor, when a process is in it.                           *)
LEMMA InMonitor ==
  ASSUME IInv, NEW p \in Users, pc[p] \in {"in", "sig_end", "wait_end"}
  PROVE  Owners = {p}
  BY DEF IInv, OwnerOK, Owners

(* An up() of a semaphore somebody waits for wakes the first one, who is   *)
(* asleep, and nobody else.                                                *)
LEMMA UpWakes ==
  ASSUME IInv, NEW s \in Sems, queue[s] # <<>>, Up(s)
  PROVE  /\ SchedInv' /\ UNCHANGED <<current, value>>
         /\ Head(queue[s]) \in Users /\ Waits(Head(queue[s]), s)
         /\ queue' = [queue EXCEPT ![s] = Tail(@)]
         /\ flags' = [flags EXCEPT ![Head(queue[s])] = "WT_KSEM"]
         /\ \A q \in Procs :
              /\ state'[q] = IF q = Head(queue[s]) THEN "RUNNABLE" ELSE state[q]
              /\ q # Head(queue[s]) => waitState'[q] = waitState[q]
<1> DEFINE h == Head(queue[s])
<1>1. queue[s] \in Seq(Procs) /\ 1 \in DOMAIN queue[s] /\ h = queue[s][1] /\ h \in Procs
  BY DEF IInv, TypeOK, SemTypeOK
<1>2. Waits(h, s)
  BY <1>1 DEF IInv, QueueOK
<1>3. h \in Users
  BY <1>1, <1>2 DEF Users, Waits, IInv, PlaceOK
<1>4. WakeupProc(h) /\ value' = value /\ queue' = [queue EXCEPT ![s] = Tail(@)]
      /\ flags' = [flags EXCEPT ![h] = "WT_KSEM"]
  BY DEF Up
<1>5. SchedInv'
  BY <1>1, <1>4, WakeupProcKeeps DEF IInv
<1>6. \A q \in Procs :
        /\ state'[q] = IF q = h THEN "RUNNABLE" ELSE state[q]
        /\ q # h => waitState'[q] = waitState[q]
  BY <1>4 DEF WakeupProc, MakeRunnable, Woken
<1> QED BY <1>2, <1>3, <1>4, <1>5, <1>6 DEF WakeupProc

(* The queues after it.                                                    *)
LEMMA UpQueues ==
  ASSUME IInv, NEW s \in Sems, queue[s] # <<>>,
         queue' = [queue EXCEPT ![s] = Tail(@)],
         \A q \in Procs, t \in Sems : Waits(q, t)' <=> Waits(q, t) /\ q # Head(queue[s])
  PROVE  QueueOK' /\ queue' \in [Sems -> Seq(Procs)]
<1> DEFINE h == Head(queue[s])
<1>1. queue \in [Sems -> Seq(Procs)] /\ queue[s] \in Seq(Procs) /\ 1 \in DOMAIN queue[s]
      /\ h = queue[s][1]
  BY DEF IInv, TypeOK, SemTypeOK
<1>2. /\ queue'[s] \in Seq(Procs)
      /\ \A i \in DOMAIN queue'[s] : i + 1 \in DOMAIN queue[s] /\ i + 1 # 1 /\ queue'[s][i] = queue[s][i + 1]
      /\ \A i \in DOMAIN queue[s] : i # 1 => i - 1 \in DOMAIN queue'[s] /\ queue'[s][i - 1] = queue[s][i]
  BY <1>1
<1>3. \A i, j \in DOMAIN queue'[s] : i + 1 = j + 1 => i = j
  BY <1>2
<1>4. \A t \in Sems : t # s => queue'[t] = queue[t]
  BY <1>1
<1>5. queue' \in [Sems -> Seq(Procs)]
  BY <1>1, <1>2
<1>6. \A t \in Sems : \A i \in DOMAIN queue[t] : queue[t][i] \in Procs /\ Waits(queue[t][i], t)
  BY <1>1 DEF IInv, QueueOK
<1>7. ASSUME NEW t \in Sems, NEW i \in DOMAIN queue'[t]
      PROVE  Waits(queue[t][i], t)'
  <2>1. queue'[t][i] \in Procs /\ Waits(queue'[t][i], t) /\ queue'[t][i] # h
    <3>1. CASE t = s
      BY <1>1, <1>2, <1>6, <3>1 DEF IInv, QueueOK
    <3>2. CASE t # s
      <4>1. Waits(h, s)
        BY <1>1, <1>6
      <4> QED BY <1>4, <1>6, <3>2, <4>1 DEF Waits
    <3> QED BY <3>1, <3>2
  <2> QED BY <2>1 DEF Waits
<1>8. ASSUME NEW t \in Sems, NEW i \in DOMAIN queue'[t], NEW j \in DOMAIN queue'[t],
             queue'[t][i] = queue'[t][j]
      PROVE  i = j
  <2>1. CASE t = s
    BY <1>2, <1>3, <1>8, <2>1 DEF IInv, QueueOK
  <2>2. CASE t # s
    BY <1>4, <1>8, <2>2 DEF IInv, QueueOK
  <2> QED BY <2>1, <2>2
<1>9. ASSUME NEW q \in Procs, NEW t \in Sems, Waits(q, t)'
      PROVE  InQueue(q, t)'
  <2>1. PICK i \in DOMAIN queue[t] : queue[t][i] = q
    BY <1>9 DEF IInv, QueueOK, InQueue
  <2>2. q # h
    BY <1>9 DEF Waits
  <2>3. CASE t = s
    BY <1>1, <1>2, <2>1, <2>2, <2>3 DEF InQueue
  <2>4. CASE t # s
    BY <1>4, <2>1, <2>4 DEF InQueue
  <2> QED BY <2>3, <2>4
<1> QED BY <1>5, <1>7, <1>8, <1>9 DEF QueueOK

(* Nobody begins or ceases to wait.                                        *)
LEMMA SameQueues ==
  ASSUME IInv, UNCHANGED queue, \A q \in Procs, t \in Sems : Waits(q, t)' <=> Waits(q, t)
  PROVE  QueueOK'
<1>1. \A t \in Sems : \A i \in DOMAIN queue[t] : queue[t][i] \in Procs /\ Waits(queue[t][i], t)
  BY DEF IInv, QueueOK, TypeOK, SemTypeOK
<1>2. ASSUME NEW t \in Sems, NEW i \in DOMAIN queue[t]
      PROVE  Waits(queue[t][i], t)'
  BY <1>1 DEF Waits
<1>3. ASSUME NEW q \in Procs, NEW t \in Sems, Waits(q, t)'
      PROVE  InQueue(q, t)
  BY <1>3 DEF IInv, QueueOK, Waits
<1> QED BY <1>2, <1>3 DEF IInv, QueueOK, InQueue

-----------------------------------------------------------------------------
(* A process calls down() where it has to wait: at the door, after a       *)
(* signal, or for a condition.                                             *)
LEMMA SleepKeeps ==
  ASSUME IInv, NEW p \in Users, current = p, NEW s \in Sems, NEW l \in Labels, value[s] = 0,
         \/ pc[p] = "out" /\ s = mutex /\ l = "in"
         \/ pc[p] = "sig_down" /\ s = next /\ l = "sig_end"
         \/ pc[p] = "wait_down" /\ s = CvSem(cv[p]) /\ l = "wait_end",
         Down(p, s, l), UNCHANGED <<monData, cv, ret>>
  PROVE  IInv'
<1>1. p \in Procs /\ p # Idle /\ state[p] = "RUNNABLE" /\ ~InDown(p)
      /\ \A q \in Procs : q # p => pc[q] \notin Inside /\ pc[q] # "down_sched"
  BY Caller
<1>2. /\ SetSleeping("WT_KSEM") /\ UNCHANGED <<current, needResched, slice, rq, value>>
      /\ queue' = [queue EXCEPT ![s] = Append(@, p)]
      /\ flags' = [flags EXCEPT ![p] = "WT_INTERRUPTED"]
      /\ on' = [on EXCEPT ![p] = s] /\ then' = [then EXCEPT ![p] = l]
      /\ pc' = [pc EXCEPT ![p] = "down_sched"]
  BY DEF Down, Goto
<1>3. SchedInv'
  BY <1>1, <1>2, SetSleepingKeeps DEF IInv, WaitStates
<1>4. TypeOK'
  <2>1. queue' \in [Sems -> Seq(Procs)]
    BY <1>1, <1>2 DEF IInv, TypeOK, SemTypeOK
  <2>2. pc' \in [Procs -> Labels] /\ then' \in [Procs -> Labels] /\ on' \in [Procs -> Sems]
        /\ flags' \in [Procs -> {"WT_INTERRUPTED", "WT_KSEM"}]
    BY <1>1, <1>2 DEF IInv, TypeOK, SemTypeOK, Labels
  <2> QED BY <1>2, <1>3, <2>1, <2>2 DEF IInv, TypeOK, SemTypeOK, SchedInv, monData
<1>5. \A q \in Procs : pc[q] \in Labels /\ flags[q] \in {"WT_INTERRUPTED", "WT_KSEM"}
       /\ pc'[q] = (IF q = p THEN "down_sched" ELSE pc[q]) /\ on'[q] = (IF q = p THEN s ELSE on[q])
       /\ then'[q] = (IF q = p THEN l ELSE then[q])
       /\ flags'[q] = (IF q = p THEN "WT_INTERRUPTED" ELSE flags[q])
       /\ state'[q] = (IF q = p THEN "SLEEPING" ELSE state[q])
       /\ waitState'[q] = (IF q = p THEN "WT_KSEM" ELSE waitState[q])
       /\ cv'[q] = cv[q] /\ ret'[q] = ret[q]
  BY <1>2 DEF IInv, TypeOK, SemTypeOK, SchedTypeOK, SetSleeping
<1>6. \A q \in Procs : PlaceOK(q)'
  BY <1>1, <1>2, <1>5 DEF IInv, PlaceOK, InDown, Inside
<1>7. \A q \in Users : ReturnOK(q)'
  BY <1>1, <1>5 DEF IInv, ReturnOK, InDown, Inside, Users
<1>9. QueueOK'
  <2>1. queue \in [Sems -> Seq(Procs)] /\ queue[s] \in Seq(Procs)
    BY DEF IInv, TypeOK, SemTypeOK
  <2>2. /\ DOMAIN queue'[s] = DOMAIN queue[s] \cup {Len(queue[s]) + 1} /\ Len(queue[s]) + 1 \notin DOMAIN queue[s]
        /\ queue'[s][Len(queue[s]) + 1] = p
        /\ \A i \in DOMAIN queue[s] : queue'[s][i] = queue[s][i]
        /\ \A t \in Sems : t # s => queue'[t] = queue[t]
    BY <1>2, <2>1
  <2>3. \A t \in Sems : \A i \in DOMAIN queue[t] : queue[t][i] \in Procs /\ Waits(queue[t][i], t) /\ queue[t][i] # p
    BY <1>1, <2>1 DEF IInv, QueueOK, Waits, InDown
  <2>4. ASSUME NEW t \in Sems, NEW i \in DOMAIN queue'[t]
        PROVE  Waits(queue[t][i], t)'
    <3>1. \/ t = s /\ queue'[t][i] = p
          \/ i \in DOMAIN queue[t] /\ queue'[t][i] = queue[t][i]
      BY <2>2
    <3> QED BY <1>1, <1>5, <2>3, <3>1 DEF Waits
  <2>5. ASSUME NEW t \in Sems, NEW i \in DOMAIN queue'[t], NEW j \in DOMAIN queue'[t],
               queue'[t][i] = queue'[t][j]
        PROVE  i = j
    BY <2>2, <2>3, <2>5 DEF IInv, QueueOK
  <2>6. ASSUME NEW q \in Procs, NEW t \in Sems, Waits(q, t)'
        PROVE  InQueue(q, t)'
    <3>1. (q = p /\ t = s) \/ Waits(q, t)
      BY <1>1, <1>5, <2>6 DEF Waits
    <3>2. CASE Waits(q, t)
      BY <2>2, <3>2 DEF IInv, QueueOK, InQueue
    <3>3. CASE q = p /\ t = s
      BY <2>2, <3>3 DEF InQueue
    <3> QED BY <3>1, <3>2, <3>3
  <2> QED BY <2>4, <2>5, <2>6 DEF QueueOK
<1>10. Owners' = Owners
  BY <1>1, <1>5 DEF Owners, Users, InDown
<1>11. OwnerOK'
  <2>1. s = mutex \/ s = next => Owners # {}
    BY <1>1, SemNames DEF IInv, TypeOK, OwnerOK
  <2>2. \A q \in Users : pc'[q] = "sig_down" => pc[q] = "sig_down"
    BY <1>5 DEF Users
  <2>3. s # mutex /\ s # next => queue'[mutex] = queue[mutex] /\ queue'[next] = queue[next]
    BY <1>2, SemNames DEF IInv, TypeOK, SemTypeOK
  <2> QED BY <1>2, <1>10, <2>1, <2>2, <2>3 DEF IInv, OwnerOK
<1>12. CountsExact'
  <2>1. Signallers' = Signallers
    BY <1>1, <1>5, SemNames DEF Signallers, InDown, IInv, TypeOK
  <2>2. \A c \in Cvs : WaitersOn(c)' = WaitersOn(c)
    BY <1>1, <1>5, SemNames DEF WaitersOn, InDown, IInv, TypeOK
  <2> QED BY <2>1, <2>2 DEF IInv, CountsExact, monData
<1>13. IdleOK'
  BY <1>1, <1>2 DEF IdleOK
<1> QED BY <1>3, <1>4, <1>6, <1>7, <1>9, <1>11, <1>12, <1>13 DEF IInv

-----------------------------------------------------------------------------
(* The process that has the monitor gives it away by an up() of s: to the  *)
(* first that waits for s, or to nobody if s is the mutex and nobody waits *)
(* for it or stands back.                                                  *)
LEMMA GiveKeeps ==
  ASSUME IInv, NEW p \in Users, current = p, pc[p] = "in", NEW s \in Sems, Up(s),
         NEW l \in {"out", "sig_down", "wait_down"}, Goto(p, l), UNCHANGED <<on, then>>,
         queue[s] # <<>> \/ (s = mutex /\ queue[next] = <<>> /\ l # "sig_down"),
         \A q \in Procs : q # p => ret'[q] = ret[q] /\ cv'[q] = cv[q],
         l \in Inside => ret'[p] = "in",
         ret' \in [Procs -> Labels], cv' \in [Procs -> Cvs],
         nextCount' \in Nat, count' \in [Cvs -> Nat], CountsExact'
  PROVE  IInv'
<1>1. p \in Procs /\ p # Idle /\ state[p] = "RUNNABLE" /\ ~InDown(p)
      /\ \A q \in Procs : q # p => pc[q] \notin Inside /\ pc[q] # "down_sched"
  BY Caller
<1>2. Owners = {p}
  BY InMonitor
<1>3. \A q \in Procs : /\ pc'[q] = (IF q = p THEN l ELSE pc[q]) /\ on'[q] = on[q] /\ then'[q] = then[q]
                       /\ pc[q] \in Labels /\ flags[q] \in {"WT_INTERRUPTED", "WT_KSEM"}
  BY DEF Goto, IInv, TypeOK, SemTypeOK
<1>4. pc' \in [Procs -> Labels]
  BY DEF Goto, IInv, TypeOK, SemTypeOK, Labels
<1>5. CASE queue[s] # <<>>
  <2> DEFINE h == Head(queue[s])
  <2>1. /\ SchedInv' /\ UNCHANGED <<current, value>> /\ h \in Users /\ Waits(h, s)
        /\ queue' = [queue EXCEPT ![s] = Tail(@)] /\ flags' = [flags EXCEPT ![h] = "WT_KSEM"]
        /\ \A q \in Procs :
             /\ state'[q] = IF q = h THEN "RUNNABLE" ELSE state[q]
             /\ q # h => waitState'[q] = waitState[q]
    BY <1>5, UpWakes
  <2> HIDE DEF h
  <2>2. h \in Procs /\ h # p /\ h # Idle /\ InDown(h) /\ flags[h] = "WT_INTERRUPTED" /\ on[h] = s
        /\ pc[h] = "down_wake"
    BY <1>1, <2>1 DEF Waits, InDown, Users
  <2>3. \A q \in Procs : flags'[q] = IF q = h THEN "WT_KSEM" ELSE flags[q]
    BY <2>1 DEF IInv, TypeOK, SemTypeOK
  <2>4. QueueOK' /\ queue' \in [Sems -> Seq(Procs)]
    <3>1. \A q \in Procs, t \in Sems : Waits(q, t)' <=> Waits(q, t) /\ q # h
      BY <1>1, <1>3, <2>2, <2>3 DEF Waits, InDown
    <3> QED BY <1>5, <2>1, <3>1, UpQueues DEF h
  <2>5. TypeOK'
    <3>1. flags' \in [Procs -> {"WT_INTERRUPTED", "WT_KSEM"}]
      BY <2>1 DEF IInv, TypeOK, SemTypeOK
    <3> QED BY <1>4, <2>1, <2>4, <3>1 DEF IInv, TypeOK, SemTypeOK, SchedInv
  <2>6. \A q \in Procs : PlaceOK(q)'
    BY <1>1, <1>3, <2>1, <2>2, <2>3 DEF IInv, PlaceOK, InDown, Inside, Users
  <2>7. \A q \in Users : ReturnOK(q)'
    BY <1>1, <1>3 DEF IInv, ReturnOK, InDown, Inside, Users
  <2>8. Owners' = {h}
    <3>1. h \in Owners'
      BY <1>3, <2>1, <2>2, <2>3 DEF Owners, InDown
    <3>2. ASSUME NEW q \in Owners', q # h
          PROVE  FALSE
      <4>1. q \in Users /\ q \in Procs
        BY DEF Owners, Users
      <4>2. q # p
        BY <1>1, <1>3, <4>1 DEF Owners
      <4>3. q \in Owners
        BY <1>3, <2>3, <3>2, <4>1, <4>2 DEF Owners
      <4> QED BY <1>2, <4>2, <4>3
    <3> QED BY <3>1, <3>2
  <2>9. OwnerOK'
    BY <1>2, <2>1, <2>8 DEF IInv, OwnerOK
  <2> QED BY <1>1, <2>1, <2>4, <2>5, <2>6, <2>7, <2>9 DEF IInv, IdleOK
<1>6. CASE queue[s] = <<>>
  <2>1. /\ s = mutex /\ queue[next] = <<>> /\ l # "sig_down"
        /\ value' = [value EXCEPT ![mutex] = @ + 1] /\ UNCHANGED <<queue, flags, schedVars>>
    BY <1>6 DEF Up
  <2>2. value[mutex] = 0 /\ \A t \in Sems : t # mutex => value[t] = 0
    BY <1>2, SemNames DEF IInv, OwnerOK
  <2>3. \A t \in Sems : value'[t] = IF t = mutex THEN 1 ELSE 0
    BY <2>1, <2>2 DEF IInv, TypeOK, SemTypeOK
  <2>4. TypeOK' /\ SchedInv'
    <3>1. value' \in [Sems -> Nat]
      BY <2>1, <2>2 DEF IInv, TypeOK, SemTypeOK
    <3>2. SchedInv'
      BY <2>1, NobodyWoken DEF IInv
    <3> QED BY <1>4, <2>1, <3>1, <3>2 DEF IInv, TypeOK, SemTypeOK, SchedInv
  <2>5. \A q \in Procs : PlaceOK(q)'
    BY <1>1, <1>3, <2>1 DEF IInv, PlaceOK, InDown, Inside, Users, schedVars
  <2>6. \A q \in Users : ReturnOK(q)'
    BY <1>1, <1>3 DEF IInv, ReturnOK, InDown, Inside, Users
  <2>7. QueueOK'
    <3>1. \A q \in Procs, t \in Sems : Waits(q, t)' <=> Waits(q, t)
      BY <1>1, <1>3, <2>1 DEF Waits, InDown
    <3> QED BY <2>1, <3>1, SameQueues
  <2>8. Owners' = {}
    BY <1>1, <1>2, <1>3, <2>1 DEF Owners, InDown, Users
  <2>9. OwnerOK'
    <3>1. \A q \in Users : pc'[q] # "sig_down"
      BY <1>1, <1>3, <2>1 DEF Users, Inside
    <3> QED BY <1>6, <2>1, <2>3, <2>8, <3>1 DEF OwnerOK
  <2> QED BY <1>1, <2>1, <2>4, <2>5, <2>6, <2>7, <2>9 DEF IInv, IdleOK, schedVars
<1> QED BY <1>5, <1>6

-----------------------------------------------------------------------------
(* What a count promises is there: with a signaller counted, one waits in  *)
(* the queue of next, with a waiter counted, one waits for the condition.  *)
LEMMA CountedWait ==
  ASSUME IInv, NEW p \in Users, current = p, pc[p] = "in"
  PROVE  /\ nextCount > 0 <=> queue[next] # <<>>
         /\ \A c \in Cvs : count[c] > 0 <=> queue[CvSem(c)] # <<>>
         /\ p \notin Signallers /\ \A c \in Cvs : p \notin WaitersOn(c)
<1>1. p \in Procs /\ ~InDown(p) /\ \A q \in Procs : q # p => pc[q] \notin Inside
  BY Caller
<1>2. p \notin Signallers /\ \A c \in Cvs : p \notin WaitersOn(c)
  BY <1>1 DEF Signallers, WaitersOn, InDown
<1>3. \A q \in Procs : InDown(q) /\ q # p => Waits(q, on[q]) /\ on[q] \in Sems /\ q \in Users
  <2>1. ASSUME NEW q \in Procs, InDown(q), q # p
        PROVE  flags[q] = "WT_INTERRUPTED" /\ q \in Users
    <3>1. q \in Users
      BY <2>1 DEF IInv, PlaceOK, Users, InDown
    <3>2. q \notin Owners
      BY <2>1, InMonitor
    <3> QED BY <2>1, <3>1, <3>2 DEF Owners, InDown, IInv, TypeOK, SemTypeOK
  <2> QED BY <2>1 DEF Waits, InDown, IInv, TypeOK, SemTypeOK
<1>4. \A s \in Sems : queue[s] # <<>> <=> \E q \in Procs : Waits(q, s)
  <2>1. ASSUME NEW s \in Sems
        PROVE  /\ queue[s] \in Seq(Procs)
               /\ queue[s] # <<>> => 1 \in DOMAIN queue[s]
               /\ \A i \in DOMAIN queue[s] : queue[s] # <<>>
    <3>1. queue[s] \in Seq(Procs)
      BY DEF IInv, TypeOK, SemTypeOK
    <3>2. queue[s] # <<>> => 1 \in DOMAIN queue[s]
      BY <3>1
    <3>3. \A i \in DOMAIN queue[s] : queue[s] # <<>>
      BY <3>1
    <3> QED BY <3>1, <3>2, <3>3
  <2>2. \A s \in Sems : \A i \in DOMAIN queue[s] : queue[s][i] \in Procs /\ Waits(queue[s][i], s)
    BY <2>1 DEF IInv, QueueOK
  <2> QED BY <2>1, <2>2 DEF IInv, QueueOK, InQueue
<1>5. IsFiniteSet(Signallers) /\ \A c \in Cvs : IsFiniteSet(WaitersOn(c))
  <2>1. Signallers \in SUBSET Procs /\ \A c \in Cvs : WaitersOn(c) \in SUBSET Procs
    BY DEF Signallers, WaitersOn
  <2> QED BY <2>1, MonitorUseAssumption, FS_Subset
<1>6. nextCount > 0 <=> Signallers # {}
  BY <1>5, FS_EmptySet, FS_CardinalityType DEF IInv, CountsExact
<1>7. \A c \in Cvs : count[c] > 0 <=> WaitersOn(c) # {}
  BY <1>5, FS_EmptySet, FS_CardinalityType DEF IInv, CountsExact
<1>8. Signallers # {} <=> \E q \in Procs : Waits(q, next)
  <2>1. ASSUME NEW q \in Signallers
        PROVE  Waits(q, next)
    BY <1>1, <1>2, <1>3 DEF Signallers, Inside, InDown
  <2>2. ASSUME NEW q \in Procs, Waits(q, next)
        PROVE  q \in Signallers
    BY <2>2 DEF Signallers, Waits
  <2> QED BY <2>1, <2>2 DEF Signallers
<1>9. ASSUME NEW c \in Cvs
      PROVE  WaitersOn(c) # {} <=> \E q \in Procs : Waits(q, CvSem(c))
  <2>1. ASSUME NEW q \in WaitersOn(c)
        PROVE  Waits(q, CvSem(c))
    BY <1>1, <1>2, <1>3 DEF WaitersOn, Inside, InDown
  <2>2. ASSUME NEW q \in Procs, Waits(q, CvSem(c))
        PROVE  q \in WaitersOn(c)
    BY <2>2 DEF WaitersOn, Waits
  <2> QED BY <2>1, <2>2 DEF WaitersOn
<1> QED BY <1>2, <1>4, <1>6, <1>7, <1>8, <1>9, SemNames

-----------------------------------------------------------------------------
LEMMA StutterKeeps == IInv /\ UNCHANGED monVars => IInv'
<1> SUFFICES ASSUME IInv, UNCHANGED monVars PROVE IInv'
  OBVIOUS
<1> USE DEF monVars, semVars, semData, monData, schedVars
<1>1. TypeOK' /\ SchedInv'
  BY DEF IInv, TypeOK, SemTypeOK, SchedTypeOK, SchedInv, RunQueueExact
<1>2. \A q \in Procs : PlaceOK(q)'
  BY DEF IInv, PlaceOK, InDown
<1>3. \A q \in Users : ReturnOK(q)'
  BY DEF IInv, ReturnOK, InDown
<1>4. QueueOK' /\ Owners' = Owners
  BY DEF IInv, QueueOK, InQueue, Waits, Owners
<1>5. OwnerOK' /\ CountsExact' /\ IdleOK'
  BY <1>4 DEF IInv, OwnerOK, CountsExact, Signallers, WaitersOn, IdleOK
<1> QED BY <1>1, <1>2, <1>3, <1>4, <1>5 DEF IInv

(* The actions.  First those that take or give the monitor.                *)

LEMMA EnterKeeps == ASSUME IInv, NEW p \in Users, Enter(p)
                    PROVE  IInv'
<1>1. current = p /\ pc[p] = "out" /\ Down(p, mutex, "in") /\ UNCHANGED <<monData, cv, ret>>
  BY DEF Enter, At, EnterMonitor
<1>2. p \in Procs /\ p # Idle /\ state[p] = "RUNNABLE" /\ ~InDown(p)
      /\ \A q \in Procs : q # p => pc[q] \notin Inside /\ pc[q] # "down_sched"
  BY <1>1, Caller
<1>3. value[mutex] \in Nat
  BY SemNames DEF IInv, TypeOK, SemTypeOK
<1>4. CASE value[mutex] = 0
  <2>1. "in" \in Labels
    BY DEF Labels
  <2> QED BY <1>1, <1>4, <2>1, SleepKeeps, SemNames
<1>5. CASE value[mutex] > 0
  <2>1. /\ value' = [value EXCEPT ![mutex] = @ - 1] /\ pc' = [pc EXCEPT ![p] = "in"]
        /\ UNCHANGED <<schedVars, queue, flags, on, then>>
    BY <1>1, <1>5 DEF Down, Goto
  <2>2. Owners = {} /\ value[mutex] = 1 /\ \A s \in Sems : s # mutex => value[s] = 0
    BY <1>3, <1>5, SemNames DEF IInv, OwnerOK
  <2>3. \A s \in Sems : value'[s] = 0
    BY <2>1, <2>2 DEF IInv, TypeOK, SemTypeOK
  <2>4. \A q \in Procs : pc'[q] = IF q = p THEN "in" ELSE pc[q]
    BY <2>1 DEF IInv, TypeOK, SemTypeOK
  <2>5. TypeOK' /\ SchedInv'
    <3>1. value' \in [Sems -> Nat]
      <4>1. value[mutex] - 1 \in Nat
        BY <2>2
      <4> QED BY <2>1, <4>1 DEF IInv, TypeOK, SemTypeOK
    <3>2. SchedInv'
      BY <2>1, NobodyWoken DEF IInv
    <3> QED BY <1>1, <2>1, <3>1, <3>2 DEF IInv, TypeOK, SemTypeOK, SchedInv, Labels, monData
  <2>6. \A q \in Procs : PlaceOK(q)'
    BY <1>1, <1>2, <2>1, <2>4 DEF IInv, PlaceOK, InDown, Inside, schedVars
  <2>7. \A q \in Users : ReturnOK(q)'
    BY <1>1, <2>1, <2>4 DEF IInv, ReturnOK, InDown, Inside, Users
  <2>8. QueueOK'
    <3>1. \A q \in Procs, t \in Sems : Waits(q, t)' <=> Waits(q, t)
      BY <1>1, <2>1, <2>4 DEF Waits
    <3> QED BY <2>1, <3>1, SameQueues
  <2>9. Owners' = {p}
    BY <2>1, <2>2, <2>4 DEF Owners, Users
  <2>10. OwnerOK'
    BY <2>3, <2>9 DEF OwnerOK
  <2>11. CountsExact'
    <3>1. Signallers' = Signallers /\ \A c \in Cvs : WaitersOn(c)' = WaitersOn(c)
      BY <1>1, <2>1, <2>4 DEF Signallers, WaitersOn
    <3> QED BY <1>1, <3>1 DEF IInv, CountsExact, monData
  <2> QED BY <1>1, <1>2, <2>1, <2>5, <2>6, <2>7, <2>8, <2>10, <2>11 DEF IInv, IdleOK, schedVars
<1> QED BY <1>3, <1>4, <1>5

LEMMA LeaveKeeps == ASSUME IInv, NEW p \in Users, Leave(p)
                    PROVE  IInv'
<1>1. current = p /\ pc[p] = "in" /\ HandOver /\ Goto(p, "out") /\ UNCHANGED <<on, then, monData, cv, ret>>
  BY DEF Leave, At, LeaveMonitor
<1>2. PICK s \in Sems : Up(s) /\ (queue[s] # <<>> \/ (s = mutex /\ queue[next] = <<>>))
  BY <1>1, CountedWait, SemNames DEF HandOver
<1>3. \A q \in Procs : pc'[q] = IF q = p THEN "out" ELSE pc[q]
  BY <1>1 DEF Goto, IInv, TypeOK, SemTypeOK
<1>4. CountsExact'
  <2>1. Signallers' = Signallers /\ \A c \in Cvs : WaitersOn(c)' = WaitersOn(c)
    BY <1>1, <1>3 DEF Signallers, WaitersOn
  <2> QED BY <1>1, <2>1 DEF IInv, CountsExact, monData
<1>5. /\ ret' \in [Procs -> Labels] /\ cv' \in [Procs -> Cvs]
      /\ nextCount' \in Nat /\ count' \in [Cvs -> Nat]
  BY <1>1 DEF IInv, TypeOK, monData
<1> QED BY <1>1, <1>2, <1>4, <1>5, GiveKeeps DEF Inside

LEMMA SignalKeeps == ASSUME IInv, NEW p \in Users, NEW c \in Cvs, Signal(p, c)
                     PROVE  IInv'
<1>1. current = p /\ pc[p] = "in" /\ CondSignal(p, c, "in")
  BY DEF Signal, At
<1>2. CASE count[c] > 0
  <2>1. /\ nextCount' = nextCount + 1 /\ Up(CvSem(c)) /\ Goto(p, "sig_down")
        /\ ret' = [ret EXCEPT ![p] = "in"] /\ UNCHANGED <<on, then, count, cv>>
    BY <1>1, <1>2 DEF CondSignal
  <2>2. queue[CvSem(c)] # <<>> /\ CvSem(c) \in Sems
    BY <1>1, <1>2, CountedWait, SemNames
  <2>3. \A q \in Procs : pc'[q] = IF q = p THEN "sig_down" ELSE pc[q]
    BY <2>1 DEF Goto, IInv, TypeOK, SemTypeOK
  <2>4. CountsExact'
    <3>1. p \in Procs /\ p \notin Signallers
      BY <1>1, CountedWait DEF Users
    <3>2. Signallers' = Signallers \cup {p} /\ \A d \in Cvs : WaitersOn(d)' = WaitersOn(d)
      BY <1>1, <2>1, <2>3, <3>1 DEF Signallers, WaitersOn
    <3>3. Signallers \in SUBSET Procs
      BY DEF Signallers
    <3>4. Cardinality(Signallers') = Cardinality(Signallers) + 1
      BY <3>1, <3>2, <3>3, MonitorUseAssumption, FS_Subset, FS_AddElement
    <3> QED BY <2>1, <3>2, <3>4 DEF IInv, CountsExact
  <2>5. /\ ret' \in [Procs -> Labels] /\ cv' \in [Procs -> Cvs]
        /\ nextCount' \in Nat /\ count' \in [Cvs -> Nat]
    <3>1. nextCount' \in Nat
      BY <2>1 DEF IInv, TypeOK
    <3> QED BY <2>1, <3>1 DEF IInv, TypeOK, Labels
  <2>6. ret'[p] = "in" /\ \A q \in Procs : q # p => ret'[q] = ret[q] /\ cv'[q] = cv[q]
    BY <2>1 DEF IInv, TypeOK, Users
  <2> QED BY <1>1, <2>1, <2>2, <2>4, <2>5, <2>6, GiveKeeps
<1>3. CASE ~(count[c] > 0)
  <2>1. pc' = [pc EXCEPT ![p] = "in"] /\ UNCHANGED <<schedVars, semData, then, monData, cv, ret>>
    BY <1>1, <1>3 DEF CondSignal, Goto
  <2>2. UNCHANGED monVars
    BY <1>1, <2>1 DEF IInv, TypeOK, SemTypeOK, monVars, semVars
  <2> QED BY <2>2, StutterKeeps
<1> QED BY <1>2, <1>3

LEMMA WaitKeeps == ASSUME IInv, NEW p \in Users, NEW c \in Cvs, Wait(p, c)
                   PROVE  IInv'
<1>1. /\ current = p /\ pc[p] = "in" /\ count' = [count EXCEPT ![c] = @ + 1] /\ HandOver
      /\ Goto(p, "wait_down") /\ cv' = [cv EXCEPT ![p] = c] /\ ret' = [ret EXCEPT ![p] = "in"]
      /\ UNCHANGED <<on, then, nextCount>>
  BY DEF Wait, At, CondWait
<1>2. PICK s \in Sems : Up(s) /\ (queue[s] # <<>> \/ (s = mutex /\ queue[next] = <<>>))
  BY <1>1, CountedWait, SemNames DEF HandOver
<1>3. \A q \in Procs : /\ pc'[q] = (IF q = p THEN "wait_down" ELSE pc[q])
                       /\ cv'[q] = (IF q = p THEN c ELSE cv[q])
  BY <1>1 DEF Goto, IInv, TypeOK, SemTypeOK
<1>4. CountsExact'
  <2>1. p \in Procs /\ p \notin WaitersOn(c) /\ p \notin Signallers
    BY <1>1, CountedWait DEF Users
  <2>2. Signallers' = Signallers
    BY <1>1, <1>3, <2>1 DEF Signallers
  <2>3. WaitersOn(c)' = WaitersOn(c) \cup {p}
    BY <1>1, <1>3, <2>1 DEF WaitersOn
  <2>4. ASSUME NEW d \in Cvs, d # c
        PROVE  WaitersOn(d)' = WaitersOn(d)
    BY <1>1, <1>3, <2>4 DEF WaitersOn
  <2>5. WaitersOn(c) \in SUBSET Procs
    BY DEF WaitersOn
  <2>6. Cardinality(WaitersOn(c)') = Cardinality(WaitersOn(c)) + 1
    BY <2>1, <2>3, <2>5, MonitorUseAssumption, FS_Subset, FS_AddElement
  <2>7. \A d \in Cvs : count'[d] = IF d = c THEN count[c] + 1 ELSE count[d]
    BY <1>1 DEF IInv, TypeOK
  <2> QED BY <1>1, <2>2, <2>4, <2>6, <2>7 DEF IInv, CountsExact
<1>5. /\ ret' \in [Procs -> Labels] /\ cv' \in [Procs -> Cvs]
      /\ nextCount' \in Nat /\ count' \in [Cvs -> Nat]
  <2>1. count[c] + 1 \in Nat
    BY DEF IInv, TypeOK
  <2> QED BY <1>1, <2>1 DEF IInv, TypeOK, Labels
<1>6. ret'[p] = "in" /\ \A q \in Procs : q # p => ret'[q] = ret[q] /\ cv'[q] = cv[q]
  BY <1>1 DEF IInv, TypeOK, Users
<1> QED BY <1>1, <1>2, <1>4, <1>5, <1>6, GiveKeeps

-----------------------------------------------------------------------------
(* Then those that end a call: the process has the monitor before and      *)
(* after, in another place, and no semaphore is touched.                   *)
LEMMA MoveKeeps ==
  ASSUME IInv, NEW p \in Users, current = p,
         \/ pc[p] \in {"sig_end", "wait_end"}
         \/ pc[p] = "down_wake" /\ flags[p] = "WT_KSEM",
         NEW l \in {"in", "sig_end", "wait_end"}, Goto(p, l),
         UNCHANGED <<schedVars, value, queue>>,
         \A q \in Procs : q # p => /\ flags'[q] = flags[q] /\ on'[q] = on[q] /\ then'[q] = then[q]
                                  /\ ret'[q] = ret[q] /\ cv'[q] = cv[q],
         l \in Inside => ret'[p] = "in",
         TypeOK', CountsExact'
  PROVE  IInv'
<1>1. p \in Procs /\ p # Idle
  BY DEF Users
<1>2. \A q \in Procs : pc'[q] = IF q = p THEN l ELSE pc[q]
  BY DEF Goto, IInv, TypeOK, SemTypeOK
<1>3. SchedInv'
  BY NobodyWoken DEF IInv
<1>4. \A q \in Procs : PlaceOK(q)'
  BY <1>1, <1>2 DEF IInv, PlaceOK, InDown, Inside, schedVars
<1>5. \A q \in Users : ReturnOK(q)'
  BY <1>2 DEF IInv, ReturnOK, InDown, Inside, Users
<1>6. QueueOK'
  <2>1. \A q \in Procs, t \in Sems : Waits(q, t)' <=> Waits(q, t)
    BY <1>2 DEF Waits
  <2> QED BY <2>1, SameQueues
<1>7. Owners' = Owners
  BY <1>2 DEF Owners, Users
<1>8. OwnerOK'
  <2>1. p \in Owners
    BY DEF Owners
  <2> QED BY <1>7, <2>1 DEF IInv, OwnerOK
<1> QED BY <1>1, <1>3, <1>4, <1>5, <1>6, <1>8 DEF IInv, IdleOK, schedVars

(* down() ends: the wait_t is out of the queue already.                    *)
LEMMA DownEndKeeps == ASSUME IInv, NEW p \in Users, DownEnd(p), UNCHANGED <<monData, cv, ret>>
                      PROVE  IInv'
<1>1. /\ current = p /\ pc[p] = "down_wake" /\ pc' = [pc EXCEPT ![p] = then[p]]
      /\ queue' = IF InQueue(p, on[p]) THEN [queue EXCEPT ![on[p]] = Without(@, p)] ELSE queue
      /\ then' = [then EXCEPT ![p] = "idle"] /\ flags' = [flags EXCEPT ![p] = "WT_INTERRUPTED"]
      /\ on' = [on EXCEPT ![p] = NoSem] /\ UNCHANGED <<schedVars, value>>
  BY DEF DownEnd, At, Goto
<1>2. p \in Procs /\ on[p] \in Sems /\ flags[p] \in {"WT_INTERRUPTED", "WT_KSEM"} /\ cv[p] \in Cvs
  BY DEF IInv, TypeOK, SemTypeOK, Users
<1>3. flags[p] = "WT_KSEM"
  BY <1>1, <1>2 DEF IInv, PlaceOK, InDown
<1>4. queue' = queue
  <2>1. ~InQueue(p, on[p])
    BY <1>2, <1>3 DEF InQueue, IInv, QueueOK, Waits
  <2> QED BY <1>1, <2>1
<1>5. \/ on[p] = mutex /\ then[p] = "in"
      \/ on[p] = next /\ then[p] = "sig_end" /\ ret[p] = "in"
      \/ on[p] = CvSem(cv[p]) /\ then[p] = "wait_end" /\ ret[p] = "in"
  BY <1>1 DEF IInv, ReturnOK, InDown
<1>6. PICK l \in {"in", "sig_end", "wait_end"} : l = then[p] /\ Goto(p, l)
  BY <1>1, <1>5 DEF Goto
<1>7. \A q \in Procs : /\ pc'[q] = (IF q = p THEN then[p] ELSE pc[q])
                       /\ on'[q] = (IF q = p THEN NoSem ELSE on[q])
  BY <1>1 DEF IInv, TypeOK, SemTypeOK
<1>8. TypeOK'
  BY <1>1, <1>4, <1>6, SemNames DEF IInv, TypeOK, SemTypeOK, SchedTypeOK, schedVars, Labels, monData
<1>9. CountsExact'
  <2>1. Signallers' = Signallers
    BY <1>1, <1>2, <1>5, <1>7, SemNames DEF Signallers
  <2>2. \A c \in Cvs : WaitersOn(c)' = WaitersOn(c)
    BY <1>1, <1>2, <1>5, <1>7, SemNames DEF WaitersOn
  <2> QED BY <2>1, <2>2 DEF IInv, CountsExact, monData
<1>10. \A q \in Procs : q # p => /\ flags'[q] = flags[q] /\ on'[q] = on[q] /\ then'[q] = then[q]
                                 /\ ret'[q] = ret[q] /\ cv'[q] = cv[q]
  BY <1>1 DEF IInv, TypeOK, SemTypeOK
<1>11. l \in Inside => ret'[p] = "in"
  BY <1>5, <1>6 DEF Inside
<1> QED BY <1>1, <1>3, <1>4, <1>6, <1>8, <1>9, <1>10, <1>11, MoveKeeps

LEMMA SignalEndKeeps == ASSUME IInv, NEW p \in Users, SignalEnd(p)
                        PROVE  IInv'
<1>1. /\ current = p /\ pc[p] = "sig_end" /\ nextCount' = nextCount - 1
      /\ pc' = [pc EXCEPT ![p] = ret[p]] /\ ret' = [ret EXCEPT ![p] = "idle"]
      /\ UNCHANGED <<schedVars, semData, then, count, cv>>
  BY DEF SignalEnd, At, Goto
<1>2. p \in Procs /\ ret[p] = "in"
  BY <1>1 DEF IInv, ReturnOK, Inside, Users
<1>3. \A q \in Procs : pc'[q] = IF q = p THEN "in" ELSE pc[q]
  BY <1>1, <1>2 DEF IInv, TypeOK, SemTypeOK
<1>4. nextCount' \in Nat /\ CountsExact'
  <2>1. p \in Signallers
    BY <1>1, <1>2 DEF Signallers
  <2>2. Signallers' = Signallers \ {p}
    BY <1>1, <1>2, <1>3 DEF Signallers, semData
  <2>3. \A c \in Cvs : WaitersOn(c)' = WaitersOn(c)
    BY <1>1, <1>2, <1>3 DEF WaitersOn, semData
  <2>4. Signallers \in SUBSET Procs
    BY DEF Signallers
  <2>5. IsFiniteSet(Signallers) /\ IsFiniteSet(Signallers \ {p})
    BY <2>4, MonitorUseAssumption, FS_Subset, FS_RemoveElement
  <2>6. Cardinality(Signallers \ {p}) = Cardinality(Signallers) - 1 /\ Cardinality(Signallers \ {p}) \in Nat
    BY <2>1, <2>5, FS_RemoveElement, FS_CardinalityType
  <2> QED BY <1>1, <2>2, <2>3, <2>6 DEF IInv, CountsExact
<1>5. TypeOK'
  BY <1>1, <1>2, <1>4 DEF IInv, TypeOK, SemTypeOK, SchedTypeOK, schedVars, semData, Labels
<1>6. Goto(p, "in") /\ UNCHANGED <<value, queue>>
  BY <1>1, <1>2 DEF Goto, semData
<1>7. \A q \in Procs : q # p => /\ flags'[q] = flags[q] /\ on'[q] = on[q] /\ then'[q] = then[q]
                                /\ ret'[q] = ret[q] /\ cv'[q] = cv[q]
  BY <1>1 DEF IInv, TypeOK, semData
<1> QED BY <1>1, <1>4, <1>5, <1>6, <1>7, MoveKeeps DEF Inside

LEMMA WaitEndKeeps == ASSUME IInv, NEW p \in Users, WaitEnd(p)
                      PROVE  IInv'
<1>1. /\ current = p /\ pc[p] = "wait_end" /\ count' = [count EXCEPT ![cv[p]] = @ - 1]
      /\ pc' = [pc EXCEPT ![p] = ret[p]] /\ ret' = [ret EXCEPT ![p] = "idle"]
      /\ cv' = [cv EXCEPT ![p] = NoCv] /\ UNCHANGED <<schedVars, semData, then, nextCount>>
  BY DEF WaitEnd, At, Goto
<1>2. p \in Procs /\ ret[p] = "in" /\ cv[p] \in Cvs
  BY <1>1 DEF IInv, ReturnOK, Inside, Users, TypeOK
<1>3. \A q \in Procs : /\ pc'[q] = (IF q = p THEN "in" ELSE pc[q])
                       /\ cv'[q] = (IF q = p THEN NoCv ELSE cv[q])
  BY <1>1, <1>2 DEF IInv, TypeOK, SemTypeOK
<1> DEFINE c == cv[p]
<1>4. CountsExact' /\ count' \in [Cvs -> Nat]
  <2>1. p \in WaitersOn(c)
    BY <1>1, <1>2 DEF WaitersOn
  <2>2. Signallers' = Signallers
    BY <1>1, <1>2, <1>3 DEF Signallers, semData
  <2>4. \A d \in Cvs : WaitersOn(d)' = IF d = c THEN WaitersOn(d) \ {p} ELSE WaitersOn(d)
    BY <1>1, <1>2, <1>3 DEF WaitersOn, semData
  <2>5. WaitersOn(c) \in SUBSET Procs
    BY DEF WaitersOn
  <2> HIDE DEF c
  <2>6. IsFiniteSet(WaitersOn(c)) /\ IsFiniteSet(WaitersOn(c) \ {p})
    BY <2>5, MonitorUseAssumption, FS_Subset, FS_RemoveElement
  <2>7. /\ Cardinality(WaitersOn(c) \ {p}) = Cardinality(WaitersOn(c)) - 1
        /\ Cardinality(WaitersOn(c) \ {p}) \in Nat
    BY <2>1, <2>6, FS_RemoveElement, FS_CardinalityType
  <2>8. \A d \in Cvs : count'[d] = IF d = c THEN count[c] - 1 ELSE count[d]
    BY <1>1 DEF IInv, TypeOK, c
  <2>9. count[c] = Cardinality(WaitersOn(c))
    BY <1>2 DEF IInv, CountsExact, c
  <2>10. count' \in [Cvs -> Nat]
    <3>1. count[c] - 1 \in Nat
      BY <2>7, <2>9
    <3> QED BY <1>1, <3>1 DEF IInv, TypeOK, c
  <2> QED BY <1>1, <2>2, <2>4, <2>7, <2>8, <2>9, <2>10 DEF IInv, CountsExact
<1>5. TypeOK'
  BY <1>1, <1>2, <1>4, SemNames DEF IInv, TypeOK, SemTypeOK, SchedTypeOK, schedVars, semData, Labels
<1>6. Goto(p, "in") /\ UNCHANGED <<value, queue>>
  BY <1>1, <1>2 DEF Goto, semData
<1>7. \A q \in Procs : q # p => /\ flags'[q] = flags[q] /\ on'[q] = on[q] /\ then'[q] = then[q]
                                /\ ret'[q] = ret[q] /\ cv'[q] = cv[q]
  BY <1>1 DEF IInv, TypeOK, semData
<1> QED BY <1>1, <1>4, <1>5, <1>6, <1>7, MoveKeeps DEF Inside

-----------------------------------------------------------------------------
(* Then the calls of down() that have to wait, and schedule().             *)

LEMMA SignalDownKeeps == ASSUME IInv, NEW p \in Users, SignalDown(p)
                         PROVE  IInv'
<1>1. current = p /\ pc[p] = "sig_down" /\ Down(p, next, "sig_end") /\ UNCHANGED <<monData, cv, ret>>
  BY DEF SignalDown, At
<1>2. next \in Sems /\ value[next] = 0 /\ "sig_end" \in Labels
  BY SemNames DEF IInv, OwnerOK, Labels
<1> QED BY <1>1, <1>2, SleepKeeps

LEMMA WaitDownKeeps == ASSUME IInv, NEW p \in Users, WaitDown(p)
                       PROVE  IInv'
<1>1. /\ current = p /\ pc[p] = "wait_down" /\ Down(p, CvSem(cv[p]), "wait_end")
      /\ UNCHANGED <<monData, cv, ret>>
  BY DEF WaitDown, At
<1>2. cv[p] \in Cvs
  BY DEF IInv, TypeOK, Users
<1>3. CvSem(cv[p]) \in Sems /\ value[CvSem(cv[p])] = 0 /\ "wait_end" \in Labels
  BY <1>2, SemNames DEF IInv, OwnerOK, Labels
<1> QED BY <1>1, <1>3, SleepKeeps

LEMMA SwitchKeeps ==
  ASSUME IInv, NEW p \in Users, current = p, NEW l \in Labels, SwitchTo(p, l),
         \/ pc[p] \in {"in", "out"} /\ l = pc[p]
         \/ pc[p] = "down_sched" /\ l = "down_wake",
         UNCHANGED <<semData, then, monData, cv, ret>>
  PROVE  IInv'
<1>1. SchedInv' /\ UNCHANGED <<state, waitState>>
  BY ScheduleKeeps DEF SwitchTo, IInv
<1>2. state'[current'] = "RUNNABLE"
  BY ScheduleKeeps DEF SwitchTo, IInv
<1>3. pc' = [pc EXCEPT ![p] = l] /\ p \in Procs /\ p # Idle
  BY DEF SwitchTo, Goto, Users
<1>4. TypeOK'
  BY <1>1, <1>3 DEF IInv, TypeOK, SemTypeOK, SchedInv, semData, monData
<1>5. \A q \in Procs : pc'[q] = IF q = p THEN l ELSE pc[q]
  BY <1>3 DEF IInv, TypeOK, SemTypeOK
<1>6. ASSUME NEW q \in Procs
      PROVE  PlaceOK(q)'
  BY <1>1, <1>2, <1>3, <1>5 DEF IInv, PlaceOK, InDown, Inside, semData
<1>7. \A q \in Users : ReturnOK(q)'
  BY <1>5 DEF IInv, ReturnOK, InDown, Inside, Users, semData
<1>8. QueueOK'
  <2>1. \A q \in Procs, t \in Sems : Waits(q, t)' <=> Waits(q, t)
    BY <1>5 DEF Waits, semData
  <2> QED BY <2>1, SameQueues DEF semData
<1>9. Owners' = Owners
  BY <1>5 DEF Owners, Users, semData
<1>10. OwnerOK'
  BY <1>5, <1>9 DEF IInv, OwnerOK, semData, Users
<1>11. CountsExact'
  <2>1. Signallers' = Signallers /\ \A c \in Cvs : WaitersOn(c)' = WaitersOn(c)
    BY <1>5 DEF Signallers, WaitersOn, semData
  <2> QED BY <2>1 DEF IInv, CountsExact, monData
<1>12. IdleOK'
  BY <1>1, IdleRunsLast DEF IInv, IdleOK, SwitchTo, Users
<1> QED BY <1>1, <1>4, <1>6, <1>7, <1>8, <1>10, <1>11, <1>12 DEF IInv

LEMMA YieldKeeps == ASSUME IInv, NEW p \in Users, Yield(p)
                    PROVE  IInv'
<1>1. current = p /\ UNCHANGED <<semData, then, monData, cv, ret>>
  BY DEF Yield, At
<1>2. PICK l \in Labels : pc[p] \in {"in", "out"} /\ l = pc[p] /\ SwitchTo(p, l)
  BY DEF Yield, At, Labels
<1> QED BY <1>1, <1>2, SwitchKeeps

LEMMA DownScheduleKeeps == ASSUME IInv, NEW p \in Users, DownSchedule(p), UNCHANGED <<monData, cv, ret>>
                           PROVE  IInv'
  BY SwitchKeeps DEF DownSchedule, At, Labels

-----------------------------------------------------------------------------
LEMMA InitIInv == Init => IInv
<1> SUFFICES ASSUME Init PROVE IInv
  OBVIOUS
<1> USE DEF Init, MonitorInit, SemInit
<1>1. TypeOK
  <2>1. SchedTypeOK
    BY SchedAssumption DEF SchedTypeOK, States, WaitStates, Users
  <2>2. pc \in [Procs -> Labels] /\ then \in [Procs -> Labels] /\ ret \in [Procs -> Labels]
    BY DEF Labels
  <2>3. value \in [Sems -> Nat] /\ queue \in [Sems -> Seq(Procs)]
    OBVIOUS
  <2> QED BY <2>1, <2>2, <2>3, SemNames DEF TypeOK, SemTypeOK
<1>2. SchedInv
  BY SchedAssumption, <1>1 DEF TypeOK, SemTypeOK, SchedInv, RunQueueExact, Users
<1>3. \A p \in Procs : PlaceOK(p) /\ ReturnOK(p)
  BY DEF PlaceOK, ReturnOK, InDown, Inside
<1>4. QueueOK
  BY DEF QueueOK, Waits
<1>5. Owners = {} /\ Signallers = {} /\ \A c \in Cvs : WaitersOn(c) = {}
  <2>1. \A p \in Procs : pc[p] \in {"idle", "out"}
    OBVIOUS
  <2> QED BY ONLY <2>1 DEF Owners, Users, Signallers, WaitersOn
<1>6. OwnerOK
  BY <1>5, SemNames DEF OwnerOK, Users
<1>7. CountsExact
  BY <1>5, FS_EmptySet DEF CountsExact
<1>8. IdleOK
  BY DEF IdleOK, Users
<1> QED BY <1>1, <1>2, <1>3, <1>4, <1>6, <1>7, <1>8 DEF IInv, Users

LEMMA NextKeeps == IInv /\ [Next]_monVars => IInv'
<1> SUFFICES ASSUME IInv, [Next]_monVars PROVE IInv'
  OBVIOUS
<1>1. ASSUME NEW p \in Users, Enter(p) \/ Leave(p) \/ Yield(p) \/ \E c \in Cvs : Signal(p, c) \/ Wait(p, c)
      PROVE  IInv'
  BY <1>1, EnterKeeps, LeaveKeeps, YieldKeeps, SignalKeeps, WaitKeeps
<1>2. ASSUME NEW p \in Users, MonitorStep(p)
      PROVE  IInv'
  BY <1>2, DownScheduleKeeps, DownEndKeeps, SignalDownKeeps, SignalEndKeeps, WaitDownKeeps, WaitEndKeeps
     DEF MonitorStep
<1>3. CASE IdleSpin \/ UNCHANGED monVars
  BY <1>3, StutterKeeps DEF IdleSpin
<1> QED BY <1>1, <1>2, <1>3 DEF Next

(* The invariant holds throughout.                                         *)
THEOREM Invariance == Spec => []IInv
<1>1. Init => IInv
  BY InitIInv
<1>2. IInv /\ [Next]_monVars => IInv'
  BY NextKeeps
<1> QED BY <1>1, <1>2, PTL DEF Spec

(* The assertions of __up and down never fail.                             *)
THEOREM AssertionsHold == Spec => []UpDownAssertions
<1>1. ASSUME IInv PROVE UpDownAssertions
  <2>1. ASSUME NEW s \in Sems, queue[s] # <<>>
        PROVE  waitState[Head(queue[s])] = "WT_KSEM"
    <3>1. queue[s] \in Seq(Procs)
      BY <1>1 DEF IInv, TypeOK, SemTypeOK
    <3>2. 1 \in DOMAIN queue[s] /\ Head(queue[s]) = queue[s][1] /\ queue[s][1] \in Procs
      BY <2>1, <3>1
    <3>3. Waits(queue[s][1], s)
      BY <1>1, <3>2 DEF IInv, QueueOK
    <3> QED BY <1>1, <3>2, <3>3 DEF IInv, PlaceOK, InDown, Waits
  <2>2. ASSUME NEW p \in Procs, At(p, "down_wake")
        PROVE  flags[p] = "WT_KSEM"
    BY <1>1, <2>2 DEF IInv, TypeOK, SemTypeOK, PlaceOK, InDown, At
  <2> QED BY <2>1, <2>2 DEF UpDownAssertions
<1> QED BY <1>1, Invariance, PTL

(* The wait queues hold exactly the processes that wait, each once, and    *)
(* nobody waits for a semaphore that is free.                              *)
THEOREM QueuesCorrect == Spec => []QueuesExact
<1>1. ASSUME IInv PROVE QueuesExact
  <2>1. ASSUME NEW s \in Sems, value[s] > 0
        PROVE  queue[s] = <<>>
    BY <1>1, <2>1 DEF IInv, OwnerOK
  <2>2. ASSUME NEW p \in Procs, NEW s \in Sems
        PROVE  Cardinality({i \in DOMAIN queue[s] : queue[s][i] = p}) = IF Waits(p, s) THEN 1 ELSE 0
    <3> DEFINE Places == {i \in DOMAIN queue[s] : queue[s][i] = p}
    <3>1. CASE Waits(p, s)
      <4>1. PICK i \in DOMAIN queue[s] : queue[s][i] = p
        BY <1>1, <3>1 DEF IInv, QueueOK, InQueue
      <4>2. Places = {i}
        BY <1>1, <4>1 DEF IInv, QueueOK
      <4> QED BY <3>1, <4>2, FS_Singleton
    <3>2. CASE ~Waits(p, s)
      <4>1. Places = {}
        BY <1>1, <3>2 DEF IInv, QueueOK
      <4> QED BY <3>2, <4>1, FS_EmptySet
    <3> QED BY <3>1, <3>2
  <2> QED BY <2>1, <2>2 DEF QueuesExact, Waits
<1> QED BY <1>1, Invariance, PTL

(* next_count and cv.count are the numbers of processes they stand for.    *)
THEOREM CountsCorrect == Spec => []CountsExact
<1>1. IInv => CountsExact
  BY DEF IInv
<1> QED BY <1>1, Invariance, PTL

(* One process at a time is active in the monitor.                         *)
THEOREM MutualExclusion == Spec => []OneOwner
<1>1. ASSUME IInv PROVE OneOwner
  <2>1. value[mutex] = IF Owners = {} THEN 1 ELSE 0
    BY <1>1, SemNames DEF IInv, OwnerOK
  <2>2. CASE Owners = {}
    BY <2>1, <2>2, FS_EmptySet DEF OneOwner
  <2>3. CASE Owners # {}
    <3>1. PICK p \in Owners : Owners = {p}
      BY <1>1, <2>3 DEF IInv, OwnerOK
    <3>2. Cardinality(Owners) = 1
      BY <3>1, FS_Singleton
    <3> QED BY <2>1, <2>3, <3>2 DEF OneOwner
  <2> QED BY <2>2, <2>3
<1> QED BY <1>1, Invariance, PTL

(* When idleproc runs, everybody waits for a condition.                    *)
THEOREM NobodyLeft == Spec => []NobodyLeftBehind
<1>1. ASSUME IInv, current = Idle, NEW p \in Users
      PROVE  \E c \in Cvs : Waits(p, CvSem(c))
  <2>1. ASSUME NEW q \in Users
        PROVE  /\ q \in Procs /\ state[q] = "SLEEPING" /\ on[q] \in Sems /\ Waits(q, on[q])
               /\ pc[q] = "down_wake" /\ flags[q] = "WT_INTERRUPTED"
    BY <1>1 DEF IInv, IdleOK, PlaceOK, InDown, Waits, Users, TypeOK, SemTypeOK
  <2>2. Owners = {}
    BY <2>1 DEF Owners
  <2>3. queue[mutex] = <<>> /\ queue[next] = <<>>
    BY <1>1, <2>2 DEF IInv, OwnerOK
  <2>4. on[p] # mutex /\ on[p] # next
    BY <1>1, <2>1, <2>3 DEF IInv, QueueOK, InQueue
  <2> QED BY <2>1, <2>4, SemNames
<1>2. IInv => NobodyLeftBehind
  BY <1>1 DEF NobodyLeftBehind
<1> QED BY <1>2, Invariance, PTL

-----------------------------------------------------------------------------
(* The refinement of HoareMonitor.                                         *)

LEMMA OwnerIs == \A p : Owners = {p} => Owner = p
  BY DEF Owner

(* A process that has given the monitor away and is not yet in a queue is  *)
(* the only one, and counts as the last of that queue.                     *)
LEMMA NobodyJoins ==
  ASSUME NEW l, NEW s, \A q \in Users : pc[q] # l
  PROVE  Joining(l, s) = <<>>
  BY DEF Joining

LEMMA OneJoins ==
  ASSUME IInv, NEW p \in Users, NEW l \in {"sig_down", "wait_down"}, pc[p] = l, NEW s
  PROVE  Joining(l, s) = IF s = (IF l = "sig_down" THEN next ELSE CvSem(cv[p])) THEN <<p>> ELSE <<>>
<1>1. \A q \in Users : pc[q] = l <=> q = p
  BY DEF IInv, PlaceOK, Inside, Users
<1>2. (CHOOSE q \in Users : pc[q] = l) = p
  BY <1>1
<1> QED BY <1>1, <1>2 DEF Joining

(* What a process that is in the monitor sees of its queues.               *)
LEMMA InMonitorMaps ==
  ASSUME IInv, NEW p \in Users, current = p, pc[p] \in {"in", "out"}
  PROVE  /\ queue \in [Sems -> Seq(Procs)]
         /\ Urgent = queue[next]
         /\ \A c \in Cvs : Waiting[c] = queue[CvSem(c)]
<1>1. \A q \in Users : pc[q] # "sig_down" /\ pc[q] # "wait_down"
  BY DEF IInv, PlaceOK, Inside, Users
<1>2. queue \in [Sems -> Seq(Procs)]
  BY DEF IInv, TypeOK, SemTypeOK
<1>3. Joining("sig_down", next) = <<>> /\ \A c \in Cvs : Joining("wait_down", CvSem(c)) = <<>>
  BY <1>1, NobodyJoins
<1>4. Urgent = queue[next]
  BY <1>2, <1>3, ConcatEmptySeq, SemNames DEF Urgent
<1>5. \A c \in Cvs : Waiting[c] = queue[CvSem(c)]
  BY <1>2, <1>3, ConcatEmptySeq, SemNames DEF Waiting
<1> QED BY <1>2, <1>4, <1>5

(* Who has the monitor after an up().                                      *)
LEMMA UpOwner ==
  ASSUME IInv, NEW p \in Users, current = p, pc[p] = "in", NEW s \in Sems, Up(s),
         NEW l \in {"out", "sig_down", "wait_down"}, Goto(p, l)
  PROVE  /\ queue[s] # <<>> => /\ Owners' = {Head(queue[s])} /\ Head(queue[s]) \in Users
                               /\ queue' = [queue EXCEPT ![s] = Tail(@)]
         /\ queue[s] = <<>> => Owners' = {} /\ queue' = queue
<1>1. p \in Procs /\ p # Idle /\ state[p] = "RUNNABLE" /\ ~InDown(p)
  BY Caller
<1>2. Owners = {p}
  BY InMonitor
<1>3. \A q \in Procs : pc'[q] = IF q = p THEN l ELSE pc[q]
  BY DEF Goto, IInv, TypeOK, SemTypeOK
<1>4. ASSUME queue[s] # <<>>
      PROVE  /\ Owners' = {Head(queue[s])} /\ Head(queue[s]) \in Users
             /\ queue' = [queue EXCEPT ![s] = Tail(@)]
  <2> DEFINE h == Head(queue[s])
  <2>1. /\ h \in Users /\ Waits(h, s)
        /\ queue' = [queue EXCEPT ![s] = Tail(@)] /\ flags' = [flags EXCEPT ![h] = "WT_KSEM"]
    BY <1>4, UpWakes
  <2> HIDE DEF h
  <2>2. h \in Procs /\ h # p /\ InDown(h)
    BY <1>1, <2>1 DEF Waits, InDown, Users
  <2>3. \A q \in Procs : flags'[q] = IF q = h THEN "WT_KSEM" ELSE flags[q]
    BY <2>1 DEF IInv, TypeOK, SemTypeOK
  <2>4. Owners' = {h}
    <3>1. h \in Owners'
      BY <1>3, <2>1, <2>2, <2>3 DEF Owners, InDown
    <3>2. ASSUME NEW q \in Owners', q # h
          PROVE  FALSE
      <4>1. q \in Users /\ q \in Procs
        BY DEF Owners, Users
      <4>2. q # p
        BY <1>1, <1>3, <4>1 DEF Owners
      <4>3. q \in Owners
        BY <1>3, <2>3, <3>2, <4>1, <4>2 DEF Owners
      <4> QED BY <1>2, <4>2, <4>3
    <3> QED BY <3>1, <3>2
  <2> QED BY <2>1, <2>4 DEF h
<1>5. ASSUME queue[s] = <<>>
      PROVE  Owners' = {} /\ queue' = queue
  <2>1. UNCHANGED <<queue, flags>>
    BY <1>5 DEF Up
  <2> QED BY <1>1, <1>2, <1>3, <2>1 DEF Owners, InDown, Users
<1> QED BY <1>4, <1>5

(* The end of a routine and the start of a wait give the monitor away.     *)
LEMMA HandOverMaps ==
  ASSUME IInv, NEW p \in Users, current = p, pc[p] = "in", HandOver,
         NEW l \in {"out", "wait_down"}, Goto(p, l)
  PROVE  /\ Hoare!GiveAway /\ Owner = p
         /\ \A c \in Cvs : queue'[CvSem(c)] = queue[CvSem(c)]
<1>1. Owners = {p} /\ Owner = p
  BY InMonitor, OwnerIs
<1>2. queue \in [Sems -> Seq(Procs)] /\ Urgent = queue[next]
  BY InMonitorMaps
<1>3. p \in Procs /\ \A q \in Procs : q # p => pc[q] \notin Inside
  BY Caller
<1>4. Joining("sig_down", next)' = <<>>
  <2>1. \A q \in Users : pc'[q] # "sig_down"
    BY <1>3 DEF Goto, IInv, TypeOK, SemTypeOK, Inside, Users
  <2> QED BY <2>1 DEF Joining
<1>5. queue'[next] \in Seq(Procs) => Urgent' = queue'[next]
  BY <1>4, ConcatEmptySeq DEF Urgent
<1>6. CASE nextCount > 0
  <2>1. queue[next] # <<>> /\ Up(next)
    BY <1>6, CountedWait DEF HandOver
  <2>2. Owners' = {Head(queue[next])} /\ queue' = [queue EXCEPT ![next] = Tail(@)]
    BY <2>1, UpOwner, SemNames
  <2>3. Owner' = Head(queue[next])
    BY <2>2 DEF Owner
  <2>4. queue'[next] = Tail(queue[next]) /\ queue'[next] \in Seq(Procs) /\ queue'[mutex] = queue[mutex]
        /\ \A c \in Cvs : queue'[CvSem(c)] = queue[CvSem(c)]
    BY <1>2, <2>1, <2>2, SemNames
  <2> QED BY <1>1, <1>2, <1>5, <2>1, <2>3, <2>4 DEF Hoare!GiveAway
<1>7. CASE ~(nextCount > 0)
  <2>1. queue[next] = <<>> /\ Up(mutex)
    BY <1>7, CountedWait DEF HandOver
  <2>2. CASE queue[mutex] # <<>>
    <3>1. Owners' = {Head(queue[mutex])} /\ queue' = [queue EXCEPT ![mutex] = Tail(@)]
      BY <2>1, <2>2, UpOwner, SemNames
    <3>2. Owner' = Head(queue[mutex])
      BY <3>1 DEF Owner
    <3>3. queue'[mutex] = Tail(queue[mutex]) /\ queue'[next] = queue[next] /\ queue'[next] \in Seq(Procs)
          /\ \A c \in Cvs : queue'[CvSem(c)] = queue[CvSem(c)]
      BY <1>2, <3>1, SemNames
    <3> QED BY <1>1, <1>2, <1>5, <2>1, <2>2, <3>2, <3>3 DEF Hoare!GiveAway
  <2>3. CASE queue[mutex] = <<>>
    <3>1. Owners' = {} /\ queue' = queue
      BY <2>1, <2>3, UpOwner, SemNames
    <3>2. Owner' = Nobody
      BY <3>1 DEF Owner
    <3>3. queue'[next] \in Seq(Procs)
      BY <1>2, <3>1, SemNames
    <3> QED BY <1>1, <1>2, <1>5, <2>1, <2>3, <3>1, <3>2, <3>3 DEF Hoare!GiveAway
  <2> QED BY <2>2, <2>3
<1> QED BY <1>6, <1>7

-----------------------------------------------------------------------------
(* Enter: at the door, or straight in.                                     *)
LEMMA EnterMaps ==
  ASSUME IInv, NEW p \in Users, Enter(p)
  PROVE  Hoare!Enter(p)
<1>1. current = p /\ pc[p] = "out" /\ Down(p, mutex, "in") /\ p \in Procs
  BY DEF Enter, At, EnterMonitor, Users
<1>2. /\ queue \in [Sems -> Seq(Procs)] /\ Urgent = queue[next]
      /\ \A c \in Cvs : Waiting[c] = queue[CvSem(c)]
  BY <1>1, InMonitorMaps
<1>3. \A q \in Procs : q # p => pc[q] \notin Inside
  BY <1>1, Caller
<1>4. value[mutex] = IF Owners = {} THEN 1 ELSE 0
  BY SemNames DEF IInv, OwnerOK
<1>5. ASSUME NEW l \in {"in", "down_sched"}, Goto(p, l)
      PROVE  /\ Joining("sig_down", next)' = <<>>
             /\ \A c \in Cvs : Joining("wait_down", CvSem(c))' = <<>>
  <2>1. \A q \in Users : pc'[q] # "sig_down" /\ pc'[q] # "wait_down"
    BY <1>3, <1>5 DEF Goto, IInv, TypeOK, SemTypeOK, Inside, Users
  <2> QED BY <2>1 DEF Joining
<1>6. ASSUME Joining("sig_down", next)' = <<>>, \A c \in Cvs : Joining("wait_down", CvSem(c))' = <<>>,
             queue'[next] = queue[next], \A c \in Cvs : queue'[CvSem(c)] = queue[CvSem(c)]
      PROVE  UNCHANGED <<Urgent, Waiting>>
  <2>1. Urgent' = queue[next]
    BY <1>2, <1>6, ConcatEmptySeq, SemNames DEF Urgent
  <2>2. Waiting' = [c \in Cvs |-> queue[CvSem(c)]]
    BY <1>2, <1>6, ConcatEmptySeq, SemNames DEF Waiting
  <2>3. Waiting = [c \in Cvs |-> queue[CvSem(c)]]
    BY <1>2 DEF Waiting
  <2> QED BY <1>2, <2>1, <2>2, <2>3
<1>7. CASE Owners = {}
  <2>1. Goto(p, "in") /\ UNCHANGED <<queue, flags>>
    BY <1>1, <1>4, <1>7 DEF Down
  <2>2. UNCHANGED <<Urgent, Waiting>>
    BY <1>5, <1>6, <2>1
  <2>3. \A q \in Procs : pc'[q] = IF q = p THEN "in" ELSE pc[q]
    BY <2>1 DEF Goto, IInv, TypeOK, SemTypeOK
  <2>4. Owners' = {p}
    <3>1. p \in Owners'
      BY <1>1, <2>3 DEF Owners
    <3>2. ASSUME NEW q \in Owners', q # p
          PROVE  FALSE
      BY <1>7, <2>1, <2>3, <3>2 DEF Owners, Users
    <3> QED BY <3>1, <3>2
  <2>5. Owner = Nobody /\ Owner' = p
    BY <1>7, <2>4 DEF Owner
  <2> QED BY <2>1, <2>2, <2>5 DEF Hoare!Enter
<1>8. CASE Owners # {}
  <2>1. Goto(p, "down_sched") /\ queue' = [queue EXCEPT ![mutex] = Append(@, p)]
        /\ flags' = [flags EXCEPT ![p] = "WT_INTERRUPTED"]
    BY <1>1, <1>4, <1>8 DEF Down
  <2>2. queue'[mutex] = Append(queue[mutex], p) /\ queue'[next] = queue[next]
        /\ \A c \in Cvs : queue'[CvSem(c)] = queue[CvSem(c)]
    BY <1>2, <2>1, SemNames
  <2>3. UNCHANGED <<Urgent, Waiting>>
    BY <1>5, <1>6, <2>1, <2>2
  <2>4. \A q \in Procs : /\ pc'[q] = (IF q = p THEN "down_sched" ELSE pc[q])
                         /\ flags'[q] = (IF q = p THEN "WT_INTERRUPTED" ELSE flags[q])
    BY <2>1 DEF Goto, IInv, TypeOK, SemTypeOK
  <2>5. Owners' = Owners
    BY <1>1, <2>4 DEF Owners, Users
  <2>6. Owner' = Owner
    BY <2>5 DEF Owner
  <2>7. Owner # Nobody
    <3>1. Owner \in Owners
      BY <1>8 DEF Owner
    <3> QED BY <3>1, MonitorUseAssumption DEF Owners, Users
  <2> QED BY <2>2, <2>3, <2>6, <2>7 DEF Hoare!Enter
<1> QED BY <1>7, <1>8

LEMMA LeaveMaps ==
  ASSUME IInv, NEW p \in Users, Leave(p)
  PROVE  Hoare!Leave(p)
<1>1. current = p /\ pc[p] = "in" /\ HandOver /\ Goto(p, "out")
  BY DEF Leave, At, LeaveMonitor
<1>2. Hoare!GiveAway /\ Owner = p /\ \A c \in Cvs : queue'[CvSem(c)] = queue[CvSem(c)]
  BY <1>1, HandOverMaps
<1>3. \A c \in Cvs : Joining("wait_down", CvSem(c))' = <<>> /\ Joining("wait_down", CvSem(c)) = <<>>
  <2>1. \A q \in Users : pc[q] # "wait_down" /\ pc'[q] # "wait_down"
    BY <1>1 DEF Goto, IInv, TypeOK, SemTypeOK, PlaceOK, Inside, Users
  <2> QED BY <2>1 DEF Joining
<1>4. Waiting' = Waiting
  BY <1>2, <1>3 DEF Waiting
<1> QED BY <1>2, <1>4 DEF Hoare!Leave

LEMMA WaitMaps ==
  ASSUME IInv, IInv', NEW p \in Users, NEW c \in Cvs, Wait(p, c)
  PROVE  Hoare!Wait(p, c)
<1>1. current = p /\ pc[p] = "in" /\ HandOver /\ Goto(p, "wait_down") /\ cv' = [cv EXCEPT ![p] = c]
  BY DEF Wait, At, CondWait
<1>2. Hoare!GiveAway /\ Owner = p /\ \A d \in Cvs : queue'[CvSem(d)] = queue[CvSem(d)]
  BY <1>1, HandOverMaps
<1>3. queue \in [Sems -> Seq(Procs)] /\ \A d \in Cvs : Waiting[d] = queue[CvSem(d)]
  BY <1>1, InMonitorMaps
<1>4. pc'[p] = "wait_down" /\ cv'[p] = c /\ p \in Procs
  BY <1>1 DEF Goto, IInv, TypeOK, SemTypeOK, Users
<1>5. \A d \in Cvs : Joining("wait_down", CvSem(d))' = IF d = c THEN <<p>> ELSE <<>>
  <2>1. \A q \in Users : pc'[q] = "wait_down" <=> q = p
    BY <1>4 DEF IInv, PlaceOK, Inside, Users
  <2>2. (CHOOSE q \in Users : pc'[q] = "wait_down") = p
    BY <2>1
  <2> QED BY <1>4, <2>1, <2>2, SemNames DEF Joining
<1>6. \A d \in Cvs : Waiting'[d] = IF d = c THEN Append(queue[CvSem(d)], p) ELSE queue[CvSem(d)]
  <2>1. \A d \in Cvs : queue[CvSem(d)] \in Seq(Procs)
    BY <1>3, SemNames
  <2>2. \A d \in Cvs : Waiting'[d] = queue[CvSem(d)] \o (IF d = c THEN <<p>> ELSE <<>>)
    BY <1>2, <1>5 DEF Waiting
  <2>3. \A d \in Cvs : /\ queue[CvSem(d)] \o <<>> = queue[CvSem(d)]
                       /\ queue[CvSem(d)] \o <<p>> = Append(queue[CvSem(d)], p)
    BY <1>4, <2>1, ConcatEmptySeq, AppendIsConcat
  <2> QED BY <2>2, <2>3
<1>7. Waiting' = [Waiting EXCEPT ![c] = Append(@, p)]
  <2>1. Waiting = [d \in Cvs |-> queue[CvSem(d)]]
    BY <1>3 DEF Waiting
  <2>2. Waiting' = [d \in Cvs |-> IF d = c THEN Append(queue[CvSem(d)], p) ELSE queue[CvSem(d)]]
    BY <1>6 DEF Waiting
  <2> QED BY <2>1, <2>2
<1> QED BY <1>2, <1>7 DEF Hoare!Wait

(* A signal that finds somebody passes the monitor to it.                  *)
LEMMA SignalMaps ==
  ASSUME IInv, IInv', NEW p \in Users, NEW c \in Cvs, Signal(p, c), count[c] > 0
  PROVE  Hoare!Signal(p, c)
<1>1. current = p /\ pc[p] = "in" /\ Up(CvSem(c)) /\ Goto(p, "sig_down") /\ cv' = cv
  BY DEF Signal, At, CondSignal
<1>2. /\ queue \in [Sems -> Seq(Procs)] /\ Urgent = queue[next]
      /\ \A d \in Cvs : Waiting[d] = queue[CvSem(d)]
  BY <1>1, InMonitorMaps
<1>3. queue[CvSem(c)] # <<>> /\ CvSem(c) \in Sems
  BY <1>1, CountedWait, SemNames
<1>4. Owners' = {Head(queue[CvSem(c)])} /\ queue' = [queue EXCEPT ![CvSem(c)] = Tail(@)]
  BY <1>1, <1>3, UpOwner
<1>5. Owner = p /\ Owner' = Head(Waiting[c])
  <2>1. Owners = {p}
    BY <1>1, InMonitor
  <2> QED BY <1>2, <1>4, <2>1 DEF Owner
<1>6. pc'[p] = "sig_down" /\ p \in Procs /\ \A q \in Users : pc'[q] # "wait_down"
  <2>1. p \in Procs /\ pc'[p] = "sig_down"
    BY <1>1 DEF Goto, IInv, TypeOK, SemTypeOK, Users
  <2> QED BY <2>1 DEF IInv, PlaceOK, Inside, Users
<1>7. /\ queue'[mutex] = queue[mutex] /\ queue'[next] = queue[next] /\ queue[next] \in Seq(Procs)
      /\ \A d \in Cvs : queue'[CvSem(d)] = IF d = c THEN Tail(queue[CvSem(d)]) ELSE queue[CvSem(d)]
  BY <1>2, <1>4, SemNames
<1>8. Urgent' = Append(Urgent, p)
  <2>1. Joining("sig_down", next)' = <<p>>
    <3>1. \A q \in Users : pc'[q] = "sig_down" <=> q = p
      BY <1>6 DEF IInv, PlaceOK, Inside, Users
    <3>2. (CHOOSE q \in Users : pc'[q] = "sig_down") = p
      BY <3>1
    <3> QED BY <1>6, <3>1, <3>2 DEF Joining
  <2>2. Urgent' = queue[next] \o <<p>>
    BY <1>7, <2>1 DEF Urgent
  <2>3. queue[next] \o <<p>> = Append(queue[next], p)
    BY <1>6, <1>7, AppendIsConcat
  <2> QED BY <1>2, <2>2, <2>3
<1>9. Waiting' = [Waiting EXCEPT ![c] = Tail(@)]
  <2>1. \A d \in Cvs : Joining("wait_down", CvSem(d))' = <<>>
    BY <1>6 DEF Joining
  <2>2. \A d \in Cvs : queue'[CvSem(d)] \in Seq(Procs)
    BY SemNames DEF IInv, TypeOK, SemTypeOK
  <2>3. \A d \in Cvs : Waiting'[d] = queue'[CvSem(d)]
    BY <2>1, <2>2, ConcatEmptySeq DEF Waiting
  <2>4. Waiting' = [d \in Cvs |-> IF d = c THEN Tail(Waiting[d]) ELSE Waiting[d]]
    BY <1>2, <1>7, <2>3 DEF Waiting
  <2> QED BY <2>4 DEF Waiting
<1> QED BY <1>2, <1>3, <1>5, <1>7, <1>8, <1>9 DEF Hoare!Signal

-----------------------------------------------------------------------------
(* The rest changes nothing for the monitor.                               *)

hoare == <<Owner, queue[mutex], Urgent, Waiting>>

(* The down() after a signal or at the start of a wait: who counted as the *)
(* last in the queue is in it now.                                         *)
LEMMA JoinMaps ==
  ASSUME IInv, IInv', NEW p \in Users, current = p, NEW s \in Sems, NEW l,
         value[s] = 0, Down(p, s, l), UNCHANGED cv,
         \/ pc[p] = "sig_down" /\ s = next
         \/ pc[p] = "wait_down" /\ s = CvSem(cv[p])
  PROVE  UNCHANGED hoare
<1>1. /\ queue' = [queue EXCEPT ![s] = Append(@, p)] /\ pc' = [pc EXCEPT ![p] = "down_sched"]
      /\ flags' = [flags EXCEPT ![p] = "WT_INTERRUPTED"]
  BY DEF Down, Goto
<1>2. queue \in [Sems -> Seq(Procs)] /\ p \in Procs /\ cv[p] \in Cvs
  BY DEF IInv, TypeOK, SemTypeOK, Users
<1>3. \A q \in Procs : /\ pc'[q] = (IF q = p THEN "down_sched" ELSE pc[q])
                       /\ flags'[q] = (IF q = p THEN "WT_INTERRUPTED" ELSE flags[q])
  BY <1>1 DEF IInv, TypeOK, SemTypeOK
<1>4. Owner' = Owner
  <2>1. Owners' = Owners
    BY <1>2, <1>3 DEF Owners, Users
  <2> QED BY <2>1 DEF Owner
<1>5. \A t \in Sems : /\ queue[t] \in Seq(Procs)
                      /\ queue'[t] = IF t = s THEN Append(queue[t], p) ELSE queue[t]
  BY <1>1, <1>2
<1>6. \A t \in Sems : /\ queue[t] \o <<p>> = Append(queue[t], p) /\ queue[t] \o <<>> = queue[t]
                      /\ queue'[t] \o <<>> = queue'[t]
  <2>1. \A t \in Sems : Append(queue[t], p) \in Seq(Procs)
    BY <1>2, <1>5
  <2>2. \A t \in Sems : queue'[t] \in Seq(Procs)
    BY <1>5, <2>1
  <2> QED BY <1>2, <1>5, <2>2, ConcatEmptySeq, AppendIsConcat
<1>7. queue'[mutex] = queue[mutex]
  BY <1>2, <1>5, SemNames
<1>8. \A q \in Users : pc'[q] # "sig_down" /\ pc'[q] # "wait_down"
  BY <1>2, <1>3, Caller DEF Inside, Users
<1>9. Joining("sig_down", next)' = <<>> /\ \A c \in Cvs : Joining("wait_down", CvSem(c))' = <<>>
  BY <1>8 DEF Joining
<1>10. CASE pc[p] = "sig_down" /\ s = next
  <2>1. Joining("sig_down", next) = <<p>>
    BY <1>10, OneJoins
  <2>2. \A c \in Cvs : Joining("wait_down", CvSem(c)) = <<>>
    <3>1. \A q \in Users : pc[q] # "wait_down"
      BY <1>10, Caller DEF Inside, Users
    <3> QED BY <3>1, NobodyJoins
  <2>3. Urgent' = Urgent
    BY <1>5, <1>6, <1>9, <1>10, <2>1, SemNames DEF Urgent
  <2>4. Waiting' = Waiting
    BY <1>5, <1>9, <1>10, <2>2, SemNames DEF Waiting
  <2> QED BY <1>4, <1>7, <2>3, <2>4 DEF hoare
<1>11. CASE pc[p] = "wait_down" /\ s = CvSem(cv[p])
  <2>1. Joining("sig_down", next) = <<>>
    <3>1. \A q \in Users : pc[q] # "sig_down"
      BY <1>11, Caller DEF Inside, Users
    <3> QED BY <3>1, NobodyJoins
  <2>2. \A c \in Cvs : Joining("wait_down", CvSem(c)) = IF c = cv[p] THEN <<p>> ELSE <<>>
    BY <1>2, <1>11, OneJoins, SemNames
  <2>3. Urgent' = Urgent
    BY <1>2, <1>5, <1>9, <1>11, <2>1, SemNames DEF Urgent
  <2>4. \A c \in Cvs : queue'[CvSem(c)] \o <<>> = queue[CvSem(c)] \o (IF c = cv[p] THEN <<p>> ELSE <<>>)
    BY <1>2, <1>5, <1>6, <1>11, SemNames
  <2>5. Waiting' = Waiting
    BY <1>9, <2>2, <2>4 DEF Waiting
  <2> QED BY <1>4, <1>7, <2>3, <2>5 DEF hoare
<1> QED BY <1>10, <1>11

LEMMA QuietMaps ==
  ASSUME IInv, NEW p \in Users, current = p, pc[p] \notin {"sig_down", "wait_down"},
         NEW l, l \notin {"sig_down", "wait_down"}, Goto(p, l), UNCHANGED queue, Owners' = Owners
  PROVE  UNCHANGED hoare
<1>1. \A q \in Users : pc[q] # "sig_down" /\ pc[q] # "wait_down"
  BY DEF IInv, PlaceOK, Inside, Users
<1>2. \A q \in Users : pc'[q] # "sig_down" /\ pc'[q] # "wait_down"
  BY <1>1 DEF Goto, IInv, TypeOK, SemTypeOK, Users
<1>3. /\ Joining("sig_down", next)' = <<>> /\ Joining("sig_down", next) = <<>>
      /\ \A c \in Cvs : Joining("wait_down", CvSem(c))' = <<>> /\ Joining("wait_down", CvSem(c)) = <<>>
  BY <1>1, <1>2 DEF Joining
<1> QED BY <1>3 DEF hoare, Owner, Urgent, Waiting

(* The end of a call of down(), cond_signal or cond_wait: the process has  *)
(* the monitor since the up() that woke it.                                *)
LEMMA EndMaps ==
  ASSUME IInv, IInv', NEW p \in Users, DownEnd(p) \/ SignalEnd(p) \/ WaitEnd(p)
  PROVE  UNCHANGED hoare
<1>1. current = p /\ p \in Procs /\ flags[p] \in {"WT_INTERRUPTED", "WT_KSEM"}
  BY DEF DownEnd, SignalEnd, WaitEnd, At, Users, IInv, TypeOK, SemTypeOK
<1>2. p \in Owners /\ pc[p] \notin {"sig_down", "wait_down"}
  <2>1. pc[p] \in {"sig_end", "wait_end"} \/ (pc[p] = "down_wake" /\ flags[p] = "WT_KSEM")
    BY <1>1 DEF DownEnd, SignalEnd, WaitEnd, At, IInv, PlaceOK, InDown
  <2> QED BY <2>1 DEF Owners
<1>3. PICK l \in {"in", "sig_end", "wait_end"} : Goto(p, l)
  BY DEF DownEnd, SignalEnd, WaitEnd, At, IInv, ReturnOK, InDown, Inside
<1>4. p \in Owners'
  BY <1>1, <1>3 DEF Goto, Owners, IInv, TypeOK, SemTypeOK
<1>5. Owners' = Owners
  BY <1>2, <1>4 DEF IInv, OwnerOK
<1>6. queue' = queue
  <2>1. CASE DownEnd(p)
    <3>1. ~InQueue(p, on[p])
      BY <1>1, <2>1 DEF DownEnd, At, InQueue, IInv, QueueOK, Waits, PlaceOK, InDown, TypeOK, SemTypeOK
    <3> QED BY <2>1, <3>1 DEF DownEnd
  <2>2. CASE SignalEnd(p) \/ WaitEnd(p)
    BY <2>2 DEF SignalEnd, WaitEnd, semData
  <2> QED BY <2>1, <2>2
<1> QED BY <1>1, <1>2, <1>3, <1>5, <1>6, QuietMaps

LEMMA SwitchMaps ==
  ASSUME IInv, NEW p \in Users, DownSchedule(p) \/ Yield(p)
  PROVE  UNCHANGED hoare
<1>1. current = p /\ p \in Procs /\ UNCHANGED <<queue, flags>>
  BY DEF DownSchedule, Yield, At, Users, semData
<1>2. PICK l \in Labels :
        /\ Goto(p, l)
        /\ \/ pc[p] \in {"in", "out"} /\ l = pc[p]
           \/ pc[p] = "down_sched" /\ l = "down_wake"
  BY DEF DownSchedule, Yield, At, SwitchTo, Labels
<1>3. \A q \in Procs : pc'[q] = IF q = p THEN l ELSE pc[q]
  BY <1>2 DEF Goto, IInv, TypeOK, SemTypeOK
<1>4. Owners' = Owners
  BY <1>1, <1>2, <1>3 DEF Owners, Users
<1> QED BY <1>1, <1>2, <1>4, QuietMaps

-----------------------------------------------------------------------------
LEMMA InitMaps == Init => Hoare!Init
<1> SUFFICES ASSUME Init PROVE Hoare!Init
  OBVIOUS
<1>1. queue = [s \in Sems |-> <<>>] /\ \A p \in Users : pc[p] = "out"
  BY DEF Init, MonitorInit, SemInit, Users
<1>2. Owner = Nobody
  BY <1>1 DEF Owner, Owners
<1>3. \A l, s : l # "out" => Joining(l, s) = <<>>
  BY <1>1 DEF Joining
<1>4. <<>> \o <<>> = <<>>
  BY ConcatEmptySeq, <<>> \in Seq(Procs)
<1>5. Urgent = <<>> /\ Waiting = [c \in Cvs |-> <<>>]
  BY <1>1, <1>3, <1>4, SemNames DEF Urgent, Waiting
<1> QED BY <1>1, <1>2, <1>5, SemNames DEF Hoare!Init

LEMMA NextMaps == IInv /\ IInv' /\ [Next]_monVars => [Hoare!Next]_hoare
<1> SUFFICES ASSUME IInv, IInv', [Next]_monVars PROVE Hoare!Next \/ UNCHANGED hoare
  OBVIOUS
<1>1. ASSUME NEW p \in Users, Enter(p) \/ Leave(p)
      PROVE  Hoare!Next
  BY <1>1, EnterMaps, LeaveMaps DEF Hoare!Next
<1>2. ASSUME NEW p \in Users, NEW c \in Cvs, Wait(p, c)
      PROVE  Hoare!Next
  BY <1>2, WaitMaps DEF Hoare!Next
<1>3. ASSUME NEW p \in Users, NEW c \in Cvs, Signal(p, c)
      PROVE  Hoare!Next \/ UNCHANGED hoare
  <2>1. CASE count[c] > 0
    BY <1>3, <2>1, SignalMaps DEF Hoare!Next
  <2>2. CASE ~(count[c] > 0)
    <3>1. current = p /\ pc[p] = "in" /\ Goto(p, "in") /\ UNCHANGED <<queue, flags>>
      BY <1>3, <2>2 DEF Signal, At, CondSignal, semData
    <3>2. pc' = pc
      BY <3>1 DEF Goto, IInv, TypeOK, SemTypeOK
    <3>3. Owners' = Owners
      BY <3>1, <3>2 DEF Owners
    <3> QED BY <3>1, <3>3, QuietMaps
  <2> QED BY <2>1, <2>2
<1>4. ASSUME NEW p \in Users, Yield(p) \/ MonitorStep(p)
      PROVE  UNCHANGED hoare
  <2>1. CASE SignalDown(p)
    <3>1. current = p /\ pc[p] = "sig_down" /\ Down(p, next, "sig_end") /\ UNCHANGED cv
      BY <2>1 DEF SignalDown, At
    <3>2. next \in Sems /\ value[next] = 0
      BY SemNames DEF IInv, OwnerOK
    <3> QED BY <3>1, <3>2, JoinMaps
  <2>2. CASE WaitDown(p)
    <3>1. current = p /\ pc[p] = "wait_down" /\ Down(p, CvSem(cv[p]), "wait_end") /\ UNCHANGED cv
      BY <2>2 DEF WaitDown, At
    <3>2. cv[p] \in Cvs
      BY DEF IInv, TypeOK, Users
    <3>3. CvSem(cv[p]) \in Sems /\ value[CvSem(cv[p])] = 0
      BY <3>2, SemNames DEF IInv, OwnerOK
    <3> QED BY <3>1, <3>3, JoinMaps
  <2> QED BY <1>4, <2>1, <2>2, EndMaps, SwitchMaps DEF MonitorStep
<1>5. ASSUME IdleSpin \/ UNCHANGED monVars
      PROVE  UNCHANGED hoare
  <2>1. UNCHANGED <<queue, pc, cv, flags>>
    BY <1>5 DEF IdleSpin, monVars, semVars, semData
  <2>2. Owners' = Owners
    BY <2>1 DEF Owners
  <2>3. UNCHANGED <<Owner, Urgent>>
    BY <2>1, <2>2 DEF Owner, Urgent, Joining
  <2>4. \A c \in Cvs : Joining("wait_down", CvSem(c))' = Joining("wait_down", CvSem(c))
    BY <2>1 DEF Joining
  <2>5. UNCHANGED Waiting
    BY <2>1, <2>4 DEF Waiting
  <2> QED BY <2>1, <2>3, <2>5 DEF hoare
<1> QED BY <1>1, <1>2, <1>3, <1>4, <1>5 DEF Next

(* The semaphores and counts of the code keep the promise of the comment   *)
(* in monitor.h: Monitor implements HoareMonitor.                          *)
THEOREM MonitorIsHoare == Spec => HoareSpec
<1>1. Init => Hoare!Init
  BY InitMaps
<1>2. IInv /\ IInv' /\ [Next]_monVars => [Hoare!Next]_hoare
  BY NextMaps
<1>3. [Hoare!Next]_hoare => [Hoare!Next]_(Hoare!hoareVars)
  BY DEF hoare, Hoare!hoareVars
<1> QED BY <1>1, <1>2, <1>3, Invariance, PTL DEF Spec, HoareSpec, Hoare!Spec
=============================================================================

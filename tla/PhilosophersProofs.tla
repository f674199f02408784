------------------------ MODULE PhilosophersProofs ------------------------
(***************************************************************************)
(* Proofs about Philosophers, for any number of philosophers and of meals, *)
(* with semaphores and with the monitor.                                   *)
(*                                                                         *)
(* Three things have to be known of a reachable state.  Where a philosopher*)
(* is says what its phase is: whoever gives it the forks sets the phase    *)
(* and wakes it in one go.  The mutex, or the monitor, is held by one or is*)
(* free, and at most one philosopher has signalled and stands back.  And   *)
(* who is hungry with both forks free is about to be tested: by itself, or *)
(* by a neighbour that is putting its forks back, even while that one      *)
(* stands back for the other neighbour.                                    *)
(***************************************************************************)
EXTENDS Philosophers, SchedProofs, Integers

InDown(p) == pc[p] \in {"down_sched", "down_wake"}
InSleep(p) == pc[p] \in {"sleep_sched", "sleep_wake"}

\* Where a process is that does not have the processor.
Parked == {"idle", "think", "down_wake", "sleep_wake", "dead"}

\* With the mutex, or in the monitor.
Crit == {"take_in", "take_test", "take_check", "take_out", "put_in", "put_left", "put_right", "put_out"}

(* Where a process is, and its state.                                      *)
PlaceOK(p) ==
  /\ pc[p] = "idle" <=> p = Idle
  /\ p # current => pc[p] \in Parked
  /\ state[p] \in {"RUNNABLE", "SLEEPING", "ZOMBIE"}
  /\ state[p] = "ZOMBIE" <=> pc[p] \in {"quit_sched", "dead"}
  /\ state[p] = "SLEEPING" => \/ InDown(p) /\ flags[p] = "WT_INTERRUPTED" /\ waitState[p] = "WT_KSEM"
                              \/ InSleep(p) /\ waitState[p] = "WT_TIMER"
  /\ waitState[p] = "WT_TIMER" => state[p] = "SLEEPING" /\ InSleep(p)
  /\ InDown(p) /\ flags[p] = "WT_INTERRUPTED" => state[p] = "SLEEPING"
  /\ pc[p] = "down_sched" => flags[p] = "WT_INTERRUPTED"
  /\ p = current /\ state[p] # "RUNNABLE" => pc[p] \in {"down_sched", "sleep_sched", "quit_sched"}

(* The way a philosopher that waits goes on.                               *)
WayOK(i) ==
  /\ InDown(i) =>
       \/ kind = "sema" /\ on[i] = CvSem(i) /\ then[i] = "eat"
       \/ kind = "condvar" /\ on[i] = mutex /\ then[i] \in {"take_in", "put_in"}
       \/ kind = "condvar" /\ on[i] = next /\ then[i] = "sig_end" /\ ret[i] \in {"put_right", "put_out"}
       \/ kind = "condvar" /\ on[i] = CvSem(i) /\ then[i] = "wait_end"
          /\ ret[i] = "take_out" /\ cv[i] = i
  /\ InSleep(i) => then[i] \in {"take", "put"}
  /\ ~InDown(i) /\ ~InSleep(i) => then[i] = "idle"
  /\ pc[i] \in {"sig_down", "sig_end"} => kind = "condvar" /\ ret[i] \in {"put_right", "put_out"}
  /\ pc[i] \in {"wait_down", "wait_end"} => kind = "condvar" /\ ret[i] = "take_out" /\ cv[i] = i
  /\ pc[i] = "take_check" => kind = "condvar"
  /\ pc[i] = "take_s" => kind = "sema"

(* The phase belongs to the place: hungry only between the wish and the    *)
(* forks, eating from the moment the forks are given.                      *)
Where(i) == IF InDown(i) \/ InSleep(i) THEN then[i] ELSE pc[i]

Refused(i) == InDown(i) /\ on[i] = CvSem(i) /\ flags[i] = "WT_INTERRUPTED"

PhaseOK(i) ==
  /\ Where(i) \in {"think", "take", "take_in", "put_left", "put_right", "put_out", "sig_down", "sig_end",
                   "quit", "quit_sched", "dead"} => phase[i] = "THINKING"
  /\ Where(i) \in {"take_test", "wait_down"} => phase[i] = "HUNGRY"
  /\ Where(i) \in {"take_check", "take_out", "take_s"} => phase[i] \in {"HUNGRY", "EATING"}
  /\ Where(i) = "take_out" /\ kind = "condvar" => phase[i] = "EATING"
  /\ Where(i) \in {"eat", "put", "put_in", "wait_end"} =>
       phase[i] = IF Refused(i) THEN "HUNGRY" ELSE "EATING"

(* The queue of a semaphore holds those that wait for it, each once.       *)
QueueOK ==
  /\ \A s \in Sems : \A j \in DOMAIN queue[s] : Waits(queue[s][j], s)
  /\ \A s \in Sems : \A j, k \in DOMAIN queue[s] : queue[s][j] = queue[s][k] => j = k
  /\ \A p \in Procs, s \in Sems : Waits(p, s) => InQueue(p, s)

\* With the mutex or in the monitor, or given it and not there yet.
Owners ==
  {i \in Seats : \/ pc[i] \in Crit \cup {"sig_end", "wait_end"}
                 \/ kind = "condvar" /\ InDown(i) /\ flags[i] = "WT_KSEM"}

(* One philosopher has the mutex or it is free, and when it is free nobody *)
(* stands at the door or stands back.                                      *)
OwnerOK ==
  /\ \A i, j \in Owners : i = j
  /\ value[mutex] = IF Owners = {} THEN 1 ELSE 0
  /\ value[next] = 0
  /\ Owners = {} => /\ queue[mutex] = <<>> /\ queue[next] = <<>>
                    /\ \A i \in Seats : pc[i] # "sig_down"

\* Has signalled and not gone on.
StandsBack(i) == pc[i] \in {"sig_down", "sig_end"} \/ (InDown(i) /\ on[i] = next)

\* In cond_wait.
InWait(i) ==
  kind = "condvar" /\ (pc[i] \in {"wait_down", "wait_end"} \/ (InDown(i) /\ on[i] = CvSem(i)))

(* Who has got the forks before it waits for them finds a unit of its      *)
(* semaphore; no other semaphore of a philosopher has one.                 *)
HasUnit(i) == kind = "sema" /\ phase[i] = "EATING" /\ pc[i] \in {"take_out", "take_s"}

UnitsOK == \A i \in Seats : value[CvSem(i)] = IF HasUnit(i) THEN 1 ELSE 0

(* At most one stands back, and then the monitor is with whom it woke; the *)
(* counts say who waits and who stands back.                               *)
CountOK ==
  /\ \A i, j \in Seats : StandsBack(i) /\ StandsBack(j) => i = j
  /\ nextCount = IF \E i \in Seats : StandsBack(i) THEN 1 ELSE 0
  /\ \A i \in Seats : count[i] = IF InWait(i) THEN 1 ELSE 0
  /\ \A i \in Seats, o \in Owners :
       StandsBack(i) /\ o # i => (InDown(o) /\ on[o] = CvSem(o)) \/ pc[o] \in {"wait_end", "take_out"}

(* Who is hungry with both forks free is about to be tested.               *)
Pending(i) ==
  \/ pc[i] = "take_test"
  \/ \E k \in Seats : \/ LEFT(k) = i /\ pc[k] = "put_left"
                      \/ RIGHT(k) = i /\ pc[k] \in {"put_left", "put_right"}
                      \/ RIGHT(k) = i /\ StandsBack(k) /\ ret[k] = "put_right"

TestOK == \A i \in Seats : MayEat(i) => Pending(i)

TypeOK2 ==
  /\ TypeOK
  /\ cv \in [Procs -> Cvs] /\ ret \in [Procs -> Labels]
  /\ kind \in {"sema", "condvar"}

IInv ==
  /\ TypeOK2
  /\ SchedInv
  /\ \A p \in Procs : PlaceOK(p)
  /\ \A i \in Seats : WayOK(i) /\ PhaseOK(i)
  /\ QueueOK
  /\ OwnerOK
  /\ UnitsOK
  /\ CountOK
  /\ TestOK

-----------------------------------------------------------------------------
(* The table is round: the right neighbour of the left neighbour of i is i,*)
(* and the other way about.                                                *)
LEMMA OnceAround ==
  ASSUME NEW a \in 0 .. N + N - 1
  PROVE  a % N = IF a < N THEN a ELSE a - N
<1> DEFINE q == a \div N
           m == a % N
<1>1. N \in Nat \ {0} /\ a \in Nat
  BY PhilosophersAssumption
<1>2. q \in Int /\ a = N * q + m
  BY <1>1
<1>3. m \in 0 .. N - 1
  BY <1>1
<1> HIDE DEF q, m
<1>4. ~(q >= 2)
  <2> SUFFICES ASSUME q >= 2 PROVE FALSE
    OBVIOUS
  <2>1. q - 2 \in Nat
    BY <1>2
  <2>2. N * (q - 2) >= 0
    BY <1>1, <2>1
  <2>3. N * (q - 2) = N * q - (N + N)
    BY <1>1, <1>2
  <2> QED BY <1>1, <1>2, <1>3, <2>2, <2>3
<1>5. ~(q <= -1)
  <2> SUFFICES ASSUME q <= -1 PROVE FALSE
    OBVIOUS
  <2>1. -1 - q \in Nat
    BY <1>2
  <2>2. N * (-1 - q) >= 0
    BY <1>1, <2>1
  <2>3. N * (-1 - q) = -N - N * q
    BY <1>1, <1>2
  <2> QED BY <1>1, <1>2, <1>3, <2>2, <2>3
<1>6. q = 0 \/ q = 1
  BY <1>2, <1>4, <1>5
<1>7. CASE q = 0
  BY <1>1, <1>2, <1>3, <1>7 DEF m
<1>8. CASE q = 1
  <2>1. N * q = N
    BY <1>1, <1>8
  <2> QED BY <1>1, <1>2, <1>3, <2>1 DEF m
<1> QED BY <1>6, <1>7, <1>8

LEMMA Neighbours ==
  ASSUME NEW i \in Seats
  PROVE  LEFT(i) \in Seats /\ RIGHT(i) \in Seats /\ RIGHT(LEFT(i)) = i /\ LEFT(RIGHT(i)) = i
<1>1. N \in Nat \ {0} /\ Seats = 0 .. N - 1 /\ i \in 0 .. N - 1
  BY PhilosophersAssumption DEF Seats
<1>2. \A k \in Seats : RIGHT(k) = IF k = N - 1 THEN 0 ELSE k + 1
  <2> SUFFICES ASSUME NEW k \in Seats PROVE RIGHT(k) = IF k = N - 1 THEN 0 ELSE k + 1
    OBVIOUS
  <2> DEFINE a == k + 1
             m == a % N
  <2>1. a \in 0 .. N + N - 1 /\ k \in 0 .. N - 1 /\ a = k + 1
    BY <1>1
  <2>2. RIGHT(k) = m
    BY DEF RIGHT
  <2> HIDE DEF a
  <2>3. m = IF a < N THEN a ELSE a - N
    BY <2>1, OnceAround
  <2> HIDE DEF m
  <2> QED BY <1>1, <2>1, <2>2, <2>3
<1>3. \A k \in Seats : LEFT(k) = IF k = 0 THEN N - 1 ELSE k - 1
  <2> SUFFICES ASSUME NEW k \in Seats PROVE LEFT(k) = IF k = 0 THEN N - 1 ELSE k - 1
    OBVIOUS
  <2> DEFINE a == k + N - 1
             m == a % N
  <2>1. a \in 0 .. N + N - 1 /\ k \in 0 .. N - 1 /\ a = k + N - 1
    BY <1>1
  <2>2. LEFT(k) = m
    BY DEF LEFT
  <2> HIDE DEF a
  <2>3. m = IF a < N THEN a ELSE a - N
    BY <2>1, OnceAround
  <2> HIDE DEF m
  <2> QED BY <1>1, <2>1, <2>2, <2>3
<1>4. LEFT(i) \in Seats /\ RIGHT(i) \in Seats
  BY <1>1, <1>2, <1>3
<1> QED BY <1>1, <1>2, <1>3, <1>4

LEMMA SemNames ==
  /\ mutex \in Sems /\ next \in Sems /\ mutex # next
  /\ \A c \in Cvs : CvSem(c) \in Sems /\ CvSem(c) # mutex /\ CvSem(c) # next
  /\ \A c, d \in Cvs : CvSem(c) = CvSem(d) => c = d
  /\ \A s \in Sems : s = mutex \/ s = next \/ \E c \in Cvs : s = CvSem(c)
  /\ NoSem \in Sems /\ NoCv \in Cvs
<1>1. mutex \in Sems /\ next \in Sems /\ \A c \in Cvs : CvSem(c) \in Sems
  BY MonitorAssumption
<1>2. mutex # next /\ \A c \in Cvs : CvSem(c) # mutex /\ CvSem(c) # next
  BY DEF mutex, next, CvSem
<1>3. \A c, d \in Cvs : CvSem(c) = CvSem(d) => c = d
  BY DEF CvSem
<1>4. \A s \in Sems : s = mutex \/ s = next \/ \E c \in Cvs : s = CvSem(c)
  BY MonitorAssumption
<1>5. NoSem \in Sems /\ NoCv \in Cvs
  BY <1>1, MonitorAssumption DEF NoSem, NoCv
<1> QED BY <1>1, <1>2, <1>3, <1>4, <1>5

LEMMA Sitting ==
  /\ \A i \in Seats : i \in Procs /\ i \in Cvs /\ i # Idle
  /\ \A p \in Procs : p = Idle \/ p \in Seats
  /\ Idle \in Procs
  BY PhilosophersAssumption DEF Seats

(* The philosopher that has the processor, outside of a call in which it   *)
(* has to wait; the others are where schedule() left them.                 *)
LEMMA Caller ==
  ASSUME IInv, NEW i \in Seats, current = i
  PROVE  /\ i \in Procs /\ i # Idle
         /\ \A q \in Procs : q # i => pc[q] \in Parked
         /\ pc[i] \notin {"down_sched", "sleep_sched", "quit_sched"} =>
              state[i] = "RUNNABLE" /\ waitState[i] # "WT_TIMER" /\ (InDown(i) => flags[i] = "WT_KSEM")
  BY Sitting DEF IInv, TypeOK2, TypeOK, SemTypeOK, PlaceOK, InDown

LEMMA UpWakes ==
  ASSUME IInv, NEW s \in Sems, queue[s] # <<>>, Up(s)
  PROVE  /\ SchedInv' /\ UNCHANGED <<current, value>>
         /\ Head(queue[s]) \in Seats /\ Waits(Head(queue[s]), s)
         /\ queue' = [queue EXCEPT ![s] = Tail(@)]
         /\ flags' = [flags EXCEPT ![Head(queue[s])] = "WT_KSEM"]
         /\ \A q \in Procs :
              /\ state'[q] = (IF q = Head(queue[s]) THEN "RUNNABLE" ELSE state[q])
              /\ waitState'[q] = (IF q = Head(queue[s]) THEN "NONE" ELSE waitState[q])
<1> DEFINE h == Head(queue[s])
<1>1. queue[s] \in Seq(Procs) /\ 1 \in DOMAIN queue[s] /\ h = queue[s][1] /\ h \in Procs
  BY DEF IInv, TypeOK2, TypeOK, SemTypeOK
<1>2. Waits(h, s)
  BY <1>1 DEF IInv, QueueOK
<1>3. h \in Seats /\ state[h] = "SLEEPING"
  BY <1>1, <1>2, Sitting DEF Waits, IInv, PlaceOK, InDown
<1>4. WakeupProc(h) /\ value' = value /\ queue' = [queue EXCEPT ![s] = Tail(@)]
      /\ flags' = [flags EXCEPT ![h] = "WT_KSEM"]
  BY DEF Up
<1>5. SchedInv'
  BY <1>1, <1>4, WakeupProcKeeps DEF IInv
<1>6. \A q \in Procs :
        /\ state'[q] = (IF q = h THEN "RUNNABLE" ELSE state[q])
        /\ waitState'[q] = (IF q = h THEN "NONE" ELSE waitState[q])
  BY <1>3, <1>4 DEF WakeupProc, MakeRunnable, Woken
<1> QED BY <1>2, <1>3, <1>4, <1>5, <1>6 DEF WakeupProc

(* The queues after it.                                                    *)
LEMMA UpQueues ==
  ASSUME IInv, NEW s \in Sems, queue[s] # <<>>,
         queue' = [queue EXCEPT ![s] = Tail(@)],
         \A q \in Procs, t \in Sems : Waits(q, t)' <=> Waits(q, t) /\ q # Head(queue[s])
  PROVE  QueueOK' /\ queue' \in [Sems -> Seq(Procs)]
<1> DEFINE h == Head(queue[s])
<1>1. queue \in [Sems -> Seq(Procs)] /\ queue[s] \in Seq(Procs) /\ 1 \in DOMAIN queue[s]
      /\ h = queue[s][1]
  BY DEF IInv, TypeOK2, TypeOK, SemTypeOK
<1>2. /\ queue'[s] \in Seq(Procs)
      /\ \A i \in DOMAIN queue'[s] : i + 1 \in DOMAIN queue[s] /\ i + 1 # 1
         /\ queue'[s][i] = queue[s][i + 1]
      /\ \A i \in DOMAIN queue[s] : i # 1 => i - 1 \in DOMAIN queue'[s]
         /\ queue'[s][i - 1] = queue[s][i]
  BY <1>1
<1>3. \A i, j \in DOMAIN queue'[s] : i + 1 = j + 1 => i = j
  BY <1>2
<1>4. \A t \in Sems : t # s => queue'[t] = queue[t]
  BY <1>1
<1>5. queue' \in [Sems -> Seq(Procs)]
  BY <1>1, <1>2
<1>6. \A t \in Sems : \A i \in DOMAIN queue[t] : queue[t][i] \in Procs /\ Waits(queue[t][i], t)
  BY <1>1 DEF IInv, QueueOK
<1>7. ASSUME NEW t \in Sems, NEW i \in DOMAIN queue'[t]
      PROVE  Waits(queue[t][i], t)'
  <2>1. queue'[t][i] \in Procs /\ Waits(queue'[t][i], t) /\ queue'[t][i] # h
    <3>1. CASE t = s
      BY <1>1, <1>2, <1>6, <3>1 DEF IInv, QueueOK
    <3>2. CASE t # s
      <4>1. Waits(h, s)
        BY <1>1, <1>6
      <4> QED BY <1>4, <1>6, <3>2, <4>1 DEF Waits
    <3> QED BY <3>1, <3>2
  <2> QED BY <2>1 DEF Waits
<1>8. ASSUME NEW t \in Sems, NEW i \in DOMAIN queue'[t], NEW j \in DOMAIN queue'[t],
             queue'[t][i] = queue'[t][j]
      PROVE  i = j
  <2>1. CASE t = s
    BY <1>2, <1>3, <1>8, <2>1 DEF IInv, QueueOK
  <2>2. CASE t # s
    BY <1>4, <1>8, <2>2 DEF IInv, QueueOK
  <2> QED BY <2>1, <2>2
<1>9. ASSUME NEW q \in Procs, NEW t \in Sems, Waits(q, t)'
      PROVE  InQueue(q, t)'
  <2>1. PICK i \in DOMAIN queue[t] : queue[t][i] = q
    BY <1>9 DEF IInv, QueueOK, InQueue
  <2>2. q # h
    BY <1>9 DEF Waits
  <2>3. CASE t = s
    BY <1>1, <1>2, <2>1, <2>2, <2>3 DEF InQueue
  <2>4. CASE t # s
    BY <1>4, <2>1, <2>4 DEF InQueue
  <2> QED BY <2>3, <2>4
<1> QED BY <1>5, <1>7, <1>8, <1>9 DEF QueueOK

(* Nobody begins or ceases to wait.                                        *)
LEMMA SameQueues ==
  ASSUME IInv, UNCHANGED queue, \A q \in Procs, t \in Sems : Waits(q, t)' <=> Waits(q, t)
  PROVE  QueueOK'
<1>1. \A t \in Sems : \A i \in DOMAIN queue[t] : queue[t][i] \in Procs /\ Waits(queue[t][i], t)
  BY DEF IInv, QueueOK, TypeOK2, TypeOK, SemTypeOK
<1>2. ASSUME NEW t \in Sems, NEW i \in DOMAIN queue[t]
      PROVE  Waits(queue[t][i], t)'
  BY <1>1 DEF Waits
<1>3. ASSUME NEW q \in Procs, NEW t \in Sems, Waits(q, t)'
      PROVE  InQueue(q, t)
  BY <1>3 DEF IInv, QueueOK, Waits
<1> QED BY <1>2, <1>3 DEF IInv, QueueOK, InQueue

(* One more waits, the last of its queue.                                  *)
LEMMA JoinsQueue ==
  ASSUME IInv, NEW s \in Sems, NEW p \in Procs, ~InDown(p),
         queue' = [queue EXCEPT ![s] = Append(@, p)],
         \A q \in Procs, t \in Sems : Waits(q, t)' <=> Waits(q, t) \/ (q = p /\ t = s)
  PROVE  QueueOK' /\ queue' \in [Sems -> Seq(Procs)]
<1>1. queue \in [Sems -> Seq(Procs)] /\ queue[s] \in Seq(Procs)
  BY DEF IInv, TypeOK2, TypeOK, SemTypeOK
<1>2. /\ DOMAIN queue'[s] = DOMAIN queue[s] \cup {Len(queue[s]) + 1}
      /\ Len(queue[s]) + 1 \notin DOMAIN queue[s]
      /\ queue'[s][Len(queue[s]) + 1] = p
      /\ \A i \in DOMAIN queue[s] : queue'[s][i] = queue[s][i]
      /\ \A t \in Sems : t # s => queue'[t] = queue[t]
  BY <1>1
<1>3. \A t \in Sems : \A i \in DOMAIN queue[t] : queue[t][i] \in Procs
      /\ Waits(queue[t][i], t) /\ queue[t][i] # p
  BY <1>1 DEF IInv, QueueOK, Waits, InDown
<1>4. ASSUME NEW t \in Sems, NEW i \in DOMAIN queue'[t]
      PROVE  Waits(queue[t][i], t)'
  <2>1. \/ t = s /\ queue'[t][i] = p
        \/ i \in DOMAIN queue[t] /\ queue'[t][i] = queue[t][i]
    BY <1>2
  <2>2. queue'[t][i] \in Procs /\ (Waits(queue'[t][i], t) \/ (queue'[t][i] = p /\ t = s))
    BY <1>3, <2>1
  <2> QED BY <2>2 DEF Waits
<1>5. ASSUME NEW t \in Sems, NEW i \in DOMAIN queue'[t], NEW j \in DOMAIN queue'[t],
             queue'[t][i] = queue'[t][j]
      PROVE  i = j
  BY <1>2, <1>3, <1>5 DEF IInv, QueueOK
<1>6. ASSUME NEW q \in Procs, NEW t \in Sems, Waits(q, t)'
      PROVE  InQueue(q, t)'
  <2>1. (q = p /\ t = s) \/ Waits(q, t)
    BY <1>6
  <2>2. CASE Waits(q, t)
    BY <1>2, <2>2 DEF IInv, QueueOK, InQueue
  <2>3. CASE q = p /\ t = s
    BY <1>2, <2>3 DEF InQueue
  <2> QED BY <2>1, <2>2, <2>3
<1> QED BY <1>1, <1>4, <1>5, <1>6 DEF QueueOK

-----------------------------------------------------------------------------
(* What one philosopher does leaves the others as they are, except one it  *)
(* wakes, which stays where it is.                                         *)
Placed(P) ==
  /\ \A q \in Procs : q \notin P =>
       pc'[q] = pc[q] /\ on'[q] = on[q] /\ then'[q] = then[q] /\ ret'[q] = ret[q] /\ cv'[q] = cv[q]
  /\ \A q \in Seats : q \notin P => phase'[q] = phase[q]
  /\ kind' = kind

Apart(P) ==
  /\ Placed(P)
  /\ \A q \in Procs : q \notin P =>
       state'[q] = state[q] /\ waitState'[q] = waitState[q] /\ flags'[q] = flags[q]

LocalOK(p) == PlaceOK(p) /\ (p \in Seats => WayOK(p) /\ PhaseOK(p))

LEMMA LocalKeeps ==
  ASSUME IInv, NEW P, Apart(P), current' = current,
         \A p \in Procs : p \in P => LocalOK(p)'
  PROVE  (\A p \in Procs : PlaceOK(p)') /\ (\A j \in Seats : WayOK(j)' /\ PhaseOK(j)')
<1>1. ASSUME NEW p \in Procs PROVE PlaceOK(p)'
  <2>1. CASE p \in P
    BY <2>1 DEF LocalOK
  <2>2. CASE p \notin P
    BY <2>2 DEF Apart, Placed, IInv, PlaceOK, InDown, InSleep
  <2> QED BY <2>1, <2>2
<1>2. ASSUME NEW j \in Seats PROVE WayOK(j)' /\ PhaseOK(j)'
  <2>1. CASE j \in P
    BY <2>1, Sitting DEF LocalOK
  <2>2. CASE j \notin P
    <3>1. WayOK(j)'
      BY <2>2, Sitting DEF Apart, Placed, IInv, WayOK, InDown, InSleep
    <3>2. PhaseOK(j)'
      BY <2>2, Sitting DEF Apart, Placed, IInv, PhaseOK, Where, Refused, InDown, InSleep
    <3> QED BY <3>1, <3>2
  <2> QED BY <2>1, <2>2
<1> QED BY <1>1, <1>2

(* When nobody has the mutex, nobody stands back.                          *)
LEMMA NobodyBack ==
  ASSUME IInv, Owners = {}
  PROVE  (\A k \in Seats : ~StandsBack(k)) /\ nextCount = 0
<1>1. ASSUME NEW k \in Seats, StandsBack(k) PROVE FALSE
  <2>1. k \in Procs /\ flags[k] \in {"WT_INTERRUPTED", "WT_KSEM"}
    BY Sitting DEF IInv, TypeOK2, TypeOK, SemTypeOK
  <2>2. CASE pc[k] \in {"sig_down", "sig_end"}
    BY <2>2 DEF IInv, OwnerOK, Owners
  <2>3. CASE InDown(k) /\ on[k] = next /\ flags[k] = "WT_KSEM"
    BY <2>3, SemNames, Sitting DEF IInv, WayOK, Owners
  <2>4. CASE InDown(k) /\ on[k] = next /\ flags[k] = "WT_INTERRUPTED"
    <3>1. Waits(k, next)
      BY <2>4 DEF Waits, InDown
    <3>2. InQueue(k, next)
      BY <2>1, <3>1, SemNames DEF IInv, QueueOK
    <3> QED BY <3>2 DEF IInv, OwnerOK, InQueue
  <2> QED BY <1>1, <2>1, <2>2, <2>3, <2>4 DEF StandsBack
<1> QED BY <1>1 DEF IInv, CountOK

(* The parts that speak of more than one process, when one moves.          *)
LEMMA CountSame ==
  ASSUME IInv, NEW i \in Seats, Apart({i}), UNCHANGED monData,
         StandsBack(i)' <=> StandsBack(i), InWait(i)' <=> InWait(i),
         Owners' \subseteq Owners \cup {i},
         i \in Owners' /\ (\E k \in Seats : k # i /\ StandsBack(k)) =>
           ((InDown(i) /\ on[i] = CvSem(i)) \/ pc[i] \in {"wait_end", "take_out"})'
  PROVE  CountOK'
<1>1. \A k \in Seats : k # i =>
        /\ StandsBack(k)' <=> StandsBack(k)
        /\ InWait(k)' <=> InWait(k)
        /\ InDown(k)' <=> InDown(k)
        /\ on'[k] = on[k] /\ pc'[k] = pc[k]
  BY Sitting DEF Apart, Placed, StandsBack, InWait, InDown
<1>2. \A k \in Seats : (StandsBack(k)' <=> StandsBack(k)) /\ (InWait(k)' <=> InWait(k))
  BY <1>1
<1>3. nextCount' = (IF \E k \in Seats : StandsBack(k)' THEN 1 ELSE 0)
      /\ \A k \in Seats : count'[k] = IF InWait(k)' THEN 1 ELSE 0
  BY <1>2 DEF IInv, CountOK, monData
<1>4. \A k, j \in Seats : StandsBack(k)' /\ StandsBack(j)' => k = j
  BY <1>2 DEF IInv, CountOK
<1>5. ASSUME NEW k \in Seats, NEW o \in Owners', StandsBack(k)', o # k
      PROVE  ((InDown(o) /\ on[o] = CvSem(o)) \/ pc[o] \in {"wait_end", "take_out"})'
  <2>1. o \in Seats
    BY DEF Owners
  <2>2. CASE o = i
    BY <1>2, <1>5, <2>2
  <2>3. CASE o # i
    <3>1. o \in Owners /\ StandsBack(k)
      BY <1>2, <1>5, <2>3
    <3>2. (InDown(o) /\ on[o] = CvSem(o)) \/ pc[o] \in {"wait_end", "take_out"}
      BY <1>5, <3>1 DEF IInv, CountOK
    <3>3. (InDown(o)' <=> InDown(o)) /\ on'[o] = on[o] /\ pc'[o] = pc[o]
      BY <1>1, <2>1, <2>3
    <3> QED BY <3>2, <3>3
  <2> QED BY <2>2, <2>3
<1> QED BY <1>3, <1>4, <1>5 DEF CountOK

LEMMA TestPlaced ==
  ASSUME IInv, NEW i \in Seats, Placed({i}), UNCHANGED phase,
         pc[i] = "take_test" => ~MayEat(i),
         pc[i] = "put_left" => pc'[i] = "put_right" /\ ~MayEat(LEFT(i)),
         pc[i] = "put_right" => ~MayEat(RIGHT(i)),
         StandsBack(i) /\ ret[i] = "put_right" =>
           pc'[i] = "put_right" \/ (StandsBack(i)' /\ ret'[i] = "put_right")
  PROVE  TestOK'
<1>1. ASSUME NEW j \in Seats PROVE MayEat(j)' => Pending(j)'
  <2>0. MayEat(j)' <=> MayEat(j)
    BY DEF MayEat, LEFT, RIGHT
  <2>1. SUFFICES ASSUME MayEat(j) PROVE Pending(j)'
    BY <2>0
  <2>2. \A k \in Seats : LEFT(k)' = LEFT(k) /\ RIGHT(k)' = RIGHT(k)
    BY DEF LEFT, RIGHT
  <2>3. \A k \in Seats : k # i => pc'[k] = pc[k] /\ ret'[k] = ret[k]
        /\ (StandsBack(k)' <=> StandsBack(k))
    BY Sitting DEF Placed, StandsBack, InDown
  <2>4. Pending(j)
    BY <2>1 DEF IInv, TestOK
  <2>5. CASE pc[j] = "take_test"
    BY <2>1, <2>3, <2>5 DEF Pending
  <2>6. CASE \E k \in Seats : \/ LEFT(k) = j /\ pc[k] = "put_left"
                              \/ RIGHT(k) = j /\ pc[k] \in {"put_left", "put_right"}
                              \/ RIGHT(k) = j /\ StandsBack(k) /\ ret[k] = "put_right"
    <3>1. PICK k \in Seats : \/ LEFT(k) = j /\ pc[k] = "put_left"
                             \/ RIGHT(k) = j /\ pc[k] \in {"put_left", "put_right"}
                             \/ RIGHT(k) = j /\ StandsBack(k) /\ ret[k] = "put_right"
      BY <2>6
    <3>2. \/ LEFT(k) = j /\ pc'[k] = "put_left"
          \/ RIGHT(k) = j /\ pc'[k] \in {"put_left", "put_right"}
          \/ RIGHT(k) = j /\ StandsBack(k)' /\ ret'[k] = "put_right"
      BY <2>1, <2>3, <3>1
    <3> QED BY <2>2, <3>2 DEF Pending
  <2> QED BY <2>4, <2>5, <2>6 DEF Pending
<1> QED BY <1>1 DEF TestOK

LEMMA TestSame ==
  ASSUME IInv, NEW i \in Seats, Apart({i}), UNCHANGED phase,
         pc[i] = "take_test" => ~MayEat(i),
         pc[i] = "put_left" => pc'[i] = "put_right" /\ ~MayEat(LEFT(i)),
         pc[i] = "put_right" => ~MayEat(RIGHT(i)),
         StandsBack(i) /\ ret[i] = "put_right" =>
           pc'[i] = "put_right" \/ (StandsBack(i)' /\ ret'[i] = "put_right")
  PROVE  TestOK'
  BY TestPlaced DEF Apart

LEMMA UnitsPlaced ==
  ASSUME IInv, NEW i \in Seats, Placed({i}), \A k \in Seats : value'[CvSem(k)] = value[CvSem(k)],
         HasUnit(i)' <=> HasUnit(i)
  PROVE  UnitsOK'
<1>1. \A k \in Seats : k # i => (HasUnit(k)' <=> HasUnit(k))
  BY Sitting DEF Placed, HasUnit
<1>2. \A k \in Seats : HasUnit(k)' <=> HasUnit(k)
  BY <1>1
<1>3. \A k \in Seats : CvSem(k)' = CvSem(k)
  BY DEF CvSem
<1> QED BY <1>2, <1>3 DEF IInv, UnitsOK

LEMMA UnitsSame ==
  ASSUME IInv, NEW i \in Seats, Apart({i}), UNCHANGED value, HasUnit(i)' <=> HasUnit(i)
  PROVE  UnitsOK'
  BY UnitsPlaced DEF Apart

LEMMA OwnersSame ==
  ASSUME NEW i \in Seats, Apart({i}), i \in Owners' <=> i \in Owners
  PROVE  Owners' = Owners
<1>1. \A k \in Seats : k # i => (k \in Owners' <=> k \in Owners)
  BY Sitting DEF Apart, Placed, Owners, InDown
<1> QED BY <1>1 DEF Owners

(* The process that runs goes from one place to the next, and no queue     *)
(* changes.                                                                *)
LEMMA StepKeeps ==
  ASSUME IInv, NEW i \in Seats, current = i, Apart({i}), UNCHANGED <<schedVars, queue>>,
         pc[i] \notin {"down_sched", "sleep_sched", "quit_sched"}, ~InDown(i)',
         TypeOK2', LocalOK(i)', OwnerOK', UnitsOK', CountOK', TestOK'
  PROVE  IInv'
<1>1. (\A p \in Procs : PlaceOK(p)') /\ (\A j \in Seats : WayOK(j)' /\ PhaseOK(j)')
  BY LocalKeeps DEF schedVars
<1>2. SchedInv'
  BY NobodyWoken DEF IInv
<1>3. QueueOK'
  <2>1. \A t \in Sems : ~Waits(i, t) /\ ~Waits(i, t)'
    BY Caller DEF Waits, InDown
  <2>2. \A q \in Procs, t \in Sems : Waits(q, t)' <=> Waits(q, t)
    BY <2>1 DEF Waits, Apart, Placed
  <2> QED BY <2>2, SameQueues
<1> QED BY <1>1, <1>2, <1>3 DEF IInv

(* It keeps the mutex, or does not have it.                                *)
LEMMA OwnerSame ==
  ASSUME IInv, NEW i \in Seats, Apart({i}), UNCHANGED queue,
         value'[mutex] = value[mutex], value'[next] = value[next],
         pc'[i] # "sig_down", i \in Owners' <=> i \in Owners
  PROVE  OwnerOK'
<1>1. Owners' = Owners
  BY OwnersSame
<1>2. \A k \in Seats : pc'[k] = "sig_down" => pc[k] = "sig_down"
  BY Sitting DEF Apart, Placed
<1>3. \A j, k \in Owners' : j = k
  BY <1>1 DEF IInv, OwnerOK
<1>4. mutex' = mutex /\ next' = next
  BY DEF mutex, next
<1> QED BY <1>1, <1>2, <1>3, <1>4 DEF IInv, OwnerOK

LEMMA StutterKeeps == IInv /\ UNCHANGED vars => IInv'
<1> SUFFICES ASSUME IInv, UNCHANGED vars PROVE IInv'
  OBVIOUS
<1> USE DEF vars, philData, monVars, semVars, semData, monData, schedVars
<1>1. TypeOK2' /\ SchedInv'
  BY DEF IInv, TypeOK2, TypeOK, SemTypeOK, SchedTypeOK, SchedInv, RunQueueExact
<1>2. (\A p \in Procs : PlaceOK(p)') /\ (\A j \in Seats : WayOK(j)' /\ PhaseOK(j)')
  <2>1. Apart({}) /\ current' = current
    BY DEF Apart, Placed
  <2> QED BY <2>1, LocalKeeps
<1>3. QueueOK' /\ Owners' = Owners
  BY DEF IInv, QueueOK, InQueue, Waits, Owners, InDown
<1>4. OwnerOK'
  BY <1>3 DEF IInv, OwnerOK
<1>5. UnitsOK'
  BY DEF IInv, UnitsOK, HasUnit
<1>6. CountOK'
  BY <1>3 DEF IInv, CountOK, StandsBack, InWait, InDown
<1>7. TestOK'
  BY DEF IInv, TestOK, MayEat, Pending, StandsBack, InDown, LEFT, RIGHT
<1> QED BY <1>1, <1>2, <1>3, <1>4, <1>5, <1>6, <1>7 DEF IInv

-----------------------------------------------------------------------------
(* A process calls down() where it has to wait: at the door, for its       *)
(* forks, or after a signal.                                               *)
LEMMA SleepKeeps ==
  ASSUME IInv, NEW i \in Seats, current = i, NEW s \in Sems, NEW l \in Labels, value[s] = 0,
         \/ kind = "condvar" /\ pc[i] = "take" /\ s = mutex /\ l = "take_in"
         \/ kind = "condvar" /\ pc[i] = "put" /\ s = mutex /\ l = "put_in"
         \/ kind = "sema" /\ pc[i] = "take_s" /\ s = CvSem(i) /\ l = "eat"
         \/ pc[i] = "sig_down" /\ s = next /\ l = "sig_end"
         \/ pc[i] = "wait_down" /\ s = CvSem(cv[i]) /\ l = "wait_end",
         Down(i, s, l), UNCHANGED <<monData, cv, ret, philData>>
  PROVE  IInv'
<1>1. /\ i \in Procs /\ i # Idle /\ state[i] = "RUNNABLE" /\ ~InDown(i)
      /\ \A q \in Procs : q # i => pc[q] \in Parked
  BY Caller DEF InDown
<1>2. /\ SetSleeping("WT_KSEM") /\ UNCHANGED <<current, needResched, slice, rq, value>>
      /\ queue' = [queue EXCEPT ![s] = Append(@, i)]
      /\ flags' = [flags EXCEPT ![i] = "WT_INTERRUPTED"]
      /\ on' = [on EXCEPT ![i] = s] /\ then' = [then EXCEPT ![i] = l]
      /\ pc' = [pc EXCEPT ![i] = "down_sched"]
  BY DEF Down, Goto
<1>3. SchedInv'
  BY <1>1, <1>2, SetSleepingKeeps DEF IInv, WaitStates
<1>4. /\ pc'[i] = "down_sched" /\ on'[i] = s /\ then'[i] = l /\ flags'[i] = "WT_INTERRUPTED"
      /\ state'[i] = "SLEEPING" /\ waitState'[i] = "WT_KSEM" /\ ret'[i] = ret[i] /\ cv'[i] = cv[i]
      /\ phase'[i] = phase[i] /\ kind' = kind
  BY <1>1, <1>2 DEF IInv, TypeOK2, TypeOK, SemTypeOK, SchedTypeOK, SetSleeping, philData
<1>5. Apart({i})
  BY <1>2 DEF Apart, Placed, IInv, TypeOK2, TypeOK, SemTypeOK, SchedTypeOK, SetSleeping, philData
<1>6. \A q \in Procs, t \in Sems : Waits(q, t)' <=> Waits(q, t) \/ (q = i /\ t = s)
  BY <1>1, <1>4, <1>5 DEF Waits, InDown, Apart, Placed
<1>7. QueueOK' /\ queue' \in [Sems -> Seq(Procs)]
  BY <1>1, <1>2, <1>6, JoinsQueue
<1>8. TypeOK2'
  <2>1. pc' \in [Procs -> Labels] /\ then' \in [Procs -> Labels] /\ on' \in [Procs -> Sems]
        /\ flags' \in [Procs -> {"WT_INTERRUPTED", "WT_KSEM"}]
    BY <1>1, <1>2 DEF IInv, TypeOK2, TypeOK, SemTypeOK, Labels
  <2> QED BY <1>2, <1>3, <1>7, <2>1 DEF IInv, TypeOK2, TypeOK, SemTypeOK, SchedInv, monData,
        philData
<1>9. /\ s = CvSem(i) /\ l = "eat" => kind = "sema" /\ phase[i] = "HUNGRY"
      /\ pc[i] = "wait_down" => s = CvSem(i) /\ cv[i] = i /\ phase[i] = "HUNGRY"
         /\ ret[i] = "take_out" /\ kind = "condvar"
      /\ pc[i] = "sig_down" => phase[i] = "THINKING" /\ ret[i] \in {"put_right", "put_out"}
         /\ kind = "condvar"
      /\ pc[i] = "take" => phase[i] = "THINKING"
      /\ pc[i] = "put" => phase[i] = "EATING"
  <2>1. WayOK(i) /\ PhaseOK(i) /\ UnitsOK
    BY DEF IInv
  <2>2. Where(i) = pc[i] /\ ~Refused(i)
    BY <1>1 DEF Where, Refused, InDown, InSleep
  <2>3. pc[i] = "take_s" => phase[i] \in {"HUNGRY", "EATING"}
    BY <2>1, <2>2 DEF PhaseOK
  <2>4. pc[i] = "take_s" /\ phase[i] = "EATING" /\ kind = "sema" => value[CvSem(i)] = 1
    BY <2>1 DEF UnitsOK, HasUnit
  <2>5. \A j \in Seats : CvSem(j) # mutex /\ CvSem(j) # next
    BY SemNames, Sitting
  <2> QED BY <2>1, <2>2, <2>3, <2>4, <2>5 DEF WayOK, PhaseOK
<1>10. LocalOK(i)'
  <2>1. PlaceOK(i)'
    BY <1>1, <1>2, <1>4 DEF PlaceOK, InDown, InSleep, Parked
  <2>2. WayOK(i)'
    <3>1. \/ kind = "sema" /\ s = CvSem(i) /\ l = "eat"
          \/ kind = "condvar" /\ s = mutex /\ l \in {"take_in", "put_in"}
          \/ kind = "condvar" /\ s = next /\ l = "sig_end" /\ ret[i] \in {"put_right", "put_out"}
          \/ kind = "condvar" /\ s = CvSem(i) /\ l = "wait_end" /\ ret[i] = "take_out" /\ cv[i] = i
      BY <1>9
    <3> QED BY <1>4, <3>1 DEF WayOK, InDown, InSleep, CvSem, mutex, next
  <2>3. PhaseOK(i)'
    <3>1. Where(i)' = l /\ (Refused(i)' <=> s = CvSem(i))
      BY <1>4 DEF Where, Refused, InDown, CvSem
    <3>2. CvSem(i) # mutex /\ CvSem(i) # next
      BY SemNames, Sitting
    <3> QED BY <1>4, <1>9, <3>1, <3>2 DEF PhaseOK
  <2> QED BY <2>1, <2>2, <2>3 DEF LocalOK
<1>11. (\A p \in Procs : PlaceOK(p)') /\ (\A j \in Seats : WayOK(j)' /\ PhaseOK(j)')
  BY <1>2, <1>5, <1>10, LocalKeeps
<1>12. Owners' = Owners
  <2>1. i \notin Owners' /\ i \notin Owners
    BY <1>1, <1>4 DEF Owners, Crit, InDown
  <2> QED BY <1>5, <2>1, OwnersSame
<1>13. OwnerOK'
  <2>1. s = mutex => Owners # {}
    BY DEF IInv, OwnerOK
  <2>2. s = next => Owners # {}
    <3>1. s = next => pc[i] = "sig_down"
      BY SemNames, Sitting, <1>9
    <3> QED BY <3>1 DEF IInv, OwnerOK
  <2>3. \A k \in Seats : pc'[k] = "sig_down" => pc[k] = "sig_down"
    BY <1>4, <1>5, Sitting DEF Apart, Placed
  <2>4. s # mutex /\ s # next => queue'[mutex] = queue[mutex] /\ queue'[next] = queue[next]
    BY <1>2, SemNames DEF IInv, TypeOK2, TypeOK, SemTypeOK
  <2>5. \A j, k \in Owners' : j = k
    BY <1>12 DEF IInv, OwnerOK
  <2>6. mutex' = mutex /\ next' = next
    BY DEF mutex, next
  <2> QED BY <1>2, <1>12, <2>1, <2>2, <2>3, <2>4, <2>5, <2>6 DEF IInv, OwnerOK
<1>14. UnitsOK'
  <2>1. ~HasUnit(i)'
    BY <1>4 DEF HasUnit
  <2>2. pc[i] = "take_s" => value[CvSem(i)] = 0
    BY <1>9, SemNames, Sitting
  <2>3. ~HasUnit(i)
    BY <2>2 DEF HasUnit, IInv, UnitsOK
  <2> QED BY <1>2, <1>5, <2>1, <2>3, UnitsSame
<1>15. CountOK'
  <2>1. StandsBack(i)' <=> StandsBack(i)
    <3>1. StandsBack(i) <=> pc[i] = "sig_down"
      BY <1>1 DEF StandsBack
    <3>2. StandsBack(i)' <=> s = next
      BY <1>4 DEF StandsBack, InDown, next
    <3> QED BY <1>9, <3>1, <3>2, SemNames, Sitting
  <2>2. InWait(i)' <=> InWait(i)
    <3>1. InWait(i) <=> kind = "condvar" /\ pc[i] = "wait_down"
      BY <1>1 DEF InWait
    <3>2. InWait(i)' <=> kind = "condvar" /\ s = CvSem(i)
      BY <1>4 DEF InWait, InDown, CvSem
    <3> QED BY <1>9, <3>1, <3>2, SemNames, Sitting
  <2>3. i \notin Owners'
    BY <1>4 DEF Owners, Crit, InDown
  <2> QED BY <1>5, <1>12, <2>1, <2>2, <2>3, CountSame
<1>16. TestOK'
  <2>1. StandsBack(i) /\ ret[i] = "put_right" => StandsBack(i)' /\ ret'[i] = "put_right"
    <3>1. StandsBack(i) => pc[i] = "sig_down"
      BY <1>1 DEF StandsBack
    <3>2. pc[i] = "sig_down" => s = next
      BY <1>9
    <3>3. s = next => StandsBack(i)'
      BY <1>4 DEF StandsBack, InDown, next
    <3> QED BY <1>4, <3>1, <3>2, <3>3
  <2> QED BY <1>5, <2>1, TestSame DEF philData
<1> QED BY <1>3, <1>7, <1>8, <1>11, <1>13, <1>14, <1>15, <1>16 DEF IInv

-----------------------------------------------------------------------------
(* do_sleep up to schedule().                                              *)
LEMMA TimerKeeps ==
  ASSUME IInv, NEW i \in Seats, current = i, NEW l \in Labels, Sleep(i, l),
         (pc[i] = "think" /\ l = "take") \/ (pc[i] = "eat" /\ l = "put"),
         UNCHANGED <<kind, phase>>, iter' \in [Seats -> 0 .. TIMES]
  PROVE  IInv'
<1>1. /\ i \in Procs /\ i # Idle /\ state[i] = "RUNNABLE" /\ ~InDown(i)
      /\ \A q \in Procs : q # i => pc[q] \in Parked
  BY Caller DEF InDown
<1>2. /\ SetSleeping("WT_TIMER")
      /\ UNCHANGED <<current, needResched, slice, rq, value, queue, flags, on>>
      /\ then' = [then EXCEPT ![i] = l] /\ pc' = [pc EXCEPT ![i] = "sleep_sched"]
      /\ UNCHANGED <<monData, cv, ret>>
  BY DEF Sleep, Goto, semData
<1>3. SchedInv'
  BY <1>1, <1>2, SetSleepingKeeps DEF IInv, WaitStates
<1>4. /\ pc'[i] = "sleep_sched" /\ then'[i] = l /\ phase'[i] = phase[i] /\ kind' = kind
      /\ state'[i] = "SLEEPING" /\ waitState'[i] = "WT_TIMER"
  BY <1>1, <1>2 DEF IInv, TypeOK2, TypeOK, SemTypeOK, SchedTypeOK, SetSleeping
<1>5. Apart({i})
  BY <1>2 DEF Apart, Placed, IInv, TypeOK2, TypeOK, SemTypeOK, SchedTypeOK, SetSleeping
<1>6. QueueOK'
  <2>1. \A q \in Procs, t \in Sems : Waits(q, t)' <=> Waits(q, t)
    BY <1>1, <1>4, <1>5 DEF Waits, InDown, Apart, Placed
  <2> QED BY <1>2, <2>1, SameQueues
<1>7. TypeOK2'
  <2>1. pc' \in [Procs -> Labels] /\ then' \in [Procs -> Labels]
    BY <1>1, <1>2 DEF IInv, TypeOK2, TypeOK, SemTypeOK, Labels
  <2> QED BY <1>2, <1>3, <2>1 DEF IInv, TypeOK2, TypeOK, SemTypeOK, SchedInv, monData
<1>8. LocalOK(i)'
  <2>1. PlaceOK(i)'
    BY <1>1, <1>2, <1>4 DEF PlaceOK, InDown, InSleep, Parked
  <2>2. WayOK(i)'
    BY <1>4 DEF WayOK, InDown, InSleep
  <2>3. PhaseOK(i)'
    <3>1. Where(i)' = l /\ ~Refused(i)' /\ Where(i) = pc[i] /\ ~Refused(i)
      BY <1>1, <1>4 DEF Where, Refused, InDown, InSleep
    <3>2. PhaseOK(i)
      BY DEF IInv
    <3>3. phase[i] = IF l = "take" THEN "THINKING" ELSE "EATING"
      BY <3>1, <3>2 DEF PhaseOK
    <3> QED BY <1>4, <3>1, <3>3 DEF PhaseOK
  <2> QED BY <2>1, <2>2, <2>3 DEF LocalOK
<1>9. (\A p \in Procs : PlaceOK(p)') /\ (\A j \in Seats : WayOK(j)' /\ PhaseOK(j)')
  BY <1>2, <1>5, <1>8, LocalKeeps
<1>10. Owners' = Owners
  <2>1. i \notin Owners' /\ i \notin Owners
    BY <1>1, <1>4 DEF Owners, Crit, InDown
  <2> QED BY <1>5, <2>1, OwnersSame
<1>11. OwnerOK'
  <2>1. \A k \in Seats : pc'[k] = "sig_down" => pc[k] = "sig_down"
    BY <1>4, <1>5, Sitting DEF Apart, Placed
  <2>2. \A j, k \in Owners' : j = k
    BY <1>10 DEF IInv, OwnerOK
  <2>3. mutex' = mutex /\ next' = next
    BY DEF mutex, next
  <2> QED BY <1>2, <1>10, <2>1, <2>2, <2>3 DEF IInv, OwnerOK
<1>12. UnitsOK'
  BY <1>2, <1>4, <1>5, UnitsSame DEF HasUnit
<1>13. ~StandsBack(i) /\ ~StandsBack(i)' /\ ~InWait(i) /\ ~InWait(i)' /\ i \notin Owners'
  BY <1>1, <1>4 DEF StandsBack, InWait, Owners, Crit, InDown
<1>14. CountOK'
  BY <1>2, <1>5, <1>10, <1>13, CountSame
<1>15. TestOK'
  BY <1>5, <1>13, TestSame
<1> QED BY <1>3, <1>6, <1>7, <1>9, <1>11, <1>12, <1>14, <1>15 DEF IInv

(* schedule(), called by who has to wait, has exited or is idleproc.       *)
LEMMA SwitchKeeps ==
  ASSUME IInv, NEW p \in Procs, current = p, NEW l \in Labels, SwitchTo(p, l),
         \/ pc[p] = "down_sched" /\ l = "down_wake"
         \/ pc[p] = "sleep_sched" /\ l = "sleep_wake"
         \/ pc[p] = "quit_sched" /\ l = "dead"
         \/ pc[p] = "idle" /\ l = "idle",
         UNCHANGED <<semData, then, monData, cv, ret, philData>>
  PROVE  IInv'
<1>1. SchedInv' /\ state'[current'] = "RUNNABLE" /\ UNCHANGED <<state, waitState>>
  BY ScheduleKeeps DEF SwitchTo, IInv
<1>2. pc' = [pc EXCEPT ![p] = l]
      /\ UNCHANGED <<value, queue, flags, on, then, monData, cv, ret, kind, phase, iter>>
  BY DEF SwitchTo, Goto, semData, philData
<1>3. \A q \in Procs : pc'[q] = IF q = p THEN l ELSE pc[q]
  BY <1>2 DEF IInv, TypeOK2, TypeOK, SemTypeOK
<1>4. TypeOK2'
  BY <1>1, <1>2 DEF IInv, TypeOK2, TypeOK, SemTypeOK, SchedInv, monData
<1>5. \A q \in Procs : (InDown(q)' <=> InDown(q)) /\ (InSleep(q)' <=> InSleep(q))
  BY <1>3 DEF InDown, InSleep
<1>6. ASSUME NEW q \in Procs
      PROVE  PlaceOK(q)'
  <2>1. PlaceOK(q)
    BY DEF IInv
  <2>2. q # current' => pc'[q] \in Parked
    BY <1>3, <2>1 DEF PlaceOK, Parked
  <2>3. pc'[q] = "idle" <=> q = Idle
    BY <1>3, <2>1 DEF PlaceOK
  <2>4. state'[q] = "ZOMBIE" <=> pc'[q] \in {"quit_sched", "dead"}
    BY <1>1, <1>3, <2>1 DEF PlaceOK
  <2>5. pc'[q] = "down_sched" => flags'[q] = "WT_INTERRUPTED"
    BY <1>2, <1>3, <2>1 DEF PlaceOK
  <2> QED BY <1>1, <1>2, <1>5, <2>1, <2>2, <2>3, <2>4, <2>5 DEF PlaceOK
<1>7. ASSUME NEW j \in Seats
      PROVE  WayOK(j)' /\ PhaseOK(j)'
  <2>1. WayOK(j) /\ PhaseOK(j) /\ CvSem(j)' = CvSem(j) /\ mutex' = mutex /\ next' = next
    BY DEF IInv, CvSem, mutex, next
  <2>2. j \in Procs
    BY Sitting
  <2>3. WayOK(j)'
    BY <1>2, <1>3, <1>5, <2>1, <2>2 DEF WayOK
  <2>4. Refused(j)' <=> Refused(j)
    BY <1>2, <1>5, <2>1, <2>2 DEF Refused
  <2>5. Where(j)' = Where(j) \/ (Where(j) = "quit_sched" /\ Where(j)' = "dead")
    BY <1>2, <1>3, <1>5, <2>2 DEF Where, InDown, InSleep
  <2> QED BY <1>2, <2>1, <2>3, <2>4, <2>5 DEF PhaseOK
<1>8. QueueOK'
  <2>1. \A q \in Procs, t \in Sems : Waits(q, t)' <=> Waits(q, t)
    BY <1>2, <1>3 DEF Waits
  <2> QED BY <1>2, <2>1, SameQueues
<1>9. \A j \in Seats : /\ pc'[j] \in Crit \cup {"sig_end", "wait_end"}
                         <=> pc[j] \in Crit \cup {"sig_end", "wait_end"}
                       /\ \A x \in {"sig_down", "sig_end", "wait_down", "wait_end", "take_out",
                                    "take_s", "take_test",
                                    "put_left", "put_right"} : pc'[j] = x <=> pc[j] = x
  BY <1>3, Sitting DEF Crit
<1>10. Owners' = Owners
  BY <1>2, <1>5, <1>9, Sitting DEF Owners
<1>11. OwnerOK' /\ UnitsOK'
  BY <1>2, <1>9, <1>10 DEF IInv, OwnerOK, UnitsOK, HasUnit, mutex, next, CvSem
<1>12. \A j \in Seats : (StandsBack(j)' <=> StandsBack(j)) /\ (InWait(j)' <=> InWait(j))
  BY <1>2, <1>5, <1>9, Sitting DEF StandsBack, InWait, next, CvSem
<1>13. CountOK'
  <2>1. \A o \in Owners : /\ (InDown(o) /\ on[o] = CvSem(o))' <=> (InDown(o) /\ on[o] = CvSem(o))
                          /\ pc'[o] \in {"wait_end", "take_out"} <=> pc[o] \in {"wait_end", "take_out"}
    BY <1>2, <1>5, <1>9, Sitting DEF Owners, CvSem
  <2>2. ASSUME NEW k \in Seats, NEW o \in Owners', StandsBack(k)', o # k
        PROVE  ((InDown(o) /\ on[o] = CvSem(o)) \/ pc[o] \in {"wait_end", "take_out"})'
    BY <1>10, <1>12, <2>1, <2>2 DEF IInv, CountOK
  <2>3. nextCount' = (IF \E k \in Seats : StandsBack(k)' THEN 1 ELSE 0)
        /\ \A k \in Seats : count'[k] = IF InWait(k)' THEN 1 ELSE 0
    BY <1>2, <1>12 DEF IInv, CountOK, monData
  <2>4. \A k, j \in Seats : StandsBack(k)' /\ StandsBack(j)' => k = j
    BY <1>12 DEF IInv, CountOK
  <2> QED BY <2>2, <2>3, <2>4 DEF CountOK
<1>14. TestOK'
  <2>1. ASSUME NEW j \in Seats, MayEat(j)' PROVE Pending(j)'
    <3>1. Pending(j)
      BY <1>2, <2>1 DEF IInv, TestOK, MayEat, LEFT, RIGHT
    <3>2. \A k \in Seats : LEFT(k)' = LEFT(k) /\ RIGHT(k)' = RIGHT(k)
      BY DEF LEFT, RIGHT
    <3> QED BY <1>2, <1>9, <1>12, <3>1, <3>2 DEF Pending
  <2> QED BY <2>1 DEF TestOK
<1> QED BY <1>1, <1>4, <1>6, <1>7, <1>8, <1>11, <1>13, <1>14 DEF IInv

(* The clock, and an exit: only states change.                             *)
LEMMA TickKeeps ==
  ASSUME IInv, NEW fired \in SUBSET Seats, Tick(fired)
  PROVE  IInv'
<1>1. /\ \A i \in fired : waitState[i] = "WT_TIMER"
      /\ RunTimers(fired)
      /\ UNCHANGED <<pc, value, queue, flags, on, then, monData, cv, ret, kind, phase, iter>>
  BY DEF Tick, semData, philData
<1>2. SchedInv' /\ current' = current
  <2>1. fired \subseteq Procs
    BY Sitting
  <2> QED BY <1>1, <2>1, RunTimersKeeps DEF IInv, RunTimers
<1>3. \A q \in Procs : \/ state'[q] = state[q] /\ waitState'[q] = waitState[q]
                       \/ waitState[q] = "WT_TIMER" /\ state'[q] = "RUNNABLE" /\ waitState'[q] = "NONE"
  BY <1>1 DEF RunTimers, MakeRunnable, Woken
<1>4. TypeOK2'
  BY <1>1, <1>2 DEF IInv, TypeOK2, TypeOK, SemTypeOK, SchedInv, monData
<1>5. \A q \in Procs : (InDown(q)' <=> InDown(q)) /\ (InSleep(q)' <=> InSleep(q))
  BY <1>1 DEF InDown, InSleep
<1>6. ASSUME NEW q \in Procs
      PROVE  PlaceOK(q)'
  <2>1. PlaceOK(q)
    BY DEF IInv
  <2>2. CASE state'[q] = state[q] /\ waitState'[q] = waitState[q]
    BY <1>1, <1>2, <1>5, <2>1, <2>2 DEF PlaceOK
  <2>3. CASE waitState[q] = "WT_TIMER" /\ state'[q] = "RUNNABLE" /\ waitState'[q] = "NONE"
    <3>1. InSleep(q) /\ ~InDown(q) /\ state[q] = "SLEEPING"
      BY <2>1, <2>3 DEF PlaceOK, InSleep, InDown
    <3> QED BY <1>1, <1>2, <1>5, <2>1, <2>3, <3>1 DEF PlaceOK
  <2> QED BY <1>3, <2>2, <2>3
<1>7. \A j \in Seats : WayOK(j)' /\ PhaseOK(j)'
  BY <1>1 DEF IInv, WayOK, PhaseOK, Where, Refused, InDown, InSleep
<1>8. QueueOK' /\ Owners' = Owners
  BY <1>1 DEF IInv, QueueOK, InQueue, Waits, Owners, InDown
<1>9. OwnerOK' /\ UnitsOK'
  BY <1>1, <1>8 DEF IInv, OwnerOK, UnitsOK, HasUnit
<1>10. CountOK' /\ TestOK'
  BY <1>1, <1>8 DEF IInv, CountOK, TestOK, MayEat, Pending, LEFT, RIGHT, StandsBack, InWait, InDown, monData
<1> QED BY <1>2, <1>4, <1>6, <1>7, <1>8, <1>9, <1>10 DEF IInv

LEMMA QuitKeeps ==
  ASSUME IInv, NEW i \in Seats, Quit(i)
  PROVE  IInv'
<1>1. /\ current = i /\ pc[i] = "quit" /\ state' = [state EXCEPT ![i] = "ZOMBIE"]
      /\ pc' = [pc EXCEPT ![i] = "quit_sched"]
      /\ UNCHANGED <<current, waitState, needResched, slice, rq, value, queue, flags, on, then, monData, cv, ret,
                     kind, phase, iter>>
  BY DEF Quit, At, Goto, semData, philData
<1>2. /\ i \in Procs /\ i # Idle /\ state[i] = "RUNNABLE" /\ waitState[i] # "WT_TIMER"
      /\ \A q \in Procs : q # i => pc[q] \in Parked
  BY <1>1, Caller
<1>3. SchedInv'
  BY <1>1, <1>2 DEF IInv, SchedInv, SchedTypeOK, RunQueueExact, States
<1>4. TypeOK2'
  <2>1. pc' \in [Procs -> Labels]
    BY <1>1 DEF IInv, TypeOK2, TypeOK, SemTypeOK, Labels
  <2> QED BY <1>1, <1>3, <2>1 DEF IInv, TypeOK2, TypeOK, SemTypeOK, SchedInv, monData
<1>5. pc'[i] = "quit_sched" /\ state'[i] = "ZOMBIE" /\ waitState'[i] # "WT_TIMER" /\ Apart({i})
  BY <1>1, <1>2 DEF Apart, Placed, IInv, TypeOK2, TypeOK, SemTypeOK, SchedTypeOK
<1>6. LocalOK(i)'
  <2>1. PlaceOK(i)'
    BY <1>1, <1>2, <1>5 DEF PlaceOK, InDown, InSleep
  <2>2. WayOK(i) /\ PhaseOK(i)
    BY DEF IInv
  <2>3. WayOK(i)'
    BY <1>1, <1>5, <2>2 DEF WayOK, InDown, InSleep
  <2>4. PhaseOK(i)'
    BY <1>1, <1>5, <2>2 DEF PhaseOK, Where, InDown, InSleep
  <2> QED BY <2>1, <2>3, <2>4 DEF LocalOK
<1>7. (\A p \in Procs : PlaceOK(p)') /\ (\A j \in Seats : WayOK(j)' /\ PhaseOK(j)')
  BY <1>1, <1>5, <1>6, LocalKeeps
<1>8. QueueOK'
  <2>1. \A q \in Procs, t \in Sems : Waits(q, t)' <=> Waits(q, t)
    BY <1>1, <1>5 DEF Waits, Apart, Placed
  <2> QED BY <1>1, <2>1, SameQueues
<1>9. ~StandsBack(i) /\ ~StandsBack(i)' /\ ~InWait(i) /\ ~InWait(i)' /\ i \notin Owners' /\ i \notin Owners
  BY <1>1, <1>5 DEF StandsBack, InWait, Owners, Crit, InDown
<1>10. Owners' = Owners
  BY <1>5, <1>9, OwnersSame
<1>11. OwnerOK'
  <2>1. \A k \in Seats : pc'[k] = "sig_down" => pc[k] = "sig_down"
    BY <1>5, Sitting DEF Apart, Placed
  <2>2. \A j, k \in Owners' : j = k
    BY <1>10 DEF IInv, OwnerOK
  <2>3. mutex' = mutex /\ next' = next
    BY DEF mutex, next
  <2> QED BY <1>1, <1>10, <2>1, <2>2, <2>3 DEF IInv, OwnerOK
<1>12. UnitsOK' /\ CountOK' /\ TestOK'
  BY <1>1, <1>5, <1>9, <1>10, UnitsSame, CountSame, TestSame DEF HasUnit
<1> QED BY <1>3, <1>4, <1>7, <1>8, <1>11, <1>12 DEF IInv

-----------------------------------------------------------------------------
(* Steps of the program that change the place and no semaphore.            *)
Calls == {"down_sched", "down_wake", "sleep_sched", "sleep_wake"}

LEMMA PlaceMove ==
  ASSUME IInv, NEW i \in Seats, current = i, UNCHANGED <<current, state, waitState>>,
         pc[i] \notin {"down_sched", "sleep_sched", "quit_sched"},
         pc'[i] \notin Calls \cup {"idle", "quit_sched", "dead"}
  PROVE  PlaceOK(i)'
<1>1. i # Idle /\ i \in Procs /\ state[i] = "RUNNABLE" /\ waitState[i] # "WT_TIMER"
  BY Caller
<1> QED BY <1>1 DEF PlaceOK, InDown, InSleep, Calls

\* At most the value at x has changed, to one of T.
Changed(g, f, x, T) == g = f \/ \E y \in T : g = [f EXCEPT ![x] = y]

LEMMA ChangedKeeps ==
  ASSUME NEW S, NEW T, NEW f \in [S -> T], NEW x, NEW g, Changed(g, f, x, T)
  PROVE  g \in [S -> T] /\ \A q \in S : q # x => g[q] = f[q]
  BY DEF Changed

LEMMA TypeMove ==
  ASSUME IInv, NEW i \in Seats, NEW l \in Labels, pc' = [pc EXCEPT ![i] = l],
         UNCHANGED <<schedVars, value, queue, kind, iter>>,
         Changed(then', then, i, Labels), Changed(ret', ret, i, Labels), Changed(cv', cv, i, Cvs),
         Changed(on', on, i, Sems), Changed(flags', flags, i, {"WT_INTERRUPTED", "WT_KSEM"}),
         Changed(phase', phase, i, {"THINKING", "HUNGRY", "EATING"}),
         nextCount' \in Nat, count' \in [Cvs -> Nat]
  PROVE  TypeOK2' /\ Apart({i}) /\ pc'[i] = l
<1>1. /\ current \in Procs /\ state \in [Procs -> States] /\ waitState \in [Procs -> WaitStates]
      /\ needResched \in [Procs -> BOOLEAN] /\ slice \in [Procs -> 0 .. MaxTimeSlice]
      /\ rq \in [Procs -> Nat]
      /\ pc \in [Procs -> Labels] /\ value \in [Sems -> Nat] /\ queue \in [Sems -> Seq(Procs)]
      /\ flags \in [Procs -> {"WT_INTERRUPTED", "WT_KSEM"}] /\ on \in [Procs -> Sems]
      /\ then \in [Procs -> Labels]
      /\ cv \in [Procs -> Cvs] /\ ret \in [Procs -> Labels] /\ kind \in {"sema", "condvar"}
      /\ phase \in [Seats -> {"THINKING", "HUNGRY", "EATING"}] /\ iter \in [Seats -> 0 .. TIMES]
  BY DEF IInv, TypeOK2, TypeOK, SemTypeOK, SchedTypeOK
<1>2. pc' \in [Procs -> Labels] /\ pc'[i] = l /\ \A q \in Procs : q # i => pc'[q] = pc[q]
  BY <1>1, Sitting
<1>3. then' \in [Procs -> Labels] /\ \A q \in Procs : q # i => then'[q] = then[q]
  <2>1. Changed(then', then, i, Labels)
    OBVIOUS
  <2>2. then \in [Procs -> Labels]
    BY <1>1
  <2> QED BY ONLY <2>1, <2>2, ChangedKeeps
<1>4. ret' \in [Procs -> Labels] /\ \A q \in Procs : q # i => ret'[q] = ret[q]
  <2>1. Changed(ret', ret, i, Labels)
    OBVIOUS
  <2>2. ret \in [Procs -> Labels]
    BY <1>1
  <2> QED BY ONLY <2>1, <2>2, ChangedKeeps
<1>5. cv' \in [Procs -> Cvs] /\ \A q \in Procs : q # i => cv'[q] = cv[q]
  <2>1. Changed(cv', cv, i, Cvs)
    OBVIOUS
  <2>2. cv \in [Procs -> Cvs]
    BY <1>1
  <2> QED BY ONLY <2>1, <2>2, ChangedKeeps
<1>6. on' \in [Procs -> Sems] /\ \A q \in Procs : q # i => on'[q] = on[q]
  <2>1. Changed(on', on, i, Sems)
    OBVIOUS
  <2>2. on \in [Procs -> Sems]
    BY <1>1
  <2> QED BY ONLY <2>1, <2>2, ChangedKeeps
<1>7. /\ flags' \in [Procs -> {"WT_INTERRUPTED", "WT_KSEM"}]
      /\ \A q \in Procs : q # i => flags'[q] = flags[q]
  <2>1. Changed(flags', flags, i, {"WT_INTERRUPTED", "WT_KSEM"})
    OBVIOUS
  <2>2. flags \in [Procs -> {"WT_INTERRUPTED", "WT_KSEM"}]
    BY <1>1
  <2> QED BY ONLY <2>1, <2>2, ChangedKeeps
<1>8. /\ phase' \in [Seats -> {"THINKING", "HUNGRY", "EATING"}]
      /\ \A q \in Seats : q # i => phase'[q] = phase[q]
  <2>1. Changed(phase', phase, i, {"THINKING", "HUNGRY", "EATING"})
    OBVIOUS
  <2>2. phase \in [Seats -> {"THINKING", "HUNGRY", "EATING"}]
    BY <1>1
  <2> QED BY ONLY <2>1, <2>2, ChangedKeeps
<1>9. TypeOK2'
  BY <1>1, <1>2, <1>3, <1>4, <1>5, <1>6, <1>7, <1>8 DEF TypeOK2, TypeOK, SemTypeOK, SchedTypeOK, schedVars
<1>10. Apart({i})
  BY <1>2, <1>3, <1>4, <1>5, <1>6, <1>7, <1>8 DEF Apart, Placed, schedVars
<1> QED BY <1>2, <1>9, <1>10

LEMMA QuietKeeps ==
  ASSUME IInv, NEW i \in Seats, current = i, NEW l \in Labels, pc' = [pc EXCEPT ![i] = l],
         \/ pc[i] = "think" /\ l = "quit"
         \/ pc[i] = "take_test" /\ ~MayEat(i)
            /\ l = (IF kind = "sema" THEN "take_out" ELSE "take_check")
         \/ pc[i] = "take_check" /\ phase[i] = "EATING" /\ l = "take_out"
         \/ pc[i] = "put_left" /\ ~MayEat(LEFT(i)) /\ l = "put_right"
         \/ pc[i] = "put_right" /\ ~MayEat(RIGHT(i)) /\ l = "put_out"
         \/ pc[i] = "sleep_wake" /\ l = then[i],
         then' = then \/ then' = [then EXCEPT ![i] = "idle"],
         pc[i] = "sleep_wake" => then' = [then EXCEPT ![i] = "idle"],
         UNCHANGED <<schedVars, semData, monData, cv, ret, philData>>
  PROVE  IInv'
<1>1. /\ i \in Procs /\ i # Idle /\ state[i] = "RUNNABLE" /\ WayOK(i) /\ PhaseOK(i) /\ ~InDown(i)
      /\ kind \in {"sema", "condvar"}
  BY Caller DEF InDown, IInv, TypeOK2
<1>2. UNCHANGED <<value, queue, flags, on, kind, phase, iter>> /\ nextCount' \in Nat
      /\ count' \in [Cvs -> Nat]
  BY DEF semData, philData, monData, IInv, TypeOK2, TypeOK
<1>3. TypeOK2' /\ Apart({i}) /\ pc'[i] = l
  <2>1. "idle" \in Labels
    BY DEF Labels
  <2> QED BY <1>2, <2>1, TypeMove DEF Changed
<1>4. pc[i] = "sleep_wake" => l \in {"take", "put"}
  BY <1>1 DEF WayOK, InSleep
<1>5. then'[i] = "idle"
  <2>1. then \in [Procs -> Labels]
    BY DEF IInv, TypeOK2, TypeOK, SemTypeOK
  <2>2. pc[i] # "sleep_wake" => then[i] = "idle"
    BY <1>1 DEF WayOK, InDown, InSleep
  <2> QED BY <1>1, <2>1, <2>2
<1>6. LocalOK(i)'
  <2>1. PlaceOK(i)'
    BY <1>3, <1>4, PlaceMove DEF Calls, schedVars
  <2>2. WayOK(i)'
    BY <1>1, <1>2, <1>3, <1>4, <1>5 DEF WayOK, InDown, InSleep
  <2>3. PhaseOK(i)'
    <3>1. Where(i) = (IF pc[i] = "sleep_wake" THEN l ELSE pc[i]) /\ ~Refused(i)
      BY <1>1 DEF Where, Refused, InDown, InSleep
    <3>2. Where(i)' = l /\ ~Refused(i)'
      BY <1>3, <1>4 DEF Where, Refused, InDown, InSleep
    <3> QED BY <1>1, <1>2, <1>4, <3>1, <3>2 DEF PhaseOK
  <2> QED BY <2>1, <2>2, <2>3 DEF LocalOK
<1>7. i \in Owners' <=> i \in Owners
  BY <1>1, <1>2, <1>3, <1>4 DEF Owners, Crit, InDown
<1>8. UnitsOK'
  <2>1. HasUnit(i)' <=> HasUnit(i)
    <3>1. pc[i] = "take_test" => phase[i] = "HUNGRY"
      BY <1>1 DEF PhaseOK, Where, InDown, InSleep
    <3>2. pc[i] = "take_check" => kind = "condvar"
      BY <1>1 DEF WayOK
    <3> QED BY <1>2, <1>3, <1>4, <3>1, <3>2 DEF HasUnit
  <2> QED BY <1>2, <1>3, <2>1, UnitsSame
<1>9. ~StandsBack(i) /\ ~StandsBack(i)' /\ ~InWait(i) /\ ~InWait(i)'
  BY <1>1, <1>3, <1>4 DEF StandsBack, InWait, InDown
<1>10. CountOK'
  <2>1. ASSUME i \in Owners', NEW k \in Seats, k # i, StandsBack(k)
        PROVE  FALSE
    <3>1. pc[i] \in {"wait_end", "take_out"}
      BY <1>1, <1>7, <2>1 DEF IInv, CountOK
    <3> QED BY <3>1
  <2>2. Owners' = Owners
    BY <1>3, <1>7, OwnersSame
  <2> QED BY <1>3, <1>9, <2>1, <2>2, CountSame
<1>11. TestOK'
  BY <1>2, <1>3, <1>9, TestSame
<1>12. OwnerOK'
  BY <1>2, <1>3, <1>4, <1>7, OwnerSame
<1> QED BY <1>1, <1>2, <1>3, <1>4, <1>6, <1>8, <1>10, <1>11, <1>12, StepKeeps DEF InDown

(* A test that others owe is owed still.                                   *)
LEMMA PendingStays ==
  ASSUME IInv, NEW i \in Seats, Apart({i}), NEW j \in Seats, Pending(j),
         pc[i] \notin {"put_left", "put_right"}, ~StandsBack(i), pc[i] = "take_test" => j # i
  PROVE  Pending(j)'
<1>1. \A k \in Seats : k # i => pc'[k] = pc[k] /\ ret'[k] = ret[k]
      /\ (StandsBack(k)' <=> StandsBack(k))
  BY Sitting DEF Apart, Placed, StandsBack, InDown
<1>2. CASE pc[j] = "take_test"
  BY <1>1, <1>2 DEF Pending
<1>3. CASE pc[j] # "take_test"
  <2>1. PICK k \in Seats : \/ LEFT(k) = j /\ pc[k] = "put_left"
                           \/ RIGHT(k) = j /\ pc[k] \in {"put_left", "put_right"}
                           \/ RIGHT(k) = j /\ StandsBack(k) /\ ret[k] = "put_right"
    BY <1>3 DEF Pending
  <2>2. k # i
    BY <2>1
  <2> QED BY <1>1, <2>1, <2>2 DEF Pending, LEFT, RIGHT
<1> QED BY <1>2, <1>3

(* phi_take_forks: the wish.  It cannot bring a neighbour nearer to eating.*)
LEMMA HungryKeeps ==
  ASSUME IInv, NEW i \in Seats, Hungry(i)
  PROVE  IInv'
<1>1. /\ current = i /\ pc[i] = "take_in" /\ phase' = [phase EXCEPT ![i] = "HUNGRY"]
      /\ pc' = [pc EXCEPT ![i] = "take_test"]
      /\ UNCHANGED <<schedVars, value, queue, flags, on, then, monData, cv, ret, kind, iter>>
  BY DEF Hungry, At, Goto, semData
<1>2. i \in Procs /\ i # Idle /\ WayOK(i) /\ PhaseOK(i) /\ ~InDown(i)
      /\ phase \in [Seats -> {"THINKING", "HUNGRY", "EATING"}]
  BY <1>1, Caller DEF InDown, IInv, TypeOK2, TypeOK
<1>3. TypeOK2' /\ Apart({i}) /\ pc'[i] = "take_test"
  <2>1. "take_test" \in Labels /\ nextCount' \in Nat /\ count' \in [Cvs -> Nat]
    BY <1>1 DEF Labels, monData, IInv, TypeOK2, TypeOK
  <2> QED BY <1>1, <2>1, TypeMove DEF Changed
<1>4. phase[i] = "THINKING" /\ phase'[i] = "HUNGRY"
      /\ \A j \in Seats : j # i => phase'[j] = phase[j]
  BY <1>1, <1>2 DEF PhaseOK, Where, InDown, InSleep
<1>5. LocalOK(i)'
  <2>1. PlaceOK(i)'
    BY <1>1, <1>3, PlaceMove DEF Calls, schedVars
  <2>2. WayOK(i)'
    BY <1>1, <1>2, <1>3 DEF WayOK, InDown, InSleep
  <2>3. PhaseOK(i)'
    BY <1>3, <1>4 DEF PhaseOK, Where, InDown, InSleep
  <2> QED BY <2>1, <2>2, <2>3 DEF LocalOK
<1>6. i \in Owners' /\ i \in Owners
  BY <1>1, <1>3 DEF Owners, Crit
<1>7. UnitsOK'
  <2>1. ~HasUnit(i)' /\ ~HasUnit(i)
    BY <1>1, <1>3 DEF HasUnit
  <2> QED BY <1>1, <1>3, <2>1, UnitsSame
<1>8. ~StandsBack(i) /\ ~StandsBack(i)' /\ ~InWait(i) /\ ~InWait(i)'
  BY <1>1, <1>2, <1>3 DEF StandsBack, InWait, InDown
<1>9. CountOK'
  <2>1. \A k \in Seats : k # i => ~StandsBack(k)
    BY <1>1, <1>2, <1>6 DEF IInv, CountOK
  <2> QED BY <1>1, <1>3, <1>6, <1>8, <2>1, CountSame, OwnersSame
<1>10. TestOK'
  <2>1. ASSUME NEW j \in Seats, MayEat(j)'
        PROVE  Pending(j)'
    <3>1. CASE j = i
      BY <1>3, <3>1 DEF Pending
    <3>2. CASE j # i
      <4>1. MayEat(j)
        BY <1>4, <2>1, <3>2, Neighbours DEF MayEat, LEFT, RIGHT
      <4> QED BY <1>1, <1>3, <1>8, <3>2, <4>1, PendingStays DEF IInv, TestOK
    <3> QED BY <3>1, <3>2
  <2> QED BY <2>1 DEF TestOK
<1>11. OwnerOK'
  BY <1>1, <1>3, <1>6, OwnerSame
<1> QED BY <1>1, <1>2, <1>3, <1>5, <1>7, <1>9, <1>10, <1>11, StepKeeps DEF InDown

(* phi_put_forks: the meal is over.  A neighbour may eat now, and is going *)
(* to be tested.                                                           *)
LEMMA PutInKeeps ==
  ASSUME IInv, NEW i \in Seats, PutIn(i)
  PROVE  IInv'
<1>1. /\ current = i /\ pc[i] = "put_in" /\ phase' = [phase EXCEPT ![i] = "THINKING"]
      /\ pc' = [pc EXCEPT ![i] = "put_left"]
      /\ UNCHANGED <<schedVars, value, queue, flags, on, then, monData, cv, ret, kind, iter>>
  BY DEF PutIn, At, Goto, semData
<1>2. i \in Procs /\ i # Idle /\ WayOK(i) /\ PhaseOK(i) /\ ~InDown(i)
      /\ phase \in [Seats -> {"THINKING", "HUNGRY", "EATING"}]
  BY <1>1, Caller DEF InDown, IInv, TypeOK2, TypeOK
<1>3. TypeOK2' /\ Apart({i}) /\ pc'[i] = "put_left"
  <2>1. "put_left" \in Labels /\ nextCount' \in Nat /\ count' \in [Cvs -> Nat]
    BY <1>1 DEF Labels, monData, IInv, TypeOK2, TypeOK
  <2> QED BY <1>1, <2>1, TypeMove DEF Changed
<1>4. phase'[i] = "THINKING" /\ \A j \in Seats : j # i => phase'[j] = phase[j]
  BY <1>1, <1>2
<1>5. LocalOK(i)'
  <2>1. PlaceOK(i)'
    BY <1>1, <1>3, PlaceMove DEF Calls, schedVars
  <2>2. WayOK(i)'
    BY <1>1, <1>2, <1>3 DEF WayOK, InDown, InSleep
  <2>3. PhaseOK(i)'
    BY <1>3, <1>4 DEF PhaseOK, Where, InDown, InSleep
  <2> QED BY <2>1, <2>2, <2>3 DEF LocalOK
<1>6. i \in Owners' /\ i \in Owners
  BY <1>1, <1>3 DEF Owners, Crit
<1>7. UnitsOK'
  <2>1. ~HasUnit(i)' /\ ~HasUnit(i)
    BY <1>1, <1>3 DEF HasUnit
  <2> QED BY <1>1, <1>3, <2>1, UnitsSame
<1>8. ~StandsBack(i) /\ ~StandsBack(i)' /\ ~InWait(i) /\ ~InWait(i)'
  BY <1>1, <1>2, <1>3 DEF StandsBack, InWait, InDown
<1>9. CountOK'
  <2>1. \A k \in Seats : k # i => ~StandsBack(k)
    BY <1>1, <1>2, <1>6 DEF IInv, CountOK
  <2> QED BY <1>1, <1>3, <1>6, <1>8, <2>1, CountSame, OwnersSame
<1>10. TestOK'
  <2>1. ASSUME NEW j \in Seats, MayEat(j)'
        PROVE  Pending(j)'
    <3>1. CASE MayEat(j)
      BY <1>1, <1>3, <1>8, <3>1, PendingStays DEF IInv, TestOK
    <3>2. CASE ~MayEat(j)
      <4>1. j # i /\ phase[j] = "HUNGRY"
        BY <1>4, <2>1 DEF MayEat
      <4>2. LEFT(j) = i \/ RIGHT(j) = i
        BY <1>4, <2>1, <3>2, <4>1, Neighbours DEF MayEat, LEFT, RIGHT
      <4>3. RIGHT(i) = j \/ LEFT(i) = j
        BY <4>2, Neighbours
      <4> QED BY <1>3, <4>3 DEF Pending, LEFT, RIGHT
    <3> QED BY <3>1, <3>2
  <2> QED BY <2>1 DEF TestOK
<1>11. OwnerOK'
  BY <1>1, <1>3, <1>6, OwnerSame
<1> QED BY <1>1, <1>2, <1>3, <1>5, <1>7, <1>9, <1>10, <1>11, StepKeeps DEF InDown

(* The queue of a philosopher's own semaphore: nobody but it is ever in.   *)
LEMMA OwnQueue ==
  ASSUME IInv, NEW j \in Seats
  PROVE  /\ queue[CvSem(j)] # <<>> <=> Refused(j)
         /\ queue[CvSem(j)] # <<>> => Head(queue[CvSem(j)]) = j
<1>1. CvSem(j) \in Sems /\ queue[CvSem(j)] \in Seq(Procs) /\ j \in Procs
  BY SemNames, Sitting DEF IInv, TypeOK2, TypeOK, SemTypeOK
<1>2. ASSUME queue[CvSem(j)] # <<>>
      PROVE  Head(queue[CvSem(j)]) = j /\ Refused(j)
  <2> DEFINE h == queue[CvSem(j)][1]
  <2>1. 1 \in DOMAIN queue[CvSem(j)] /\ Head(queue[CvSem(j)]) = h /\ h \in Procs
    BY <1>1, <1>2
  <2>2. Waits(h, CvSem(j))
    BY <1>1, <2>1 DEF IInv, QueueOK
  <2>3. h \in Seats
    BY <2>1, <2>2, Sitting DEF IInv, PlaceOK, Waits
  <2>4. on[h] = CvSem(h)
    BY <2>2, <2>3, SemNames, Sitting DEF IInv, WayOK, InDown, Waits
  <2>5. h = j
    BY <2>2, <2>3, <2>4, SemNames, Sitting DEF Waits
  <2> QED BY <2>1, <2>2, <2>5 DEF Refused, Waits, InDown
<1>3. ASSUME Refused(j)
      PROVE  queue[CvSem(j)] # <<>>
  <2>1. Waits(j, CvSem(j))
    BY <1>3 DEF Refused, Waits, InDown
  <2>2. InQueue(j, CvSem(j))
    BY <1>1, <2>1 DEF IInv, QueueOK
  <2> QED BY <1>1, <2>2 DEF InQueue
<1> QED BY <1>2, <1>3

(* The own test of a philosopher that gets the forks: a unit for later, or *)
(* no signal since it does not wait.                                       *)
LEMMA TakeForksKeeps ==
  ASSUME IInv, NEW i \in Seats, TakeTest(i), MayEat(i)
  PROVE  IInv'
<1> DEFINE l == IF kind = "sema" THEN "take_out" ELSE "take_check"
<1>1. /\ current = i /\ pc[i] = "take_test" /\ phase' = [phase EXCEPT ![i] = "EATING"]
      /\ UNCHANGED <<kind, iter>>
      /\ IF kind = "sema"
         THEN Up(CvSem(i)) /\ Goto(i, l) /\ UNCHANGED <<on, then, monData, cv, ret>>
         ELSE CondSignal(i, i, l)
  BY DEF TakeTest, At, Test
<1>2. /\ i \in Procs /\ i # Idle /\ WayOK(i) /\ PhaseOK(i) /\ ~InDown(i) /\ i \in Cvs
      /\ phase \in [Seats -> {"THINKING", "HUNGRY", "EATING"}] /\ kind \in {"sema", "condvar"}
  BY <1>1, Caller, Sitting DEF InDown, IInv, TypeOK2, TypeOK
<1>3. queue[CvSem(i)] = <<>> /\ count[i] = 0
  <2>1. ~InWait(i) /\ ~Refused(i)
    BY <1>1, <1>2 DEF InWait, Refused
  <2> QED BY <2>1, OwnQueue DEF IInv, CountOK
<1>4. /\ pc' = [pc EXCEPT ![i] = l]
      /\ UNCHANGED <<schedVars, queue, flags, on, then, monData, cv, ret>>
      /\ kind = "condvar" => value' = value
      /\ kind = "sema" => value' = [value EXCEPT ![CvSem(i)] = @ + 1]
  <2>1. CASE kind = "sema"
    BY <1>1, <1>3, <2>1 DEF Up, Goto
  <2>2. CASE kind # "sema"
    BY <1>1, <1>3, <2>2 DEF CondSignal, Goto, semData
  <2> QED BY <1>2, <2>1, <2>2
<1> HIDE DEF l
<1>5. l = IF kind = "sema" THEN "take_out" ELSE "take_check"
  BY DEF l
<1>6. /\ pc'[i] = l /\ phase'[i] = "EATING" /\ \A j \in Seats : j # i => phase'[j] = phase[j]
      /\ Apart({i})
  BY <1>1, <1>2, <1>4 DEF IInv, TypeOK2, TypeOK, SemTypeOK, Apart, Placed, schedVars
<1>7. value' \in [Sems -> Nat] /\ \A s \in Sems : s # CvSem(i) => value'[s] = value[s]
  <2>1. value \in [Sems -> Nat] /\ CvSem(i) \in Sems
    BY <1>2, SemNames DEF IInv, TypeOK2, TypeOK, SemTypeOK
  <2>2. value[CvSem(i)] + 1 \in Nat
    BY <2>1
  <2> QED BY <1>2, <1>4, <2>1, <2>2
<1>8. TypeOK2'
  <2>1. pc' \in [Procs -> Labels] /\ phase' \in [Seats -> {"THINKING", "HUNGRY", "EATING"}]
    BY <1>1, <1>2, <1>4, <1>5 DEF IInv, TypeOK2, TypeOK, SemTypeOK, Labels
  <2> QED BY <1>1, <1>4, <1>7, <2>1 DEF IInv, TypeOK2, TypeOK, SemTypeOK, SchedTypeOK, schedVars,
        monData
<1>9. LocalOK(i)'
  <2>1. PlaceOK(i)'
    BY <1>1, <1>4, <1>5, <1>6, PlaceMove DEF Calls, schedVars
  <2>2. WayOK(i)'
    BY <1>1, <1>2, <1>4, <1>5, <1>6 DEF WayOK, InDown, InSleep
  <2>3. PhaseOK(i)'
    BY <1>5, <1>6 DEF PhaseOK, Where, InDown, InSleep
  <2> QED BY <2>1, <2>2, <2>3 DEF LocalOK
<1>10. i \in Owners' /\ i \in Owners
  BY <1>1, <1>5, <1>6 DEF Owners, Crit
<1>11. UnitsOK'
  <2>1. HasUnit(i)' <=> kind = "sema"
    BY <1>1, <1>5, <1>6 DEF HasUnit
  <2>2. ~HasUnit(i)
    BY <1>1 DEF HasUnit
  <2>3. value[CvSem(i)] = 0 /\ CvSem(i) \in Sems /\ value \in [Sems -> Nat]
    BY <2>2, SemNames, Sitting DEF IInv, UnitsOK, TypeOK2, TypeOK, SemTypeOK
  <2>4. value'[CvSem(i)] = IF kind = "sema" THEN 1 ELSE 0
    BY <1>2, <1>4, <2>3
  <2>5. ASSUME NEW k \in Seats, k # i
        PROVE  value'[CvSem(k)] = (IF HasUnit(k)' THEN 1 ELSE 0)
    <3>1. HasUnit(k)' <=> HasUnit(k)
      BY <1>6, <2>5, Sitting DEF Apart, Placed, HasUnit
    <3>2. value'[CvSem(k)] = value[CvSem(k)]
      BY <1>7, <2>5, SemNames, Sitting
    <3> QED BY <3>1, <3>2 DEF IInv, UnitsOK
  <2> QED BY <2>1, <2>4, <2>5 DEF UnitsOK, CvSem
<1>12. ~StandsBack(i) /\ ~StandsBack(i)' /\ ~InWait(i) /\ ~InWait(i)'
  BY <1>1, <1>2, <1>5, <1>6 DEF StandsBack, InWait, InDown
<1>13. CountOK'
  <2>1. \A k \in Seats : k # i => ~StandsBack(k)
    BY <1>1, <1>2, <1>10 DEF IInv, CountOK
  <2> QED BY <1>4, <1>6, <1>10, <1>12, <2>1, CountSame, OwnersSame
<1>14. TestOK'
  <2>1. ASSUME NEW j \in Seats, MayEat(j)'
        PROVE  Pending(j)'
    <3>1. j # i
      BY <1>6, <2>1 DEF MayEat
    <3>2. MayEat(j)
      BY <1>6, <2>1, <3>1, Neighbours DEF MayEat, LEFT, RIGHT
    <3> QED BY <1>1, <1>6, <1>12, <3>1, <3>2, PendingStays DEF IInv, TestOK
  <2> QED BY <2>1 DEF TestOK
<1>15. OwnerOK'
  BY <1>4, <1>5, <1>6, <1>7, <1>10, OwnerSame, SemNames, Sitting
<1> QED BY <1>1, <1>2, <1>4, <1>5, <1>6, <1>8, <1>9, <1>11, <1>13, <1>14, <1>15,
      StepKeeps DEF InDown

-----------------------------------------------------------------------------
(* The ends of down(), cond_signal and cond_wait.                          *)
LEMMA DownEndKeeps ==
  ASSUME IInv, NEW i \in Seats, DownEnd(i), UNCHANGED <<monData, cv, ret, philData>>
  PROVE  IInv'
<1>1. /\ current = i /\ pc[i] = "down_wake" /\ pc' = [pc EXCEPT ![i] = then[i]]
      /\ queue' = IF InQueue(i, on[i]) THEN [queue EXCEPT ![on[i]] = Without(@, i)] ELSE queue
      /\ then' = [then EXCEPT ![i] = "idle"] /\ flags' = [flags EXCEPT ![i] = "WT_INTERRUPTED"]
      /\ on' = [on EXCEPT ![i] = NoSem]
      /\ UNCHANGED <<schedVars, value, monData, cv, ret, kind, phase, iter>>
  BY DEF DownEnd, At, Goto, philData
<1>2. /\ i \in Procs /\ i \in Cvs /\ i # Idle /\ WayOK(i) /\ PhaseOK(i) /\ InDown(i)
      /\ flags[i] = "WT_KSEM"
      /\ on[i] \in Sems
  BY <1>1, Caller, Sitting DEF InDown, IInv, TypeOK2, TypeOK, SemTypeOK
<1>3. queue' = queue
  <2>1. ~InQueue(i, on[i])
    BY <1>2 DEF InQueue, IInv, QueueOK, Waits
  <2> QED BY <1>1, <2>1
<1> DEFINE l == then[i]
<1>4. \/ kind = "sema" /\ on[i] = CvSem(i) /\ l = "eat"
      \/ kind = "condvar" /\ on[i] = mutex /\ l \in {"take_in", "put_in"}
      \/ kind = "condvar" /\ on[i] = next /\ l = "sig_end" /\ ret[i] \in {"put_right", "put_out"}
      \/ kind = "condvar" /\ on[i] = CvSem(i) /\ l = "wait_end" /\ ret[i] = "take_out" /\ cv[i] = i
  BY <1>2 DEF WayOK
<1>5. TypeOK2' /\ Apart({i}) /\ pc'[i] = l
  <2>1. "idle" \in Labels /\ nextCount' \in Nat /\ count' \in [Cvs -> Nat] /\ l \in Labels
        /\ NoSem \in Sems
    BY <1>1, <1>2, SemNames DEF Labels, monData, IInv, TypeOK2, TypeOK, SemTypeOK
  <2>2. Changed(then', then, i, Labels) /\ Changed(flags', flags, i, {"WT_INTERRUPTED", "WT_KSEM"})
        /\ Changed(on', on, i, Sems)
    BY <1>1, <2>1 DEF Changed
  <2>3. /\ Changed(ret', ret, i, Labels) /\ Changed(cv', cv, i, Cvs)
        /\ Changed(phase', phase, i, {"THINKING", "HUNGRY", "EATING"})
    BY <1>1 DEF Changed
  <2>4. pc' = [pc EXCEPT ![i] = l] /\ UNCHANGED <<schedVars, value, queue, kind, iter>>
    BY <1>1, <1>3
  <2> HIDE DEF l
  <2> QED BY <2>1, <2>2, <2>3, <2>4, TypeMove
<1> HIDE DEF l
<1>6. then'[i] = "idle" /\ l \notin Calls \cup {"idle", "quit_sched", "dead", "sig_down",
        "wait_down"}
  BY <1>1, <1>2, <1>4 DEF Calls, IInv, TypeOK2, TypeOK, SemTypeOK
<1>7. ~InDown(i)' /\ ~InSleep(i)' /\ ~Refused(i)' /\ ~Refused(i) /\ Where(i)' = l /\ Where(i) = l
  BY <1>1, <1>2, <1>5, <1>6 DEF InDown, InSleep, Refused, Where, Calls, l
<1>8. LocalOK(i)'
  <2>1. PlaceOK(i)'
    BY <1>1, <1>5, <1>6, PlaceMove DEF schedVars
  <2>2. WayOK(i)'
    BY <1>1, <1>4, <1>5, <1>6, <1>7 DEF WayOK
  <2>3. PhaseOK(i)'
    BY <1>1, <1>2, <1>4, <1>7 DEF PhaseOK
  <2> QED BY <2>1, <2>2, <2>3 DEF LocalOK
<1>9. i \in Owners' <=> i \in Owners
  BY <1>1, <1>2, <1>4, <1>5, <1>7 DEF Owners, Crit
<1>10. UnitsOK'
  <2>1. ~HasUnit(i)' /\ ~HasUnit(i)
    BY <1>1, <1>4, <1>5 DEF HasUnit
  <2> QED BY <1>1, <1>5, <2>1, UnitsSame
<1>11. /\ StandsBack(i) <=> on[i] = next
       /\ StandsBack(i)' <=> on[i] = next
       /\ InWait(i)' <=> InWait(i)
  <2>1. /\ mutex # next /\ CvSem(i) # mutex /\ CvSem(i) # next
    BY <1>2, SemNames
  <2>2. StandsBack(i) <=> on[i] = next
    BY <1>1, <1>2 DEF StandsBack
  <2>3. StandsBack(i)' <=> l = "sig_end"
    BY <1>5, <1>6, <1>7 DEF StandsBack
  <2>4. InWait(i) <=> kind = "condvar" /\ on[i] = CvSem(i)
    BY <1>1, <1>2 DEF InWait
  <2>5. InWait(i)' <=> kind = "condvar" /\ l = "wait_end"
    BY <1>1, <1>5, <1>6, <1>7 DEF InWait
  <2> QED BY <1>4, <2>1, <2>2, <2>3, <2>4, <2>5
<1>12. CountOK'
  <2>1. Owners' = Owners
    BY <1>5, <1>9, OwnersSame
  <2>2. ASSUME i \in Owners', NEW k \in Seats, k # i, StandsBack(k)
        PROVE  pc'[i] \in {"wait_end", "take_out"}
    <3>1. on[i] # next
      BY <1>11, <2>2 DEF IInv, CountOK
    <3>2. on[i] = CvSem(i)
      BY <1>1, <2>1, <2>2 DEF IInv, CountOK
    <3>3. kind = "condvar"
      BY <1>1, <2>1, <2>2, <1>2 DEF Owners, Crit, InDown
    <3> QED BY <1>2, <1>4, <1>5, <3>1, <3>2, <3>3, SemNames
  <2> QED BY <1>1, <1>5, <1>11, <2>1, <2>2, CountSame
<1>13. TestOK'
  BY <1>1, <1>5, <1>11, TestSame
<1>14. OwnerOK'
  BY <1>1, <1>3, <1>5, <1>6, <1>9, OwnerSame
<1> QED BY <1>1, <1>3, <1>5, <1>7, <1>8, <1>10, <1>12, <1>13, <1>14, StepKeeps

LEMMA SignalEndKeeps ==
  ASSUME IInv, NEW i \in Seats, SignalEnd(i), UNCHANGED philData
  PROVE  IInv'
<1>1. /\ current = i /\ pc[i] = "sig_end" /\ nextCount' = nextCount - 1
      /\ pc' = [pc EXCEPT ![i] = ret[i]] /\ ret' = [ret EXCEPT ![i] = "idle"]
      /\ UNCHANGED <<schedVars, value, queue, flags, on, then, count, cv, kind, phase, iter>>
  BY DEF SignalEnd, At, Goto, semData, philData
<1>2. /\ i \in Procs /\ i # Idle /\ WayOK(i) /\ PhaseOK(i) /\ ~InDown(i) /\ ~InSleep(i)
  BY <1>1, Caller DEF InDown, InSleep, IInv
<1> DEFINE l == ret[i]
<1>3. kind = "condvar" /\ l \in {"put_right", "put_out"} /\ phase[i] = "THINKING"
  BY <1>1, <1>2 DEF WayOK, PhaseOK, Where
<1>4. StandsBack(i) /\ (\A k \in Seats : k # i => ~StandsBack(k)) /\ nextCount = 1 /\ ~InWait(i)
  <2>1. StandsBack(i) /\ ~InWait(i)
    BY <1>1, <1>2 DEF StandsBack, InWait
  <2> QED BY <2>1 DEF IInv, CountOK
<1>5. TypeOK2' /\ Apart({i}) /\ pc'[i] = l
  <2>1. "idle" \in Labels /\ nextCount' \in Nat /\ count' \in [Cvs -> Nat] /\ l \in Labels
    BY <1>1, <1>3, <1>4 DEF Labels, IInv, TypeOK2, TypeOK
  <2>2. /\ Changed(then', then, i, Labels)
        /\ Changed(flags', flags, i, {"WT_INTERRUPTED", "WT_KSEM"})
        /\ Changed(on', on, i, Sems) /\ Changed(cv', cv, i, Cvs)
        /\ Changed(phase', phase, i, {"THINKING", "HUNGRY", "EATING"})
    BY <1>1 DEF Changed
  <2>3. Changed(ret', ret, i, Labels)
    BY <1>1, <2>1 DEF Changed
  <2>4. pc' = [pc EXCEPT ![i] = l] /\ UNCHANGED <<schedVars, value, queue, kind, iter>>
    BY <1>1
  <2> HIDE DEF l
  <2> QED BY <2>1, <2>2, <2>3, <2>4, TypeMove
<1>6. ~InDown(i)' /\ ~InSleep(i)' /\ ~Refused(i)' /\ Where(i)' = l
  BY <1>3, <1>5 DEF InDown, InSleep, Refused, Where
<1>7. LocalOK(i)'
  <2>1. PlaceOK(i)'
    BY <1>1, <1>3, <1>5, PlaceMove DEF Calls, schedVars
  <2>2. WayOK(i)'
    BY <1>1, <1>2, <1>3, <1>5, <1>6 DEF WayOK
  <2>3. PhaseOK(i)'
    BY <1>1, <1>3, <1>6 DEF PhaseOK
  <2> QED BY <2>1, <2>2, <2>3 DEF LocalOK
<1>8. i \in Owners' /\ i \in Owners
  BY <1>1, <1>3, <1>5 DEF Owners, Crit
<1>9. UnitsOK'
  <2>1. ~HasUnit(i)' /\ ~HasUnit(i)
    BY <1>1, <1>3 DEF HasUnit
  <2> QED BY <1>1, <1>5, <2>1, UnitsSame
<1>10. CountOK'
  <2>1. \A k \in Seats : ~StandsBack(k)'
    <3>1. ~StandsBack(i)'
      BY <1>3, <1>5, <1>6 DEF StandsBack
    <3> QED BY <1>4, <1>5, <3>1, Sitting DEF Apart, Placed, StandsBack, InDown
  <2>2. \A k \in Seats : InWait(k)' <=> InWait(k)
    <3>1. ~InWait(i)'
      BY <1>3, <1>5, <1>6 DEF InWait
    <3> QED BY <1>4, <1>5, <3>1, Sitting DEF Apart, Placed, InWait, InDown, CvSem
  <2> QED BY <1>1, <1>4, <2>1, <2>2 DEF IInv, CountOK
<1>11. TestOK'
  BY <1>1, <1>3, <1>5, TestSame
<1>12. OwnerOK'
  BY <1>1, <1>3, <1>5, <1>8, OwnerSame
<1> QED BY <1>1, <1>5, <1>6, <1>7, <1>9, <1>10, <1>11, <1>12, StepKeeps

LEMMA WaitEndKeeps ==
  ASSUME IInv, NEW i \in Seats, WaitEnd(i), UNCHANGED philData
  PROVE  IInv'
<1>1. /\ current = i /\ pc[i] = "wait_end" /\ count' = [count EXCEPT ![cv[i]] = @ - 1]
      /\ pc' = [pc EXCEPT ![i] = ret[i]] /\ ret' = [ret EXCEPT ![i] = "idle"]
      /\ cv' = [cv EXCEPT ![i] = NoCv]
      /\ UNCHANGED <<schedVars, value, queue, flags, on, then, nextCount, kind, phase, iter>>
  BY DEF WaitEnd, At, Goto, semData, philData
<1>2. /\ i \in Procs /\ i \in Cvs /\ i # Idle /\ WayOK(i) /\ PhaseOK(i) /\ ~InDown(i) /\ ~InSleep(i)
  BY <1>1, Caller, Sitting DEF InDown, InSleep, IInv
<1>3. kind = "condvar" /\ ret[i] = "take_out" /\ cv[i] = i /\ phase[i] = "EATING"
  BY <1>1, <1>2 DEF WayOK, PhaseOK, Where, Refused
<1>4. InWait(i) /\ count[i] = 1 /\ ~StandsBack(i)
  BY <1>1, <1>2, <1>3 DEF InWait, IInv, CountOK, StandsBack
<1>5. /\ \A c \in Cvs : count'[c] = (IF c = i THEN 0 ELSE count[c])
      /\ count' \in [Cvs -> Nat]
  BY <1>1, <1>2, <1>3, <1>4 DEF IInv, TypeOK2, TypeOK
<1>6. TypeOK2' /\ Apart({i}) /\ pc'[i] = "take_out"
  <2>1. "idle" \in Labels /\ nextCount' \in Nat /\ count' \in [Cvs -> Nat]
        /\ "take_out" \in Labels /\ NoCv \in Cvs
    BY <1>1, <1>5, SemNames DEF Labels, IInv, TypeOK2, TypeOK
  <2>2. /\ Changed(then', then, i, Labels)
        /\ Changed(flags', flags, i, {"WT_INTERRUPTED", "WT_KSEM"})
        /\ Changed(on', on, i, Sems)
        /\ Changed(phase', phase, i, {"THINKING", "HUNGRY", "EATING"})
    BY <1>1 DEF Changed
  <2>3. Changed(ret', ret, i, Labels) /\ Changed(cv', cv, i, Cvs)
    BY <1>1, <2>1 DEF Changed
  <2>4. pc' = [pc EXCEPT ![i] = "take_out"] /\ UNCHANGED <<schedVars, value, queue, kind, iter>>
    BY <1>1, <1>3
  <2> QED BY <2>1, <2>2, <2>3, <2>4, TypeMove
<1>7. ~InDown(i)' /\ ~InSleep(i)' /\ ~Refused(i)' /\ Where(i)' = "take_out"
  BY <1>6 DEF InDown, InSleep, Refused, Where
<1>8. LocalOK(i)'
  <2>1. PlaceOK(i)'
    BY <1>1, <1>6, PlaceMove DEF Calls, schedVars
  <2>2. WayOK(i)'
    BY <1>1, <1>2, <1>6, <1>7 DEF WayOK
  <2>3. PhaseOK(i)'
    BY <1>1, <1>3, <1>7 DEF PhaseOK
  <2> QED BY <2>1, <2>2, <2>3 DEF LocalOK
<1>9. i \in Owners' /\ i \in Owners
  BY <1>1, <1>6 DEF Owners, Crit
<1>10. UnitsOK'
  <2>1. ~HasUnit(i)' /\ ~HasUnit(i)
    BY <1>1, <1>3 DEF HasUnit
  <2> QED BY <1>1, <1>6, <2>1, UnitsSame
<1>11. ~StandsBack(i)' /\ ~InWait(i)'
  BY <1>6, <1>7 DEF StandsBack, InWait
<1>12. CountOK'
  <2>1. \A k \in Seats : k # i => (StandsBack(k)' <=> StandsBack(k)) /\ (InWait(k)' <=> InWait(k))
    BY <1>6, Sitting DEF Apart, Placed, StandsBack, InWait, InDown, CvSem
  <2>2. \A k \in Seats : StandsBack(k)' <=> StandsBack(k)
    BY <1>4, <1>11, <2>1
  <2>3. \A k \in Seats : count'[k] = IF InWait(k)' THEN 1 ELSE 0
    BY <1>5, <1>11, <2>1, Sitting DEF IInv, CountOK
  <2>4. nextCount' = IF \E k \in Seats : StandsBack(k)' THEN 1 ELSE 0
    BY <1>1, <2>2 DEF IInv, CountOK
  <2>5. \A k, j \in Seats : StandsBack(k)' /\ StandsBack(j)' => k = j
    BY <2>2 DEF IInv, CountOK
  <2>6. \A o \in Owners' : o = i
    <3>1. Owners' = Owners
      BY <1>6, <1>9, OwnersSame
    <3> QED BY <1>9, <3>1 DEF IInv, OwnerOK
  <2> QED BY <1>6, <2>3, <2>4, <2>5, <2>6 DEF CountOK
<1>13. TestOK'
  BY <1>1, <1>4, <1>6, TestSame
<1>14. OwnerOK'
  BY <1>1, <1>6, <1>9, OwnerSame
<1> QED BY <1>1, <1>6, <1>7, <1>8, <1>10, <1>12, <1>13, <1>14, StepKeeps

-----------------------------------------------------------------------------
(* The calls of down().                                                    *)

\* In the first group whoever has the mutex has the processor.
LEMMA SemaOwner ==
  ASSUME IInv, NEW i \in Seats, current = i, kind = "sema", pc[i] \notin Crit
  PROVE  Owners = {}
<1>1. ASSUME NEW o \in Owners
      PROVE  FALSE
  <2>1. o \in Seats /\ o \in Procs /\ WayOK(o) /\ pc[o] \in Crit \cup {"sig_end", "wait_end"}
    BY Sitting DEF Owners, IInv
  <2>2. pc[o] \in Crit
    BY <2>1 DEF WayOK
  <2> QED BY <2>1, <2>2, Caller DEF Parked, Crit
<1> QED BY <1>1

LEMMA EnterKeeps ==
  ASSUME IInv, NEW i \in Seats, Enter(i)
  PROVE  IInv'
<1>1. PICK l \in Labels : /\ current = i /\ Down(i, mutex, l)
                          /\ UNCHANGED <<monData, cv, ret, philData>>
                          /\ (pc[i] = "take" /\ l = "take_in") \/ (pc[i] = "put" /\ l = "put_in")
  BY DEF Enter, EnterMonitor, At, Labels
<1>2. /\ i \in Procs /\ i # Idle /\ WayOK(i) /\ PhaseOK(i) /\ ~InDown(i) /\ ~InSleep(i)
      /\ value[mutex] \in Nat /\ mutex \in Sems /\ kind \in {"sema", "condvar"}
  BY <1>1, Caller, SemNames DEF InDown, InSleep, IInv, TypeOK2, TypeOK, SemTypeOK
<1>3. CASE value[mutex] = 0
  <2>1. Owners # {}
    BY <1>3 DEF IInv, OwnerOK
  <2>2. pc[i] \notin Crit
    BY <1>1 DEF Crit
  <2>3. kind = "condvar"
    BY <1>1, <1>2, <2>1, <2>2, SemaOwner
  <2> QED BY <1>1, <1>2, <1>3, <2>3, SleepKeeps
<1>4. CASE value[mutex] > 0
  <2>1. /\ value' = [value EXCEPT ![mutex] = @ - 1] /\ pc' = [pc EXCEPT ![i] = l]
        /\ UNCHANGED <<schedVars, queue, flags, on, then, monData, cv, ret, kind, phase, iter>>
    BY <1>1, <1>4 DEF Down, Goto, philData
  <2>2. Owners = {} /\ value[mutex] = 1
    BY <1>4 DEF IInv, OwnerOK
  <2>3. value' \in [Sems -> Nat] /\ value'[mutex] = 0
        /\ \A s \in Sems : s # mutex => value'[s] = value[s]
    BY <1>2, <2>1, <2>2 DEF IInv, TypeOK2, TypeOK, SemTypeOK
  <2>4. TypeOK2' /\ pc'[i] = l
    <3>1. pc' \in [Procs -> Labels] /\ pc'[i] = l
      BY <1>2, <2>1 DEF IInv, TypeOK2, TypeOK, SemTypeOK
    <3> QED BY <2>1, <2>3, <3>1 DEF IInv, TypeOK2, TypeOK, SemTypeOK, SchedTypeOK, schedVars,
          monData
  <2>5. Apart({i})
    BY <2>1 DEF Apart, Placed, IInv, TypeOK2, TypeOK, SemTypeOK, schedVars
  <2>6. ~InDown(i)' /\ ~InSleep(i)' /\ ~Refused(i)' /\ Where(i)' = l /\ Where(i) = pc[i]
        /\ ~Refused(i)
    BY <1>1, <1>2, <2>4 DEF InDown, InSleep, Refused, Where
  <2>7. LocalOK(i)'
    <3>1. PlaceOK(i)'
      BY <1>1, <2>1, <2>4, PlaceMove DEF Calls, schedVars
    <3>2. WayOK(i)'
      BY <1>1, <1>2, <2>1, <2>4, <2>6 DEF WayOK
    <3>3. PhaseOK(i)'
      BY <1>1, <1>2, <2>1, <2>6 DEF PhaseOK
    <3> QED BY <3>1, <3>2, <3>3 DEF LocalOK
  <2>8. Owners' = {i}
    <3>1. i \in Owners'
      BY <1>1, <2>4 DEF Owners, Crit
    <3>2. \A k \in Seats : k # i => k \notin Owners'
      BY <2>2, <2>5, Sitting DEF Apart, Placed, Owners, InDown
    <3>3. Owners' \subseteq Seats
      BY DEF Owners
    <3> QED BY <3>1, <3>2, <3>3
  <2>9. OwnerOK'
    BY <2>3, <2>8, SemNames DEF IInv, OwnerOK, mutex, next
  <2>10. UnitsOK'
    <3>1. ~HasUnit(i)' /\ ~HasUnit(i)
      BY <1>1, <2>4 DEF HasUnit
    <3>2. \A k \in Seats : value'[CvSem(k)] = value[CvSem(k)]
      BY <2>3, SemNames, Sitting
    <3>3. \A k \in Seats : HasUnit(k)' <=> HasUnit(k)
      BY <2>5, <3>1, Sitting DEF Apart, Placed, HasUnit
    <3> QED BY <3>2, <3>3 DEF IInv, UnitsOK, CvSem
  <2>11. ~StandsBack(i) /\ ~StandsBack(i)' /\ ~InWait(i) /\ ~InWait(i)'
    BY <1>1, <1>2, <2>4, <2>6 DEF StandsBack, InWait
  <2>12. CountOK'
    BY <2>1, <2>2, <2>5, <2>8, <2>11, NobodyBack, CountSame
  <2>13. TestOK'
    BY <1>1, <2>1, <2>5, <2>11, TestSame
  <2> QED BY <1>1, <2>1, <2>4, <2>5, <2>6, <2>7, <2>9, <2>10, <2>12, <2>13, StepKeeps
<1> QED BY <1>2, <1>3, <1>4

\* down(&s[i]): a philosopher that got the forks in its own test finds the unit.
LEMMA TakeSKeeps ==
  ASSUME IInv, NEW i \in Seats, TakeS(i)
  PROVE  IInv'
<1>1. /\ current = i /\ pc[i] = "take_s" /\ Down(i, CvSem(i), "eat")
      /\ UNCHANGED <<monData, cv, ret, philData>>
  BY DEF TakeS, At
<1>2. /\ i \in Procs /\ i \in Cvs /\ i # Idle /\ WayOK(i) /\ PhaseOK(i) /\ ~InDown(i) /\ ~InSleep(i)
      /\ value[CvSem(i)] \in Nat /\ CvSem(i) \in Sems /\ kind = "sema" /\ "eat" \in Labels
  BY <1>1, Caller, SemNames, Sitting DEF InDown, InSleep, IInv, TypeOK2, TypeOK, SemTypeOK, WayOK, Labels
<1>3. CASE value[CvSem(i)] = 0
  BY <1>1, <1>2, <1>3, SleepKeeps
<1>4. CASE value[CvSem(i)] > 0
  <2>1. /\ value' = [value EXCEPT ![CvSem(i)] = @ - 1] /\ pc' = [pc EXCEPT ![i] = "eat"]
        /\ UNCHANGED <<schedVars, queue, flags, on, then, monData, cv, ret, kind, phase, iter>>
    BY <1>1, <1>4 DEF Down, Goto, philData
  <2>2. HasUnit(i) /\ value[CvSem(i)] = 1 /\ phase[i] = "EATING"
    BY <1>4 DEF IInv, UnitsOK, HasUnit
  <2>3. /\ value' \in [Sems -> Nat] /\ value'[CvSem(i)] = 0
        /\ \A s \in Sems : s # CvSem(i) => value'[s] = value[s]
    BY <1>2, <2>1, <2>2 DEF IInv, TypeOK2, TypeOK, SemTypeOK
  <2>4. TypeOK2' /\ pc'[i] = "eat"
    <3>1. pc' \in [Procs -> Labels] /\ pc'[i] = "eat"
      BY <1>2, <2>1 DEF IInv, TypeOK2, TypeOK, SemTypeOK
    <3> QED BY <2>1, <2>3, <3>1 DEF IInv, TypeOK2, TypeOK, SemTypeOK, SchedTypeOK, schedVars,
          monData
  <2>5. Apart({i})
    BY <2>1 DEF Apart, Placed, IInv, TypeOK2, TypeOK, SemTypeOK, schedVars
  <2>6. ~InDown(i)' /\ ~InSleep(i)' /\ ~Refused(i)' /\ Where(i)' = "eat"
    BY <2>4 DEF InDown, InSleep, Refused, Where
  <2>7. LocalOK(i)'
    <3>1. PlaceOK(i)'
      BY <1>1, <2>1, <2>4, PlaceMove DEF Calls, schedVars
    <3>2. WayOK(i)'
      BY <1>2, <2>1, <2>4, <2>6 DEF WayOK
    <3>3. PhaseOK(i)'
      BY <2>1, <2>2, <2>6 DEF PhaseOK
    <3> QED BY <3>1, <3>2, <3>3 DEF LocalOK
  <2>8. i \notin Owners' /\ i \notin Owners
    BY <1>1, <1>2, <2>4, <2>6 DEF Owners, Crit
  <2>9. OwnerOK'
    BY <1>2, <2>1, <2>3, <2>4, <2>5, <2>8, OwnerSame, SemNames
  <2>10. UnitsOK'
    <3>1. ~HasUnit(i)'
      BY <2>4 DEF HasUnit
    <3>2. ASSUME NEW k \in Seats
          PROVE  value'[CvSem(k)] = IF HasUnit(k)' THEN 1 ELSE 0
      <4>1. CASE k = i
        BY <2>3, <3>1, <4>1
      <4>2. CASE k # i
        <5>1. value'[CvSem(k)] = value[CvSem(k)]
          BY <1>2, <2>3, <4>2, SemNames, Sitting
        <5>2. HasUnit(k)' <=> HasUnit(k)
          BY <2>5, <4>2, Sitting DEF Apart, Placed, HasUnit
        <5> QED BY <5>1, <5>2 DEF IInv, UnitsOK
      <4> QED BY <4>1, <4>2
    <3> QED BY <3>2 DEF UnitsOK, CvSem
  <2>11. ~StandsBack(i) /\ ~StandsBack(i)' /\ ~InWait(i) /\ ~InWait(i)'
    BY <1>1, <1>2, <2>4, <2>6 DEF StandsBack, InWait
  <2>12. CountOK'
    BY <2>1, <2>5, <2>8, <2>11, CountSame, OwnersSame
  <2>13. TestOK'
    BY <1>1, <2>1, <2>5, <2>11, TestSame
  <2> QED BY <1>1, <2>1, <2>4, <2>5, <2>6, <2>7, <2>9, <2>10, <2>12, <2>13, StepKeeps
<1> QED BY <1>2, <1>3, <1>4

LEMMA SignalDownKeeps ==
  ASSUME IInv, NEW i \in Seats, SignalDown(i), UNCHANGED philData
  PROVE  IInv'
<1>1. current = i /\ pc[i] = "sig_down" /\ Down(i, next, "sig_end")
      /\ UNCHANGED <<monData, cv, ret, philData>>
  BY DEF SignalDown, At
<1>2. next \in Sems /\ value[next] = 0 /\ "sig_end" \in Labels
  BY SemNames DEF IInv, OwnerOK, Labels
<1> QED BY <1>1, <1>2, SleepKeeps

LEMMA WaitDownKeeps ==
  ASSUME IInv, NEW i \in Seats, WaitDown(i), UNCHANGED philData
  PROVE  IInv'
<1>1. /\ current = i /\ pc[i] = "wait_down" /\ Down(i, CvSem(cv[i]), "wait_end")
      /\ UNCHANGED <<monData, cv, ret, philData>>
  BY DEF WaitDown, At
<1>2. cv[i] = i /\ kind = "condvar"
  BY <1>1 DEF IInv, WayOK
<1>3. CvSem(cv[i]) \in Sems /\ value[CvSem(cv[i])] = 0 /\ "wait_end" \in Labels
  BY <1>2, SemNames, Sitting DEF IInv, UnitsOK, HasUnit, Labels
<1> QED BY <1>1, <1>3, SleepKeeps

-----------------------------------------------------------------------------
(* up() that wakes.  Who is woken stays in down() until it runs; with its  *)
(* own semaphore it has been given the forks in the same step.             *)
LEMMA WokenLocal ==
  ASSUME IInv, NEW h \in Seats, h # current, NEW s \in Sems, Waits(h, s),
         pc'[h] = pc[h], on'[h] = on[h], then'[h] = then[h], ret'[h] = ret[h], cv'[h] = cv[h],
         kind' = kind, current' = current,
         state'[h] = "RUNNABLE", waitState'[h] = "NONE", flags'[h] = "WT_KSEM",
         \/ on[h] # CvSem(h) /\ phase'[h] = phase[h]
         \/ on[h] = CvSem(h) /\ phase'[h] = "EATING"
  PROVE  LocalOK(h)'
<1>1. h \in Procs /\ h # Idle /\ PlaceOK(h) /\ WayOK(h) /\ PhaseOK(h) /\ pc[h] = "down_wake"
      /\ InDown(h)
  BY Sitting DEF IInv, PlaceOK, Waits, InDown, Parked
<1>2. InDown(h)' /\ ~InSleep(h)' /\ ~Refused(h)' /\ Where(h)' = Where(h) /\ Where(h) = then[h]
  BY <1>1 DEF InDown, InSleep, Refused, Where
<1>3. PlaceOK(h)'
  BY <1>1, <1>2 DEF PlaceOK, Parked
<1>4. WayOK(h)'
  BY <1>1, <1>2 DEF WayOK, InSleep, CvSem, mutex, next
<1>5. PhaseOK(h)'
  <2>1. \/ on[h] = CvSem(h) /\ then[h] \in {"eat", "wait_end"}
        \/ on[h] # CvSem(h) /\ then[h] \in {"take_in", "put_in", "sig_end"}
    BY <1>1, SemNames, Sitting DEF WayOK
  <2>2. on[h] # CvSem(h) => ~Refused(h)
    BY DEF Refused
  <2> QED BY <1>1, <1>2, <2>1, <2>2 DEF PhaseOK
<1> QED BY <1>3, <1>4, <1>5 DEF LocalOK

(* Nobody waits for the mutex or stands back in the first group; and when  *)
(* next_count is zero nobody stands back.                                  *)
LEMMA NextQueue ==
  ASSUME IInv, NEW i \in Seats, current = i, pc[i] \in Crit
  PROVE  /\ Owners = {i} /\ ~StandsBack(i)
         /\ nextCount > 0 <=> queue[next] # <<>>
         /\ kind = "sema" => queue[mutex] = <<>> /\ nextCount = 0
<1>1. Owners = {i}
  BY DEF IInv, OwnerOK, Owners
<1>2. ~StandsBack(i) /\ i \in Procs
  BY Caller DEF StandsBack, Crit, InDown
<1>3. \A s \in Sems : queue[s] \in Seq(Procs) /\ \A q \in DOMAIN queue[s] : queue[s][q] \in Procs
  BY DEF IInv, TypeOK2, TypeOK, SemTypeOK
<1>4. \A s \in Sems : queue[s] # <<>> => \E q \in Seats : Waits(q, s)
  <2>1. ASSUME NEW s \in Sems, queue[s] # <<>>
        PROVE  \E q \in Seats : Waits(q, s)
    <3>1. queue[s] \in Seq(Procs)
      BY <1>3
    <3>2. 1 \in DOMAIN queue[s] /\ queue[s][1] \in Procs
      BY <2>1, <3>1
    <3>3. Waits(queue[s][1], s)
      BY <3>2 DEF IInv, QueueOK
    <3>4. queue[s][1] \in Seats
      BY <3>2, <3>3, Sitting DEF IInv, PlaceOK, Waits
    <3> QED BY <3>3, <3>4
  <2> QED BY <2>1
<1>5. ASSUME NEW q \in Seats, Waits(q, next)
      PROVE  nextCount > 0 /\ kind = "condvar"
  <2>1. StandsBack(q)
    BY <1>5 DEF Waits, StandsBack, InDown
  <2>2. kind = "condvar"
    BY <1>5, SemNames, Sitting DEF Waits, IInv, WayOK, InDown
  <2> QED BY <2>1, <2>2 DEF IInv, CountOK
<1>6. ASSUME nextCount > 0
      PROVE  queue[next] # <<>> /\ kind = "condvar"
  <2>1. PICK q \in Seats : StandsBack(q)
    BY <1>6 DEF IInv, CountOK
  <2>2. q # i /\ q \in Procs /\ pc[q] \in Parked /\ q \notin Owners
        /\ flags[q] \in {"WT_INTERRUPTED", "WT_KSEM"}
    BY <1>1, <1>2, <2>1, Caller, Sitting DEF IInv, TypeOK2, TypeOK, SemTypeOK
  <2>3. InDown(q) /\ on[q] = next
    BY <2>1, <2>2 DEF StandsBack, Parked
  <2>4. kind = "condvar"
    BY <2>3, SemNames, Sitting DEF IInv, WayOK
  <2>5. Waits(q, next)
    BY <2>2, <2>3, <2>4 DEF Owners, Waits, InDown
  <2>6. InQueue(q, next)
    BY <2>2, <2>5, SemNames DEF IInv, QueueOK
  <2>7. queue[next] \in Seq(Procs)
    BY <1>3, SemNames
  <2> QED BY <2>4, <2>6, <2>7 DEF InQueue
<1>7. ASSUME NEW q \in Seats, Waits(q, mutex)
      PROVE  kind = "condvar"
  BY <1>7, SemNames, Sitting DEF Waits, IInv, WayOK, InDown
<1>8. kind # "condvar" => nextCount = 0
  BY <1>6 DEF IInv, CountOK
<1> QED BY <1>1, <1>2, <1>4, <1>5, <1>6, <1>7, <1>8, SemNames

(* Who has the mutex gives it away: to the one that stands back, else to   *)
(* the first at the door, else to nobody.                                  *)
LEMMA GiveKeeps ==
  ASSUME IInv, NEW i \in Seats, current = i, NEW l \in Labels, NEW s \in {mutex, next}, Up(s),
         IF kind = "sema" THEN s = mutex ELSE s = IF nextCount > 0 THEN next ELSE mutex,
         pc' = [pc EXCEPT ![i] = l], UNCHANGED <<on, then, nextCount, philData>>,
         \/ pc[i] = "take_out" /\ l = (IF kind = "sema" THEN "take_s" ELSE "eat")
         \/ pc[i] = "put_out" /\ l = "think"
         \/ kind = "condvar" /\ pc[i] = "take_check" /\ phase[i] # "EATING" /\ l = "wait_down",
         IF l = "wait_down"
         THEN /\ cv' = [cv EXCEPT ![i] = i] /\ ret' = [ret EXCEPT ![i] = "take_out"]
              /\ count' = [count EXCEPT ![i] = @ + 1]
         ELSE UNCHANGED <<cv, ret, count>>
  PROVE  IInv'
<1>1. /\ i \in Procs /\ i \in Cvs /\ i # Idle /\ state[i] = "RUNNABLE" /\ waitState[i] # "WT_TIMER"
      /\ WayOK(i) /\ PhaseOK(i) /\ ~InDown(i) /\ ~InSleep(i)
      /\ \A q \in Procs : q # i => pc[q] \in Parked
  BY Caller, Sitting DEF InDown, InSleep, IInv
<1>2. Owners = {i} /\ ~StandsBack(i) /\ (nextCount > 0 <=> queue[next] # <<>>)
      /\ (kind = "sema" => queue[mutex] = <<>> /\ nextCount = 0)
  BY NextQueue DEF Crit
<1>3. s \in Sems /\ UNCHANGED <<kind, phase, iter>> /\ kind \in {"sema", "condvar"}
      /\ ~InWait(i) /\ count[i] = 0
      /\ nextCount \in Nat
  <2>1. ~InWait(i)
    BY <1>1 DEF InWait
  <2> QED BY <2>1, SemNames DEF philData, IInv, TypeOK2, TypeOK, CountOK
<1>4. /\ pc' \in [Procs -> Labels] /\ pc'[i] = l /\ ret' \in [Procs -> Labels]
      /\ cv' \in [Procs -> Cvs]
      /\ count' \in [Cvs -> Nat] 
      /\ \A c \in Cvs : count'[c] = IF c = i /\ l = "wait_down" THEN 1 ELSE count[c]
  <2>1. "take_out" \in Labels /\ pc \in [Procs -> Labels] /\ ret \in [Procs -> Labels]
        /\ cv \in [Procs -> Cvs]
        /\ count \in [Cvs -> Nat]
    BY DEF IInv, TypeOK2, TypeOK, SemTypeOK, Labels
  <2>2. CASE l = "wait_down"
    BY <1>1, <1>3, <2>1, <2>2
  <2>3. CASE l # "wait_down"
    BY <1>1, <2>1, <2>3
  <2> QED BY <2>2, <2>3
<1>5. Placed({i})
  BY <1>3 DEF Placed, IInv, TypeOK2, TypeOK, SemTypeOK
<1>6. pc[i] = "take_out" => phase[i] \in {"HUNGRY", "EATING"}
      /\ (kind = "condvar" => phase[i] = "EATING")
  BY <1>1 DEF PhaseOK, Where
<1>7. /\ pc[i] = "put_out" => phase[i] = "THINKING"
      /\ pc[i] = "take_check" => phase[i] \in {"HUNGRY", "EATING"}
      /\ then[i] = "idle"
  BY <1>1 DEF PhaseOK, Where, WayOK
<1>8. ~InDown(i)' /\ ~InSleep(i)' /\ ~Refused(i)' /\ Where(i)' = l
  BY <1>4 DEF InDown, InSleep, Refused, Where
<1>9. WayOK(i)' /\ PhaseOK(i)'
  <2>1. WayOK(i)'
    <3>1. l = "wait_down" => cv'[i] = i /\ ret'[i] = "take_out"
      BY <1>1 DEF IInv, TypeOK2
    <3> QED BY <1>3, <1>4, <1>7, <1>8, <3>1 DEF WayOK
  <2>2. PhaseOK(i)'
    BY <1>3, <1>6, <1>7, <1>8 DEF PhaseOK
  <2> QED BY <2>1, <2>2
<1>10. TestOK'
  <2>1. ~StandsBack(i)
    BY <1>2
  <2>2. UNCHANGED phase
    BY <1>3
  <2> QED BY <1>5, <2>1, <2>2, TestPlaced
<1>11. \A k \in Seats : k # i => (InDown(k)' <=> InDown(k))
       /\ (StandsBack(k)' <=> StandsBack(k)) /\ (InWait(k)' <=> InWait(k))
  BY <1>3, <1>5, Sitting DEF Placed, InDown, StandsBack, InWait, next, CvSem
<1>12. \A k \in Seats : StandsBack(k)' <=> StandsBack(k)
  <2>1. ~StandsBack(i)'
    BY <1>4, <1>8 DEF StandsBack
  <2> QED BY <1>2, <1>11, <2>1
<1>13. \A k \in Seats : count'[k] = IF InWait(k)' THEN 1 ELSE 0
  <2>1. InWait(i)' <=> l = "wait_down"
    BY <1>3, <1>4, <1>8 DEF InWait
  <2> QED BY <1>3, <1>4, <1>11, <2>1, Sitting DEF IInv, CountOK
<1>14. nextCount' = (IF \E k \in Seats : StandsBack(k)' THEN 1 ELSE 0)
       /\ \A k, j \in Seats : StandsBack(k)' /\ StandsBack(j)' => k = j
  BY <1>12 DEF IInv, CountOK
<1>15. HasUnit(i)' <=> HasUnit(i)
  BY <1>3, <1>4 DEF HasUnit
<1>16. CASE queue[s] # <<>>
  <2>0. PICK h \in Seats : h = Head(queue[s])
    BY <1>3, <1>16, UpWakes
  <2>1. /\ SchedInv' /\ UNCHANGED <<current, value>> /\ Waits(h, s)
        /\ queue' = [queue EXCEPT ![s] = Tail(@)] /\ flags' = [flags EXCEPT ![h] = "WT_KSEM"]
        /\ \A q \in Procs :
             /\ state'[q] = (IF q = h THEN "RUNNABLE" ELSE state[q])
             /\ waitState'[q] = (IF q = h THEN "NONE" ELSE waitState[q])
    BY <1>3, <1>16, <2>0, UpWakes
  <2>2. h \in Procs /\ h # i /\ InDown(h) /\ flags[h] = "WT_INTERRUPTED" /\ on[h] = s
        /\ kind = "condvar"
    <3>1. h \in Procs /\ InDown(h) /\ flags[h] = "WT_INTERRUPTED" /\ on[h] = s
      BY <2>1, Sitting DEF Waits, InDown
    <3>2. kind = "condvar"
      BY <1>2, <1>3, <1>16
    <3> QED BY <1>1, <3>1, <3>2
  <2>3. \A q \in Procs : flags'[q] = IF q = h THEN "WT_KSEM" ELSE flags[q]
    BY <2>1 DEF IInv, TypeOK2, TypeOK, SemTypeOK
  <2>4. QueueOK' /\ queue' \in [Sems -> Seq(Procs)]
    <3>1. \A q \in Procs, t \in Sems : Waits(q, t)' <=> Waits(q, t) /\ q # h
      BY <1>1, <1>4, <1>5, <1>8, <2>2, <2>3 DEF Waits, InDown, Placed
    <3> QED BY <1>3, <1>16, <2>0, <2>1, <3>1, UpQueues
  <2>5. TypeOK2'
    <3>1. flags' \in [Procs -> {"WT_INTERRUPTED", "WT_KSEM"}]
      BY <2>1 DEF IInv, TypeOK2, TypeOK, SemTypeOK
    <3> QED BY <1>3, <1>4, <2>1, <2>4, <3>1 DEF IInv, TypeOK2, TypeOK, SemTypeOK, SchedInv
  <2>6. (\A p \in Procs : PlaceOK(p)') /\ (\A j \in Seats : WayOK(j)' /\ PhaseOK(j)')
    <3>1. Apart({i, h})
      BY <1>5, <2>1, <2>3 DEF Apart, Placed
    <3>2. LocalOK(h)'
      <4>1. on[h] # CvSem(h)
        BY <2>1, <2>2, SemNames, Sitting
      <4>2. pc'[h] = pc[h] /\ on'[h] = on[h] /\ then'[h] = then[h] /\ ret'[h] = ret[h]
            /\ cv'[h] = cv[h]
        BY <1>5, <2>2 DEF Placed
      <4> QED BY <1>3, <2>1, <2>2, <2>3, <4>1, <4>2, WokenLocal
    <3>3. LocalOK(i)'
      <4>1. PlaceOK(i)'
        BY <1>1, <1>4, <1>8, <2>1, <2>2 DEF PlaceOK
      <4> QED BY <1>9, <4>1 DEF LocalOK
    <3> QED BY <2>1, <3>1, <3>2, <3>3, LocalKeeps
  <2>7. Owners' = {h}
    <3>1. h \in Owners'
      BY <1>3, <1>11, <2>1, <2>2, <2>3 DEF Owners
    <3>2. ASSUME NEW q \in Owners', q # h
          PROVE  FALSE
      <4>1. q \in Seats /\ q \in Procs
        BY Sitting DEF Owners
      <4>2. q # i
        BY <1>4, <1>8 DEF Owners, Crit
      <4>3. q \in Owners
        BY <1>3, <1>5, <1>11, <2>3, <3>2, <4>1, <4>2 DEF Owners, Placed
      <4> QED BY <1>2, <4>2, <4>3
    <3> QED BY <3>1, <3>2
  <2>8. OwnerOK'
    BY <1>2, <2>1, <2>7 DEF IInv, OwnerOK, mutex, next
  <2>9. UnitsOK'
    BY <1>5, <1>15, <2>1, UnitsPlaced
  <2>10. CountOK'
    <3>1. ASSUME NEW k \in Seats, StandsBack(k)', k # h
          PROVE  FALSE
      <4>1. StandsBack(k) /\ nextCount > 0
        BY <1>12, <3>1 DEF IInv, CountOK
      <4>2. s = next
        BY <2>2, <4>1
      <4>3. StandsBack(h)
        BY <2>2, <4>2 DEF StandsBack
      <4> QED BY <2>1, <3>1, <4>1, <4>3 DEF IInv, CountOK
    <3> QED BY <1>13, <1>14, <2>7, <3>1 DEF CountOK
  <2> QED BY <1>10, <2>1, <2>4, <2>5, <2>6, <2>8, <2>9, <2>10 DEF IInv
<1>17. CASE queue[s] = <<>>
  <2>1. /\ s = mutex /\ nextCount = 0
        /\ value' = [value EXCEPT ![mutex] = @ + 1] /\ UNCHANGED <<queue, flags, schedVars>>
    <3>1. s = mutex /\ nextCount = 0
      BY <1>2, <1>3, <1>17
    <3> QED BY <1>17, <3>1 DEF Up
  <2>2. value[mutex] = 0 /\ value[next] = 0
    BY <1>2 DEF IInv, OwnerOK
  <2>3. value' \in [Sems -> Nat] /\ value'[mutex] = 1
        /\ \A t \in Sems : t # mutex => value'[t] = value[t]
    BY <1>3, <2>1, <2>2 DEF IInv, TypeOK2, TypeOK, SemTypeOK
  <2>4. TypeOK2'
    BY <1>3, <1>4, <2>1, <2>3 DEF IInv, TypeOK2, TypeOK, SemTypeOK, SchedTypeOK, schedVars
  <2>5. Apart({i})
    BY <1>5, <2>1 DEF Apart, schedVars
  <2>6. LocalOK(i)'
    <3>1. PlaceOK(i)'
      BY <1>1, <1>4, <2>1, PlaceMove DEF Calls, schedVars
    <3> QED BY <1>9, <3>1 DEF LocalOK
  <2>7. Owners' = {}
    <3>1. i \notin Owners'
      BY <1>4, <1>8 DEF Owners, Crit
    <3>2. \A k \in Seats : k # i => k \notin Owners'
      BY <1>2, <1>5, <1>11, <2>1, Sitting DEF Placed, Owners
    <3> QED BY <3>1, <3>2 DEF Owners
  <2>8. OwnerOK'
    <3>1. queue[next] = <<>>
      BY <1>2, <2>1
    <3>2. \A k \in Seats : pc'[k] # "sig_down"
      BY <1>1, <1>4, <1>5, Sitting DEF Placed, Parked
    <3> QED BY <1>3, <1>17, <2>1, <2>2, <2>3, <2>7, <3>1, <3>2, SemNames DEF OwnerOK, mutex, next
  <2>9. UnitsOK'
    <3>1. \A k \in Seats : value'[CvSem(k)] = value[CvSem(k)]
      BY <2>3, SemNames, Sitting
    <3> QED BY <1>5, <1>15, <3>1, UnitsPlaced
  <2>10. CountOK'
    BY <1>13, <1>14, <2>7 DEF CountOK
  <2> QED BY <1>8, <1>10, <2>1, <2>4, <2>5, <2>6, <2>8, <2>9, <2>10, StepKeeps DEF schedVars
<1> QED BY <1>16, <1>17

(* phi_put_forks: a neighbour that can eat now is given its forks and      *)
(* woken.  It waits for them, since nobody else is in the mutex; with the  *)
(* monitor it has it from here on, and the one that gave it stands back.   *)
LEMMA ServeKeeps ==
  ASSUME IInv, NEW i \in Seats, current = i, NEW j \in Seats, MayEat(j), NEW l \in Labels,
         Test(i, j, l), UNCHANGED <<kind, iter>>,
         \/ pc[i] = "put_left" /\ j = LEFT(i) /\ l = "put_right"
         \/ pc[i] = "put_right" /\ j = RIGHT(i) /\ l = "put_out"
  PROVE  IInv'
<1>1. /\ i \in Procs /\ i \in Cvs /\ i # Idle /\ state[i] = "RUNNABLE" /\ waitState[i] # "WT_TIMER"
      /\ pc[i] \in {"put_left", "put_right"} /\ l \in {"put_right", "put_out"}
      /\ WayOK(i) /\ PhaseOK(i) /\ ~InDown(i) /\ ~InSleep(i) /\ phase[i] = "THINKING"
      /\ then[i] = "idle"
  <2>1. /\ i \in Procs /\ i \in Cvs /\ i # Idle /\ state[i] = "RUNNABLE"
        /\ waitState[i] # "WT_TIMER"
        /\ WayOK(i) /\ PhaseOK(i) /\ ~InDown(i) /\ ~InSleep(i)
    BY Caller, Sitting DEF InDown, InSleep, IInv
  <2>2. phase[i] = "THINKING" /\ then[i] = "idle"
    BY <2>1 DEF PhaseOK, WayOK, Where
  <2> QED BY <2>1, <2>2
<1>2. j \in Procs /\ j \in Cvs /\ j # Idle /\ j # i /\ Refused(j)
      /\ \A q \in Procs : q # i => pc[q] \in Parked
  <2>1. j \in Procs /\ j \in Cvs /\ j # Idle /\ j # i /\ \A q \in Procs : q # i => pc[q] \in Parked
    BY <1>1, Caller, Sitting DEF MayEat
  <2>2. pc[j] \in Parked /\ PlaceOK(j) /\ WayOK(j) /\ PhaseOK(j) /\ phase[j] = "HUNGRY"
    BY <2>1 DEF IInv, MayEat
  <2>3. Refused(j)
    <3>1. CASE InDown(j)
      <4>1. then[j] \in {"eat", "take_in", "put_in", "sig_end", "wait_end"} /\ Where(j) = then[j]
        BY <2>2, <3>1 DEF WayOK, Where
      <4> QED BY <2>2, <4>1 DEF PhaseOK
    <3>2. CASE InSleep(j)
      <4>1. then[j] \in {"take", "put"} /\ Where(j) = then[j] /\ ~Refused(j)
        BY <2>2, <3>2 DEF WayOK, Where, Refused, InDown, InSleep
      <4> QED BY <2>2, <4>1 DEF PhaseOK
    <3>3. CASE ~InDown(j) /\ ~InSleep(j)
      <4>1. pc[j] \in {"think", "dead"} /\ Where(j) = pc[j]
        BY <2>1, <2>2, <3>3 DEF Parked, InDown, InSleep, Where, PlaceOK
      <4> QED BY <2>2, <4>1 DEF PhaseOK
    <3> QED BY <3>1, <3>2, <3>3
  <2> QED BY <2>1, <2>3
<1>3. InDown(j) /\ on[j] = CvSem(j) /\ flags[j] = "WT_INTERRUPTED" /\ pc[j] = "down_wake"
  BY <1>2 DEF Refused, InDown, Parked
<1>4. /\ CvSem(j) \in Sems /\ queue[CvSem(j)] # <<>> /\ Head(queue[CvSem(j)]) = j
      /\ kind = "condvar" => InWait(j) /\ count[j] = 1
      /\ kind \in {"sema", "condvar"}
  BY <1>2, <1>3, OwnQueue, SemNames DEF InWait, IInv, CountOK, TypeOK2
<1> DEFINE m == IF kind = "sema" THEN l ELSE "sig_down"
<1>5. /\ Up(CvSem(j)) /\ phase' = [phase EXCEPT ![j] = "EATING"] /\ pc' = [pc EXCEPT ![i] = m]
      /\ UNCHANGED <<on, then, count, cv, kind, iter>>
      /\ kind = "sema" => UNCHANGED <<ret, nextCount>>
      /\ kind = "condvar" => ret' = [ret EXCEPT ![i] = l] /\ nextCount' = nextCount + 1
  <2>1. CASE kind = "sema"
    BY <2>1 DEF Test, Goto, monData
  <2>2. CASE kind = "condvar"
    BY <1>4, <2>2 DEF Test, CondSignal, Goto
  <2> QED BY <1>4, <2>1, <2>2
<1> HIDE DEF m
<1>6. m = (IF kind = "sema" THEN l ELSE "sig_down") /\ m \in Labels
  BY DEF m, Labels
<1>7. /\ SchedInv' /\ UNCHANGED <<current, value>> /\ Waits(j, CvSem(j))
      /\ queue' = [queue EXCEPT ![CvSem(j)] = Tail(@)] /\ flags' = [flags EXCEPT ![j] = "WT_KSEM"]
      /\ \A q \in Procs :
           /\ state'[q] = (IF q = j THEN "RUNNABLE" ELSE state[q])
           /\ waitState'[q] = (IF q = j THEN "NONE" ELSE waitState[q])
  BY <1>4, <1>5, UpWakes
<1>8. Owners = {i} /\ (\A k \in Seats : ~StandsBack(k)) /\ nextCount = 0
  <2>1. Owners = {i} /\ ~StandsBack(i)
    BY <1>1, NextQueue DEF Crit
  <2>2. \A k \in Seats : k # i => ~StandsBack(k)
    BY <1>1, <2>1 DEF IInv, CountOK
  <2> QED BY <2>1, <2>2 DEF IInv, CountOK
<1>9. /\ pc' \in [Procs -> Labels] /\ ret' \in [Procs -> Labels]
      /\ phase' \in [Seats -> {"THINKING", "HUNGRY", "EATING"}]
      /\ flags' \in [Procs -> {"WT_INTERRUPTED", "WT_KSEM"}] /\ nextCount' \in Nat
      /\ pc'[i] = m /\ \A q \in Procs : q # i => pc'[q] = pc[q] /\ ret'[q] = ret[q]
      /\ ret'[i] = IF kind = "sema" THEN ret[i] ELSE l
      /\ phase'[j] = "EATING" /\ \A q \in Seats : q # j => phase'[q] = phase[q]
      /\ \A q \in Procs : flags'[q] = IF q = j THEN "WT_KSEM" ELSE flags[q]
  <2>1. pc \in [Procs -> Labels] /\ ret \in [Procs -> Labels]
        /\ phase \in [Seats -> {"THINKING", "HUNGRY", "EATING"}]
        /\ flags \in [Procs -> {"WT_INTERRUPTED", "WT_KSEM"}]
    BY DEF IInv, TypeOK2, TypeOK, SemTypeOK
  <2>2. CASE kind = "sema"
    BY <1>1, <1>2, <1>5, <1>6, <1>7, <1>8, <2>1, <2>2
  <2>3. CASE kind = "condvar"
    BY <1>1, <1>2, <1>5, <1>6, <1>7, <1>8, <2>1, <2>3
  <2> QED BY <1>4, <2>2, <2>3
<1>10. Apart({i, j})
  BY <1>5, <1>7, <1>9 DEF Apart, Placed
<1>11. ~InDown(i)' /\ ~InSleep(i)' /\ ~Refused(i)' /\ Where(i)' = m
  BY <1>1, <1>6, <1>9 DEF InDown, InSleep, Refused, Where
<1>12. QueueOK' /\ queue' \in [Sems -> Seq(Procs)]
  <2>1. \A q \in Procs, t \in Sems : Waits(q, t)' <=> Waits(q, t) /\ q # j
    BY <1>1, <1>5, <1>9, <1>11 DEF Waits, InDown
  <2> QED BY <1>4, <1>7, <2>1, UpQueues
<1>13. TypeOK2'
  BY <1>5, <1>7, <1>9, <1>12 DEF IInv, TypeOK2, TypeOK, SemTypeOK, SchedInv
<1>14. (\A p \in Procs : PlaceOK(p)') /\ (\A k \in Seats : WayOK(k)' /\ PhaseOK(k)')
  <2>1. LocalOK(j)'
    BY <1>2, <1>3, <1>4, <1>5, <1>7, <1>9, WokenLocal
  <2>2. LocalOK(i)'
    <3>1. PlaceOK(i)'
      BY <1>1, <1>2, <1>6, <1>7, <1>9, <1>11 DEF PlaceOK
    <3>2. WayOK(i)'
      BY <1>1, <1>4, <1>5, <1>6, <1>9, <1>11 DEF WayOK
    <3>3. PhaseOK(i)'
      BY <1>1, <1>2, <1>6, <1>9, <1>11 DEF PhaseOK
    <3> QED BY <3>1, <3>2, <3>3 DEF LocalOK
  <2> QED BY <1>7, <1>10, <2>1, <2>2, LocalKeeps
<1>15. \A k \in Seats : k # i => (InDown(k)' <=> InDown(k)) /\ ~StandsBack(k)'
       /\ (InWait(k)' <=> InWait(k))
  BY <1>5, <1>8, <1>9, Sitting DEF InDown, StandsBack, InWait, next, CvSem
<1>16. (StandsBack(i)' <=> kind = "condvar") /\ ~InWait(i) /\ ~InWait(i)'
  BY <1>1, <1>4, <1>6, <1>9, <1>11 DEF StandsBack, InWait
<1>17. Owners' = {IF kind = "sema" THEN i ELSE j}
  <2>1. i \in Owners' <=> kind = "sema"
    BY <1>1, <1>4, <1>6, <1>9, <1>11 DEF Owners, Crit
  <2>2. j \in Owners' <=> kind = "condvar"
    BY <1>2, <1>3, <1>4, <1>5, <1>9, <1>15 DEF Owners, Crit
  <2>3. ASSUME NEW k \in Seats, k # i, k # j
        PROVE  k \notin Owners'
    <3>1. k \notin Owners
      BY <1>8, <2>3
    <3> QED BY <1>5, <1>9, <1>15, <2>3, <3>1, Sitting DEF Owners
  <2>4. \A k \in Owners' : k \in Seats
    BY DEF Owners
  <2> QED BY <1>2, <1>4, <2>1, <2>2, <2>3, <2>4
<1>18. OwnerOK'
  BY <1>7, <1>8, <1>17 DEF IInv, OwnerOK, mutex, next
<1>19. UnitsOK'
  <2>1. ASSUME NEW k \in Seats
        PROVE  HasUnit(k)' <=> HasUnit(k)
    <3>1. CASE k \in {i, j}
      BY <1>1, <1>2, <1>3, <1>6, <1>9, <3>1 DEF HasUnit
    <3>2. CASE k \notin {i, j}
      BY <1>5, <1>9, <3>2, Sitting DEF HasUnit
    <3> QED BY <3>1, <3>2
  <2> QED BY <1>7, <2>1 DEF IInv, UnitsOK, CvSem
<1>20. CountOK'
  <2>1. \A k \in Seats : StandsBack(k)' <=> k = i /\ kind = "condvar"
    BY <1>15, <1>16
  <2>2. nextCount' = IF \E k \in Seats : StandsBack(k)' THEN 1 ELSE 0
    BY <1>4, <1>5, <1>8, <2>1
  <2>3. \A k \in Seats : count'[k] = IF InWait(k)' THEN 1 ELSE 0
    BY <1>5, <1>15, <1>16 DEF IInv, CountOK
  <2>4. kind = "condvar" => \A o \in Owners' : (InDown(o) /\ on[o] = CvSem(o))'
    BY <1>3, <1>4, <1>5, <1>9, <1>17 DEF InDown, CvSem
  <2> QED BY <2>1, <2>2, <2>3, <2>4 DEF CountOK
<1>21. TestOK'
  <2>1. ASSUME NEW x \in Seats, MayEat(x)'
        PROVE  Pending(x)'
    <3>1. x # j /\ LEFT(x) # j /\ RIGHT(x) # j
      BY <1>9, <2>1 DEF MayEat, LEFT, RIGHT
    <3>2. MayEat(x)
      BY <1>9, <2>1, <3>1, Neighbours DEF MayEat, LEFT, RIGHT
    <3>3. Pending(x) /\ x # i
      BY <1>1, <3>2 DEF IInv, TestOK, MayEat
    <3>4. pc[x] # "take_test"
      BY <1>2, <3>3, Sitting DEF Parked
    <3>5. PICK k \in Seats : \/ LEFT(k) = x /\ pc[k] = "put_left"
                             \/ RIGHT(k) = x /\ pc[k] \in {"put_left", "put_right"}
      BY <1>8, <3>3, <3>4 DEF Pending
    <3>6. k = i
      BY <1>2, <3>5, Sitting DEF Parked
    <3>7. RIGHT(i) = x /\ pc[i] = "put_left" /\ l = "put_right"
      BY <3>1, <3>5, <3>6
    <3>8. pc'[i] = "put_right" \/ (StandsBack(i)' /\ ret'[i] = "put_right")
      BY <1>4, <1>6, <1>9, <1>16, <3>7
    <3>9. RIGHT(i)' = x
      BY <3>7 DEF RIGHT
    <3> QED BY <3>8, <3>9 DEF Pending
  <2> QED BY <2>1 DEF TestOK
<1> QED BY <1>7, <1>12, <1>13, <1>14, <1>18, <1>19, <1>20, <1>21 DEF IInv

-----------------------------------------------------------------------------
(* The handlers that do one of several of these things.                    *)
LEMMA ProgramKeeps ==
  ASSUME IInv, NEW i \in Seats,
         \/ Think(i) \/ Eat(i) \/ TakeTest(i) \/ TakeCheck(i) \/ TakeOut(i)
         \/ PutLeft(i) \/ PutRight(i) \/ PutOut(i) \/ SleepEnd(i)
  PROVE  IInv'
<1>1. kind \in {"sema", "condvar"} /\ i \in Procs /\ LEFT(i) \in Seats /\ RIGHT(i) \in Seats
  BY Neighbours, Sitting DEF IInv, TypeOK2
<1>2. CASE Think(i)
  <2>1. current = i /\ pc[i] = "think" /\ UNCHANGED <<kind, phase>>
    BY <1>2 DEF Think, At
  <2>2. CASE iter[i] > 0
    <3>1. Sleep(i, "take") /\ iter' = [iter EXCEPT ![i] = @ - 1]
      BY <1>2, <2>2 DEF Think
    <3>2. iter' \in [Seats -> 0 .. TIMES]
      BY <2>2, <3>1, PhilosophersAssumption DEF IInv, TypeOK2, TypeOK
    <3> QED BY <2>1, <3>1, <3>2, TimerKeeps DEF Labels
  <2>3. CASE ~(iter[i] > 0)
    <3>1. pc' = [pc EXCEPT ![i] = "quit"]
          /\ UNCHANGED <<schedVars, semData, then, monData, cv, ret, philData>>
      BY <1>2, <2>3 DEF Think, Goto, philData
    <3> QED BY <2>1, <3>1, QuietKeeps DEF Labels
  <2> QED BY <2>2, <2>3
<1>3. CASE Eat(i)
  <2>1. iter' \in [Seats -> 0 .. TIMES]
    BY <1>3 DEF Eat, philData, IInv, TypeOK2, TypeOK
  <2> QED BY <1>3, <2>1, TimerKeeps DEF Eat, At, philData, Labels
<1>4. CASE TakeTest(i)
  <2>1. CASE MayEat(i)
    BY <1>4, <2>1, TakeForksKeeps
  <2>2. CASE ~MayEat(i)
    BY <1>1, <1>4, <2>2, QuietKeeps DEF TakeTest, At, Test, Goto, Labels, philData
  <2> QED BY <2>1, <2>2
<1>5. CASE TakeCheck(i)
  <2>1. current = i /\ pc[i] = "take_check" /\ UNCHANGED philData /\ kind = "condvar"
    <3>1. pc[i] = "take_check" => kind = "condvar"
      BY DEF IInv, WayOK
    <3> QED BY <1>5, <3>1 DEF TakeCheck, At
  <2>2. CASE phase[i] = "EATING"
    BY <1>5, <2>1, <2>2, QuietKeeps DEF TakeCheck, Goto, Labels
  <2>3. CASE phase[i] # "EATING"
    <3> DEFINE s == IF nextCount > 0 THEN next ELSE mutex
    <3>1. /\ count' = [count EXCEPT ![i] = @ + 1] /\ Up(s) /\ pc' = [pc EXCEPT ![i] = "wait_down"]
          /\ cv' = [cv EXCEPT ![i] = i] /\ ret' = [ret EXCEPT ![i] = "take_out"]
          /\ UNCHANGED <<on, then, nextCount, philData>>
      BY <1>5, <2>3 DEF TakeCheck, CondWait, HandOver, Goto
    <3>2. CASE nextCount > 0
      BY <2>1, <2>3, <3>1, <3>2, GiveKeeps DEF Labels
    <3>3. CASE ~(nextCount > 0)
      BY <2>1, <2>3, <3>1, <3>3, GiveKeeps DEF Labels
    <3> QED BY <3>2, <3>3
  <2> QED BY <2>2, <2>3
<1>6. ASSUME NEW l \in Labels, current = i, Exit(i, l), UNCHANGED philData,
             \/ pc[i] = "take_out" /\ l = (IF kind = "sema" THEN "take_s" ELSE "eat")
             \/ pc[i] = "put_out" /\ l = "think"
      PROVE  IInv'
  <2>1. /\ UNCHANGED <<on, then, monData, cv, ret>> /\ pc' = [pc EXCEPT ![i] = l] /\ l # "wait_down"
        /\ Up(IF kind = "sema" THEN mutex ELSE IF nextCount > 0 THEN next ELSE mutex)
    BY <1>6 DEF Exit, LeaveMonitor, HandOver, Goto
  <2>2. CASE kind = "condvar" /\ nextCount > 0
    BY <1>6, <2>1, <2>2, GiveKeeps DEF monData
  <2>3. CASE ~(kind = "condvar" /\ nextCount > 0)
    BY <1>1, <1>6, <2>1, <2>3, GiveKeeps DEF monData
  <2> QED BY <2>2, <2>3
<1>7. CASE TakeOut(i)
  <2> DEFINE l == IF kind = "sema" THEN "take_s" ELSE "eat"
  <2>1. PICK m \in Labels : m = l
    BY DEF Labels
  <2>2. current = i /\ pc[i] = "take_out" /\ Exit(i, m) /\ UNCHANGED philData
    BY <1>7, <2>1 DEF TakeOut, At
  <2> QED BY <1>6, <2>1, <2>2
<1>8. CASE PutOut(i)
  <2>1. "think" \in Labels
    BY DEF Labels
  <2> QED BY <1>6, <1>8, <2>1 DEF PutOut, At
<1>9. CASE PutLeft(i)
  <2>1. current = i /\ pc[i] = "put_left" /\ Test(i, LEFT(i), "put_right")
        /\ UNCHANGED <<kind, iter>>
        /\ "put_right" \in Labels
    BY <1>9 DEF PutLeft, At, Labels
  <2>2. CASE MayEat(LEFT(i))
    BY <1>1, <2>1, <2>2, ServeKeeps
  <2>3. CASE ~MayEat(LEFT(i))
    BY <2>1, <2>3, QuietKeeps DEF Test, Goto, philData
  <2> QED BY <2>2, <2>3
<1>10. CASE PutRight(i)
  <2>1. current = i /\ pc[i] = "put_right" /\ Test(i, RIGHT(i), "put_out")
        /\ UNCHANGED <<kind, iter>>
        /\ "put_out" \in Labels
    BY <1>10 DEF PutRight, At, Labels
  <2>2. CASE MayEat(RIGHT(i))
    BY <1>1, <2>1, <2>2, ServeKeeps
  <2>3. CASE ~MayEat(RIGHT(i))
    BY <2>1, <2>3, QuietKeeps DEF Test, Goto, philData
  <2> QED BY <2>2, <2>3
<1>11. CASE SleepEnd(i)
  <2>1. then[i] \in Labels
    BY <1>1 DEF IInv, TypeOK2, TypeOK, SemTypeOK
  <2> QED BY <1>11, <2>1, QuietKeeps DEF SleepEnd, At, Goto
<1> QED BY <1>2, <1>3, <1>4, <1>5, <1>7, <1>8, <1>9, <1>10, <1>11

LEMMA SwitchesKeep ==
  ASSUME IInv,
         \/ IdleLoop
         \/ \E i \in Seats : \/ SleepSchedule(i) \/ QuitSchedule(i)
                             \/ DownSchedule(i) /\ UNCHANGED <<monData, cv, ret, philData>>
  PROVE  IInv'
<1>1. "idle" \in Labels /\ "sleep_wake" \in Labels /\ "dead" \in Labels /\ "down_wake" \in Labels
  BY DEF Labels
<1>2. CASE IdleLoop
  BY <1>1, <1>2, SwitchKeeps, Sitting DEF IdleLoop, At
<1>3. ASSUME NEW i \in Seats, SleepSchedule(i) PROVE IInv'
  BY <1>1, <1>3, SwitchKeeps, Sitting DEF SleepSchedule, At
<1>4. ASSUME NEW i \in Seats, QuitSchedule(i) PROVE IInv'
  BY <1>1, <1>4, SwitchKeeps, Sitting DEF QuitSchedule, At
<1>5. ASSUME NEW i \in Seats, DownSchedule(i), UNCHANGED <<monData, cv, ret, philData>> PROVE IInv'
  BY <1>1, <1>5, SwitchKeeps, Sitting DEF DownSchedule, At
<1> QED BY <1>2, <1>3, <1>4, <1>5

LEMMA InitIInv == Init => IInv
<1> SUFFICES ASSUME Init PROVE IInv
  OBVIOUS
<1>1. /\ current \in Seats /\ state = [p \in Procs |-> "RUNNABLE"]
      /\ waitState = [p \in Procs |-> "NONE"]
      /\ needResched = [p \in Procs |-> FALSE]
      /\ slice = [p \in Procs |-> IF p = Idle THEN 0 ELSE MaxTimeSlice]
      /\ rq = [p \in Procs |-> IF p \in Seats \ {current} THEN 1 ELSE 0]
      /\ pc = [p \in Procs |-> IF p = Idle THEN "idle" ELSE "think"]
      /\ value = [s \in Sems |-> IF s = mutex THEN 1 ELSE 0]
      /\ queue = [s \in Sems |-> <<>>] /\ flags = [p \in Procs |-> "WT_INTERRUPTED"]
      /\ on = [p \in Procs |-> NoSem] /\ then = [p \in Procs |-> "idle"]
      /\ nextCount = 0 /\ count = [c \in Cvs |-> 0]
      /\ cv = [p \in Procs |-> NoCv] /\ ret = [p \in Procs |-> "idle"]
      /\ kind \in {"sema", "condvar"} /\ phase = [i \in Seats |-> "THINKING"]
      /\ iter = [i \in Seats |-> TIMES]
  BY DEF Init, MonitorInit, SemInit
<1>2. MaxTimeSlice \in Nat /\ TIMES \in Nat /\ Seats = Cvs
  BY SchedAssumption, PhilosophersAssumption DEF Seats
<1>3. TypeOK2
  <2>1. SchedTypeOK
    BY <1>1, <1>2, Sitting DEF SchedTypeOK, States, WaitStates
  <2>2. SemTypeOK(Labels)
    BY <1>1, <2>1, SemNames DEF SemTypeOK, Labels
  <2>3. nextCount \in Nat /\ count \in [Cvs -> Nat]
        /\ phase \in [Seats -> {"THINKING", "HUNGRY", "EATING"}]
        /\ iter \in [Seats -> 0 .. TIMES]
    BY <1>1, <1>2
  <2>4. cv \in [Procs -> Cvs] /\ ret \in [Procs -> Labels]
    BY <1>1, SemNames DEF Labels
  <2> QED BY <1>1, <2>2, <2>3, <2>4 DEF TypeOK2, TypeOK
<1>4. SchedInv
  BY <1>1, <1>2, <1>3, Sitting DEF SchedInv, TypeOK2, TypeOK, SemTypeOK, RunQueueExact
<1>5. \A p \in Procs : PlaceOK(p)
  BY <1>1, Sitting DEF PlaceOK, InDown, InSleep, Parked
<1>6. \A i \in Seats : WayOK(i) /\ PhaseOK(i)
  BY <1>1, Sitting DEF WayOK, PhaseOK, Where, InDown, InSleep
<1>7. \A i \in Seats : ~InDown(i) /\ pc[i] = "think"
  BY <1>1, Sitting DEF InDown
<1>8. \A p \in Procs : pc[p] \in {"idle", "think"}
  BY <1>1
<1>9. QueueOK
  BY <1>1, <1>8 DEF QueueOK, Waits
<1>10. Owners = {}
  BY <1>7 DEF Owners, Crit
<1>11. OwnerOK
  BY <1>1, <1>7, <1>10, SemNames DEF OwnerOK
<1>12. UnitsOK
  BY <1>1, <1>7, SemNames, Sitting DEF UnitsOK, HasUnit
<1>13. CountOK
  BY <1>1, <1>7, <1>10, Sitting DEF CountOK, StandsBack, InWait
<1>14. TestOK
  BY <1>1 DEF TestOK, MayEat
<1> QED BY <1>3, <1>4, <1>5, <1>6, <1>9, <1>11, <1>12, <1>13, <1>14 DEF IInv

(* In every reachable state, with any number of philosophers and meals: a  *)
(* philosopher's place says its phase, the mutex or the monitor has one    *)
(* owner or is free, at most one signaller stands back, the counts and     *)
(* units are exact, and who could eat is about to be tested.               *)
THEOREM Invariance == Spec => []IInv
<1>1. IInv /\ [Next]_vars => IInv'
  <2> SUFFICES ASSUME IInv, [Next]_vars PROVE IInv'
    OBVIOUS
  <2>1. CASE UNCHANGED vars
    BY <2>1, StutterKeeps
  <2>2. ASSUME NEW i \in Seats, Step(i) PROVE IInv'
    <3>1. CASE MonitorStep(i) /\ UNCHANGED philData
      <4>1. CASE DownSchedule(i) /\ UNCHANGED <<monData, cv, ret>>
        BY <3>1, <4>1, SwitchesKeep
      <4>2. CASE DownEnd(i) /\ UNCHANGED <<monData, cv, ret>>
        BY <3>1, <4>2, DownEndKeeps
      <4>3. CASE SignalDown(i) \/ SignalEnd(i) \/ WaitDown(i) \/ WaitEnd(i)
        BY <3>1, <4>3, SignalDownKeeps, SignalEndKeeps, WaitDownKeeps, WaitEndKeeps
      <4> QED BY <3>1, <4>1, <4>2, <4>3 DEF MonitorStep
    <3>2. CASE SleepSchedule(i) \/ QuitSchedule(i)
      BY <3>2, SwitchesKeep
    <3>3. CASE Enter(i) \/ Hungry(i) \/ TakeS(i) \/ PutIn(i) \/ Quit(i)
      BY <3>3, EnterKeeps, HungryKeeps, TakeSKeeps, PutInKeeps, QuitKeeps
    <3>4. CASE \/ Think(i) \/ Eat(i) \/ TakeTest(i) \/ TakeCheck(i) \/ TakeOut(i)
               \/ PutLeft(i) \/ PutRight(i) \/ PutOut(i) \/ SleepEnd(i)
      BY <3>4, ProgramKeeps
    <3> QED BY <2>2, <3>1, <3>2, <3>3, <3>4 DEF Step
  <2>3. ASSUME NEW fired \in SUBSET Seats, Tick(fired) PROVE IInv'
    BY <2>3, TickKeeps
  <2>4. CASE IdleLoop
    BY <2>4, SwitchesKeep
  <2> QED BY <2>1, <2>2, <2>3, <2>4 DEF Next
<1> QED BY <1>1, InitIInv, PTL DEF Spec

-----------------------------------------------------------------------------
(* A philosopher whose call has returned has the forks, although nothing   *)
(* is checked again after the wait.                                        *)
THEOREM ForksAreHeld == Spec => []EatsWithForks
<1>1. IInv => EatsWithForks
  <2> SUFFICES ASSUME IInv, NEW i \in Seats,
                      pc[i] \in {"eat", "put", "put_in"} \/ then[i] \in {"put", "put_in"}
               PROVE  phase[i] = "EATING"
    BY DEF EatsWithForks
  <2>1. WayOK(i) /\ PhaseOK(i)
    BY DEF IInv
  <2>2. CASE ~InDown(i) /\ ~InSleep(i)
    <3>1. Where(i) = pc[i] /\ ~Refused(i) /\ pc[i] \in {"eat", "put", "put_in"}
      BY <2>1, <2>2 DEF Where, Refused, WayOK
    <3> QED BY <2>1, <3>1 DEF PhaseOK
  <2>3. CASE InDown(i) \/ InSleep(i)
    <3>1. then[i] \in {"put", "put_in"} /\ Where(i) = then[i]
      BY <2>3 DEF Where, InDown, InSleep
    <3>2. ~Refused(i)
      BY <2>1, <2>3, <3>1, SemNames, Sitting DEF Refused, WayOK
    <3> QED BY <2>1, <3>1, <3>2 DEF PhaseOK
  <2> QED BY <2>2, <2>3
<1> QED BY <1>1, Invariance, PTL

(* When all have quit, every semaphore and every count is back where it    *)
(* started.                                                                *)
THEOREM AllGivenBack == Spec => []NothingLeftOver
<1>1. IInv => NothingLeftOver
  <2> SUFFICES ASSUME IInv, \A i \in Seats : pc[i] = "dead"
               PROVE  /\ value = [s \in Sems |-> IF s = mutex THEN 1 ELSE 0]
                      /\ nextCount = 0 /\ \A c \in Cvs : count[c] = 0
    BY DEF NothingLeftOver
  <2>1. Owners = {} /\ \A i \in Seats : ~HasUnit(i) /\ ~InWait(i) /\ ~StandsBack(i)
    BY DEF Owners, Crit, InDown, HasUnit, InWait, StandsBack
  <2>2. value[mutex] = 1 /\ value[next] = 0 /\ nextCount = 0
    BY <2>1 DEF IInv, OwnerOK, CountOK
  <2>3. \A c \in Cvs : value[CvSem(c)] = 0 /\ count[c] = 0
    BY <2>1 DEF IInv, UnitsOK, CountOK, Seats
  <2>4. value \in [Sems -> Nat]
    BY DEF IInv, TypeOK2, TypeOK, SemTypeOK
  <2>5. \A s \in Sems : value[s] = IF s = mutex THEN 1 ELSE 0
    BY <2>2, <2>3, SemNames
  <2> QED BY <2>2, <2>3, <2>4, <2>5
<1> QED BY <1>1, Invariance, PTL

(* As long as one of them has not quit, one can run or has a timer: they   *)
(* do not wait for each other in a ring, and no wake-up is lost.           *)
THEOREM NoRing == Spec => []NobodyStuck
<1>1. IInv => NobodyStuck
  <2> SUFFICES ASSUME IInv, NEW i \in Seats, state[i] # "ZOMBIE",
                      \A q \in Seats : state[q] # "RUNNABLE" /\ waitState[q] # "WT_TIMER"
               PROVE  FALSE
    BY DEF NobodyStuck
  <2>1. ASSUME NEW q \in Seats
        PROVE  \/ state[q] = "SLEEPING" /\ InDown(q) /\ flags[q] = "WT_INTERRUPTED"
               \/ state[q] = "ZOMBIE" /\ pc[q] \in {"quit_sched", "dead"}
    <3>1. PlaceOK(q) /\ state[q] # "RUNNABLE" /\ waitState[q] # "WT_TIMER"
      BY Sitting DEF IInv
    <3> QED BY <3>1 DEF PlaceOK
  <2>2. Owners = {}
    <3>1. ASSUME NEW q \in Owners PROVE FALSE
      <4>1. q \in Seats 
            /\ (pc[q] \in Crit \cup {"sig_end", "wait_end"} \/ (InDown(q) /\ flags[q] = "WT_KSEM"))
        BY DEF Owners
      <4> QED BY <2>1, <4>1 DEF Crit, InDown
    <3> QED BY <3>1
  <2>3. queue[mutex] = <<>> /\ queue[next] = <<>>
    BY <2>2 DEF IInv, OwnerOK
  <2>4. ASSUME NEW q \in Seats, state[q] # "ZOMBIE"
        PROVE  Refused(q) /\ phase[q] = "HUNGRY"
    <3>1. InDown(q) /\ flags[q] = "WT_INTERRUPTED" /\ q \in Procs /\ WayOK(q) /\ PhaseOK(q)
      BY <2>1, <2>4, Sitting DEF IInv
    <3>2. \A s \in {mutex, next} : on[q] # s
      <4> SUFFICES ASSUME NEW s \in {mutex, next}, on[q] = s PROVE FALSE
        OBVIOUS
      <4>1. Waits(q, s) /\ s \in Sems
        BY <3>1, SemNames DEF Waits, InDown
      <4>2. InQueue(q, s)
        BY <3>1, <4>1 DEF IInv, QueueOK
      <4> QED BY <2>3, <4>2 DEF InQueue
    <3>3. on[q] = CvSem(q) /\ then[q] \in {"eat", "wait_end"}
      BY <3>1, <3>2 DEF WayOK
    <3>4. Refused(q) /\ Where(q) = then[q]
      BY <3>1, <3>3 DEF Refused, Where
    <3> QED BY <3>1, <3>3, <3>4 DEF PhaseOK
  <2>5. ASSUME NEW q \in Seats
        PROVE  phase[q] # "EATING" /\ (Refused(q) \/ pc[q] \in {"quit_sched", "dead"})
    <3>1. CASE state[q] # "ZOMBIE"
      BY <2>4, <3>1
    <3>2. CASE state[q] = "ZOMBIE"
      <4>1. pc[q] \in {"quit_sched", "dead"} /\ PhaseOK(q)
        BY <2>1, <3>2 DEF IInv
      <4>2. Where(q) = pc[q]
        BY <4>1 DEF Where, InDown, InSleep
      <4> QED BY <4>1, <4>2 DEF PhaseOK
    <3> QED BY <3>1, <3>2
  <2>6. Pending(i)
    <3>1. MayEat(i)
      BY <2>4, <2>5, Neighbours DEF MayEat
    <3> QED BY <3>1 DEF IInv, TestOK
  <2>7. \A q \in Seats : pc[q] \in {"down_sched", "down_wake", "quit_sched", "dead"}
        /\ ~StandsBack(q)
    BY <2>5, SemNames, Sitting DEF Refused, InDown, StandsBack
  <2> QED BY <2>6, <2>7 DEF Pending
<1> QED BY <1>1, Invariance, PTL

-----------------------------------------------------------------------------
(* Both ways of keeping the forks implement Dining: a step is a step of    *)
(* the table, or does not change what is seen there.                       *)
LEMMA TestIsStart ==
  ASSUME NEW i, NEW j \in Seats, NEW l, Test(i, j, l)
  PROVE  DiningRoom!StartEating(j) \/ UNCHANGED phase
<1>1. CASE MayEat(j)
  BY <1>1 DEF Test, MayEat, LEFT, RIGHT, DiningRoom!StartEating, DiningRoom!Left, DiningRoom!Right
<1>2. CASE ~MayEat(j)
  BY <1>2 DEF Test
<1> QED BY <1>1, <1>2

THEOREM ForksAreKept == Spec => DiningSpec
<1>1. DiningRoom!Seats = Seats
  BY PhilosophersAssumption DEF DiningRoom!Seats, Seats
<1>2. Init => DiningRoom!Init
  BY <1>1 DEF Init, DiningRoom!Init
<1>3. IInv /\ [Next]_vars => [DiningRoom!Next]_phase
  <2> SUFFICES ASSUME IInv, [Next]_vars PROVE DiningRoom!Next \/ UNCHANGED phase
    OBVIOUS
  <2>1. CASE UNCHANGED vars
    BY <2>1 DEF vars, philData
  <2>2. ASSUME NEW i \in Seats, Step(i) PROVE DiningRoom!Next \/ UNCHANGED phase
    <3>1. WayOK(i) /\ PhaseOK(i) /\ LEFT(i) \in Seats /\ RIGHT(i) \in Seats
      BY Neighbours DEF IInv
    <3>2. CASE MonitorStep(i) /\ UNCHANGED philData
      BY <3>2 DEF philData
    <3>3. CASE SleepSchedule(i) \/ SleepEnd(i) \/ Enter(i) \/ TakeCheck(i) \/ TakeOut(i) \/ TakeS(i)
               \/ Eat(i) \/ PutOut(i) \/ Quit(i) \/ QuitSchedule(i) \/ Think(i)
      BY <3>3 DEF SleepSchedule, SleepEnd, Enter, TakeCheck, TakeOut, TakeS, Eat, PutOut, Quit, QuitSchedule,
                  Think, philData
    <3>4. CASE Hungry(i)
      <4>1. phase[i] = "THINKING"
        BY <3>1, <3>4 DEF Hungry, At, PhaseOK, Where, InDown, InSleep
      <4> QED BY <1>1, <3>4, <4>1 DEF Hungry, DiningRoom!GetHungry, DiningRoom!Next
    <3>5. CASE PutIn(i)
      <4>1. phase[i] = "EATING"
        BY <3>1, <3>5 DEF PutIn, At, PhaseOK, Where, Refused, InDown, InSleep
      <4> QED BY <1>1, <3>5, <4>1 DEF PutIn, DiningRoom!StopEating, DiningRoom!Next
    <3>6. CASE TakeTest(i) \/ PutLeft(i) \/ PutRight(i)
      <4>1. PICK j \in Seats : DiningRoom!StartEating(j) \/ UNCHANGED phase
        BY <3>1, <3>6, TestIsStart DEF TakeTest, PutLeft, PutRight
      <4> QED BY <1>1, <4>1 DEF DiningRoom!Next
    <3> QED BY <2>2, <3>2, <3>3, <3>4, <3>5, <3>6 DEF Step
  <2>3. ASSUME NEW fired \in SUBSET Seats, Tick(fired) PROVE UNCHANGED phase
    BY <2>3 DEF Tick, philData
  <2>4. CASE IdleLoop
    BY <2>4 DEF IdleLoop, philData
  <2> QED BY <2>1, <2>2, <2>3, <2>4 DEF Next
<1> QED BY <1>2, <1>3, Invariance, PTL DEF Spec, DiningSpec, DiningRoom!Spec
=============================================================================

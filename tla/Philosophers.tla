---------------------------- MODULE Philosophers ----------------------------
(***************************************************************************)
(* The two groups of kernel threads check_sync creates at boot             *)
(* (kern/sync/check_sync.c): philosophers that keep the forks with a mutex *)
(* and a semaphore each, and philosophers that keep them with a monitor    *)
(* and a condition variable each.  The groups share nothing but the        *)
(* processor, so a behaviour of this module has one of them; kind says     *)
(* which.                                                                  *)
(*                                                                         *)
(* The semaphore s[i] of the first group is CvSem(i), which in the second  *)
(* group is the semaphore of condition variable i.                         *)
(***************************************************************************)
EXTENDS Monitor

CONSTANTS
  N,      \* the number of philosophers
  TIMES   \* how often each of them eats

ASSUME PhilosophersAssumption ==
  /\ N \in Nat \ {0} /\ TIMES \in Nat
  /\ Cvs = 0 .. N - 1
  /\ Procs = Cvs \cup {Idle} /\ Idle \notin Cvs

VARIABLES
  kind,    \* "sema" or "condvar"
  phase,   \* state_sema or state_condvar
  iter     \* how often a philosopher has still to eat

philData == <<kind, phase, iter>>
vars == <<monVars, philData>>

Seats == Cvs
LEFT(i) == (i + N - 1) % N
RIGHT(i) == (i + 1) % N

Labels == {"idle", "down_sched", "down_wake", "sig_down", "sig_end", "wait_down", "wait_end",
           "sleep_sched", "sleep_wake", "think", "take", "take_in", "take_test", "take_check",
           "take_out", "take_s", "eat", "put", "put_in", "put_left", "put_right", "put_out",
           "quit", "quit_sched", "dead"}

TypeOK ==
  /\ SemTypeOK(Labels)
  /\ nextCount \in Nat
  /\ count \in [Cvs -> Nat]
  /\ phase \in [Seats -> {"THINKING", "HUNGRY", "EATING"}]
  /\ iter \in [Seats -> 0 .. TIMES]

\* check_sync has created one group; init sleeps in do_wait and one of them runs.
Init ==
  /\ MonitorInit(Seats, "think")
  /\ kind \in {"sema", "condvar"}
  /\ phase = [i \in Seats |-> "THINKING"]
  /\ iter = [i \in Seats |-> TIMES]

-----------------------------------------------------------------------------
(* do_sleep, and the clock.  How long a philosopher sleeps is left open:   *)
(* any of the timers may be the next to fire.                              *)

Sleep(i, l) ==
  /\ SetSleeping("WT_TIMER")
  /\ then' = [then EXCEPT ![i] = l]
  /\ Goto(i, "sleep_sched")
  /\ UNCHANGED <<current, needResched, slice, rq, semData, monData, cv, ret>>

SleepSchedule(i) ==
  /\ At(i, "sleep_sched")
  /\ SwitchTo(i, "sleep_wake")
  /\ UNCHANGED <<semData, then, monData, cv, ret, philData>>

SleepEnd(i) ==
  /\ At(i, "sleep_wake")
  /\ Goto(i, then[i])
  /\ then' = [then EXCEPT ![i] = "idle"]
  /\ UNCHANGED <<schedVars, semData, monData, cv, ret, philData>>

Tick(fired) ==
  /\ \A i \in fired : waitState[i] = "WT_TIMER"
  /\ RunTimers(fired)
  /\ UNCHANGED <<pc, semData, then, monData, cv, ret, philData>>

IdleLoop ==
  /\ At(Idle, "idle")
  /\ needResched[Idle]
  /\ SwitchTo(Idle, "idle")
  /\ UNCHANGED <<semData, then, monData, cv, ret, philData>>

-----------------------------------------------------------------------------
(* The program of a philosopher.                                           *)

Think(i) ==
  /\ At(i, "think")
  /\ IF iter[i] > 0
     THEN Sleep(i, "take") /\ iter' = [iter EXCEPT ![i] = @ - 1]
     ELSE Goto(i, "quit") /\ UNCHANGED <<schedVars, semData, then, monData, cv, ret, iter>>
  /\ UNCHANGED <<kind, phase>>

\* down(&mutex) or down(&mtp->mutex) at the start of taking and of putting back.
Enter(i) ==
  /\ \/ At(i, "take") /\ EnterMonitor(i, "take_in")
     \/ At(i, "put") /\ EnterMonitor(i, "put_in")
  /\ UNCHANGED philData

\* up(&mutex), or the end of the monitor's routine.
Exit(i, l) ==
  IF kind = "sema"
  THEN Up(mutex) /\ Goto(i, l) /\ UNCHANGED <<on, then, monData, cv, ret>>
  ELSE LeaveMonitor(i, l)

\* phi_test_sema(j) or phi_test_condvar(j) called by i, which goes on at l.
\* (Mutated form: only one neighbour is looked at.)
MayEatLeft(j) == phase[j] = "HUNGRY" /\ phase[LEFT(j)] # "EATING"

MayEat(j) == phase[j] = "HUNGRY" /\ phase[LEFT(j)] # "EATING" /\ phase[RIGHT(j)] # "EATING"

Test(i, j, l) ==
  IF MayEat(j)
  THEN /\ phase' = [phase EXCEPT ![j] = "EATING"]
       /\ IF kind = "sema"
          THEN Up(CvSem(j)) /\ Goto(i, l) /\ UNCHANGED <<on, then, monData, cv, ret>>
          ELSE CondSignal(i, j, l)
  ELSE Goto(i, l) /\ UNCHANGED <<schedVars, semData, then, monData, cv, ret, phase>>

Hungry(i) ==
  /\ At(i, "take_in")
  /\ phase' = [phase EXCEPT ![i] = "HUNGRY"]
  /\ Goto(i, "take_test")
  /\ UNCHANGED <<schedVars, semData, then, monData, cv, ret, kind, iter>>

TakeTest(i) ==
  /\ At(i, "take_test")
  /\ Test(i, i, IF kind = "sema" THEN "take_out" ELSE "take_check")
  /\ UNCHANGED <<kind, iter>>

\* phi_take_forks_condvar waits if it did not get the forks.
\* (Mutated form: it does not.)
TakeCheckGoesOn(i) ==
  /\ At(i, "take_check")
  /\ Goto(i, "take_out")
  /\ UNCHANGED <<schedVars, semData, then, monData, cv, ret, philData>>

TakeCheck(i) ==
  /\ At(i, "take_check")
  /\ IF phase[i] # "EATING" THEN CondWait(i, i, "take_out")
     ELSE Goto(i, "take_out") /\ UNCHANGED <<schedVars, semData, then, monData, cv, ret>>
  /\ UNCHANGED philData

TakeOut(i) ==
  /\ At(i, "take_out")
  /\ Exit(i, IF kind = "sema" THEN "take_s" ELSE "eat")
  /\ UNCHANGED philData

\* phi_take_forks_sema: down(&s[i]).  (Mutated form: who has got the forks in
\* its own test leaves the unit.)
TakeSIfHungry(i) ==
  /\ At(i, "take_s")
  /\ IF phase[i] = "HUNGRY" THEN Down(i, CvSem(i), "eat")
     ELSE Goto(i, "eat") /\ UNCHANGED <<schedVars, semData, then>>
  /\ UNCHANGED <<monData, cv, ret, philData>>

TakeS(i) ==
  /\ At(i, "take_s")
  /\ Down(i, CvSem(i), "eat")
  /\ UNCHANGED <<monData, cv, ret, philData>>

Eat(i) ==
  /\ At(i, "eat")
  /\ Sleep(i, "put")
  /\ UNCHANGED philData

PutIn(i) ==
  /\ At(i, "put_in")
  /\ phase' = [phase EXCEPT ![i] = "THINKING"]
  /\ Goto(i, "put_left")
  /\ UNCHANGED <<schedVars, semData, then, monData, cv, ret, kind, iter>>

\* (Mutated form: the neighbour on the left is not thought of.)
PutLeftForgets(i) ==
  /\ At(i, "put_left")
  /\ Goto(i, "put_right")
  /\ UNCHANGED <<schedVars, semData, then, monData, cv, ret, philData>>

PutLeft(i) ==
  /\ At(i, "put_left")
  /\ Test(i, LEFT(i), "put_right")
  /\ UNCHANGED <<kind, iter>>

PutRight(i) ==
  /\ At(i, "put_right")
  /\ Test(i, RIGHT(i), "put_out")
  /\ UNCHANGED <<kind, iter>>

PutOut(i) ==
  /\ At(i, "put_out")
  /\ Exit(i, "think")
  /\ UNCHANGED philData

\* The thread's function returns: do_exit.
Quit(i) ==
  /\ At(i, "quit")
  /\ state' = [state EXCEPT ![i] = "ZOMBIE"]
  /\ Goto(i, "quit_sched")
  /\ UNCHANGED <<current, waitState, needResched, slice, rq, semData, then, monData, cv, ret, philData>>

QuitSchedule(i) ==
  /\ At(i, "quit_sched")
  /\ SwitchTo(i, "dead")
  /\ UNCHANGED <<semData, then, monData, cv, ret, philData>>

Step(i) ==
  \/ MonitorStep(i) /\ UNCHANGED philData
  \/ SleepSchedule(i) \/ SleepEnd(i)
  \/ Think(i) \/ Enter(i)
  \/ Hungry(i) \/ TakeTest(i) \/ TakeCheck(i) \/ TakeOut(i) \/ TakeS(i)
  \/ Eat(i)
  \/ PutIn(i) \/ PutLeft(i) \/ PutRight(i) \/ PutOut(i)
  \/ Quit(i) \/ QuitSchedule(i)

Next ==
  \/ \E i \in Seats : Step(i)
  \/ \E fired \in SUBSET Seats : Tick(fired)
  \/ IdleLoop

Spec == Init /\ [][Next]_vars

-----------------------------------------------------------------------------
(* Both ways of keeping the forks implement Dining: hunger comes before    *)
(* eating, and neighbours never eat at the same time.                      *)
DiningRoom == INSTANCE Dining
DiningSpec == DiningRoom!Spec

(* A philosopher whose call has returned has the forks, although nothing   *)
(* is checked again after the wait: whoever woke it set its state first.   *)
EatsWithForks ==
  \A i \in Seats :
    pc[i] \in {"eat", "put", "put_in"} \/ then[i] \in {"put", "put_in"} => phase[i] = "EATING"

(* When all have quit, every semaphore and every count is back where it    *)
(* started: no unit was lost and none is left over.                        *)
NothingLeftOver ==
  (\A i \in Seats : pc[i] = "dead") =>
    /\ value = [s \in Sems |-> IF s = mutex THEN 1 ELSE 0]
    /\ nextCount = 0 /\ \A c \in Cvs : count[c] = 0

(* The philosophers never wait for each other in a ring, and no wake-up is *)
(* lost: as long as one of them has not quit, one can run or has a timer.  *)
(* (A program is finite, so all of them quit if the processor is shared.)  *)
NobodyStuck ==
  (\E i \in Seats : state[i] # "ZOMBIE") =>
    \E i \in Seats : state[i] = "RUNNABLE" \/ waitState[i] = "WT_TIMER"
=============================================================================

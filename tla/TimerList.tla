----------------------------- MODULE TimerList -----------------------------
(***************************************************************************)
(* The list of timers (add_timer, del_timer and run_timer_list of          *)
(* kern/schedule/sched.c) and its user, do_sleep.  The expires field of a  *)
(* timer counts from the timer before it, so that a tick only changes the  *)
(* first one; putting a timer in and taking one out must keep the sums.    *)
(* Each function runs with interrupts disabled and is one step.            *)
(*                                                                         *)
(* This module shows that the list implements Alarm, the form in which     *)
(* Proc has timers.                                                        *)
(***************************************************************************)
EXTENDS Naturals, Sequences, SequencesExt

CONSTANTS
  Sleepers,  \* the processes that call do_sleep
  MaxTicks   \* bound: the longest time slept

ASSUME TimerAssumption == MaxTicks \in Nat \ {0}

VARIABLES
  timerList,  \* timer_list: records of a process and the ticks after the entry before
  inSleep,    \* the processes between add_timer and del_timer
  rung        \* history: the processes run_timer_list woke at the last tick

timerVars == <<timerList, inSleep, rung>>

Timers == [proc : Sleepers, expires : 0 .. MaxTicks]

TimerTypeOK ==
  /\ timerList \in Seq(Timers)
  /\ inSleep \subseteq Sleepers
  /\ rung \subseteq Sleepers

TimerInit ==
  /\ timerList = <<>>
  /\ inSleep = {}
  /\ rung = {}

-----------------------------------------------------------------------------
\* The ticks until each timer rings: the sums of expires up to it.
Sums(list) ==
  LET sum[i \in 0 .. Len(list)] == IF i = 0 THEN 0 ELSE sum[i - 1] + list[i].expires
  IN  sum

\* Where the loop of add_timer stops: at the first timer that rings after t ticks.
PlaceFor(list, t) ==
  CHOOSE k \in 1 .. Len(list) + 1 :
    /\ \A i \in 1 .. k - 1 : Sums(list)[i] <= t
    /\ k <= Len(list) => t < Sums(list)[k]

\* The list with a timer of p put in, t ticks after its start: it keeps what
\* the loop has left of t, which the timer behind it loses.
Inserted(list, p, t) ==
  LET k    == PlaceFor(list, t)
      rest == t - Sums(list)[k - 1]
      less == IF k <= Len(list) THEN [list EXCEPT ![k].expires = @ - rest] ELSE list
  IN  InsertAt(less, k, [proc |-> p, expires |-> rest])

\* The list without its i-th timer, whose ticks go to the one behind.
\* (Mutated form: they are lost.)
DeletedLosing(list, i) == RemoveAt(list, i)

Deleted(list, i) ==
  RemoveAt(IF i < Len(list) THEN [list EXCEPT ![i + 1].expires = @ + list[i].expires]
           ELSE list, i)

\* Where the timer of p is, if it is in the list.
Has(list, p) == \E i \in DOMAIN list : list[i].proc = p
PlaceOf(list, p) == CHOOSE i \in DOMAIN list : list[i].proc = p

\* do_sleep(t), up to schedule().
AddTimer(p, t) ==
  /\ p \notin inSleep
  /\ timerList' = Inserted(timerList, p, t)
  /\ inSleep' = inSleep \cup {p}
  /\ UNCHANGED rung

\* do_sleep after schedule(): the timer has fired, or the process was killed.
DelTimer(p) ==
  /\ p \in inSleep
  /\ timerList' = IF Has(timerList, p) THEN Deleted(timerList, PlaceOf(timerList, p)) ELSE timerList
  /\ inSleep' = inSleep \ {p}
  /\ UNCHANGED rung

\* The timers at the head that a tick brings to 0.
\* (Mutated form: only the first one is looked at.)
ExpiredFirst(list) ==
  IF list # <<>> /\ list[1].expires = 0 THEN {1} ELSE {}

Expired(list) ==
  {i \in DOMAIN list : \A j \in 1 .. i : list[j].expires = 0}

\* run_timer_list at a clock tick.
RunTimerList ==
  /\ LET ticked == IF timerList = <<>> THEN <<>> ELSE [timerList EXCEPT ![1].expires = @ - 1]
         due    == Expired(ticked)
     IN  /\ rung' = {ticked[i].proc : i \in due}
         /\ timerList' = SubSeq(ticked, Cardinality(due) + 1, Len(ticked))
  /\ UNCHANGED inSleep

TimerNext ==
  \/ \E p \in Sleepers, t \in 1 .. MaxTicks : AddTimer(p, t)
  \/ \E p \in Sleepers : DelTimer(p)
  \/ RunTimerList

TimerSpec == TimerInit /\ [][TimerNext]_timerVars

-----------------------------------------------------------------------------
(* The assertion of run_timer_list: the first timer is never due already.  *)
(* Timers due at the same tick follow with 0; taking the first of them out *)
(* must not leave a 0 at the head.                                         *)
HeadNotDue == timerList # <<>> => timerList[1].expires > 0

(* The ticks left of a process' timer: the sum up to it.                   *)
LeftIn(list, p) == IF Has(list, p) THEN Sums(list)[PlaceOf(list, p)] ELSE 0

(* The list rings every timer at the tick it was set for, whatever timers  *)
(* are set and removed around it.                                          *)
Abstract == INSTANCE Alarm WITH left <- [p \in Sleepers |-> LeftIn(timerList, p)]
AlarmSpec == Abstract!Spec
=============================================================================

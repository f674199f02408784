------------------------------- MODULE Alarm -------------------------------
(***************************************************************************)
(* What the timers promise: a timer set for t ticks rings at the t-th tick *)
(* after that, together with all others that are due, unless it is removed *)
(* before.                                                                 *)
(***************************************************************************)
EXTENDS Naturals

CONSTANTS Sleepers, MaxTicks

VARIABLES
  left,   \* ticks until the timer of a process rings, 0 if it has none
  rung    \* whose timers the last tick rang

Init ==
  /\ left = [p \in Sleepers |-> 0]
  /\ rung = {}

Set(p, t) ==
  /\ left[p] = 0
  /\ left' = [left EXCEPT ![p] = t]
  /\ rung' = rung

Remove(p) ==
  /\ left' = [left EXCEPT ![p] = 0]
  /\ rung' = rung

Tick ==
  /\ rung' = {p \in Sleepers : left[p] = 1}
  /\ left' = [p \in Sleepers |-> IF left[p] > 0 THEN left[p] - 1 ELSE 0]

Next ==
  \/ \E p \in Sleepers, t \in 1 .. MaxTicks : Set(p, t)
  \/ \E p \in Sleepers : Remove(p)
  \/ Tick

Spec == Init /\ [][Next]_<<left, rung>>
=============================================================================

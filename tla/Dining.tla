------------------------------- MODULE Dining -------------------------------
(***************************************************************************)
(* What the forks promise: a philosopher eats only while neither neighbour *)
(* does.                                                                   *)
(***************************************************************************)
EXTENDS Naturals

CONSTANT N

VARIABLE phase

Seats == 0 .. N - 1
Left(i) == (i + N - 1) % N
Right(i) == (i + 1) % N

Init == phase = [i \in Seats |-> "THINKING"]

GetHungry(i) ==
  /\ phase[i] = "THINKING"
  /\ phase' = [phase EXCEPT ![i] = "HUNGRY"]

StartEating(i) ==
  /\ phase[i] = "HUNGRY"
  /\ phase[Left(i)] # "EATING" /\ phase[Right(i)] # "EATING"
  /\ phase' = [phase EXCEPT ![i] = "EATING"]

StopEating(i) ==
  /\ phase[i] = "EATING"
  /\ phase' = [phase EXCEPT ![i] = "THINKING"]

Next == \E i \in Seats : GetHungry(i) \/ StartEating(i) \/ StopEating(i)

Spec == Init /\ [][Next]_phase
=============================================================================

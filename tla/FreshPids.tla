----------------------------- MODULE FreshPids -----------------------------
(***************************************************************************)
(* What the allocation of process identifiers promises: a pid is given to  *)
(* at most one process at a time, and the next one given is the first free *)
(* pid above the last one, cyclically, so that the pid of a process that   *)
(* was reaped comes up again as late as possible.                          *)
(***************************************************************************)
EXTENDS Naturals

CONSTANT MaxPid

VARIABLES
  live,   \* the pids in use
  last    \* the pid given last

Pids == 1 .. MaxPid - 1

\* The pids one passes on the way up from a to b, with a wrap at MaxPid.
Between(a, b) ==
  IF a < b THEN {q \in Pids : a < q /\ q < b} ELSE {q \in Pids : a < q \/ q < b}

Init ==
  /\ live = {}
  /\ last = MaxPid

Alloc ==
  \E pid \in Pids \ live :
    /\ Between(last, pid) \subseteq live
    /\ live' = live \cup {pid}
    /\ last' = pid

Free ==
  \E pid \in live :
    /\ live' = live \ {pid}
    /\ last' = last

Next == Alloc \/ Free

Spec == Init /\ [][Next]_<<live, last>>
=============================================================================

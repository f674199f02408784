---------------------------- MODULE HoareMonitor ----------------------------
(***************************************************************************)
(* The monitor the comment in kern/sync/monitor.h describes: one process   *)
(* at a time is active in it; wait gives the monitor away and joins the    *)
(* waiting ones, a signal passes it to the process that waits longest and  *)
(* the signaller stands back; who gives the monitor away gives it to the   *)
(* signaller that has stood back longest, else to the process that has     *)
(* been at the door longest.                                               *)
(***************************************************************************)
EXTENDS Sequences

CONSTANTS Users, Cvs, Nobody

VARIABLES
  owner,    \* the process that is active in the monitor, or Nobody
  door,     \* the processes that want to enter, in order
  urgent,   \* the signallers that stand back, in order
  waiting   \* per condition variable, the processes that wait, in order

hoareVars == <<owner, door, urgent, waiting>>

Init ==
  /\ owner = Nobody
  /\ door = <<>>
  /\ urgent = <<>>
  /\ waiting = [c \in Cvs |-> <<>>]

Enter(p) ==
  /\ IF owner = Nobody THEN owner' = p /\ door' = door
     ELSE owner' = owner /\ door' = Append(door, p)
  /\ UNCHANGED <<urgent, waiting>>

GiveAway ==
  \/ /\ urgent # <<>>
     /\ owner' = Head(urgent) /\ urgent' = Tail(urgent) /\ door' = door
  \/ /\ urgent = <<>> /\ door # <<>>
     /\ owner' = Head(door) /\ door' = Tail(door) /\ urgent' = urgent
  \/ /\ urgent = <<>> /\ door = <<>>
     /\ owner' = Nobody /\ UNCHANGED <<urgent, door>>

Leave(p) == owner = p /\ GiveAway /\ UNCHANGED waiting

Wait(p, c) ==
  /\ owner = p /\ GiveAway
  /\ waiting' = [waiting EXCEPT ![c] = Append(@, p)]

Signal(p, c) ==
  /\ owner = p /\ waiting[c] # <<>>
  /\ owner' = Head(waiting[c])
  /\ waiting' = [waiting EXCEPT ![c] = Tail(@)]
  /\ urgent' = Append(urgent, p)
  /\ UNCHANGED door

Next ==
  \E p \in Users :
    \/ Enter(p)
    \/ Leave(p)
    \/ \E c \in Cvs : Wait(p, c) \/ Signal(p, c)

Spec == Init /\ [][Next]_hoareVars
=============================================================================

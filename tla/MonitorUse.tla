----------------------------- MODULE MonitorUse -----------------------------
(***************************************************************************)
(* Any use of one monitor: processes enter it, signal and wait on its      *)
(* condition variables in any order, give the processor away inside and    *)
(* outside of it, and leave.  It shows that Monitor implements             *)
(* HoareMonitor.                                                           *)
(***************************************************************************)
EXTENDS Monitor

CONSTANT Nobody

ASSUME MonitorUseAssumption == IsFiniteSet(Procs) /\ Nobody \notin Procs

Users == Procs \ {Idle}

Labels == {"idle", "out", "in", "down_sched", "down_wake",
           "sig_down", "sig_end", "wait_down", "wait_end"}

TypeOK ==
  /\ SemTypeOK(Labels)
  /\ nextCount \in Nat
  /\ count \in [Cvs -> Nat]
  /\ cv \in [Procs -> Cvs]
  /\ ret \in [Procs -> Labels]

Init == MonitorInit(Users, "out")

Enter(p) == At(p, "out") /\ EnterMonitor(p, "in")

Signal(p, c) == At(p, "in") /\ CondSignal(p, c, "in")

Wait(p, c) == At(p, "in") /\ CondWait(p, c, "in")

Leave(p) == At(p, "in") /\ LeaveMonitor(p, "out")

\* Code inside or outside of the monitor that calls schedule().
Yield(p) ==
  /\ At(p, "in") \/ At(p, "out")
  /\ SwitchTo(p, pc[p])
  /\ UNCHANGED <<semData, then, monData, cv, ret>>

\* Everybody waits: nothing is left but cpu_idle's loop.
IdleSpin == current = Idle /\ UNCHANGED monVars

Next ==
  \/ \E p \in Users :
       \/ Enter(p)
       \/ \E c \in Cvs : Signal(p, c) \/ Wait(p, c)
       \/ Leave(p)
       \/ Yield(p)
       \/ MonitorStep(p)
  \/ IdleSpin

Spec == Init /\ [][Next]_monVars

-----------------------------------------------------------------------------
\* The processes that are in the monitor or have been given it.
Owners ==
  {p \in Users : \/ pc[p] \in {"in", "sig_end", "wait_end"}
                 \/ pc[p] \in {"down_sched", "down_wake"} /\ flags[p] = "WT_KSEM"}

(* Only one process at a time is active in the monitor, and the mutex is   *)
(* free exactly if nobody is.                                              *)
OneOwner ==
  /\ Cardinality(Owners) <= 1
  /\ value[mutex] = IF Owners = {} THEN 1 ELSE 0

(* No unit is lost: when everybody sleeps, everybody waits for a condition,*)
(* and neither a signaller nor a process at the door is left behind.       *)
NobodyLeftBehind ==
  current = Idle => \A p \in Users : \E c \in Cvs : Waits(p, CvSem(c))

\* A process between giving the monitor away and joining a queue is last in it.
Joining(l, s) ==
  IF \E p \in Users : pc[p] = l /\ s = (IF l = "sig_down" THEN next ELSE CvSem(cv[p]))
  THEN <<CHOOSE p \in Users : pc[p] = l>> ELSE <<>>

Owner == IF Owners = {} THEN Nobody ELSE CHOOSE p \in Owners : TRUE

Urgent == queue[next] \o Joining("sig_down", next)

Waiting == [c \in Cvs |-> queue[CvSem(c)] \o Joining("wait_down", CvSem(c))]

(* The semaphores and counts of the code keep the promise of HoareMonitor. *)
Hoare == INSTANCE HoareMonitor WITH
  owner <- Owner, door <- queue[mutex], urgent <- Urgent, waiting <- Waiting
HoareSpec == Hoare!Spec
=============================================================================

------------------------------ MODULE Monitor ------------------------------
(***************************************************************************)
(* Monitors with condition variables (kern/sync/monitor.c), built from     *)
(* semaphores: mutex lets one process in, cv.sem holds those that wait on  *)
(* a condition, next holds those that have signalled and stand back for    *)
(* the process they woke.  The monitor is never free in between: who leaves*)
(* or waits hands it to a signaller if next_count says that there is one,  *)
(* else to the next at the mutex.                                          *)
(***************************************************************************)
EXTENDS Sem

CONSTANT Cvs   \* the condition variables of the monitor

VARIABLES
  nextCount,  \* next_count
  count,      \* cv.count
  cv,         \* the condition variable of the call the process is in
  ret         \* where the process goes on after cond_signal or cond_wait

monData == <<nextCount, count>>
monVars == <<semVars, monData, cv, ret>>

mutex == <<"mutex", 0>>
next == <<"next", 0>>
CvSem(c) == <<"cv", c>>

\* monitor_init asserts that there is a condition variable.
ASSUME MonitorAssumption ==
  /\ Sems = {mutex, next} \cup {CvSem(c) : c \in Cvs}
  /\ Cvs # {}

\* What cv has outside of cond_wait; no meaning.
NoCv == CHOOSE c \in Cvs : TRUE

\* monitor_init
MonitorInit(P, start) ==
  /\ SemInit(P, start, [s \in Sems |-> IF s = mutex THEN 1 ELSE 0])
  /\ nextCount = 0
  /\ count = [c \in Cvs |-> 0]
  /\ cv = [p \in Procs |-> NoCv]
  /\ ret = [p \in Procs |-> "idle"]

\* The start of a routine of the monitor, down(&mutex), which goes on at l.
EnterMonitor(p, l) ==
  /\ Down(p, mutex, l)
  /\ UNCHANGED <<monData, cv, ret>>

\* Who gets the monitor from a process that leaves it or waits in it.
\* (Mutated form: signallers are forgotten.)
HandOverMutex == Up(mutex)

HandOver == Up(IF nextCount > 0 THEN next ELSE mutex)

\* The end of a routine.
LeaveMonitor(p, l) ==
  /\ HandOver
  /\ Goto(p, l)
  /\ UNCHANGED <<on, then, monData, cv, ret>>

\* cond_signal(c), which returns to l.  Nothing happens if nobody waits.
\* (Mutated form: the signaller does not stand back.)
CondSignalGoesOn(p, c, l) ==
  /\ IF count[c] > 0 THEN Up(CvSem(c)) ELSE UNCHANGED <<schedVars, value, queue, flags>>
  /\ Goto(p, l)
  /\ UNCHANGED <<on, then, monData, cv, ret>>

CondSignal(p, c, l) ==
  IF count[c] > 0
  THEN /\ nextCount' = nextCount + 1
       /\ Up(CvSem(c))
       /\ Goto(p, "sig_down")
       /\ ret' = [ret EXCEPT ![p] = l]
       /\ UNCHANGED <<on, then, count, cv>>
  ELSE /\ Goto(p, l)
       /\ UNCHANGED <<schedVars, semData, then, monData, cv, ret>>

SignalDown(p) ==
  /\ At(p, "sig_down")
  /\ Down(p, next, "sig_end")
  /\ UNCHANGED <<monData, cv, ret>>

\* (Mutated form: next_count is not lowered.)
SignalEndForgets(p) ==
  /\ At(p, "sig_end")
  /\ Goto(p, ret[p])
  /\ ret' = [ret EXCEPT ![p] = "idle"]
  /\ UNCHANGED <<schedVars, semData, then, monData, cv>>

SignalEnd(p) ==
  /\ At(p, "sig_end")
  /\ nextCount' = nextCount - 1
  /\ Goto(p, ret[p])
  /\ ret' = [ret EXCEPT ![p] = "idle"]
  /\ UNCHANGED <<schedVars, semData, then, count, cv>>

\* cond_wait(c), which returns to l.
CondWait(p, c, l) ==
  /\ count' = [count EXCEPT ![c] = @ + 1]
  /\ HandOver
  /\ Goto(p, "wait_down")
  /\ cv' = [cv EXCEPT ![p] = c]
  /\ ret' = [ret EXCEPT ![p] = l]
  /\ UNCHANGED <<on, then, nextCount>>

WaitDown(p) ==
  /\ At(p, "wait_down")
  /\ Down(p, CvSem(cv[p]), "wait_end")
  /\ UNCHANGED <<monData, cv, ret>>

WaitEnd(p) ==
  /\ At(p, "wait_end")
  /\ count' = [count EXCEPT ![cv[p]] = @ - 1]
  /\ Goto(p, ret[p])
  /\ cv' = [cv EXCEPT ![p] = NoCv]
  /\ ret' = [ret EXCEPT ![p] = "idle"]
  /\ UNCHANGED <<schedVars, semData, then, nextCount>>

\* What goes on in the kernel for a process inside one of these functions.
MonitorStep(p) ==
  \/ (DownSchedule(p) \/ DownEnd(p)) /\ UNCHANGED <<monData, cv, ret>>
  \/ SignalDown(p)
  \/ SignalEnd(p)
  \/ WaitDown(p)
  \/ WaitEnd(p)

-----------------------------------------------------------------------------
\* p waits for s, not for a process that has been given it.
Waits(p, s) ==
  pc[p] \in {"down_sched", "down_wake"} /\ on[p] = s /\ flags[p] = "WT_INTERRUPTED"

Signallers ==
  {p \in Procs : \/ pc[p] \in {"sig_down", "sig_end"}
                 \/ pc[p] \in {"down_sched", "down_wake"} /\ on[p] = next}

WaitersOn(c) ==
  {p \in Procs : \/ pc[p] \in {"wait_down", "wait_end"} /\ cv[p] = c
                 \/ pc[p] \in {"down_sched", "down_wake"} /\ on[p] = CvSem(c)}

(* The counts the code decides by are the numbers of processes they stand  *)
(* for: next_count the signallers that have not gone on, cv.count those    *)
(* inside cond_wait.                                                       *)
CountsExact ==
  /\ nextCount = Cardinality(Signallers)
  /\ \A c \in Cvs : count[c] = Cardinality(WaitersOn(c))
=============================================================================

------------------------------ MODULE PidAlloc ------------------------------
(***************************************************************************)
(* get_pid (kern/process/proc.c): the pid of a new process, found from the *)
(* list of all processes with the help of two static variables.  No pid    *)
(* from last_pid up to, not including, next_safe is in use, so that most   *)
(* calls need no look at the list; otherwise the list is scanned, and      *)
(* scanned again each time last_pid is moved past next_safe.               *)
(*                                                                         *)
(* do_fork calls get_pid and links the new process with interrupts         *)
(* disabled, so nothing comes between the steps of one call.               *)
(***************************************************************************)
EXTENDS Naturals, Sequences, SequencesExt

CONSTANTS
  MaxPid,      \* MAX_PID
  MaxProcess   \* MAX_PROCESS

ASSUME PidAssumption ==
  /\ MaxPid \in Nat /\ MaxProcess \in Nat
  /\ MaxPid > MaxProcess /\ MaxPid > 1

VARIABLES
  procList,   \* the pids along proc_list: the newest first, without pid 0
  lastPid,    \* last_pid
  nextSafe,   \* next_safe
  at,         \* the entry of proc_list the scan looks at; 0 outside get_pid
  issued      \* history: the pid get_pid returned last

pidVars == <<procList, lastPid, nextSafe, at, issued>>

Pids == 1 .. MaxPid - 1

Live == {procList[i] : i \in DOMAIN procList}

PidTypeOK ==
  /\ procList \in Seq(Pids)
  /\ lastPid \in 1 .. MaxPid
  /\ nextSafe \in 1 .. MaxPid
  /\ at \in 0 .. Len(procList) + 1
  /\ issued \in 1 .. MaxPid

PidInit ==
  /\ procList = <<>>
  /\ lastPid = MaxPid
  /\ nextSafe = MaxPid
  /\ at = 0
  /\ issued = MaxPid

WrappedPid(pid) == IF pid >= MaxPid THEN 1 ELSE pid

\* do_fork below the limit of processes (idleproc counts, but is not in the
\* list) calls get_pid.
\* (Mutated form: next_safe is trusted after a wrap.)
GetPidTrustsWrap ==
  /\ at = 0
  /\ Len(procList) + 1 < MaxProcess
  /\ LET pid == lastPid + 1 IN
       /\ lastPid' = WrappedPid(pid)
       /\ IF pid < MaxPid /\ pid >= nextSafe
          THEN nextSafe' = MaxPid /\ at' = 1
          ELSE nextSafe' = nextSafe /\ at' = Len(procList) + 1
  /\ UNCHANGED <<procList, issued>>

GetPid ==
  /\ at = 0
  /\ Len(procList) + 1 < MaxProcess
  /\ LET pid == lastPid + 1 IN
       /\ lastPid' = WrappedPid(pid)
       /\ IF pid >= MaxPid \/ pid >= nextSafe
          THEN nextSafe' = MaxPid /\ at' = 1
          ELSE nextSafe' = nextSafe /\ at' = Len(procList) + 1
  /\ UNCHANGED <<procList, issued>>

\* The entry has the pid that was to be given: try the next one, from the
\* start of the list if next_safe is reached.
\* (Mutated forms: last_pid starts again from 1 as well; the scan starts again
\* without moving on.)
TakenRestarts ==
  /\ procList[at] = lastPid
  /\ IF lastPid + 1 >= nextSafe
     THEN lastPid' = 1 /\ nextSafe' = MaxPid /\ at' = 1
     ELSE lastPid' = lastPid + 1 /\ nextSafe' = nextSafe /\ at' = at + 1

TakenStuck ==
  /\ procList[at] = lastPid
  /\ IF lastPid + 1 >= nextSafe
     THEN lastPid' = lastPid /\ nextSafe' = MaxPid /\ at' = 1
     ELSE lastPid' = lastPid + 1 /\ nextSafe' = nextSafe /\ at' = at + 1

Taken ==
  /\ procList[at] = lastPid
  /\ IF lastPid + 1 >= nextSafe
     THEN lastPid' = WrappedPid(lastPid + 1) /\ nextSafe' = MaxPid /\ at' = 1
     ELSE lastPid' = lastPid + 1 /\ nextSafe' = nextSafe /\ at' = at + 1

\* (Mutated form: an entry above last_pid does not lower next_safe.)
OtherIgnored ==
  /\ procList[at] # lastPid
  /\ at' = at + 1
  /\ UNCHANGED <<lastPid, nextSafe>>

Other ==
  /\ procList[at] # lastPid
  /\ nextSafe' = IF lastPid < procList[at] /\ procList[at] < nextSafe
                 THEN procList[at] ELSE nextSafe
  /\ at' = at + 1
  /\ UNCHANGED lastPid

Scan ==
  /\ at \in DOMAIN procList
  /\ Taken \/ Other
  /\ UNCHANGED <<procList, issued>>

\* get_pid returns and set_links puts the new process at the head of the list.
Link ==
  /\ at = Len(procList) + 1
  /\ procList' = <<lastPid>> \o procList
  /\ issued' = lastPid
  /\ at' = 0
  /\ UNCHANGED <<lastPid, nextSafe>>

\* do_wait reaps a process; init, pid 1, is never reaped.
Unlink(i) ==
  /\ at = 0
  /\ procList[i] # 1
  /\ procList' = RemoveAt(procList, i)
  /\ UNCHANGED <<lastPid, nextSafe, at, issued>>

PidNext ==
  \/ GetPid
  \/ Scan
  \/ Link
  \/ \E i \in DOMAIN procList : Unlink(i)

PidSpec == PidInit /\ [][PidNext]_pidVars

\* The loop of get_pid goes on: interrupts are disabled.
PidFairSpec == PidSpec /\ WF_pidVars(Scan \/ Link)

-----------------------------------------------------------------------------
(* What the cached next_safe says is true whenever it is relied on: no     *)
(* process has a pid from last_pid to next_safe, last_pid itself excepted  *)
(* between two calls; during a scan, no process seen so far has.           *)
NextSafeTrue ==
  \A i \in DOMAIN procList :
    IF at = 0 THEN ~(lastPid < procList[i] /\ procList[i] < nextSafe)
    ELSE i < at => ~(lastPid <= procList[i] /\ procList[i] < nextSafe)

(* get_pid implements the promise of FreshPids: the pid it returns is free,*)
(* and it is the first free pid above the last one, cyclically.            *)
Fresh == INSTANCE FreshPids WITH live <- Live, last <- issued
FreshSpec == Fresh!Spec

(* Two processes never have the same pid.                                  *)
PidsUnique ==
  \A i, j \in DOMAIN procList : procList[i] = procList[j] => i = j

(* The scan ends, although it may start again: MAX_PID > MAX_PROCESS leaves*)
(* a free pid for last_pid to reach (the static_assert of get_pid).        *)
ScanEnds == at # 0 ~> at = 0
=============================================================================

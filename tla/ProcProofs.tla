----------------------------- MODULE ProcProofs -----------------------------
(***************************************************************************)
(* Proofs about Proc, for every set of processes and every bound.          *)
(*                                                                         *)
(* The inductive invariant ties the place of a process in the kernel to    *)
(* its state word: who runs is awake unless it is on its way to schedule(),*)
(* who sleeps does so inside do_wait or do_sleep, a timer belongs to a     *)
(* process inside do_sleep, a process that is being torn down is a zombie. *)
(* Without it nothing says that the processes a timer, an exit or a kill   *)
(* wakes are asleep, or that the caller of schedule() is queued rightly.   *)
(*                                                                         *)
(* The second half is about the relations of processes, that do_wait misses*)
(* no exit and that init ends last.                                        *)
(*                                                                         *)
(* do_wait looks at the children in its list, so what matters is which     *)
(* lists a step can change.  The links of a list agree in both directions, *)
(* and all of a list have one parent; so set_links, remove_links and the   *)
(* loop of do_exit change the lists of the processes they name and no      *)
(* others, and a process that sleeps in do_wait keeps its list, except     *)
(* that init's may become longer.  That no child is missing from its list  *)
(* needs more: each has a place, and there is one at every place before it.*)
(***************************************************************************)
EXTENDS Proc, SchedProofs, WellFoundedInduction, FiniteSetTheorems

BeforeSwitch == {"wait_sched", "sleep_sched"}
AfterSwitch  == {"wait_wake", "sleep_del"}
TornDown     == {"exit_wake", "exit_adopt", "exit_sched", "dead"}

PlaceOK(p) ==
  /\ pc[p] = "unused" <=> state[p] = "UNUSED"
  /\ pc[p] \in TornDown <=> state[p] = "ZOMBIE"
  /\ pc[p] = "idle" <=> p = Idle
  /\ state[p] = "SLEEPING" => pc[p] \in IF p = current THEN BeforeSwitch ELSE AfterSwitch
  /\ timer[p] > 0 => pc[p] \in {"sleep_sched", "sleep_del"}

WordsOK(p) ==
  /\ state[p] = "SLEEPING" <=> waitState[p] # "NONE"
  /\ waitState[p] # "WT_KSEM"
  /\ state[p] = "UNUSED" => ~exiting[p]
  /\ state[p] # "UNUSED" /\ p # Idle => parent[p] # None

IInv ==
  /\ TypeOK
  /\ SchedInv
  /\ \A p \in Procs : PlaceOK(p)
  /\ \A p \in Procs : WordsOK(p)
  /\ halt # "assert"

(* What every action needs of the invariant about the process that runs.   *)
LEMMA RunnerAwake ==
  ASSUME IInv, NEW p \in Procs, current = p,
         pc[p] \notin BeforeSwitch \cup TornDown \cup {"unused"}
  PROVE  state[p] = "RUNNABLE" /\ waitState[p] = "NONE"
  BY DEF IInv, TypeOK, SchedInv, SchedTypeOK, States, PlaceOK, WordsOK, BeforeSwitch, TornDown

(* The places and words of all processes follow from the new value of the  *)
(* running process' place alone when nothing else moves.                   *)
LEMMA MoveKeeps ==
  ASSUME IInv, NEW p \in Procs, p # Idle, current = p,
         pc[p] \notin BeforeSwitch \cup TornDown \cup {"unused"},
         NEW l \in PCs, l \notin TornDown \cup {"unused", "idle"},
         Goto(p, l), UNCHANGED schedVars,
         timer' \in [Procs -> 0 .. MaxSleep],
         timer'[p] > 0 => l = "sleep_del",
         \A q \in Procs \ {p} : timer'[q] = timer[q],
         kthread' \in [Procs -> BOOLEAN], wpid' \in [Procs -> Procs],
         UNCHANGED <<exiting, familyVars, halt>>
  PROVE  IInv'
<1>1. state[p] = "RUNNABLE" /\ waitState[p] = "NONE"
  BY RunnerAwake
<1>2. TypeOK'
  BY DEF IInv, TypeOK, SchedTypeOK, Goto, schedVars, familyVars
<1>3. SchedInv'
  BY DEF IInv, SchedInv, SchedTypeOK, RunQueueExact, schedVars
<1>4. ASSUME NEW q \in Procs
      PROVE  PlaceOK(q)'
  BY <1>1 DEF IInv, TypeOK, PlaceOK, Goto, schedVars, BeforeSwitch, AfterSwitch, TornDown
<1>5. ASSUME NEW q \in Procs
      PROVE  WordsOK(q)'
  BY DEF IInv, WordsOK, schedVars, familyVars
<1> QED BY <1>2, <1>3, <1>4, <1>5 DEF IInv
(* A call of schedule(): the caller goes on at l some day; it is asleep    *)
(* only if l is one of the places where a sleeper waits.                   *)
LEMMA SwitchKeeps ==
  ASSUME IInv, NEW p \in Procs, current = p, NEW l \in PCs, SwitchTo(p, l),
         state[p] # "UNUSED", l # "unused",
         state[p] = "SLEEPING" => l \in AfterSwitch,
         state[p] = "ZOMBIE" <=> l \in TornDown,
         p = Idle <=> l = "idle",
         timer[p] > 0 => l = "sleep_del",
         UNCHANGED <<kthread, exiting, familyVars, wpid, timer, halt>>
  PROVE  IInv'
<1>1. SchedInv' /\ state'[current'] = "RUNNABLE" /\ UNCHANGED <<state, waitState>>
  BY ScheduleKeeps DEF IInv, SwitchTo
<1>2. TypeOK'
  BY <1>1 DEF IInv, SchedInv, TypeOK, SwitchTo, Goto, familyVars
<1>3. ASSUME NEW q \in Procs
      PROVE  PlaceOK(q)'
  BY <1>1 DEF IInv, TypeOK, PlaceOK, SwitchTo, Goto, AfterSwitch, TornDown
<1>4. ASSUME NEW q \in Procs
      PROVE  WordsOK(q)'
  BY <1>1 DEF IInv, WordsOK, familyVars
<1> QED BY <1>1, <1>2, <1>3, <1>4 DEF IInv

(* Waking processes none of which is free or a zombie, while the running   *)
(* one moves between places of the same kind and timers only run down.     *)
WakeStep(W, l) ==
  /\ MakeRunnable(W) /\ SchedInv' /\ UNCHANGED <<current, halt, wpid>>
  /\ \A q \in W : state[q] \in {"SLEEPING", "RUNNABLE"}
  /\ Goto(current, l)
  /\ \/ l = pc[current]
     \/ l \notin TornDown \cup {"unused", "idle"} /\ pc[current] \in {"user", "kmain"}
     \/ l \in TornDown /\ pc[current] \in TornDown
  /\ timer' \in [Procs -> 0 .. MaxSleep]
  /\ \A q \in Procs : timer'[q] > 0 => timer[q] > 0
  /\ kthread' \in [Procs -> BOOLEAN]
  /\ exiting' \in [Procs -> BOOLEAN]
  /\ \A q \in Procs : exiting'[q] => exiting[q] \/ state[q] # "UNUSED"
  /\ parent' \in [Procs -> Procs \cup {None}]
  /\ cptr' \in [Procs -> Procs \cup {None}]
  /\ yptr' \in [Procs -> Procs \cup {None}]
  /\ optr' \in [Procs -> Procs \cup {None}]
  /\ nrProcess' \in Int
  /\ \A q \in Procs : parent[q] # None => parent'[q] # None

LEMMA WakeKeeps ==
  ASSUME IInv, NEW W \in SUBSET Procs, NEW l \in PCs, WakeStep(W, l)
  PROVE  IInv'
<1> USE DEF WakeStep
<1>1. \A q \in Procs : IF q \in W THEN state'[q] = "RUNNABLE" /\ waitState'[q] = "NONE"
                       ELSE state'[q] = state[q] /\ waitState'[q] = waitState[q]
  BY DEF IInv, WordsOK, MakeRunnable, Woken
<1>2. TypeOK'
  BY DEF IInv, SchedInv, TypeOK, Goto
<1>3. ASSUME NEW q \in Procs
      PROVE  PlaceOK(q)'
  <2>1. CASE q = current
    BY <1>1, <2>1 DEF IInv, TypeOK, PlaceOK, Goto, BeforeSwitch, AfterSwitch, TornDown
  <2>2. CASE q # current
    BY <1>1, <2>2 DEF IInv, TypeOK, PlaceOK, Goto, BeforeSwitch, AfterSwitch, TornDown
  <2> QED BY <2>1, <2>2
<1>4. ASSUME NEW q \in Procs
      PROVE  WordsOK(q)'
  BY <1>1 DEF IInv, WordsOK
<1> QED BY <1>2, <1>3, <1>4 DEF IInv
-----------------------------------------------------------------------------
(* The actions, grouped by what they do to the processor and the sleepers. *)

(* The initial state: idle runs and init is queued.                        *)
LEMMA InitHolds == Init => IInv
<1> SUFFICES ASSUME Init PROVE IInv
  OBVIOUS
<1> USE SchedAssumption, ProcAssumption DEF Init
<1>1. TypeOK
  BY DEF TypeOK, SchedTypeOK, States, WaitStates, PCs
<1>2. SchedInv
  BY <1>1 DEF SchedInv, TypeOK, RunQueueExact
<1>3. ASSUME NEW p \in Procs
      PROVE  PlaceOK(p)
  BY DEF PlaceOK, BeforeSwitch, AfterSwitch, TornDown
<1>4. ASSUME NEW p \in Procs
      PROVE  WordsOK(p)
  BY DEF WordsOK
<1> QED BY <1>1, <1>2, <1>3, <1>4 DEF IInv

(* do_fork: the child becomes a runnable process with a parent.            *)
LEMMA ForkHolds ==
  ASSUME IInv, NEW p \in Procs \ {Idle}, NEW c \in Users, Fork(p, c)
  PROVE  IInv'
<1> USE ProcAssumption
<1>1. /\ current = p /\ pc[p] \in {"user", "kmain"} /\ p # c
      /\ state[p] = "RUNNABLE" /\ waitState[p] = "NONE" /\ state[c] = "UNUSED"
  <2>1. current = p /\ pc[p] \in {"user", "kmain"} /\ state[c] = "UNUSED"
    BY DEF Fork, UserCalls, At
  <2>2. state[p] = "RUNNABLE" /\ waitState[p] = "NONE"
    BY <2>1, RunnerAwake DEF BeforeSwitch, TornDown
  <2> QED BY <2>1, <2>2
<1>2. SchedInv'
  BY WakeupProcKeeps DEF IInv, Fork, Users
<1>3. \A q \in Procs : /\ state'[q] = IF q = c THEN "RUNNABLE" ELSE state[q]
                       /\ waitState'[q] = IF q = c THEN "NONE" ELSE waitState[q]
  BY <1>1 DEF Fork, WakeupProc, MakeRunnable, Woken
<1>4. TypeOK'
  BY <1>2 DEF IInv, SchedInv, TypeOK, Fork, SetLinks, AfterCall, PCs, Asserted, Users
<1>5. halt' # "assert"
  BY <1>1 DEF IInv, Fork, Asserted
<1>6. ASSUME NEW q \in Procs
      PROVE  PlaceOK(q)'
  BY <1>1, <1>3 DEF IInv, TypeOK, PlaceOK, Fork, WakeupProc, AfterCall, Users,
                    BeforeSwitch, AfterSwitch, TornDown
<1>7. ASSUME NEW q \in Procs
      PROVE  WordsOK(q)'
  BY <1>1, <1>3 DEF IInv, TypeOK, WordsOK, Fork, SetLinks, Users
<1> QED BY <1>2, <1>4, <1>5, <1>6, <1>7 DEF IInv

(* The calls and steps that only move the running process: failing calls,  *)
(* exec, exit, the start and the end of do_wait, the end of do_sleep and   *)
(* the rest of trap() after its checks.                                    *)
MoveStep(p) ==
  \/ ForkFails(p) \/ Exec(p) \/ Exit(p) \/ WaitWake(p) \/ SleepEnd(p) \/ Leave(p)
  \/ \E q \in Procs : WaitCall(p, q) \/ KillFails(p, q)
  \/ p = InitProc /\ InitLoop

LEMMA MoveHolds ==
  ASSUME IInv, NEW p \in Procs \ {Idle}, MoveStep(p)
  PROVE  IInv'
<1> USE DEF MoveStep
<1>1. current = p /\ pc[p] \in {"user", "kmain", "wait_wake", "sleep_del", "trapret"}
  BY DEF ForkFails, Exec, Exit, WaitCall, KillFails, WaitWake, SleepEnd, InitLoop, Leave,
         Calls, UserCalls, At
<1>2. pc[p] \notin BeforeSwitch \cup TornDown \cup {"unused"}
  BY <1>1 DEF BeforeSwitch, TornDown
<1>3. state[p] = "RUNNABLE" /\ waitState[p] = "NONE"
  BY <1>1, <1>2, RunnerAwake
<1>4. timer[p] > 0 => pc[p] = "sleep_del"
  BY <1>2 DEF IInv, PlaceOK, BeforeSwitch
<1> DEFINE places == {"user", "kmain", "sysret", "exit", "wait", "trapret"}
<1>5. \A l \in places : l \in PCs /\ l \notin TornDown \cup {"unused", "idle"}
  BY DEF PCs, TornDown
<1>6. /\ \E l \in places : Goto(p, l)
      /\ UNCHANGED <<schedVars, exiting, familyVars, halt>>
  BY <1>3 DEF ForkFails, Exec, Exit, WaitCall, KillFails, WaitWake, SleepEnd, InitLoop,
              Leave, Asserted, Return, AfterCall
<1>7. kthread' \in [Procs -> BOOLEAN] /\ wpid' \in [Procs -> Procs]
  BY DEF IInv, TypeOK, ForkFails, Exec, Exit, WaitCall, KillFails, WaitWake, SleepEnd,
         InitLoop, Leave
<1>8. timer' \in [Procs -> 0 .. MaxSleep] /\ ~(timer'[p] > 0)
      /\ \A q \in Procs \ {p} : timer'[q] = timer[q]
  <2>1. CASE SleepEnd(p)
    BY <2>1, ProcAssumption DEF SleepEnd, IInv, TypeOK
  <2>2. CASE ~SleepEnd(p)
    <3>1. timer' = timer
      BY <2>2 DEF ForkFails, Exec, Exit, WaitCall, KillFails, WaitWake, InitLoop, Leave
    <3>2. pc[p] # "sleep_del"
      BY <2>2, <1>1 DEF ForkFails, Exec, Exit, WaitCall, KillFails, WaitWake, InitLoop,
                        Leave, Calls, UserCalls, At
    <3> QED BY <3>1, <3>2, <1>4 DEF IInv, TypeOK
  <2> QED BY <2>1, <2>2
<1> QED BY <1>1, <1>2, <1>5, <1>6, <1>7, <1>8, MoveKeeps
(* The calls of schedule().                                                *)
LEMMA SwitchHolds ==
  ASSUME IInv, NEW p \in Procs,
         \/ p # Idle /\ (ExitSchedule(p) \/ WaitSchedule(p) \/ SleepSchedule(p))
         \/ p = Idle /\ IdleLoop
         \/ p = InitProc /\ InitYield
  PROVE  IInv'
<1> USE ProcAssumption
<1>1. CASE p # Idle /\ ExitSchedule(p)
  <2>1. current = p /\ state[p] = "ZOMBIE" /\ ~(timer[p] > 0)
    BY <1>1 DEF ExitSchedule, At, IInv, PlaceOK, TornDown
  <2> QED BY <1>1, <2>1, SwitchKeeps DEF ExitSchedule, At, PCs, TornDown, AfterSwitch
<1>2. CASE p # Idle /\ WaitSchedule(p)
  <2>1. current = p /\ state[p] \notin {"ZOMBIE", "UNUSED"} /\ ~(timer[p] > 0)
    BY <1>2 DEF WaitSchedule, At, IInv, PlaceOK, TornDown
  <2> QED BY <1>2, <2>1, SwitchKeeps DEF WaitSchedule, At, PCs, TornDown, AfterSwitch
<1>3. CASE p # Idle /\ SleepSchedule(p)
  <2>1. current = p /\ state[p] \notin {"ZOMBIE", "UNUSED"}
    BY <1>3 DEF SleepSchedule, At, IInv, PlaceOK, TornDown
  <2> QED BY <1>3, <2>1, SwitchKeeps DEF SleepSchedule, At, PCs, TornDown, AfterSwitch
<1>4. CASE p = Idle /\ IdleLoop
  <2>1. current = p /\ state[p] = "RUNNABLE" /\ ~(timer[p] > 0)
    BY <1>4 DEF IdleLoop, At, IInv, SchedInv, PlaceOK
  <2> QED BY <1>4, <2>1, SwitchKeeps DEF IdleLoop, PCs, TornDown
<1>5. CASE p = InitProc /\ InitYield
  <2>1. current = p /\ state[p] = "RUNNABLE" /\ ~(timer[p] > 0)
    BY <1>5, RunnerAwake DEF InitYield, At, IInv, PlaceOK, BeforeSwitch, TornDown
  <2> QED BY <1>5, <2>1, SwitchKeeps DEF InitYield, PCs, TornDown
<1> QED BY <1>1, <1>2, <1>3, <1>4, <1>5

(* The way back to user mode.                                              *)
LEMMA TrapReturnHolds ==
  ASSUME IInv, NEW p \in Procs \ {Idle}, TrapReturn(p)
  PROVE  IInv'
<1>1. /\ current = p /\ pc[p] \notin BeforeSwitch \cup TornDown \cup {"unused"}
      /\ ~(timer[p] > 0)
  BY DEF TrapReturn, At, BeforeSwitch, TornDown, IInv, PlaceOK
<1>2. state[p] = "RUNNABLE"
  BY <1>1, RunnerAwake
<1>3. {"user", "trapret", "exit"} \subseteq PCs \ (TornDown \cup {"unused", "idle"})
  BY DEF PCs, TornDown
<1>4. CASE ~exiting[p] /\ needResched[p]
  BY <1>1, <1>2, <1>3, <1>4, SwitchKeeps DEF TrapReturn
<1>5. CASE exiting[p] \/ ~needResched[p]
  <2>1. \E l \in {"user", "exit"} : Goto(p, l)
    BY <1>5 DEF TrapReturn
  <2>2. UNCHANGED <<schedVars, kthread, exiting, familyVars, wpid, timer, halt>>
    BY <1>5 DEF TrapReturn
  <2>3. /\ timer' \in [Procs -> 0 .. MaxSleep]
        /\ kthread' \in [Procs -> BOOLEAN] /\ wpid' \in [Procs -> Procs]
    BY <2>2 DEF IInv, TypeOK
  <2> QED BY <1>1, <1>3, <2>1, <2>2, <2>3, MoveKeeps
<1> QED BY <1>4, <1>5

(* -E_BAD_PROC: the caller returns, or init ends and the kernel stops.     *)
LEMMA WaitNoChildHolds ==
  ASSUME IInv, NEW p \in Procs \ {Idle}, WaitNoChild(p)
  PROVE  IInv'
<1>1. /\ current = p /\ pc[p] \notin BeforeSwitch \cup TornDown \cup {"unused"}
      /\ ~(timer[p] > 0)
  BY DEF WaitNoChild, At, BeforeSwitch, TornDown, IInv, PlaceOK
<1>2. /\ timer' \in [Procs -> 0 .. MaxSleep] /\ wpid' \in [Procs -> Procs]
      /\ kthread' \in [Procs -> BOOLEAN]
  BY SchedAssumption DEF WaitNoChild, IInv, TypeOK
<1>3. CASE p # InitProc
  <2>1. AfterCall(p) \in PCs \ (TornDown \cup {"unused", "idle"})
    BY DEF AfterCall, PCs, TornDown
  <2> QED BY <1>1, <1>2, <1>3, <2>1, MoveKeeps DEF WaitNoChild, Return
<1>4. CASE p = InitProc
  <2>1. UNCHANGED <<schedVars, pc, exiting, familyVars, timer>> /\ halt' = "done"
    BY <1>4 DEF WaitNoChild
  <2>2. TypeOK'
    BY <1>2, <2>1 DEF IInv, TypeOK, SchedTypeOK, schedVars, familyVars
  <2>3. SchedInv'
    BY <2>1 DEF IInv, SchedInv, SchedTypeOK, RunQueueExact, schedVars
  <2>4. \A q \in Procs : PlaceOK(q)' /\ WordsOK(q)'
    BY <2>1 DEF IInv, PlaceOK, WordsOK, schedVars, familyVars
  <2> QED BY <2>1, <2>2, <2>3, <2>4 DEF IInv
<1> QED BY <1>3, <1>4
(* do_wait and do_sleep put the caller to sleep.                           *)
LEMMA SleepHolds ==
  ASSUME IInv, NEW p \in Procs \ {Idle},
         WaitSleep(p) \/ \E t \in 1 .. MaxSleep : SleepCall(p, t)
  PROVE  IInv'
<1> DEFINE w == IF WaitSleep(p) THEN "WT_CHILD" ELSE "WT_TIMER"
           l == IF WaitSleep(p) THEN "wait_sched" ELSE "sleep_sched"
<1>1. /\ current = p /\ pc[p] \in {"wait", "user", "kmain"}
      /\ SetSleeping(w) /\ Goto(p, l)
      /\ UNCHANGED <<current, needResched, slice, rq>>
      /\ UNCHANGED <<kthread, exiting, familyVars, wpid, halt>>
  BY DEF WaitSleep, SleepCall, Calls, UserCalls, At
<1>2. w \in WaitStates /\ l \in PCs
  BY DEF WaitStates, PCs
<1>3. state[p] = "RUNNABLE"
  BY <1>1, RunnerAwake DEF BeforeSwitch, TornDown
<1>4. SchedInv'
  BY <1>1, <1>2, SetSleepingKeeps DEF IInv
<1>5. /\ timer' \in [Procs -> 0 .. MaxSleep]
      /\ timer'[p] > 0 => l = "sleep_sched"
      /\ \A q \in Procs \ {p} : timer'[q] = timer[q]
  <2>1. CASE WaitSleep(p)
    BY <1>1, <2>1 DEF IInv, TypeOK, PlaceOK, WaitSleep
  <2>2. CASE ~WaitSleep(p)
    BY <2>2, ProcAssumption DEF IInv, TypeOK, SleepCall
  <2> QED BY <2>1, <2>2
<1> HIDE DEF w, l
<1>6. TypeOK'
  BY <1>1, <1>2, <1>4, <1>5 DEF IInv, SchedInv, TypeOK, Goto, familyVars
<1>7. l \in BeforeSwitch /\ w \in {"WT_CHILD", "WT_TIMER"}
  BY DEF w, l, BeforeSwitch
<1>8. ASSUME NEW q \in Procs
      PROVE  PlaceOK(q)'
  BY <1>1, <1>3, <1>5, <1>7 DEF IInv, SchedInv, SchedTypeOK, TypeOK, PlaceOK, SetSleeping, Goto,
                                BeforeSwitch, AfterSwitch, TornDown
<1>9. ASSUME NEW q \in Procs
      PROVE  WordsOK(q)'
  BY <1>1, <1>3, <1>7 DEF IInv, SchedInv, SchedTypeOK, TypeOK, WordsOK, SetSleeping, familyVars
<1> QED BY <1>1, <1>4, <1>6, <1>8, <1>9 DEF IInv

(* do_yield only sets a flag.                                              *)
LEMMA YieldHolds ==
  ASSUME IInv, NEW p \in Procs \ {Idle}, Yield(p)
  PROVE  IInv'
<1>1. current = p /\ pc[p] = "user" /\ Goto(p, AfterCall(p))
  BY DEF Yield, UserCalls, At, Return
<1>2. /\ AfterCall(p) \in PCs \ (TornDown \cup {"unused", "idle"})
      /\ state[p] = "RUNNABLE" /\ ~(timer[p] > 0)
  BY <1>1, RunnerAwake DEF AfterCall, PCs, BeforeSwitch, TornDown, IInv, PlaceOK
<1>3. SchedInv'
  BY DEF IInv, SchedInv, SchedTypeOK, RunQueueExact, Yield
<1>4. TypeOK'
  BY <1>1, <1>2, <1>3 DEF IInv, SchedInv, TypeOK, Yield, Goto, familyVars
<1>5. ASSUME NEW q \in Procs
      PROVE  PlaceOK(q)'
  BY <1>1, <1>2 DEF IInv, TypeOK, PlaceOK, Yield, Goto, AfterSwitch, BeforeSwitch
<1>6. ASSUME NEW q \in Procs
      PROVE  WordsOK(q)'
  BY DEF IInv, WordsOK, Yield, familyVars
<1> QED BY <1>3, <1>4, <1>5, <1>6 DEF IInv, Yield

(* do_exit: the process becomes a zombie, or init's exit stops the kernel. *)
LEMMA ExitZombieHolds ==
  ASSUME IInv, NEW p \in Procs \ {Idle}, ExitZombie(p)
  PROVE  IInv'
<1>1. current = p /\ pc[p] = "exit"
  BY DEF ExitZombie, At
<1>2. state[p] = "RUNNABLE" /\ waitState[p] = "NONE" /\ ~(timer[p] > 0)
  BY <1>1, RunnerAwake DEF BeforeSwitch, TornDown, IInv, PlaceOK
<1>3. CASE p = InitProc
  <2>1. UNCHANGED <<schedVars, pc, kthread, exiting, familyVars, wpid, timer>> /\ halt' = "initexit"
    BY <1>3 DEF ExitZombie, schedVars
  <2>2. TypeOK'
    BY <2>1 DEF IInv, TypeOK, SchedTypeOK, schedVars, familyVars
  <2>3. SchedInv'
    BY <2>1 DEF IInv, SchedInv, SchedTypeOK, RunQueueExact, schedVars
  <2>4. \A q \in Procs : PlaceOK(q)' /\ WordsOK(q)'
    BY <2>1 DEF IInv, PlaceOK, WordsOK, schedVars, familyVars
  <2> QED BY <2>1, <2>2, <2>3, <2>4 DEF IInv
<1>4. CASE p # InitProc
  <2>1. /\ state' = [state EXCEPT ![p] = "ZOMBIE"] /\ Goto(p, "exit_wake")
        /\ UNCHANGED <<current, waitState, needResched, slice, rq>>
        /\ UNCHANGED <<kthread, exiting, familyVars, wpid, timer, halt>>
    BY <1>4 DEF ExitZombie
  <2>2. SchedInv'
    BY <1>1, <2>1, SchedAssumption DEF IInv, SchedInv, SchedTypeOK, RunQueueExact, States
  <2>3. TypeOK'
    BY <2>1, <2>2 DEF IInv, SchedInv, TypeOK, Goto, PCs, familyVars
  <2>4. ASSUME NEW q \in Procs
        PROVE  PlaceOK(q)'
    BY <1>1, <1>2, <2>1 DEF IInv, SchedInv, SchedTypeOK, TypeOK, PlaceOK, Goto, TornDown
  <2>5. ASSUME NEW q \in Procs
        PROVE  WordsOK(q)'
    BY <1>2, <2>1 DEF IInv, SchedInv, SchedTypeOK, WordsOK, familyVars
  <2> QED BY <2>1, <2>2, <2>3, <2>4, <2>5 DEF IInv
<1> QED BY <1>3, <1>4

(* The end of do_exit's loop.                                              *)
LEMMA ExitAdoptEndHolds ==
  ASSUME IInv, NEW p \in Procs \ {Idle}, ExitAdoptEnd(p)
  PROVE  IInv'
<1>1. /\ pc[p] = "exit_adopt" /\ Goto(p, "exit_sched")
      /\ UNCHANGED <<schedVars, kthread, exiting, familyVars, wpid, timer, halt>>
  BY DEF ExitAdoptEnd, At
<1>2. TypeOK'
  BY <1>1 DEF IInv, TypeOK, SchedTypeOK, Goto, PCs, schedVars, familyVars
<1>3. SchedInv'
  BY <1>1 DEF IInv, SchedInv, SchedTypeOK, RunQueueExact, schedVars
<1>4. ASSUME NEW q \in Procs
      PROVE  PlaceOK(q)'
  BY <1>1 DEF IInv, TypeOK, PlaceOK, Goto, schedVars, TornDown, BeforeSwitch, AfterSwitch
<1>5. ASSUME NEW q \in Procs
      PROVE  WordsOK(q)'
  BY <1>1 DEF IInv, WordsOK, schedVars, familyVars
<1> QED BY <1>1, <1>2, <1>3, <1>4, <1>5 DEF IInv
(* Who is waited for sleeps, so waking it is waking a sleeper: the         *)
(* assertion of wakeup_proc holds where do_exit and do_kill call it.       *)
LEMMA WaitersSleep ==
  ASSUME IInv, NEW q \in Procs, waitState[q] # "NONE"
  PROVE  state[q] = "SLEEPING"
  BY DEF IInv, WordsOK

(* What WakeWaiter does: it wakes a set of sleepers, or none.              *)
LEMMA WakeWaiterWakes ==
  ASSUME IInv, NEW q \in Procs, WakeWaiter(q)
  PROVE  /\ SchedInv' /\ UNCHANGED <<current, halt>>
         /\ \E W \in SUBSET Procs : /\ \A r \in W : state[r] \in {"SLEEPING", "RUNNABLE"}
                                    /\ MakeRunnable(W)
<1>1. CASE waitState[q] = "WT_CHILD"
  <2>1. state[q] = "SLEEPING"
    BY <1>1, WaitersSleep
  <2>2. WakeupProc(q) /\ halt' = halt
    BY <1>1, <2>1 DEF WakeWaiter, Asserted
  <2>3. SchedInv' /\ UNCHANGED current /\ MakeRunnable({q})
    BY <2>2, WakeupProcKeeps DEF IInv, WakeupProc
  <2> QED BY <2>1, <2>2, <2>3
<1>2. CASE waitState[q] # "WT_CHILD"
  <2>1. UNCHANGED <<schedVars, halt>>
    BY <1>2 DEF WakeWaiter
  <2>2. SchedInv' /\ UNCHANGED current /\ MakeRunnable({})
    BY <2>1, NobodyWoken DEF IInv
  <2> QED BY <2>1, <2>2
<1> QED BY <1>1, <1>2

(* do_exit tells the parent.                                               *)
LEMMA ExitWakeParentHolds ==
  ASSUME IInv, NEW p \in Procs \ {Idle}, ExitWakeParent(p)
  PROVE  IInv'
<1>1. /\ current = p /\ pc[p] = "exit_wake" /\ Goto(p, "exit_adopt") /\ WakeWaiter(parent[p])
      /\ UNCHANGED <<kthread, exiting, familyVars, wpid, timer>>
  BY DEF ExitWakeParent, At
<1>2. parent[p] \in Procs
  BY <1>1 DEF IInv, TypeOK, PlaceOK, WordsOK, TornDown
<1>3. PICK W \in SUBSET Procs : /\ \A r \in W : state[r] \in {"SLEEPING", "RUNNABLE"}
                                /\ MakeRunnable(W)
  BY <1>1, <1>2, WakeWaiterWakes
<1>4. SchedInv' /\ UNCHANGED <<current, halt>>
  BY <1>1, <1>2, WakeWaiterWakes
<1>5. /\ timer' \in [Procs -> 0 .. MaxSleep]
      /\ kthread' \in [Procs -> BOOLEAN] /\ exiting' \in [Procs -> BOOLEAN]
      /\ parent' \in [Procs -> Procs \cup {None}] /\ cptr' \in [Procs -> Procs \cup {None}]
      /\ yptr' \in [Procs -> Procs \cup {None}] /\ optr' \in [Procs -> Procs \cup {None}]
      /\ nrProcess' \in Int
  BY <1>1 DEF IInv, TypeOK, familyVars
<1>6. "exit_adopt" \in PCs /\ "exit_adopt" \in TornDown /\ "exit_wake" \in TornDown
  BY DEF PCs, TornDown
<1>7. WakeStep(W, "exit_adopt")
  BY <1>1, <1>3, <1>4, <1>5, <1>6 DEF WakeStep, familyVars
<1> QED BY <1>6, <1>7, WakeKeeps

(* One turn of do_exit's loop.                                             *)
LEMMA ExitAdoptHolds ==
  ASSUME IInv, NEW p \in Procs \ {Idle}, ExitAdopt(p)
  PROVE  IInv'
<1> USE ProcAssumption
<1>1. /\ current = p /\ pc[p] = "exit_adopt" /\ cptr[p] \in Procs /\ MoveChild(p, cptr[p])
      /\ UNCHANGED <<pc, kthread, exiting, wpid, timer>>
  BY DEF ExitAdopt, At, IInv, TypeOK
<1>2. PICK W \in SUBSET Procs : /\ \A r \in W : state[r] \in {"SLEEPING", "RUNNABLE"}
                                /\ MakeRunnable(W)
  <2>1. CASE state[cptr[p]] = "ZOMBIE"
    BY <2>1, WakeWaiterWakes DEF ExitAdopt
  <2>2. CASE state[cptr[p]] # "ZOMBIE"
    <3>1. MakeRunnable({})
      BY <2>2, NobodyWoken DEF ExitAdopt, IInv
    <3> QED BY <3>1
  <2> QED BY <2>1, <2>2
<1>3. SchedInv' /\ UNCHANGED <<current, halt>>
  <2>1. CASE state[cptr[p]] = "ZOMBIE"
    BY <2>1, WakeWaiterWakes DEF ExitAdopt
  <2>2. CASE state[cptr[p]] # "ZOMBIE"
    BY <2>2 DEF ExitAdopt, IInv, SchedInv, SchedTypeOK, RunQueueExact, schedVars
  <2> QED BY <2>1, <2>2
<1>4. /\ timer' \in [Procs -> 0 .. MaxSleep]
      /\ kthread' \in [Procs -> BOOLEAN] /\ exiting' \in [Procs -> BOOLEAN]
      /\ parent' \in [Procs -> Procs \cup {None}] /\ cptr' \in [Procs -> Procs \cup {None}]
      /\ yptr' \in [Procs -> Procs \cup {None}] /\ optr' \in [Procs -> Procs \cup {None}]
      /\ nrProcess' \in Int
  BY <1>1 DEF IInv, TypeOK, MoveChild
<1>5. \A q \in Procs : parent[q] # None => parent'[q] # None
  BY <1>1 DEF IInv, TypeOK, MoveChild
<1>6. Goto(current, pc[current]) /\ pc[current] \in PCs
  BY <1>1 DEF Goto, IInv, TypeOK
<1>7. WakeStep(W, pc[current])
  BY <1>1, <1>2, <1>3, <1>4, <1>5, <1>6 DEF WakeStep
<1> QED BY <1>6, <1>7, WakeKeeps

(* do_kill.                                                                *)
LEMMA KillHolds ==
  ASSUME IInv, NEW p \in Procs \ {Idle}, NEW q \in Procs, Kill(p, q)
  PROVE  IInv'
<1>1. /\ current = p /\ pc[p] = "user" /\ Goto(p, AfterCall(p)) /\ state[q] # "UNUSED"
      /\ exiting' = [exiting EXCEPT ![q] = TRUE]
      /\ UNCHANGED <<kthread, familyVars, wpid, timer>>
  BY DEF Kill, UserCalls, At, Return, FindProc
<1>2. AfterCall(p) \in PCs \ (TornDown \cup {"unused", "idle"})
  BY DEF AfterCall, PCs, TornDown
<1>3. PICK W \in SUBSET Procs : /\ \A r \in W : state[r] \in {"SLEEPING", "RUNNABLE"}
                                /\ MakeRunnable(W)
  <2>1. CASE Interrupted(waitState[q])
    <3>1. state[q] = "SLEEPING"
      BY <2>1, WaitersSleep DEF Interrupted
    <3> QED BY <2>1, <3>1 DEF Kill, WakeupProc
  <2>2. CASE ~Interrupted(waitState[q])
    <3>1. MakeRunnable({})
      BY <2>2, NobodyWoken DEF Kill, IInv
    <3> QED BY <3>1
  <2> QED BY <2>1, <2>2
<1>4. SchedInv' /\ UNCHANGED <<current, halt>>
  <2>1. CASE Interrupted(waitState[q])
    <3>1. state[q] = "SLEEPING"
      BY <2>1, WaitersSleep DEF Interrupted
    <3> QED BY <2>1, <3>1, WakeupProcKeeps DEF IInv, Kill, WakeupProc, Asserted
  <2>2. CASE ~Interrupted(waitState[q])
    BY <2>2 DEF Kill, IInv, SchedInv, SchedTypeOK, RunQueueExact, schedVars
  <2> QED BY <2>1, <2>2
<1>5. /\ timer' \in [Procs -> 0 .. MaxSleep]
      /\ kthread' \in [Procs -> BOOLEAN] /\ exiting' \in [Procs -> BOOLEAN]
      /\ parent' \in [Procs -> Procs \cup {None}] /\ cptr' \in [Procs -> Procs \cup {None}]
      /\ yptr' \in [Procs -> Procs \cup {None}] /\ optr' \in [Procs -> Procs \cup {None}]
      /\ nrProcess' \in Int
  BY <1>1 DEF IInv, TypeOK, familyVars
<1>6. \A r \in Procs : exiting'[r] => exiting[r] \/ state[r] # "UNUSED"
  BY <1>1 DEF IInv, TypeOK
<1>7. \A r \in Procs : parent[r] # None => parent'[r] # None
  BY <1>1 DEF familyVars
<1>8. WakeStep(W, AfterCall(p))
  BY <1>1, <1>2, <1>3, <1>4, <1>5, <1>6, <1>7 DEF WakeStep
<1> QED BY <1>2, <1>8, WakeKeeps
(* The clock interrupt: a timer that fires belongs to a process that       *)
(* sleeps in do_sleep, or that a kill has already woken there.             *)
LEMMA TickHolds ==
  ASSUME IInv, Tick
  PROVE  IInv'
<1> DEFINE l == IF pc[current] = "user" THEN "irqret" ELSE pc[current]
<1>1. SchedInv' /\ MakeRunnable(Fires) /\ UNCHANGED current
  BY RunTimersKeeps DEF IInv, Tick, RunTimers, Fires
<1>2. \A q \in Fires : state[q] \in {"SLEEPING", "RUNNABLE"} /\ state[q] # "ZOMBIE"
                       /\ (waitState[q] = "NONE" \/ Interrupted(waitState[q]))
  BY DEF IInv, TypeOK, SchedTypeOK, PlaceOK, WordsOK, Fires, States, WaitStates, Interrupted, TornDown
<1>3. halt' = halt
  BY <1>2 DEF Tick, Asserted
<1>4. /\ timer' \in [Procs -> 0 .. MaxSleep]
      /\ \A q \in Procs : timer'[q] > 0 => timer[q] > 0
  BY ProcAssumption DEF Tick, IInv, TypeOK
<1>5. /\ kthread' \in [Procs -> BOOLEAN] /\ exiting' \in [Procs -> BOOLEAN]
      /\ parent' \in [Procs -> Procs \cup {None}] /\ cptr' \in [Procs -> Procs \cup {None}]
      /\ yptr' \in [Procs -> Procs \cup {None}] /\ optr' \in [Procs -> Procs \cup {None}]
      /\ nrProcess' \in Int /\ wpid' = wpid
      /\ \A q \in Procs : parent'[q] = parent[q] /\ (exiting'[q] => exiting[q])
  BY DEF Tick, IInv, TypeOK, familyVars
<1>6. Goto(current, l) /\ l \in PCs
  BY DEF Tick, Goto, IInv, TypeOK, SchedTypeOK, PCs
<1>7. \/ l = pc[current]
      \/ l \notin TornDown \cup {"unused", "idle"} /\ pc[current] \in {"user", "kmain"}
  BY DEF TornDown
<1> HIDE DEF l
<1>8. WakeStep(Fires, l)
  BY <1>1, <1>2, <1>3, <1>4, <1>5, <1>6, <1>7 DEF WakeStep
<1> QED BY <1>6, <1>8, WakeKeeps DEF Fires

(* do_wait frees a zombie child.                                           *)
LEMMA ReapHolds ==
  ASSUME IInv, NEW p \in Procs \ {Idle}, NEW c \in Users, Reap(p, c)
  PROVE  IInv'
<1> USE SchedAssumption, ProcAssumption
<1> DEFINE l == IF p = InitProc THEN "init_yield" ELSE AfterCall(p)
<1>1. /\ current = p /\ pc[p] = "wait" /\ state[c] = "ZOMBIE"
      /\ state' = [state EXCEPT ![c] = "UNUSED"]
      /\ pc' = [pc EXCEPT ![c] = "unused", ![p] = l]
      /\ UNCHANGED <<current, waitState, rq, timer, halt>>
  BY DEF Reap, At, FoundZombie
<1>2. state[p] = "RUNNABLE" /\ waitState[p] = "NONE" /\ ~(timer[p] > 0)
  BY <1>1, RunnerAwake DEF BeforeSwitch, TornDown, IInv, PlaceOK
<1>3. c # p /\ c # Idle /\ c \in Procs /\ ~(timer[c] > 0) /\ waitState[c] = "NONE"
  BY <1>1, <1>2 DEF Users, IInv, PlaceOK, WordsOK, TornDown
<1>4. l \in {"init_yield", "kmain", "sysret"}
  BY DEF AfterCall
<1> HIDE DEF l
<1>5. SchedInv'
  BY <1>1, <1>3 DEF IInv, SchedInv, SchedTypeOK, RunQueueExact, States, Reap
<1>6. TypeOK'
  <2>1. pc' \in [Procs -> PCs] /\ timer' \in [Procs -> 0 .. MaxSleep]
        /\ halt' \in {"no", "done", "initexit", "assert"}
    BY <1>1, <1>4 DEF IInv, TypeOK, PCs
  <2>2. kthread' \in [Procs -> BOOLEAN] /\ exiting' \in [Procs -> BOOLEAN]
        /\ wpid' \in [Procs -> Procs]
    BY <1>3 DEF IInv, TypeOK, Reap
  <2>3. parent' \in [Procs -> Procs \cup {None}] /\ nrProcess' \in Int
    BY <1>3 DEF IInv, TypeOK, Reap, RemoveLinks
  <2>4. /\ optr[c] \in Procs \cup {None} /\ yptr[c] \in Procs \cup {None}
        /\ cptr \in [Procs -> Procs \cup {None}]
        /\ yptr \in [Procs -> Procs \cup {None}]
        /\ optr \in [Procs -> Procs \cup {None}]
    BY <1>3 DEF IInv, TypeOK
  <2>5. cptr' \in [Procs -> Procs \cup {None}]
    BY <2>4 DEF Reap, RemoveLinks
  <2>6. yptr' \in [Procs -> Procs \cup {None}]
    BY <2>4 DEF Reap, RemoveLinks
  <2>7. optr' \in [Procs -> Procs \cup {None}]
    BY <2>4 DEF Reap, RemoveLinks
  <2> QED BY <1>5, <2>1, <2>2, <2>3, <2>5, <2>6, <2>7 DEF SchedInv, TypeOK
<1>7. ASSUME NEW q \in Procs
      PROVE  PlaceOK(q)'
  BY <1>1, <1>2, <1>3, <1>4 DEF IInv, SchedInv, SchedTypeOK, TypeOK, PlaceOK,
                                BeforeSwitch, AfterSwitch, TornDown
<1>8. ASSUME NEW q \in Procs
      PROVE  WordsOK(q)'
  <2>1. CASE q = c
    BY <1>1, <1>3, <2>1 DEF IInv, SchedInv, SchedTypeOK, TypeOK, WordsOK, Reap
  <2>2. CASE q # c
    BY <1>1, <1>3, <2>2 DEF IInv, SchedInv, SchedTypeOK, TypeOK, WordsOK, Reap, RemoveLinks
  <2> QED BY <2>1, <2>2
<1> QED BY <1>1, <1>5, <1>6, <1>7, <1>8 DEF IInv

-----------------------------------------------------------------------------
(* The invariant is inductive.                                             *)
LEMMA NextHolds == IInv /\ [Next]_vars => IInv'
<1> SUFFICES ASSUME IInv, [Next]_vars PROVE IInv'
  OBVIOUS
<1>1. ASSUME NEW p \in Procs \ {Idle}, Call(p)
      PROVE  IInv'
  BY <1>1, ForkHolds, MoveHolds, KillHolds, YieldHolds, SleepHolds, ProcAssumption
     DEF Call, MoveStep
<1>2. ASSUME NEW p \in Procs \ {Idle}, Continue(p)
      PROVE  IInv'
  <2>1. CASE ExitZombie(p) \/ ExitWakeParent(p) \/ ExitAdopt(p) \/ ExitAdoptEnd(p)
    BY <2>1, ExitZombieHolds, ExitWakeParentHolds, ExitAdoptHolds, ExitAdoptEndHolds
  <2>2. CASE ExitSchedule(p) \/ WaitSchedule(p) \/ SleepSchedule(p)
    BY <2>2, SwitchHolds
  <2>3. CASE \E c \in Users : Reap(p, c)
    BY <2>3, ReapHolds
  <2>4. CASE WaitSleep(p)
    BY <2>4, SleepHolds
  <2>5. CASE WaitWake(p) \/ SleepEnd(p) \/ Leave(p)
    BY <2>5, MoveHolds DEF MoveStep
  <2>6. CASE WaitNoChild(p) \/ TrapReturn(p)
    BY <2>6, WaitNoChildHolds, TrapReturnHolds
  <2> QED BY <1>2, <2>1, <2>2, <2>3, <2>4, <2>5, <2>6 DEF Continue
<1>3. CASE IdleLoop
  BY <1>3, SwitchHolds, SchedAssumption
<1>4. CASE InitLoop
  BY <1>4, MoveHolds, ProcAssumption DEF MoveStep
<1>5. CASE InitYield
  BY <1>5, SwitchHolds, ProcAssumption
<1>6. CASE Tick
  BY <1>6, TickHolds
<1>7. CASE Halted \/ UNCHANGED vars
  <2> USE <1>7 DEF Halted, vars, schedVars, familyVars
  <2>1. TypeOK' /\ SchedInv'
    BY DEF IInv, TypeOK, SchedInv, SchedTypeOK, RunQueueExact
  <2>2. \A q \in Procs : PlaceOK(q)' /\ WordsOK(q)'
    BY DEF IInv, PlaceOK, WordsOK
  <2> QED BY <2>1, <2>2 DEF IInv
<1> QED BY <1>1, <1>2, <1>3, <1>4, <1>5, <1>6, <1>7 DEF Next

(* The invariant holds in every reachable state.                           *)
THEOREM Invariance == Spec => []IInv
  BY InitHolds, NextHolds, PTL DEF Spec

(* Every variable keeps its type; nr_process stays an integer, slices and  *)
(* timers stay in their ranges.                                            *)
THEOREM TypeCorrect == Spec => []TypeOK
<1>1. IInv => TypeOK
  BY DEF IInv
<1> QED BY <1>1, Invariance, PTL

(* The run queue holds exactly the runnable processes that do not run,     *)
(* each once, through every order of sleeps, wake-ups, kills and ticks.    *)
THEOREM RunQueueCorrect == Spec => []RunQueueExact
<1>1. IInv => RunQueueExact
  BY DEF IInv, SchedInv
<1> QED BY <1>1, Invariance, PTL

(* A process has a reason to wait exactly while it sleeps.                 *)
THEOREM WaitStateCorrect == Spec => []WaitStateConsistent
<1>1. IInv => WaitStateConsistent
  BY DEF IInv, WordsOK, WaitStateConsistent
<1> QED BY <1>1, Invariance, PTL

(* No assertion of wakeup_proc, do_fork or run_timer_list ever fails.      *)
THEOREM AssertionsHold == Spec => []NoAssertionFails
<1>1. IInv => NoAssertionFails
  BY DEF IInv, NoAssertionFails
<1> QED BY <1>1, Invariance, PTL
-----------------------------------------------------------------------------
(* No step takes a killed process past the check of trap(): a forked child *)
(* and a kernel thread that executes a program come there without it, but  *)
(* the child is not marked yet, and Leave begins behind the check.         *)
LEMMA StepStaysInKernel ==
  ASSUME IInv, Next, NEW r \in Procs, exiting[r], ~kthread[r], pc[r] \notin PastCheck
  PROVE  pc'[r] \notin PastCheck
<1> USE DEF PastCheck, IInv, TypeOK, Goto, Return, AfterCall, At, SwitchTo
<1>1. ASSUME NEW p \in Procs \ {Idle}, Call(p)
      PROVE  pc'[r] \notin PastCheck
  <2>1. CASE \E c \in Users : Fork(p, c)
    <3>1. PICK c \in Users : Fork(p, c)
      BY <2>1
    <3>2. r # c
      BY <3>1 DEF Fork, WordsOK
    <3> QED BY <3>1, <3>2 DEF Fork
  <2>2. CASE Exec(p)
    BY <2>2 DEF Exec
  <2>3. CASE ForkFails(p) \/ Exit(p) \/ Yield(p)
    BY <2>3 DEF ForkFails, Exit, Yield
  <2>4. CASE \E q \in Procs : WaitCall(p, q)
    BY <2>4 DEF WaitCall
  <2>5. CASE \E q \in KillTargets : Kill(p, q) \/ KillFails(p, q)
    BY <2>5 DEF Kill, KillFails
  <2>6. CASE \E t \in 1 .. MaxSleep : SleepCall(p, t)
    BY <2>6 DEF SleepCall
  <2> QED BY <1>1, <2>1, <2>2, <2>3, <2>4, <2>5, <2>6 DEF Call
<1>2. ASSUME NEW p \in Procs \ {Idle}, Continue(p)
      PROVE  pc'[r] \notin PastCheck
  <2>1. CASE ExitZombie(p) \/ ExitWakeParent(p) \/ ExitAdopt(p) \/ ExitAdoptEnd(p)
    BY <2>1 DEF ExitZombie, ExitWakeParent, ExitAdopt, ExitAdoptEnd
  <2>2. CASE ExitSchedule(p) \/ WaitSchedule(p) \/ SleepSchedule(p)
    BY <2>2 DEF ExitSchedule, WaitSchedule, SleepSchedule
  <2>3. CASE \E c \in Users : Reap(p, c)
    BY <2>3 DEF Reap
  <2>4. CASE WaitSleep(p) \/ WaitWake(p)
    BY <2>4 DEF WaitSleep, WaitWake
  <2>5. CASE SleepEnd(p)
    BY <2>5 DEF SleepEnd
  <2>6. CASE WaitNoChild(p)
    BY <2>6 DEF WaitNoChild
  <2>7. CASE TrapReturn(p)
    BY <2>7 DEF TrapReturn
  <2>8. CASE Leave(p)
    BY <2>8 DEF Leave
  <2> QED BY <1>2, <2>1, <2>2, <2>3, <2>4, <2>5, <2>6, <2>7, <2>8 DEF Continue
<1>3. CASE IdleLoop \/ InitLoop \/ InitYield
  BY <1>3 DEF IdleLoop, InitLoop, InitYield
<1>4. CASE Tick
  BY <1>4 DEF Tick
<1>5. CASE Halted
  BY <1>5 DEF Halted, vars
<1> QED BY <1>1, <1>2, <1>3, <1>4, <1>5 DEF Next

(* The check of PF_EXITING in trap() is passed by no process that is       *)
(* marked, wherever in the kernel it was when it was killed.               *)
THEOREM KillHoldsInKernel == Spec => KilledStaysInKernel
<1>1. IInv /\ [Next]_vars =>
        [\A p \in Procs : exiting[p] /\ ~kthread[p] /\ pc[p] \notin PastCheck
                            => pc'[p] \notin PastCheck]_vars
  BY StepStaysInKernel
<1> QED BY <1>1, Invariance, PTL DEF Spec, KilledStaysInKernel

-----------------------------------------------------------------------------
(* Walks along a list, as far as the model takes them.                     *)
Walk(o, a) ==
  LET at[n \in 0 .. MaxProcess] ==
        IF n = 0 THEN a
        ELSE IF at[n - 1] = None THEN None ELSE o[at[n - 1]]
  IN  at

(* The numbers are well founded: a set of them has a least one.            *)
LEMMA NumbersWellFounded ==
  \E R : IsWellFoundedOn(R, Nat) /\ \A k, m \in Nat : <<k, m>> \in R <=> k < m
<1>1. \A k, m \in Nat : <<k, m>> \in OpToRel(<, Nat) <=> k < m
  BY DEF OpToRel
<1> QED BY <1>1, NatLessThanWellFounded, Zenon

LEMMA Least ==
  ASSUME NEW T, T \subseteq Nat, T # {}
  PROVE  \E m \in T : \A k \in T : m <= k
<1>1. PICK R : IsWellFoundedOn(R, Nat) /\ \A k, m \in Nat : <<k, m>> \in R <=> k < m
  BY NumbersWellFounded
<1>2. IsWellFoundedOn(R, Nat)
  BY <1>1
<1>3. \E m \in T : \A k \in T : ~ (<<k, m>> \in R)
  BY <1>2, WFMin, Zenon
<1>4. PICK m \in T : \A k \in T : ~ (<<k, m>> \in R)
  BY <1>3
<1>5. ASSUME NEW k \in T PROVE m <= k
  <2>1. k \in Nat /\ m \in Nat
    OBVIOUS
  <2>2. ~(k < m)
    BY <1>1, <1>4, <2>1
  <2> QED BY <2>1, <2>2
<1> QED BY <1>5

(* The recursion defines a function: there is one that satisfies it.       *)
LEMMA WalkStep ==
  ASSUME NEW o, NEW a
  PROVE  Walk(o, a) = [n \in 0 .. MaxProcess |->
           IF n = 0 THEN a
           ELSE IF Walk(o, a)[n - 1] = None THEN None ELSE o[Walk(o, a)[n - 1]]]
<1> DEFINE Step(f, n) == IF n = 0 THEN a ELSE IF f[n - 1] = None THEN None ELSE o[f[n - 1]]
           Defined(m) == \E f : f = [n \in 0 .. m |-> Step(f, n)]
           T == {m \in Nat : ~Defined(m)}
<1>1. T = {}
  <2> SUFFICES ASSUME T # {} PROVE FALSE
    OBVIOUS
  <2>1. PICK m \in T : \A k \in T : m <= k
    BY Least
  <2>2. CASE m = 0
    <3> DEFINE g == [n \in 0 .. m |-> a]
    <3>1. g = [n \in 0 .. m |-> Step(g, n)]
      BY <2>2
    <3> QED BY <2>1, <3>1
  <2>3. CASE m # 0
    <3>1. m - 1 \in Nat /\ m - 1 \notin T
      BY <2>1, <2>3
    <3>2. PICK f : f = [n \in 0 .. m - 1 |-> Step(f, n)]
      BY <3>1
    <3> DEFINE g == [n \in 0 .. m |-> IF n < m THEN f[n] ELSE Step(f, m)]
    <3>3. ASSUME NEW n \in 0 .. m PROVE g[n] = Step(g, n)
      <4>1. CASE n < m
        <5>1. n \in 0 .. m - 1 /\ g[n] = f[n] /\ f[n] = Step(f, n)
          BY <3>1, <3>2, <4>1
        <5>2. n # 0 => n - 1 \in 0 .. m /\ n - 1 < m /\ g[n - 1] = f[n - 1]
          BY <3>1, <4>1
        <5> QED BY <5>1, <5>2
      <4>2. CASE ~(n < m)
        <5>1. n = m /\ n - 1 \in 0 .. m /\ n - 1 < m
          BY <3>1, <4>2, <2>3
        <5>2. g[n - 1] = f[n - 1] /\ g[n] = Step(f, n)
          BY <5>1
        <5> QED BY <5>2
      <4> QED BY <4>1, <4>2
    <3>4. g = [n \in 0 .. m |-> Step(g, n)]
      BY <3>3
    <3> QED BY <2>1, <3>4
  <2> QED BY <2>2, <2>3
<1>2. \E f : f = [n \in 0 .. MaxProcess |-> Step(f, n)]
  BY <1>1, ProcAssumption
<1> QED BY <1>2 DEF Walk

(* The values of a walk at its start and one step on.                      *)
LEMMA WalkValues ==
  ASSUME NEW o, NEW a
  PROVE  /\ Walk(o, a)[0] = a
         /\ \A n \in 1 .. MaxProcess :
              Walk(o, a)[n] = IF Walk(o, a)[n - 1] = None THEN None ELSE o[Walk(o, a)[n - 1]]
<1> DEFINE w == Walk(o, a)
<1>1. w = [n \in 0 .. MaxProcess |->
             IF n = 0 THEN a ELSE IF w[n - 1] = None THEN None ELSE o[w[n - 1]]]
  BY WalkStep
<1> HIDE DEF w
<1>2. w[0] = a /\ \A n \in 1 .. MaxProcess :
        w[n] = IF w[n - 1] = None THEN None ELSE o[w[n - 1]]
  BY <1>1, ProcAssumption
<1> QED BY <1>2 DEF w

(* A walk stays among processes that the links do not lead out of.         *)
LEMMA WalkStays ==
  ASSUME NEW o, NEW S, NEW a \in S \cup {None},
         \A c \in S : o[c] \in S \cup {None}
  PROVE  \A n \in 0 .. MaxProcess : Walk(o, a)[n] \in S \cup {None}
<1> DEFINE w == Walk(o, a)
           T == {n \in 0 .. MaxProcess : w[n] \notin S \cup {None}}
<1>1. w[0] = a /\ \A n \in 1 .. MaxProcess :
        w[n] = IF w[n - 1] = None THEN None ELSE o[w[n - 1]]
  BY WalkValues
<1> HIDE DEF w
<1>2. T = {}
  <2> SUFFICES ASSUME T # {} PROVE FALSE
    OBVIOUS
  <2>1. T \subseteq Nat
    OBVIOUS
  <2>2. PICK n \in T : \A k \in T : n <= k
    BY <2>1, Least
  <2>3. n # 0
    BY <1>1
  <2>4. n - 1 \in 0 .. MaxProcess /\ n - 1 \notin T
    BY <2>2, <2>3, ProcAssumption
  <2>5. w[n - 1] \in S \cup {None} /\ n \in 1 .. MaxProcess
    BY <2>3, <2>4
  <2> QED BY <1>1, <2>5
<1> QED BY <1>2 DEF w

(* Two walks that follow the same links are the same.                      *)
LEMMA WalkSame ==
  ASSUME NEW o, NEW p, NEW S, NEW a \in S \cup {None},
         \A c \in S : o[c] \in S \cup {None} /\ p[c] = o[c]
  PROVE  \A n \in 0 .. MaxProcess : Walk(p, a)[n] = Walk(o, a)[n]
<1> DEFINE v == Walk(o, a)
           w == Walk(p, a)
           T == {n \in 0 .. MaxProcess : w[n] # v[n]}
<1>1. /\ v[0] = a /\ w[0] = a
      /\ \A n \in 1 .. MaxProcess :
           /\ v[n] = IF v[n - 1] = None THEN None ELSE o[v[n - 1]]
           /\ w[n] = IF w[n - 1] = None THEN None ELSE p[w[n - 1]]
  BY WalkValues
<1>2. \A n \in 0 .. MaxProcess : v[n] \in S \cup {None}
  BY WalkStays
<1> HIDE DEF v, w
<1>3. T = {}
  <2> SUFFICES ASSUME T # {} PROVE FALSE
    OBVIOUS
  <2>1. T \subseteq Nat
    OBVIOUS
  <2>2. PICK n \in T : \A k \in T : n <= k
    BY <2>1, Least
  <2>3. n # 0
    BY <1>1
  <2>4. n - 1 \in 0 .. MaxProcess /\ n - 1 \notin T /\ n \in 1 .. MaxProcess
    BY <2>2, <2>3, ProcAssumption
  <2>5. w[n - 1] = v[n - 1] /\ v[n - 1] \in S \cup {None}
    BY <1>2, <2>4
  <2> QED BY <1>1, <2>4, <2>5
<1> QED BY <1>3 DEF v, w

(* A walk from a process in front of a list is that list, one step later.  *)
LEMMA WalkFront ==
  ASSUME NEW o, NEW p, NEW S, NEW a \in S \cup {None},
         \A c \in S : o[c] \in S \cup {None} /\ p[c] = o[c],
         NEW d, d # None, p[d] = a
  PROVE  \A n \in 1 .. MaxProcess : Walk(p, d)[n] = Walk(o, a)[n - 1]
<1> DEFINE v == Walk(o, a)
           w == Walk(p, d)
           T == {n \in 1 .. MaxProcess : w[n] # v[n - 1]}
<1>1. /\ v[0] = a /\ w[0] = d
      /\ \A n \in 1 .. MaxProcess :
           /\ v[n] = IF v[n - 1] = None THEN None ELSE o[v[n - 1]]
           /\ w[n] = IF w[n - 1] = None THEN None ELSE p[w[n - 1]]
  BY WalkValues
<1>2. \A n \in 0 .. MaxProcess : v[n] \in S \cup {None}
  BY WalkStays
<1> HIDE DEF v, w
<1>3. T = {}
  <2> SUFFICES ASSUME T # {} PROVE FALSE
    OBVIOUS
  <2>1. T \subseteq Nat
    OBVIOUS
  <2>2. PICK n \in T : \A k \in T : n <= k
    BY <2>1, Least
  <2>3. n # 1
    <3>1. w[1] = a
      <4>1. w[1] = IF w[1 - 1] = None THEN None ELSE p[w[1 - 1]]
        BY <1>1, ProcAssumption
      <4> QED BY <1>1, <4>1
    <3> QED BY <1>1, <3>1
  <2>4. n - 1 \in 1 .. MaxProcess /\ n - 1 \notin T
    BY <2>2, <2>3, ProcAssumption
  <2>5. w[n - 1] = v[(n - 1) - 1] /\ (n - 1) - 1 \in 0 .. MaxProcess
    BY <2>4, ProcAssumption
  <2>6. v[n - 1] = IF v[(n - 1) - 1] = None THEN None ELSE o[v[(n - 1) - 1]]
    BY <1>1, <2>4
  <2>7. v[(n - 1) - 1] \in S \cup {None}
    BY <1>2, <2>5
  <2> QED BY <1>1, <2>5, <2>6, <2>7
<1> QED BY <1>3 DEF v, w

-----------------------------------------------------------------------------
(* The links of the lists agree, all of a list have one parent, and nobody *)
(* points to the first of a list, but that in the middle of do_exit's loop *)
(* the first has an yptr from the time when it was not.                    *)
HeadsOK ==
  \A p \in Procs : cptr[p] # None =>
    /\ parent[cptr[p]] = p
    /\ yptr[cptr[p]] = None \/ Moving(cptr[p])
    /\ \A c \in Procs : optr[c] # cptr[p]

OlderOK ==
  \A c \in Procs : optr[c] # None =>
    parent[c] # None /\ parent[optr[c]] = parent[c] /\ yptr[optr[c]] = c

YoungerOK ==
  \A c \in Procs : yptr[c] # None =>
    \/ Moving(c)
    \/ parent[c] # None /\ parent[yptr[c]] = parent[c] /\ optr[yptr[c]] = c

(* Who has children: not a free slot, nor a process that has left the loop *)
(* of do_exit.  Who is in do_exit has the processor until it leaves it.    *)
ChildlessOK ==
  /\ \A c \in Procs : state[c] = "UNUSED" => parent[c] = None /\ cptr[c] = None
  /\ \A c \in Procs : pc[c] \in {"exit_sched", "dead"} => cptr[c] = None
  /\ \A c \in Procs : pc[c] \in {"exit_wake", "exit_adopt", "exit_sched"} => c = current
  /\ state[InitProc] \notin {"ZOMBIE", "UNUSED"}

(* Who sleeps in do_wait has no zombie among the children it waits for,    *)
(* but for one that is just exiting and has not yet looked at its parent.  *)
WaitOK ==
  \A p \in Procs : waitState[p] = "WT_CHILD" =>
    \A c \in WaitedFor(p) : state[c] = "ZOMBIE" => c = current /\ pc[c] = "exit_wake"

FInv == IInv /\ HeadsOK /\ OlderOK /\ YoungerOK /\ ChildlessOK /\ WaitOK

Kids(p) == {c \in Procs : parent[c] = p}

LEMMA ChildAtWalks == \A p : ChildAt(p) = Walk(optr, cptr[p])
  BY DEF ChildAt, Walk

(* The list of a process has children of it only.                          *)
LEMMA ListClosed ==
  ASSUME IInv, HeadsOK, OlderOK, NEW p \in Procs
  PROVE  /\ cptr[p] \in Kids(p) \cup {None}
         /\ \A c \in Kids(p) : optr[c] \in Kids(p) \cup {None}
  BY DEF IInv, TypeOK, HeadsOK, OlderOK, Kids

LEMMA ChildrenAreKids ==
  ASSUME IInv, HeadsOK, OlderOK, NEW p \in Procs
  PROVE  Children(p) \subseteq Kids(p)
<1>1. \A n \in 0 .. MaxProcess : Walk(optr, cptr[p])[n] \in Kids(p) \cup {None}
  BY ListClosed, WalkStays
<1> QED BY <1>1, ChildAtWalks DEF Children

LEMMA WaitedAreKids ==
  ASSUME IInv, HeadsOK, OlderOK, NEW p \in Procs
  PROVE  \A c \in WaitedFor(p) : c \in Procs /\ parent[c] = p
  BY ChildrenAreKids DEF WaitedFor, Kids, IInv, TypeOK

(* A process keeps its list if the links of its children stay.             *)
LEMMA ListKept ==
  ASSUME IInv, HeadsOK, OlderOK, NEW p \in Procs,
         cptr'[p] = cptr[p], \A c \in Kids(p) : optr'[c] = optr[c]
  PROVE  Children(p)' = Children(p)
<1>1. \A n \in 0 .. MaxProcess : Walk(optr', cptr[p])[n] = Walk(optr, cptr[p])[n]
  BY ListClosed, WalkSame
<1>2. ChildAt(p) = Walk(optr, cptr[p]) /\ ChildAt(p)' = Walk(optr', cptr'[p])
  BY DEF ChildAt, Walk
<1>3. \A n \in 0 .. MaxProcess : ChildAt(p)'[n] = ChildAt(p)[n]
  BY <1>1, <1>2
<1> QED BY <1>3 DEF Children

(* What a process waits for grows at most by the children it gets.         *)
LEMMA WaitedKept ==
  ASSUME IInv, HeadsOK, OlderOK, NEW p \in Procs, NEW X,
         Children(p)' \subseteq Children(p) \cup X,
         wpid'[p] = wpid[p],
         \A c \in Procs : FindProc(c)' /\ parent'[c] = p => c \in X \/ (FindProc(c) /\ parent[c] = p)
  PROVE  WaitedFor(p)' \subseteq WaitedFor(p) \cup X
<1>1. wpid[p] \in Procs
  BY DEF IInv, TypeOK
<1>2. CASE wpid[p] = Idle
  BY <1>2 DEF WaitedFor
<1>3. CASE wpid[p] # Idle
  BY <1>1, <1>3 DEF WaitedFor
<1> QED BY <1>2, <1>3

-----------------------------------------------------------------------------
LEMMA FamilyInit == Init => FInv
<1> SUFFICES ASSUME Init PROVE FInv
  OBVIOUS
<1> USE ProcAssumption, SchedAssumption
<1>1. IInv
  BY InitHolds
<1>2. HeadsOK /\ OlderOK /\ YoungerOK
  BY DEF Init, HeadsOK, OlderOK, YoungerOK
<1>3. ChildlessOK /\ WaitOK
  BY DEF Init, ChildlessOK, WaitOK
<1> QED BY <1>1, <1>2, <1>3 DEF FInv

(* A step that leaves the lists alone, frees nobody, makes no zombie and   *)
(* puts nobody to sleep in do_wait.                                        *)
Plain ==
  /\ UNCHANGED familyVars
  /\ \A c \in Procs :
       /\ state'[c] = "UNUSED" <=> state[c] = "UNUSED"
       /\ state'[c] = "ZOMBIE" <=> state[c] = "ZOMBIE"
       /\ waitState'[c] = "WT_CHILD" => waitState[c] = "WT_CHILD" /\ wpid'[c] = wpid[c]
       /\ pc'[c] \in {"exit_sched", "dead"} => cptr[c] = None
       /\ pc'[c] \in {"exit_wake", "exit_adopt", "exit_sched"} => c = current'
  /\ pc[current] = "exit_wake" => UNCHANGED <<current, pc>>
  /\ pc[current] = "exit_adopt" => UNCHANGED <<current, pc>> \/ cptr[current] = None

LEMMA PlainKeeps ==
  ASSUME FInv, IInv', Plain
  PROVE  FInv'
<1> USE DEF Plain, familyVars
<1>1. \A c \in Procs : Moving(c) => Moving(c)'
  BY ProcAssumption DEF Moving
<1>2. HeadsOK'
  BY <1>1 DEF FInv, IInv, TypeOK, HeadsOK
<1>3. OlderOK'
  BY DEF FInv, OlderOK
<1>4. YoungerOK'
  BY <1>1 DEF FInv, YoungerOK
<1>5. ChildlessOK'
  BY ProcAssumption DEF FInv, ChildlessOK
<1>6. WaitOK'
  <2> SUFFICES ASSUME NEW p \in Procs, (waitState[p] = "WT_CHILD")',
                      NEW c \in WaitedFor(p)', (state[c] = "ZOMBIE")'
               PROVE  (c = current /\ pc[c] = "exit_wake")'
    BY DEF WaitOK
  <2>1. waitState[p] = "WT_CHILD" /\ wpid'[p] = wpid[p]
    OBVIOUS
  <2>2. Children(p)' = Children(p)
    BY ListKept DEF FInv
  <2>3. c \in WaitedFor(p)
    <3>1. \A d \in Procs : FindProc(d)' /\ parent'[d] = p => FindProc(d) /\ parent[d] = p
      BY DEF FindProc
    <3>2. WaitedFor(p)' \subseteq WaitedFor(p) \cup {}
      BY <2>1, <2>2, <3>1, WaitedKept DEF FInv
    <3> QED BY <3>2
  <2>4. c \in Procs
    BY <2>3, WaitedAreKids DEF FInv
  <2>5. c = current /\ pc[c] = "exit_wake"
    BY <2>1, <2>3, <2>4 DEF FInv, WaitOK
  <2> QED BY <2>5
<1> QED BY <1>2, <1>3, <1>4, <1>5, <1>6 DEF FInv

(* The process that runs moves between places outside of do_exit.          *)
LEMMA MovePlain ==
  ASSUME FInv, NEW p \in Procs, current = p, pc[p] \notin TornDown, waitState[p] # "WT_CHILD",
         NEW l, l \notin TornDown, Goto(p, l),
         UNCHANGED <<current, state, familyVars>>,
         \A q \in Procs : waitState'[q] = "WT_CHILD" => waitState[q] = "WT_CHILD",
         \A q \in Procs \ {p} : wpid'[q] = wpid[q]
  PROVE  Plain
<1>1. \A q \in Procs : pc'[q] = IF q = p THEN l ELSE pc[q]
  BY DEF Goto, FInv, IInv, TypeOK
<1> QED BY <1>1 DEF Plain, FInv, ChildlessOK, TornDown

(* It gives the processor away.                                            *)
LEMMA SwitchPlain ==
  ASSUME FInv, NEW p \in Procs, current = p, pc[p] \notin {"exit_wake", "exit_adopt"},
         NEW l, l \notin TornDown \/ (l = "dead" /\ cptr[p] = None), SwitchTo(p, l),
         UNCHANGED <<familyVars, wpid>>
  PROVE  Plain
<1>1. UNCHANGED <<state, waitState>>
  BY ScheduleKeeps DEF SwitchTo, FInv, IInv
<1>2. \A q \in Procs : pc'[q] = IF q = p THEN l ELSE pc[q]
  BY DEF SwitchTo, Goto, FInv, IInv, TypeOK
<1> QED BY <1>1, <1>2 DEF Plain, FInv, ChildlessOK, TornDown

(* It wakes processes that are neither free nor zombies.                   *)
LEMMA WakePlain ==
  ASSUME FInv, NEW W, MakeRunnable(W), \A q \in W : state[q] \notin {"UNUSED", "ZOMBIE"},
         NEW l, Goto(current, l),
         \/ l = pc[current]
         \/ l \notin TornDown /\ pc[current] \notin TornDown,
         UNCHANGED <<current, familyVars, wpid>>
  PROVE  Plain
<1>1. \A q \in Procs : pc'[q] = IF q = current THEN l ELSE pc[q]
  BY DEF Goto, FInv, IInv, TypeOK
<1>2. \A q \in Procs : /\ state'[q] = "UNUSED" <=> state[q] = "UNUSED"
                       /\ state'[q] = "ZOMBIE" <=> state[q] = "ZOMBIE"
                       /\ waitState'[q] = "WT_CHILD" => waitState[q] = "WT_CHILD"
  BY DEF MakeRunnable, Woken
<1>3. l = pc[current] => pc' = pc
  BY DEF Goto, FInv, IInv, TypeOK
<1> QED BY <1>1, <1>2, <1>3 DEF Plain, FInv, ChildlessOK, TornDown

-----------------------------------------------------------------------------
(* The actions of this kind.                                               *)

LEMMA MoveFamily ==
  ASSUME FInv, IInv', NEW p \in Procs \ {Idle},
         \/ MoveStep(p)
         \/ p # InitProc /\ WaitNoChild(p)
         \/ Yield(p)
         \/ TrapReturn(p) /\ ~(~exiting[p] /\ needResched[p])
  PROVE  FInv'
<1>1. current = p /\ pc[p] \in {"user", "kmain", "wait_wake", "sleep_del", "wait", "sysret", "irqret",
                               "trapret"}
  BY DEF MoveStep, ForkFails, Exec, Exit, WaitCall, KillFails, WaitWake, SleepEnd, InitLoop, Leave,
         WaitNoChild, Yield, TrapReturn, Calls, UserCalls, At
<1>2. pc[p] \notin BeforeSwitch \cup TornDown \cup {"unused"}
  BY <1>1 DEF BeforeSwitch, TornDown
<1>3. waitState[p] # "WT_CHILD"
  BY <1>1, <1>2, RunnerAwake DEF FInv
<1> DEFINE places == {"user", "kmain", "sysret", "exit", "wait", "trapret"}
<1>4. \A l \in places : l \notin TornDown
  BY DEF TornDown
<1>5. CASE MoveStep(p)
  <2>1. /\ \E l \in places : Goto(p, l)
        /\ UNCHANGED <<schedVars, familyVars>>
    BY <1>5 DEF MoveStep, ForkFails, Exec, Exit, WaitCall, KillFails, WaitWake, SleepEnd, InitLoop,
                Leave, Return, AfterCall
  <2>2. \A q \in Procs \ {p} : wpid'[q] = wpid[q]
    BY <1>5 DEF MoveStep, ForkFails, Exec, Exit, WaitCall, KillFails, WaitWake, SleepEnd, InitLoop,
                Leave, FInv, IInv, TypeOK
  <2>3. UNCHANGED <<current, state, familyVars, waitState>>
    BY <2>1 DEF schedVars
  <2>4. Plain
    BY <1>1, <1>2, <1>3, <1>4, <2>1, <2>2, <2>3, MovePlain
  <2> QED BY <2>4, PlainKeeps
<1>6. CASE p # InitProc /\ WaitNoChild(p)
  <2>1. AfterCall(p) \in places
    BY DEF AfterCall
  <2>2. Goto(p, AfterCall(p)) /\ UNCHANGED <<current, state, familyVars, waitState>>
    BY <1>6 DEF WaitNoChild, Return, schedVars
  <2>3. \A q \in Procs \ {p} : wpid'[q] = wpid[q]
    BY <1>6 DEF WaitNoChild, FInv, IInv, TypeOK
  <2>4. Plain
    BY <1>1, <1>2, <1>3, <1>4, <2>1, <2>2, <2>3, MovePlain
  <2> QED BY <2>4, PlainKeeps
<1>7. CASE Yield(p)
  <2>1. AfterCall(p) \in places
    BY DEF AfterCall
  <2>2. Goto(p, AfterCall(p)) /\ UNCHANGED <<current, state, familyVars, waitState, wpid>>
    BY <1>7 DEF Yield, Return
  <2>3. Plain
    BY <1>1, <1>2, <1>3, <1>4, <2>1, <2>2, MovePlain
  <2> QED BY <2>3, PlainKeeps
<1>8. CASE TrapReturn(p) /\ ~(~exiting[p] /\ needResched[p])
  <2>1. /\ \E l \in places : Goto(p, l)
        /\ UNCHANGED <<schedVars, familyVars, wpid>>
    BY <1>8 DEF TrapReturn
  <2>2. UNCHANGED <<current, state, familyVars, waitState, wpid>>
    BY <2>1 DEF schedVars
  <2>3. Plain
    BY <1>1, <1>2, <1>3, <1>4, <2>1, <2>2, MovePlain
  <2> QED BY <2>3, PlainKeeps
<1> QED BY <1>5, <1>6, <1>7, <1>8

(* The calls of schedule().                                                *)
LEMMA SwitchFamily ==
  ASSUME FInv, IInv', NEW p \in Procs,
         \/ p # Idle /\ (ExitSchedule(p) \/ WaitSchedule(p) \/ SleepSchedule(p))
         \/ p # Idle /\ TrapReturn(p) /\ ~exiting[p] /\ needResched[p]
         \/ p = Idle /\ IdleLoop
         \/ p = InitProc /\ InitYield
  PROVE  FInv'
<1>1. /\ current = p
      /\ pc[p] \in {"exit_sched", "wait_sched", "sleep_sched", "sysret", "irqret", "idle", "init_yield"}
      /\ UNCHANGED <<familyVars, wpid>>
  BY DEF ExitSchedule, WaitSchedule, SleepSchedule, TrapReturn, IdleLoop, InitYield, At
<1>2. CASE ExitSchedule(p)
  <2>1. SwitchTo(p, "dead") /\ cptr[p] = None
    BY <1>2 DEF ExitSchedule, At, FInv, ChildlessOK
  <2>2. Plain
    BY <1>1, <2>1, SwitchPlain
  <2> QED BY <2>2, PlainKeeps
<1>3. CASE ~ExitSchedule(p)
  <2> DEFINE places == {"wait_wake", "sleep_del", "trapret", "idle", "wait"}
  <2>1. \E l \in places : SwitchTo(p, l)
    BY <1>3 DEF WaitSchedule, SleepSchedule, TrapReturn, IdleLoop, InitYield
  <2>2. \A l \in places : l \notin TornDown
    BY DEF TornDown
  <2>3. Plain
    BY <1>1, <2>1, <2>2, SwitchPlain
  <2> QED BY <2>3, PlainKeeps
<1> QED BY <1>2, <1>3

(* do_sleep puts the caller to sleep, not for a child.                     *)
LEMMA SleepFamily ==
  ASSUME FInv, IInv', NEW p \in Procs \ {Idle}, NEW t \in 1 .. MaxSleep, SleepCall(p, t)
  PROVE  FInv'
<1>1. current = p /\ pc[p] \in {"user", "kmain"}
  BY DEF SleepCall, Calls, UserCalls, At
<1>2. state[p] = "RUNNABLE"
  BY <1>1, RunnerAwake DEF FInv, BeforeSwitch, TornDown
<1>3. \A q \in Procs : /\ pc'[q] = IF q = p THEN "sleep_sched" ELSE pc[q]
                       /\ state'[q] = IF q = p THEN "SLEEPING" ELSE state[q]
                       /\ waitState'[q] = IF q = p THEN "WT_TIMER" ELSE waitState[q]
  BY <1>1 DEF SleepCall, SetSleeping, Goto, FInv, IInv, TypeOK, SchedTypeOK
<1>4. UNCHANGED <<current, familyVars, wpid>>
  BY DEF SleepCall
<1>5. Plain
  BY <1>1, <1>2, <1>3, <1>4 DEF Plain, FInv, ChildlessOK
<1> QED BY <1>5, PlainKeeps

(* A kill and a tick wake sleepers.                                        *)
LEMMA KillFamily ==
  ASSUME FInv, IInv', NEW p \in Procs \ {Idle}, NEW q \in Procs, Kill(p, q)
  PROVE  FInv'
<1>1. /\ current = p /\ pc[p] = "user" /\ Goto(p, AfterCall(p))
      /\ UNCHANGED <<familyVars, wpid>>
  BY DEF Kill, UserCalls, At, Return
<1>2. AfterCall(p) \notin TornDown /\ pc[p] \notin TornDown
  BY <1>1 DEF AfterCall, TornDown
<1>3. CASE Interrupted(waitState[q])
  <2>1. state[q] = "SLEEPING"
    BY <1>3, WaitersSleep DEF Interrupted, FInv
  <2>2. MakeRunnable({q}) /\ UNCHANGED current
    BY <1>3 DEF Kill, WakeupProc
  <2>3. Plain
    BY <1>1, <1>2, <2>1, <2>2, WakePlain
  <2> QED BY <2>3, PlainKeeps
<1>4. CASE ~Interrupted(waitState[q])
  <2>1. MakeRunnable({}) /\ UNCHANGED current
    BY <1>4, NobodyWoken DEF Kill, FInv, IInv
  <2>2. Plain
    BY <1>1, <1>2, <2>1, WakePlain
  <2> QED BY <2>2, PlainKeeps
<1> QED BY <1>3, <1>4

LEMMA TickFamily ==
  ASSUME FInv, IInv', Tick
  PROVE  FInv'
<1> DEFINE l == IF pc[current] = "user" THEN "irqret" ELSE pc[current]
<1>1. MakeRunnable(Fires) /\ UNCHANGED <<current, familyVars, wpid>>
  BY DEF Tick, RunTimers, Fires
<1>2. \A q \in Fires : state[q] \notin {"UNUSED", "ZOMBIE"}
  <2>1. \A q \in Fires : q \in Procs /\ timer[q] > 0
    BY DEF Fires
  <2> QED BY <2>1 DEF FInv, IInv, PlaceOK, TornDown
<1>3. Goto(current, l)
  BY DEF Tick, Goto, FInv, IInv, TypeOK, SchedTypeOK
<1>4. \/ l = pc[current]
      \/ l \notin TornDown /\ pc[current] \notin TornDown
  BY DEF TornDown
<1> HIDE DEF l
<1>5. Plain
  BY <1>1, <1>2, <1>3, <1>4, WakePlain
<1> QED BY <1>5, PlainKeeps

(* The end of do_exit's loop: no child is left.                            *)
LEMMA AdoptEndFamily ==
  ASSUME FInv, IInv', NEW p \in Procs \ {Idle}, ExitAdoptEnd(p)
  PROVE  FInv'
<1>1. /\ current = p /\ pc[p] = "exit_adopt" /\ cptr[p] = None
      /\ UNCHANGED <<schedVars, familyVars, wpid>>
  BY DEF ExitAdoptEnd, At
<1>2. \A q \in Procs : pc'[q] = IF q = p THEN "exit_sched" ELSE pc[q]
  BY DEF ExitAdoptEnd, Goto, FInv, IInv, TypeOK
<1>3. Plain
  BY <1>1, <1>2 DEF Plain, FInv, ChildlessOK, schedVars
<1> QED BY <1>3, PlainKeeps

(* The kernel stops, or nothing happens.                                   *)
LEMMA StopFamily ==
  ASSUME FInv, IInv', UNCHANGED <<schedVars, pc, familyVars>>, 
         \A q \in Procs : waitState[q] = "WT_CHILD" => wpid'[q] = wpid[q]
  PROVE  FInv'
<1>1. Plain
  BY DEF Plain, FInv, ChildlessOK, schedVars
<1> QED BY <1>1, PlainKeeps

-----------------------------------------------------------------------------
(* The actions that change the lists, the zombies or who waits.            *)

(* A zombie, or a process that has called do_wait, has no other wait.      *)
LEMMA RunnerDoesNotWait ==
  ASSUME FInv, NEW p \in Procs, current = p, pc[p] \notin BeforeSwitch
  PROVE  waitState[p] # "WT_CHILD"
  BY DEF FInv, IInv, PlaceOK, WordsOK, BeforeSwitch

(* Lists and waits stay: nobody waits for a zombie that was not there.     *)
LEMMA WaitStays ==
  ASSUME FInv, NEW p \in Procs, waitState[p] = "WT_CHILD",
         wpid'[p] = wpid[p], cptr'[p] = cptr[p], \A c \in Kids(p) : optr'[c] = optr[c],
         \A c \in Procs : parent'[c] = p => parent[c] = p,
         \A c \in Procs : state[c] = "UNUSED" => state'[c] = "UNUSED" \/ parent'[c] # p
  PROVE  /\ WaitedFor(p)' \subseteq WaitedFor(p)
         /\ \A c \in WaitedFor(p)' : /\ c \in Procs
                                     /\ parent[c] = p
                                     /\ state[c] = "ZOMBIE" => c = current /\ pc[c] = "exit_wake"
<1>1. Children(p)' = Children(p)
  BY ListKept DEF FInv
<1>2. \A c \in Procs : FindProc(c)' /\ parent'[c] = p => FindProc(c) /\ parent[c] = p
  BY DEF FindProc
<1>3. WaitedFor(p)' \subseteq WaitedFor(p) \cup {}
  BY <1>1, <1>2, WaitedKept DEF FInv
<1>4. WaitedFor(p)' \subseteq WaitedFor(p)
  BY <1>3
<1>5. \A c \in WaitedFor(p) : c \in Procs /\ parent[c] = p
  BY WaitedAreKids DEF FInv
<1> QED BY <1>4, <1>5 DEF FInv, WaitOK

LEMMA ForkFamily ==
  ASSUME FInv, IInv', NEW p \in Procs \ {Idle}, NEW c \in Users, Fork(p, c)
  PROVE  FInv'
<1> USE ProcAssumption
<1>1. current = p /\ pc[p] \in {"user", "kmain"} /\ state[c] = "UNUSED" /\ SetLinks(p, c)
  BY DEF Fork, UserCalls, At
<1>2. state[p] = "RUNNABLE" /\ waitState[p] = "NONE" /\ p # c /\ c \in Procs
  BY <1>1, RunnerAwake DEF FInv, BeforeSwitch, TornDown, Users
<1>3. \A q \in Procs : /\ state'[q] = IF q = c THEN "RUNNABLE" ELSE state[q]
                       /\ waitState'[q] = IF q = c THEN "NONE" ELSE waitState[q]
  BY <1>1 DEF Fork, WakeupProc, MakeRunnable, Woken
<1>4. /\ current' = p /\ pc'[p] \in {"kmain", "sysret"} /\ pc'[c] \in {"kmain", "trapret"}
      /\ wpid' = wpid /\ \A q \in Procs \ {p, c} : pc'[q] = pc[q]
  BY <1>1, <1>2 DEF Fork, WakeupProc, AfterCall, FInv, IInv, TypeOK
<1>5. \A q \in Procs : ~Moving(q) /\ ~Moving(q)'
  BY <1>1, <1>4 DEF Moving
<1>6. \A q \in Procs : /\ parent'[q] = IF q = c THEN p ELSE parent[q]
                       /\ optr'[q] = IF q = c THEN cptr[p] ELSE optr[q]
                       /\ yptr'[q] = IF q = c THEN None ELSE IF q = cptr[p] THEN c ELSE yptr[q]
                       /\ cptr'[q] = IF q = p THEN c ELSE cptr[q]
  BY <1>1, <1>2 DEF SetLinks, FInv, IInv, TypeOK
<1>7. /\ parent[c] = None /\ cptr[c] = None /\ cptr[p] # c /\ c # None
      /\ \A q \in Procs : optr[q] # c /\ yptr[q] # c /\ cptr[q] # c
  BY <1>1, <1>2, <1>5 DEF FInv, ChildlessOK, HeadsOK, OlderOK, YoungerOK
<1>8. \A q \in Procs : /\ cptr[q] \in Procs \cup {None} /\ optr[q] \in Procs \cup {None}
                       /\ yptr[q] \in Procs \cup {None}
  BY DEF FInv, IInv, TypeOK
<1>9. HeadsOK'
  <2> SUFFICES ASSUME NEW q \in Procs, cptr'[q] # None
               PROVE  /\ parent'[cptr'[q]] = q
                      /\ yptr'[cptr'[q]] = None
                      /\ \A x \in Procs : optr'[x] # cptr'[q]
    BY DEF HeadsOK
  <2>1. CASE q = p
    BY <2>1, <1>2, <1>6, <1>7
  <2>2. CASE q # p
    BY <2>2, <1>2, <1>5, <1>6, <1>7, <1>8 DEF FInv, HeadsOK
  <2> QED BY <2>1, <2>2
<1>10. OlderOK'
  <2> SUFFICES ASSUME NEW q \in Procs, optr'[q] # None
               PROVE  parent'[q] # None /\ parent'[optr'[q]] = parent'[q] /\ yptr'[optr'[q]] = q
    BY DEF OlderOK
  <2>1. CASE q = c
    BY <2>1, <1>2, <1>6, <1>7, <1>8 DEF FInv, HeadsOK
  <2>2. CASE q # c
    BY <2>2, <1>2, <1>6, <1>7, <1>8 DEF FInv, HeadsOK, OlderOK
  <2> QED BY <2>1, <2>2
<1>11. YoungerOK'
  <2> SUFFICES ASSUME NEW q \in Procs, yptr'[q] # None
               PROVE  parent'[q] # None /\ parent'[yptr'[q]] = parent'[q] /\ optr'[yptr'[q]] = q
    BY DEF YoungerOK
  <2>1. CASE q = cptr[p]
    BY <2>1, <1>2, <1>6, <1>7, <1>8 DEF FInv, HeadsOK
  <2>2. CASE q # cptr[p]
    BY <2>2, <1>2, <1>5, <1>6, <1>7, <1>8 DEF FInv, YoungerOK
  <2> QED BY <2>1, <2>2
<1>12. ChildlessOK'
  BY <1>1, <1>2, <1>3, <1>4, <1>6 DEF FInv, ChildlessOK, Users
<1>13. WaitOK'
  <2> SUFFICES ASSUME NEW q \in Procs, waitState'[q] = "WT_CHILD",
                      NEW x \in WaitedFor(q)', state'[x] = "ZOMBIE"
               PROVE  FALSE
    BY DEF WaitOK
  <2>1. q # p /\ q # c /\ waitState[q] = "WT_CHILD"
    BY <1>2, <1>3
  <2>2. x \in Procs /\ parent[x] = q /\ (state[x] = "ZOMBIE" => x = current /\ pc[x] = "exit_wake")
    BY <1>2, <1>4, <1>6, <1>7, <2>1, <1>3, WaitStays DEF Kids
  <2> QED BY <1>1, <1>3, <2>2
<1> QED BY <1>9, <1>10, <1>11, <1>12, <1>13 DEF FInv

(* do_exit makes a zombie that has yet to look at its parent.              *)
LEMMA ZombieFamily ==
  ASSUME FInv, IInv', NEW p \in Procs \ {Idle}, ExitZombie(p)
  PROVE  FInv'
<1>1. current = p /\ pc[p] = "exit" /\ UNCHANGED <<current, waitState, familyVars, wpid>>
  BY DEF ExitZombie, At
<1>2. CASE p = InitProc
  BY <1>2, StopFamily DEF ExitZombie, schedVars
<1>3. CASE p # InitProc
  <2> USE DEF familyVars
  <2>1. \A q \in Procs : /\ pc'[q] = IF q = p THEN "exit_wake" ELSE pc[q]
                         /\ state'[q] = IF q = p THEN "ZOMBIE" ELSE state[q]
    BY <1>3 DEF ExitZombie, Goto, FInv, IInv, TypeOK, SchedTypeOK
  <2>2. \A q : ~Moving(q) /\ ~Moving(q)'
    BY <1>1, <2>1 DEF Moving
  <2>3. HeadsOK' /\ OlderOK' /\ YoungerOK'
    BY <1>1, <2>2 DEF FInv, HeadsOK, OlderOK, YoungerOK
  <2>4. ChildlessOK'
    BY <1>1, <1>3, <2>1, ProcAssumption DEF FInv, ChildlessOK
  <2>5. WaitOK'
    <3> SUFFICES ASSUME NEW q \in Procs, waitState'[q] = "WT_CHILD",
                        NEW x \in WaitedFor(q)', state'[x] = "ZOMBIE"
                 PROVE  x = current' /\ pc'[x] = "exit_wake"
      BY DEF WaitOK
    <3>0. state[p] # "UNUSED"
      BY <1>1 DEF FInv, IInv, PlaceOK
    <3>1. x \in Procs /\ (state[x] = "ZOMBIE" => x = current /\ pc[x] = "exit_wake")
      BY <1>1, <2>1, <3>0, WaitStays
    <3> QED BY <1>1, <2>1, <3>1
  <2> QED BY <2>3, <2>4, <2>5 DEF FInv
<1> QED BY <1>2, <1>3

(* It looks at its parent: if that slept, it does no longer.               *)
LEMMA WakeParentFamily ==
  ASSUME FInv, IInv', NEW p \in Procs \ {Idle}, ExitWakeParent(p)
  PROVE  FInv'
<1> USE DEF familyVars
<1>1. /\ current = p /\ pc[p] = "exit_wake" /\ WakeWaiter(parent[p])
      /\ UNCHANGED <<familyVars, wpid>>
  BY DEF ExitWakeParent, At
<1>2. \A q \in Procs : pc'[q] = IF q = p THEN "exit_adopt" ELSE pc[q]
  BY DEF ExitWakeParent, Goto, FInv, IInv, TypeOK
<1>3. parent[p] \in Procs
  BY <1>1 DEF FInv, IInv, TypeOK, PlaceOK, WordsOK, TornDown
<1>4. /\ current' = current
      /\ \A q \in Procs : /\ state'[q] = "UNUSED" <=> state[q] = "UNUSED"
                          /\ state'[q] = "ZOMBIE" <=> state[q] = "ZOMBIE"
                          /\ waitState'[q] = "WT_CHILD" => waitState[q] = "WT_CHILD" /\ q # parent[p]
  <2>1. CASE waitState[parent[p]] = "WT_CHILD"
    <3>1. state[parent[p]] = "SLEEPING"
      BY <1>3, <2>1, WaitersSleep DEF FInv
    <3>2. WakeupProc(parent[p])
      BY <1>1, <2>1 DEF WakeWaiter
    <3> QED BY <1>3, <3>1, <3>2 DEF WakeupProc, MakeRunnable, Woken
  <2>2. CASE waitState[parent[p]] # "WT_CHILD"
    BY <1>1, <2>2 DEF WakeWaiter, schedVars
  <2> QED BY <2>1, <2>2
<1>5. \A q : ~Moving(q)
  BY <1>1 DEF Moving
<1>6. HeadsOK' /\ OlderOK' /\ YoungerOK'
  BY <1>1, <1>5 DEF FInv, HeadsOK, OlderOK, YoungerOK
<1>7. ChildlessOK'
  BY <1>1, <1>2, <1>4, ProcAssumption DEF FInv, ChildlessOK
<1>8. WaitOK'
  <2> SUFFICES ASSUME NEW q \in Procs, waitState'[q] = "WT_CHILD",
                      NEW x \in WaitedFor(q)', state'[x] = "ZOMBIE"
               PROVE  FALSE
    BY DEF WaitOK
  <2>1. waitState[q] = "WT_CHILD" /\ q # parent[p]
    BY <1>4
  <2>2. x \in Procs /\ parent[x] = q /\ (state[x] = "ZOMBIE" => x = current /\ pc[x] = "exit_wake")
    BY <1>1, <1>4, <2>1, WaitStays
  <2> QED BY <1>1, <1>4, <2>1, <2>2
<1> QED BY <1>6, <1>7, <1>8 DEF FInv

(* do_wait goes to sleep after it has looked at all it waits for.          *)
LEMMA WaitSleepFamily ==
  ASSUME FInv, IInv', NEW p \in Procs \ {Idle}, WaitSleep(p)
  PROVE  FInv'
<1> USE DEF familyVars
<1>1. current = p /\ pc[p] = "wait" /\ UNCHANGED <<current, familyVars, wpid>>
  BY DEF WaitSleep, At
<1>2. \A q \in Procs : /\ pc'[q] = IF q = p THEN "wait_sched" ELSE pc[q]
                       /\ state'[q] = IF q = p THEN "SLEEPING" ELSE state[q]
                       /\ waitState'[q] = IF q = p THEN "WT_CHILD" ELSE waitState[q]
  BY <1>1 DEF WaitSleep, SetSleeping, Goto, FInv, IInv, TypeOK, SchedTypeOK
<1>3. \A q : ~Moving(q) /\ ~Moving(q)'
  BY <1>1, <1>2 DEF Moving
<1>4. state[p] = "RUNNABLE"
  BY <1>1, RunnerAwake DEF FInv, BeforeSwitch, TornDown
<1>5. HeadsOK' /\ OlderOK' /\ YoungerOK'
  BY <1>1, <1>3 DEF FInv, HeadsOK, OlderOK, YoungerOK
<1>6. ChildlessOK'
  BY <1>1, <1>2, <1>4, ProcAssumption DEF FInv, ChildlessOK
<1>7. WaitOK'
  <2> SUFFICES ASSUME NEW q \in Procs, waitState'[q] = "WT_CHILD",
                      NEW x \in WaitedFor(q)', state'[x] = "ZOMBIE"
               PROVE  FALSE
    BY DEF WaitOK
  <2>1. CASE q = p
    <3>1. Children(p)' = Children(p)
      BY <1>1, ListKept DEF FInv
    <3>2. \A c \in Procs : FindProc(c)' /\ parent'[c] = p => FindProc(c) /\ parent[c] = p
      BY <1>1, <1>2, <1>4 DEF FindProc
    <3>3. WaitedFor(p)' \subseteq WaitedFor(p) \cup {}
      BY <1>1, <3>1, <3>2, WaitedKept DEF FInv
    <3>4. x \in WaitedFor(p) /\ x \in Procs
      BY <2>1, <3>3, WaitedAreKids DEF FInv
    <3>5. state[x] = "ZOMBIE"
      BY <1>2, <3>4
    <3> QED BY <3>4, <3>5 DEF WaitSleep, NoZombie
  <2>2. CASE q # p
    <3>1. waitState[q] = "WT_CHILD"
      BY <1>2, <2>2
    <3>2. x \in Procs /\ (state[x] = "ZOMBIE" => x = current /\ pc[x] = "exit_wake")
      BY <1>1, <1>2, <1>4, <3>1, WaitStays
    <3> QED BY <1>1, <1>2, <3>2
  <2> QED BY <2>1, <2>2
<1> QED BY <1>5, <1>6, <1>7 DEF FInv

(* The list of init after a child was put in front of it.                  *)
LEMMA AdoptedList ==
  ASSUME FInv, NEW c \in Procs, parent[c] # InitProc,
         cptr'[InitProc] = c, optr'[c] = cptr[InitProc],
         \A x \in Procs \ {c} : optr'[x] = optr[x]
  PROVE  Children(InitProc)' \subseteq Children(InitProc) \cup {c}
<1> USE ProcAssumption
<1> DEFINE h == cptr[InitProc]
           S == Kids(InitProc)
<1>1. h \in S \cup {None} /\ \A x \in S : optr[x] \in S \cup {None} /\ optr'[x] = optr[x]
  BY ListClosed DEF FInv, Kids
<1>2. \A n \in 1 .. MaxProcess : Walk(optr', c)[n] = Walk(optr, h)[n - 1]
  BY <1>1, WalkFront
<1>3. Walk(optr', c)[0] = c
  BY WalkValues
<1>4. ChildAt(InitProc)' = Walk(optr', c) /\ ChildAt(InitProc) = Walk(optr, h)
  BY DEF ChildAt, Walk
<1> HIDE DEF h, S
<1>5. \A n \in 0 .. MaxProcess : \/ ChildAt(InitProc)'[n] = c
                                 \/ \E m \in 0 .. MaxProcess : ChildAt(InitProc)'[n] = ChildAt(InitProc)[m]
  <2> TAKE n \in 0 .. MaxProcess
  <2>1. CASE n = 0
    BY <1>3, <1>4, <2>1
  <2>2. CASE n # 0
    <3>1. n \in 1 .. MaxProcess /\ n - 1 \in 0 .. MaxProcess
      BY <2>2
    <3> QED BY <1>2, <1>4, <3>1
  <2> QED BY <2>1, <2>2
<1> QED BY <1>5 DEF Children

(* One turn of do_exit's loop.                                             *)
LEMMA AdoptFamily ==
  ASSUME FInv, IInv', NEW p \in Procs \ {Idle}, ExitAdopt(p)
  PROVE  FInv'
<1> USE ProcAssumption
<1> DEFINE i == InitProc
           c == cptr[p]
           h == cptr[i]
           e == optr[c]
<1>1. /\ current = p /\ pc[p] = "exit_adopt" /\ c # None /\ MoveChild(p, c)
      /\ UNCHANGED <<pc, wpid>>
  BY DEF ExitAdopt, At
<1>2. /\ c \in Procs /\ i \in Procs
      /\ \A q \in Procs : /\ cptr[q] \in Procs \cup {None} /\ optr[q] \in Procs \cup {None}
                          /\ yptr[q] \in Procs \cup {None}
  BY <1>1 DEF FInv, IInv, TypeOK
<1>3. state[p] = "ZOMBIE" /\ p # i /\ parent[c] = p /\ c # h /\ (h # None => parent[h] = i)
  BY <1>1, <1>2 DEF FInv, IInv, PlaceOK, TornDown, ChildlessOK, HeadsOK
<1>4. \A q \in Procs : /\ parent'[q] = IF q = c THEN i ELSE parent[q]
                       /\ optr'[q] = IF q = c THEN h ELSE optr[q]
                       /\ yptr'[q] = IF q = h THEN c ELSE IF q = c THEN None ELSE yptr[q]
                       /\ cptr'[q] = IF q = i THEN c ELSE IF q = p THEN e ELSE cptr[q]
  BY <1>1, <1>2, <1>3 DEF MoveChild, FInv, IInv, TypeOK
<1>5. /\ current' = current
      /\ \A q \in Procs : /\ state'[q] = "UNUSED" <=> state[q] = "UNUSED"
                          /\ state'[q] = "ZOMBIE" <=> state[q] = "ZOMBIE"
                          /\ waitState'[q] = "WT_CHILD" =>
                               /\ waitState[q] = "WT_CHILD"
                               /\ q = i => state[c] # "ZOMBIE"
  <2>1. CASE state[c] = "ZOMBIE" /\ waitState[i] = "WT_CHILD"
    <3>1. state[i] = "SLEEPING" /\ WakeupProc(i)
      BY <1>2, <2>1, WaitersSleep DEF FInv, ExitAdopt, WakeWaiter
    <3> QED BY <2>1, <3>1 DEF WakeupProc, MakeRunnable, Woken
  <2>2. CASE ~(state[c] = "ZOMBIE" /\ waitState[i] = "WT_CHILD")
    BY <2>2 DEF ExitAdopt, WakeWaiter, schedVars
  <2> QED BY <2>1, <2>2
<1>6. \A q \in Procs : (Moving(q) <=> q = c) /\ (Moving(q)' <=> q = e)
  BY <1>1, <1>3, <1>4, <1>5 DEF Moving
<1>7. \A x \in Procs : optr[x] # c /\ (h # None => optr[x] # h)
  BY <1>1, <1>2 DEF FInv, HeadsOK
<1>8. e # None => parent[e] = p /\ yptr[e] = c /\ e # c /\ e # h
  BY <1>2, <1>3, <1>7 DEF FInv, OlderOK
<1> HIDE DEF c, h, e, i
<1>9. HeadsOK'
  <2> SUFFICES ASSUME NEW q \in Procs, cptr'[q] # None
               PROVE  /\ parent'[cptr'[q]] = q
                      /\ yptr'[cptr'[q]] = None \/ (pc'[current'] = "exit_adopt" /\ q = current')
                      /\ \A x \in Procs : optr'[x] # cptr'[q]
    BY DEF HeadsOK, Moving
  <2>1. CASE q = i
    BY <2>1, <1>2, <1>3, <1>4, <1>7
  <2>2. CASE q = p
    <3>1. cptr'[q] = e /\ e \in Procs
      BY <2>2, <1>2, <1>3, <1>4 DEF e
    <3>2. \A x \in Procs \ {c} : optr[x] # e
      BY <3>1, <1>1, <1>2, <1>8 DEF FInv, OlderOK
    <3> QED BY <2>2, <3>1, <3>2, <1>1, <1>2, <1>3, <1>4, <1>5, <1>8
  <2>3. CASE q # i /\ q # p
    <3> DEFINE d == cptr[q]
    <3>1. cptr'[q] = d /\ d \in Procs /\ parent[d] = q /\ d # c /\ d # h
      BY <2>3, <1>2, <1>3, <1>4 DEF FInv, HeadsOK
    <3>2. yptr[d] = None /\ \A x \in Procs : optr[x] # d
      BY <3>1, <1>6 DEF FInv, HeadsOK
    <3> HIDE DEF d
    <3> QED BY <3>1, <3>2, <1>4
  <2> QED BY <2>1, <2>2, <2>3
<1>10. OlderOK'
  <2> SUFFICES ASSUME NEW q \in Procs, optr'[q] # None
               PROVE  parent'[q] # None /\ parent'[optr'[q]] = parent'[q] /\ yptr'[optr'[q]] = q
    BY DEF OlderOK
  <2>1. CASE q = c
    BY <2>1, <1>2, <1>3, <1>4 DEF h
  <2>2. CASE q # c
    <3> DEFINE d == optr[q]
    <3>1. optr'[q] = d /\ d \in Procs /\ parent[q] # None /\ parent[d] = parent[q] /\ yptr[d] = q
      BY <2>2, <1>2, <1>4 DEF FInv, OlderOK
    <3>2. d # c /\ d # h
      BY <3>1, <1>2, <1>7
    <3> HIDE DEF d
    <3> QED BY <2>2, <3>1, <3>2, <1>4
  <2> QED BY <2>1, <2>2
<1>11. YoungerOK'
  <2> SUFFICES ASSUME NEW q \in Procs, yptr'[q] # None, q # e
               PROVE  parent'[q] # None /\ parent'[yptr'[q]] = parent'[q] /\ optr'[yptr'[q]] = q
    BY <1>6 DEF YoungerOK
  <2>1. CASE q = h
    BY <2>1, <1>2, <1>3, <1>4
  <2>2. CASE q # h
    <3> DEFINE d == yptr[q]
    <3>1. yptr'[q] = d /\ d \in Procs /\ q # c
      BY <2>2, <1>2, <1>4
    <3>2. parent[q] # None /\ parent[d] = parent[q] /\ optr[d] = q
      BY <3>1, <1>6 DEF FInv, YoungerOK
    <3>3. d # c
      BY <3>2 DEF e
    <3> HIDE DEF d
    <3> QED BY <3>1, <3>2, <3>3, <1>4
  <2> QED BY <2>1, <2>2
<1>12. ChildlessOK'
  <2>1. state[c] # "UNUSED" /\ pc[i] \notin {"exit_sched", "dead"} /\ pc[p] \notin {"exit_sched", "dead"}
    BY <1>1, <1>2, <1>3 DEF FInv, IInv, ChildlessOK, PlaceOK, TornDown, i
  <2> QED BY <1>1, <1>2, <1>3, <1>4, <1>5, <2>1 DEF FInv, ChildlessOK, i
<1>13. WaitOK'
  <2> SUFFICES ASSUME NEW q \in Procs, waitState'[q] = "WT_CHILD",
                      NEW x \in WaitedFor(q)', state'[x] = "ZOMBIE"
               PROVE  FALSE
    BY DEF WaitOK
  <2>1. waitState[q] = "WT_CHILD" /\ q # p /\ wpid'[q] = wpid[q]
    BY <1>1, <1>5, RunnerDoesNotWait DEF BeforeSwitch
  <2>2. CASE q = i
    <3>1. \A d \in Procs : FindProc(d)' /\ parent'[d] = i => d \in {c} \/ (FindProc(d) /\ parent[d] = i)
      BY <1>4, <1>5 DEF FindProc
    <3>2. cptr'[InitProc] = c /\ optr'[c] = cptr[InitProc] /\ parent[c] # InitProc
          /\ \A d \in Procs \ {c} : optr'[d] = optr[d]
      BY <1>2, <1>3, <1>4 DEF i, h
    <3>3. Children(i)' \subseteq Children(i) \cup {c}
      BY <1>2, <3>2, AdoptedList DEF i
    <3>4. WaitedFor(i)' \subseteq WaitedFor(i) \cup {c}
      BY <1>2, <2>1, <2>2, <3>1, <3>3, WaitedKept DEF FInv
    <3>5. x = c \/ x \in WaitedFor(i)
      BY <2>2, <3>4
    <3>6. state[c] # "ZOMBIE"
      BY <1>5, <2>2
    <3>7. \A y \in WaitedFor(i) : y \in Procs
      BY <1>2, WaitedAreKids DEF FInv
    <3>8. x \in WaitedFor(i) /\ x \in Procs /\ state[x] = "ZOMBIE"
      BY <1>2, <1>5, <3>5, <3>6, <3>7
    <3> QED BY <1>1, <1>2, <2>1, <2>2, <3>8 DEF FInv, WaitOK
  <2>3. CASE q # i
    <3>1. cptr'[q] = cptr[q] /\ (\A d \in Kids(q) : optr'[d] = optr[d])
          /\ (\A d \in Procs : parent'[d] = q => parent[d] = q)
      BY <1>3, <1>4, <2>1, <2>3 DEF Kids
    <3>2. x \in Procs /\ (state[x] = "ZOMBIE" => x = current /\ pc[x] = "exit_wake")
      BY <1>5, <2>1, <3>1, WaitStays
    <3> QED BY <1>1, <1>5, <3>2
  <2> QED BY <2>2, <2>3
<1> QED BY <1>9, <1>10, <1>11, <1>12, <1>13 DEF FInv

(* do_wait frees a zombie.                                                 *)
LEMMA ReapFamily ==
  ASSUME FInv, IInv', NEW p \in Procs \ {Idle}, NEW c \in Users, Reap(p, c)
  PROVE  FInv'
<1> USE ProcAssumption
<1> DEFINE o == optr[c]
           y == yptr[c]
<1>1. /\ current = p /\ pc[p] = "wait" /\ state[c] = "ZOMBIE" /\ RemoveLinks(c)
      /\ UNCHANGED <<current, waitState>>
  BY DEF Reap, At, FoundZombie
<1>2. /\ c \in Procs /\ parent[c] = p /\ c # p /\ c # InitProc
      /\ state[p] = "RUNNABLE"
  BY <1>1, RunnerAwake, WaitedAreKids DEF Reap, FoundZombie, Users, FInv, BeforeSwitch, TornDown
<1>3. \A q \in Procs : /\ cptr[q] \in Procs \cup {None} /\ optr[q] \in Procs \cup {None}
                       /\ yptr[q] \in Procs \cup {None}
  BY DEF FInv, IInv, TypeOK
<1>4. \A q \in Procs : /\ parent'[q] = IF q = c THEN None ELSE parent[q]
                       /\ optr'[q] = IF q = c THEN None ELSE IF q = y THEN o ELSE optr[q]
                       /\ yptr'[q] = IF q = c THEN None ELSE IF q = o THEN y ELSE yptr[q]
                       /\ cptr'[q] = IF y = None /\ q = p THEN o ELSE cptr[q]
  BY <1>1, <1>2 DEF RemoveLinks, FInv, IInv, TypeOK
<1>5. /\ \A q \in Procs : state'[q] = IF q = c THEN "UNUSED" ELSE state[q]
      /\ \A q \in Procs \ {p, c} : pc'[q] = pc[q] /\ wpid'[q] = wpid[q]
      /\ pc'[c] = "unused" /\ pc'[p] \in {"init_yield", "kmain", "sysret"}
  BY <1>1, <1>2 DEF Reap, AfterCall, FInv, IInv, TypeOK, SchedTypeOK
<1>6. \A q : ~Moving(q) /\ ~Moving(q)'
  BY <1>1, <1>5 DEF Moving
<1>7. cptr[c] = None
  <2>1. pc[c] = "dead"
    BY <1>1, <1>2 DEF FInv, IInv, PlaceOK, ChildlessOK, TornDown
  <2> QED BY <1>2, <2>1 DEF FInv, ChildlessOK
<1>8. o # None => parent[o] = p /\ yptr[o] = c /\ (o = c <=> y = c)
  BY <1>2, <1>3, <1>6 DEF FInv, OlderOK, YoungerOK
<1>9. y # None => parent[y] = p /\ optr[y] = c /\ (o = c <=> y = c)
  BY <1>2, <1>3, <1>6 DEF FInv, OlderOK, YoungerOK
<1> HIDE DEF o, y
<1>10. HeadsOK'
  <2> SUFFICES ASSUME NEW q \in Procs, cptr'[q] # None
               PROVE  /\ parent'[cptr'[q]] = q
                      /\ yptr'[cptr'[q]] = None
                      /\ \A x \in Procs : optr'[x] # cptr'[q]
    BY DEF HeadsOK
  <2>1. CASE y = None /\ q = p
    <3>1. cptr'[q] = o /\ o \in Procs /\ o # c
      BY <2>1, <1>2, <1>3, <1>4, <1>8 DEF o
    <3>2. \A x \in Procs \ {c} : optr[x] # o
      BY <3>1, <1>3, <1>8 DEF FInv, OlderOK
    <3> QED BY <2>1, <3>1, <3>2, <1>2, <1>4, <1>8
  <2>2. CASE ~(y = None /\ q = p)
    <3> DEFINE d == cptr[q]
    <3>1. cptr'[q] = d /\ d \in Procs
      BY <2>2, <1>3, <1>4
    <3>2. parent[d] = q /\ yptr[d] = None /\ \A x \in Procs : optr[x] # d
      BY <3>1, <1>6 DEF FInv, HeadsOK
    <3>3. d # c /\ d # o
      BY <2>2, <3>1, <3>2, <1>2, <1>3 DEF o, y
    <3> HIDE DEF d
    <3> QED BY <3>1, <3>2, <3>3, <1>4
  <2> QED BY <2>1, <2>2
<1>11. OlderOK'
  <2> SUFFICES ASSUME NEW q \in Procs, optr'[q] # None
               PROVE  parent'[q] # None /\ parent'[optr'[q]] = parent'[q] /\ yptr'[optr'[q]] = q
    BY DEF OlderOK
  <2>1. CASE q = y /\ q # c
    <3>1. optr'[q] = o /\ o # None /\ o \in Procs /\ y # None
      BY <2>1, <1>2, <1>3, <1>4 DEF o
    <3> QED BY <2>1, <3>1, <1>2, <1>4, <1>8, <1>9
  <2>2. CASE q # y /\ q # c
    <3> DEFINE d == optr[q]
    <3>1. optr'[q] = d /\ d \in Procs /\ parent[q] # None /\ parent[d] = parent[q] /\ yptr[d] = q
      BY <2>2, <1>3, <1>4 DEF FInv, OlderOK
    <3>2. d # c /\ d # o
      BY <2>2, <3>1, <1>8 DEF y
    <3> HIDE DEF d
    <3> QED BY <2>2, <3>1, <3>2, <1>4
  <2> QED BY <2>1, <2>2, <1>4
<1>12. YoungerOK'
  <2> SUFFICES ASSUME NEW q \in Procs, yptr'[q] # None
               PROVE  parent'[q] # None /\ parent'[yptr'[q]] = parent'[q] /\ optr'[yptr'[q]] = q
    BY DEF YoungerOK
  <2>1. CASE q = o /\ q # c
    <3>1. yptr'[q] = y /\ y # None /\ y \in Procs
      BY <2>1, <1>2, <1>3, <1>4 DEF y
    <3> QED BY <2>1, <3>1, <1>2, <1>4, <1>8, <1>9
  <2>2. CASE q # o /\ q # c
    <3> DEFINE d == yptr[q]
    <3>1. yptr'[q] = d /\ d \in Procs /\ d # None
      BY <2>2, <1>3, <1>4
    <3>2. parent[q] # None /\ parent[d] = parent[q] /\ optr[d] = q
      BY <3>1, <1>6 DEF FInv, YoungerOK
    <3>3. d # c /\ d # y
      BY <2>2, <3>1, <3>2, <1>9 DEF o
    <3> HIDE DEF d
    <3> QED BY <2>2, <3>1, <3>2, <3>3, <1>4
  <2> QED BY <2>1, <2>2, <1>4
<1>13. ChildlessOK'
  BY <1>1, <1>2, <1>4, <1>5, <1>7 DEF FInv, ChildlessOK
<1>14. WaitOK'
  <2> SUFFICES ASSUME NEW q \in Procs, waitState'[q] = "WT_CHILD",
                      NEW x \in WaitedFor(q)', state'[x] = "ZOMBIE"
               PROVE  FALSE
    BY DEF WaitOK
  <2>1. waitState[q] = "WT_CHILD" /\ q # p
    BY <1>1, RunnerDoesNotWait DEF BeforeSwitch
  <2>2. q # c
    BY <1>1, <1>2, <2>1, WaitersSleep DEF FInv
  <2>3. cptr'[q] = cptr[q] /\ (\A d \in Kids(q) : optr'[d] = optr[d])
        /\ (\A d \in Procs : parent'[d] = q => parent[d] = q) /\ wpid'[q] = wpid[q]
    BY <1>2, <1>3, <1>4, <1>5, <1>9, <2>1, <2>2 DEF Kids
  <2>4. x \in Procs /\ (state[x] = "ZOMBIE" => x = current /\ pc[x] = "exit_wake")
    BY <1>5, <2>1, <2>3, WaitStays
  <2> QED BY <1>1, <1>5, <2>4
<1> QED BY <1>10, <1>11, <1>12, <1>13, <1>14 DEF FInv

-----------------------------------------------------------------------------
(* The invariant is inductive.                                             *)
LEMMA FamilyNext == FInv /\ [Next]_vars => FInv'
<1> SUFFICES ASSUME FInv, [Next]_vars PROVE FInv'
  OBVIOUS
<1>1. IInv'
  BY NextHolds DEF FInv
<1>2. ASSUME NEW p \in Procs \ {Idle}, Call(p)
      PROVE  FInv'
  BY <1>1, <1>2, ForkFamily, MoveFamily, KillFamily, SleepFamily, ProcAssumption
     DEF Call, MoveStep
<1>3. ASSUME NEW p \in Procs \ {Idle}, Continue(p)
      PROVE  FInv'
  <2>1. CASE ExitZombie(p) \/ ExitWakeParent(p) \/ ExitAdopt(p) \/ ExitAdoptEnd(p)
    BY <1>1, <2>1, ZombieFamily, WakeParentFamily, AdoptFamily, AdoptEndFamily
  <2>2. CASE ExitSchedule(p) \/ WaitSchedule(p) \/ SleepSchedule(p)
    BY <1>1, <2>2, SwitchFamily
  <2>3. CASE \E c \in Users : Reap(p, c)
    BY <1>1, <2>3, ReapFamily
  <2>4. CASE WaitSleep(p)
    BY <1>1, <2>4, WaitSleepFamily
  <2>5. CASE WaitWake(p) \/ SleepEnd(p) \/ Leave(p)
    BY <1>1, <2>5, MoveFamily DEF MoveStep
  <2>6. CASE TrapReturn(p)
    BY <1>1, <2>6, MoveFamily, SwitchFamily
  <2>7. CASE WaitNoChild(p)
    <3>1. CASE p = InitProc
      <4>1. current = p /\ pc[p] = "wait" /\ UNCHANGED <<schedVars, pc, familyVars>>
        BY <2>7, <3>1 DEF WaitNoChild, At
      <4>2. waitState[p] # "WT_CHILD"
        BY <4>1, RunnerDoesNotWait DEF BeforeSwitch
      <4>3. \A q \in Procs : waitState[q] = "WT_CHILD" => wpid'[q] = wpid[q]
        BY <2>7, <4>2 DEF WaitNoChild, FInv, IInv, TypeOK
      <4> QED BY <1>1, <4>1, <4>3, StopFamily
    <3>2. CASE p # InitProc
      BY <1>1, <2>7, <3>2, MoveFamily
    <3> QED BY <3>1, <3>2
  <2> QED BY <1>3, <2>1, <2>2, <2>3, <2>4, <2>5, <2>6, <2>7 DEF Continue
<1>4. CASE IdleLoop
  BY <1>1, <1>4, SwitchFamily, SchedAssumption
<1>5. CASE InitLoop
  BY <1>1, <1>5, MoveFamily, ProcAssumption DEF MoveStep
<1>6. CASE InitYield
  BY <1>1, <1>6, SwitchFamily, ProcAssumption
<1>7. CASE Tick
  BY <1>1, <1>7, TickFamily
<1>8. CASE Halted \/ UNCHANGED vars
  <2>1. UNCHANGED <<schedVars, pc, familyVars, wpid>>
    BY <1>8 DEF Halted, vars
  <2> QED BY <1>1, <2>1, StopFamily
<1> QED BY <1>2, <1>3, <1>4, <1>5, <1>6, <1>7, <1>8 DEF Next

-----------------------------------------------------------------------------
(* The lists hold all children.  Each child has a place in the list of its *)
(* parent: the first is cptr, the next is found along optr.  Processes are *)
(* younger than their parents.  And init only ever waits for any child.    *)
Alive == {p \in Procs : state[p] # "UNUSED"}

Listed(pos, pa, op, cp) ==
  \A c \in Procs : pa[c] # None =>
    /\ pos[c] = 0 => cp[pa[c]] = c
    /\ pos[c] # 0 => \E y \in Procs : op[y] = c /\ pa[y] = pa[c] /\ pos[c] = pos[y] + 1

Younger(age, pa) ==
  /\ age[Idle] = 0 /\ age[InitProc] = 1
  /\ \A c \in Users : age[c] > 1
  /\ \A c \in Procs : pa[c] # None => age[pa[c]] < age[c]

CountOK ==
  /\ IsFiniteSet(Alive) /\ nrProcess = Cardinality(Alive)
  /\ nrProcess <= MaxProcess \/ nrProcess <= 2

PlacesOK == \E pos \in [Procs -> Nat] : Listed(pos, parent, optr, cptr)

AgesOK == \E age \in [Procs -> Nat] : Younger(age, parent)

ParentsOK ==
  \A c \in Procs : parent[c] # None =>
    state[parent[c]] # "UNUSED" /\ (parent[c] = Idle => c = InitProc)

InitOK ==
  /\ kthread[InitProc] /\ wpid[InitProc] = Idle
  /\ pc[InitProc] \in {"kmain", "wait", "wait_sched", "wait_wake", "exit", "init_yield"}

GInv == FInv /\ CountOK /\ PlacesOK /\ AgesOK /\ ParentsOK /\ InitOK /\ InitEndsLast

LEMMA NextPlace ==
  ASSUME FInv, NEW pos, Listed(pos, parent, optr, cptr), NEW y \in Procs, optr[y] # None
  PROVE  pos[optr[y]] = pos[y] + 1
<1> DEFINE c == optr[y]
<1>1. c \in Procs /\ parent[c] # None /\ parent[c] \in Procs /\ yptr[c] = y
  BY DEF FInv, IInv, TypeOK, OlderOK
<1>2. pos[c] # 0
  BY <1>1, ProcAssumption DEF Listed, FInv, HeadsOK
<1>3. PICK x \in Procs : optr[x] = c /\ pos[c] = pos[x] + 1
  BY <1>1, <1>2 DEF Listed
<1>4. x = y
  BY <1>1, <1>3, ProcAssumption DEF FInv, OlderOK
<1> QED BY <1>3, <1>4

LEMMA FirstPlace ==
  ASSUME FInv, NEW pos, Listed(pos, parent, optr, cptr), NEW p \in Procs, cptr[p] # None
  PROVE  pos[cptr[p]] = 0
<1>1. cptr[p] \in Procs /\ parent[cptr[p]] = p
  BY DEF FInv, IInv, TypeOK, HeadsOK
<1>2. \A y \in Procs : optr[y] # cptr[p]
  BY DEF FInv, HeadsOK
<1> QED BY <1>1, <1>2, ProcAssumption DEF Listed

(* No two children have the same place.                                    *)
LEMMA PlacesDiffer ==
  ASSUME NEW pos \in [Procs -> Nat], Listed(pos, parent, optr, cptr), NEW p \in Procs
  PROVE  \A c, d \in Kids(p) : pos[c] = pos[d] => c = d
<1> DEFINE T == {n \in Nat : \E c, d \in Kids(p) : c # d /\ pos[c] = n /\ pos[d] = n}
<1>1. T = {}
  <2> SUFFICES ASSUME T # {} PROVE FALSE
    OBVIOUS
  <2>1. PICK n \in T : \A k \in T : n <= k
    BY Least
  <2>2. PICK c, d \in Kids(p) : c # d /\ pos[c] = n /\ pos[d] = n
    BY <2>1
  <2>3. c \in Procs /\ d \in Procs /\ parent[c] = p /\ parent[d] = p /\ p # None
    BY ProcAssumption DEF Kids
  <2>4. n # 0
    BY <2>2, <2>3 DEF Listed
  <2>5. PICK x \in Procs : optr[x] = c /\ parent[x] = p /\ pos[c] = pos[x] + 1
    BY <2>2, <2>3, <2>4 DEF Listed
  <2>6. PICK y \in Procs : optr[y] = d /\ parent[y] = p /\ pos[d] = pos[y] + 1
    BY <2>2, <2>3, <2>4 DEF Listed
  <2>7. x # y /\ x \in Kids(p) /\ y \in Kids(p) /\ pos[x] = n - 1 /\ pos[y] = n - 1 /\ n - 1 \in Nat
    BY <2>1, <2>2, <2>4, <2>5, <2>6 DEF Kids
  <2>8. n - 1 \in T
    BY <2>7
  <2> QED BY <2>1, <2>8
<1>2. ASSUME NEW c \in Kids(p), NEW d \in Kids(p), pos[c] = pos[d], c # d
      PROVE  FALSE
  <2>1. pos[c] \in Nat
    BY DEF Kids
  <2>2. pos[c] \in T
    BY <2>1, <1>2
  <2> QED BY <2>2, <1>1
<1> QED BY <1>2

(* There is a child at every place before that of a child.                 *)
LEMMA PlacesFilled ==
  ASSUME NEW pos \in [Procs -> Nat], Listed(pos, parent, optr, cptr), NEW p \in Procs,
         NEW c \in Kids(p)
  PROVE  \A n \in 0 .. pos[c] : \E d \in Kids(p) : pos[d] = n
<1> DEFINE T == {m \in 0 .. pos[c] : ~\E d \in Kids(p) : pos[d] = pos[c] - m}
<1>1. pos[c] \in Nat /\ T \subseteq Nat
  BY DEF Kids
<1>2. T = {}
  <2> SUFFICES ASSUME T # {} PROVE FALSE
    OBVIOUS
  <2>1. PICK m \in T : \A k \in T : m <= k
    BY <1>1, Least
  <2>2. m # 0
    BY <1>1, <2>1
  <2>3. m - 1 \in 0 .. pos[c] /\ m - 1 \notin T /\ m \in 1 .. pos[c]
    BY <1>1, <2>1, <2>2
  <2>4. PICK d \in Kids(p) : pos[d] = pos[c] - (m - 1)
    BY <2>3
  <2>5. pos[d] # 0 /\ d \in Procs /\ parent[d] = p /\ p # None
    BY <1>1, <2>3, <2>4, ProcAssumption DEF Kids
  <2>6. PICK y \in Procs : parent[y] = p /\ pos[d] = pos[y] + 1
    BY <2>5 DEF Listed
  <2>7. y \in Kids(p) /\ pos[y] = pos[c] - m
    BY <1>1, <2>3, <2>4, <2>6 DEF Kids
  <2> QED BY <2>1, <2>7
<1>3. ASSUME NEW n \in 0 .. pos[c] PROVE \E d \in Kids(p) : pos[d] = n
  <2>1. pos[c] - n \in 0 .. pos[c] /\ pos[c] - (pos[c] - n) = n
    BY <1>1
  <2> QED BY <1>2, <2>1
<1> QED BY <1>3

(* Who has no first child has none.                                        *)
LEMMA NoFirstNone ==
  ASSUME PlacesOK, NEW p \in Procs, cptr[p] = None
  PROVE  Kids(p) = {}
<1> SUFFICES ASSUME NEW c \in Kids(p) PROVE FALSE
  OBVIOUS
<1>1. PICK pos \in [Procs -> Nat] : Listed(pos, parent, optr, cptr)
  BY DEF PlacesOK
<1>2. pos[c] \in Nat
  BY DEF Kids
<1>3. PICK d \in Kids(p) : pos[d] = 0
  BY <1>1, <1>2, PlacesFilled
<1> QED BY <1>1, <1>3, ProcAssumption DEF Kids, Listed

(* There are places for all in the walk that the model takes.              *)
LEMMA PlacesFit ==
  ASSUME FInv, CountOK, NEW pos \in [Procs -> Nat], Listed(pos, parent, optr, cptr),
         NEW p \in Procs, NEW c \in Kids(p)
  PROVE  pos[c] \in 0 .. MaxProcess
<1>1. pos[c] \in Nat
  BY DEF Kids
<1>2. \A n \in 0 .. pos[c] : \E d \in Kids(p) : pos[d] = n
  BY PlacesFilled
<1>3. Kids(p) \subseteq Alive
  BY ProcAssumption DEF Kids, Alive, FInv, ChildlessOK
<1> DEFINE f == [n \in 0 .. pos[c] |-> CHOOSE d \in Kids(p) : pos[d] = n]
<1>4. \A n \in 0 .. pos[c] : f[n] \in Kids(p) /\ pos[f[n]] = n
  BY <1>2
<1> HIDE DEF f
<1>5. f \in [0 .. pos[c] -> Alive]
  BY <1>3, <1>4 DEF f
<1>6. f \in Injection(0 .. pos[c], Alive)
  BY <1>4, <1>5 DEF Injection, IsInjective
<1>7. Cardinality(0 .. pos[c]) <= Cardinality(Alive)
  BY <1>6, FS_Injection DEF CountOK
<1>8. Cardinality(0 .. pos[c]) = pos[c] + 1
  BY <1>1, FS_Interval
<1> QED BY <1>1, <1>7, <1>8, ProcAssumption DEF CountOK, FInv, IInv, TypeOK

(* The walk meets each child at its place.                                 *)
LEMMA AllListed ==
  ASSUME FInv, CountOK, PlacesOK, NEW p \in Procs
  PROVE  Children(p) = Kids(p)
<1>1. PICK pos \in [Procs -> Nat] : Listed(pos, parent, optr, cptr)
  BY DEF PlacesOK
<1> DEFINE w == Walk(optr, cptr[p])
           T == {n \in 0 .. MaxProcess : \E c \in Kids(p) : pos[c] = n /\ w[n] # c}
<1>2. w[0] = cptr[p] /\ \A n \in 1 .. MaxProcess :
        w[n] = IF w[n - 1] = None THEN None ELSE optr[w[n - 1]]
  BY WalkValues
<1> HIDE DEF w
<1>3. T = {}
  <2> SUFFICES ASSUME T # {} PROVE FALSE
    OBVIOUS
  <2>1. T \subseteq Nat
    OBVIOUS
  <2>2. PICK n \in T : \A k \in T : n <= k
    BY <2>1, Least
  <2>3. PICK c \in Kids(p) : pos[c] = n /\ w[n] # c
    BY <2>2
  <2>4. c \in Procs /\ parent[c] = p /\ p # None
    BY ProcAssumption DEF Kids
  <2>5. n # 0
    BY <1>1, <1>2, <2>3, <2>4 DEF Listed
  <2>6. PICK y \in Procs : optr[y] = c /\ parent[y] = p /\ pos[c] = pos[y] + 1
    BY <1>1, <2>3, <2>4, <2>5 DEF Listed
  <2>7. y \in Kids(p) /\ pos[y] = n - 1 /\ n - 1 \in 0 .. MaxProcess /\ n - 1 \notin T
        /\ n \in 1 .. MaxProcess
    BY <2>2, <2>3, <2>5, <2>6, ProcAssumption DEF Kids
  <2>8. w[n - 1] = y /\ y # None
    BY <2>6, <2>7, ProcAssumption
  <2> QED BY <1>2, <2>3, <2>6, <2>7, <2>8
<1>4. ASSUME NEW c \in Kids(p) PROVE c \in Children(p)
  <2>1. pos[c] \in 0 .. MaxProcess
    BY <1>1, PlacesFit
  <2>2. w[pos[c]] = c /\ c # None
    BY <1>3, <2>1, ProcAssumption DEF Kids
  <2> QED BY <2>1, <2>2, ChildAtWalks DEF Children, w
<1>5. Children(p) \subseteq Kids(p)
  BY ChildrenAreKids DEF FInv
<1> QED BY <1>4, <1>5

-----------------------------------------------------------------------------
LEMMA WholeInit == Init => GInv
<1> SUFFICES ASSUME Init PROVE GInv
  OBVIOUS
<1> USE ProcAssumption, SchedAssumption DEF Init
<1>1. FInv
  BY FamilyInit
<1>2. CountOK
  <2>1. Alive = {Idle} \cup {InitProc}
    BY DEF Alive
  <2>2. IsFiniteSet({Idle}) /\ Cardinality({Idle}) = 1
    BY FS_Singleton
  <2>3. IsFiniteSet(Alive) /\ Cardinality(Alive) = 2
    BY <2>1, <2>2, FS_AddElement
  <2> QED BY <2>3 DEF CountOK
<1>3. PlacesOK
  <2> DEFINE pos == [q \in Procs |-> 0]
  <2>1. Listed(pos, parent, optr, cptr)
    BY DEF Listed
  <2> QED BY <2>1 DEF PlacesOK
<1>4. AgesOK
  <2> DEFINE age == [q \in Procs |-> IF q = Idle THEN 0 ELSE IF q = InitProc THEN 1 ELSE 2]
  <2>1. \A c \in Procs : parent[c] # None => c = InitProc /\ parent[c] = Idle
    OBVIOUS
  <2>2. /\ age \in [Procs -> Nat]
        /\ \A q \in Procs : age[q] = IF q = Idle THEN 0 ELSE IF q = InitProc THEN 1 ELSE 2
        /\ InitProc # Idle
    OBVIOUS
  <2> HIDE DEF age
  <2>3. age[Idle] = 0 /\ age[InitProc] = 1 /\ \A c \in Users : age[c] > 1
    BY <2>2 DEF Users
  <2>4. \A c \in Procs : parent[c] # None => age[parent[c]] < age[c]
    BY <2>1, <2>2
  <2> QED BY <2>2, <2>3, <2>4 DEF AgesOK, Younger
<1>5. ParentsOK /\ InitOK /\ InitEndsLast
  BY DEF ParentsOK, InitOK, InitEndsLast
<1> QED BY <1>1, <1>2, <1>3, <1>4, <1>5 DEF GInv

(* A step that changes no link, and neither frees nor makes a process.     *)
LEMMA QuietKeeps ==
  ASSUME GInv, FInv', UNCHANGED familyVars,
         \A q \in Procs : pc'[q] = "unused" <=> pc[q] = "unused",
         InitOK', InitEndsLast'
  PROVE  GInv'
<1> USE DEF familyVars
<1>1. \A q \in Procs : state'[q] = "UNUSED" <=> state[q] = "UNUSED"
  BY DEF GInv, FInv, IInv, PlaceOK
<1>2. Alive' = Alive
  BY <1>1 DEF Alive
<1>3. CountOK'
  BY <1>2 DEF GInv, CountOK
<1>4. PlacesOK' /\ AgesOK'
  BY DEF GInv, PlacesOK, AgesOK
<1>5. ParentsOK'
  BY <1>1 DEF GInv, FInv, IInv, TypeOK, ParentsOK
<1> QED BY <1>3, <1>4, <1>5 DEF GInv

(* The process that runs goes to another place.                            *)
LEMMA GotoKeeps ==
  ASSUME GInv, FInv', UNCHANGED <<kthread, familyVars>>, NEW p \in Procs,
         pc[p] \notin {"unused"}, NEW l, l # "unused", Goto(p, l),
         p = InitProc => l \in {"kmain", "wait", "wait_sched", "wait_wake", "exit", "init_yield"},
         wpid'[InitProc] = Idle, halt' # "done"
  PROVE  GInv'
<1>1. \A q \in Procs : pc'[q] = IF q = p THEN l ELSE pc[q]
  BY DEF Goto, GInv, FInv, IInv, TypeOK
<1>2. InitOK' /\ InitEndsLast'
  BY <1>1, ProcAssumption DEF GInv, InitOK, InitEndsLast
<1> QED BY <1>1, <1>2, QuietKeeps

(* What init can be at.                                                    *)
LEMMA InitPlaces ==
  ASSUME GInv
  PROVE  /\ pc[InitProc] \notin {"user", "sysret", "irqret", "sleep_sched", "sleep_del", "exit_sched",
                                 "exit_wake", "exit_adopt", "trapret", "unused"}
         /\ kthread[InitProc] /\ wpid[InitProc] = Idle
  BY DEF GInv, InitOK

(* The calls and steps of this kind.                                       *)
LEMMA CallQuiet ==
  ASSUME GInv, FInv', NEW p \in Procs \ {Idle},
         \/ ForkFails(p) \/ Exit(p) \/ Yield(p)
         \/ \E q \in Procs : WaitCall(p, q) \/ Kill(p, q) \/ KillFails(p, q)
         \/ \E t \in 1 .. MaxSleep : SleepCall(p, t)
  PROVE  GInv'
<1>1. /\ halt = "no" /\ pc[p] \in {"user", "kmain"} /\ p # InitProc
      /\ UNCHANGED <<kthread, familyVars>> /\ halt' # "done"
      /\ \E l \in {"kmain", "sysret", "exit", "wait", "sleep_sched"} : Goto(p, l)
  BY InitPlaces DEF ForkFails, Exit, Yield, WaitCall, Kill, KillFails, SleepCall, WakeupProc,
                    Calls, UserCalls, At, Asserted, Return, AfterCall
<1>2. wpid'[InitProc] = Idle
  BY <1>1, InitPlaces, ProcAssumption
     DEF ForkFails, Exit, Yield, WaitCall, Kill, KillFails, SleepCall, GInv, FInv, IInv, TypeOK
<1> QED BY <1>1, <1>2, GotoKeeps

LEMMA ExecQuiet ==
  ASSUME GInv, FInv', NEW p \in Procs \ {Idle}, Exec(p)
  PROVE  GInv'
<1>1. /\ halt = "no" /\ halt' = halt /\ pc[p] # "unused" /\ p # InitProc
      /\ UNCHANGED <<familyVars, wpid>>
      /\ kthread'[InitProc] = kthread[InitProc]
  BY InitPlaces, ProcAssumption DEF Exec, Calls, UserCalls, At, GInv, FInv, IInv, TypeOK
<1>2. PICK l \in {"trapret", "sysret", "exit"} : Goto(p, l)
  BY DEF Exec
<1>3. \A q \in Procs : pc'[q] = IF q = p THEN l ELSE pc[q]
  BY <1>2 DEF Goto, GInv, FInv, IInv, TypeOK
<1>4. InitOK' /\ InitEndsLast'
  BY <1>1, <1>3, ProcAssumption DEF GInv, InitOK, InitEndsLast
<1> QED BY <1>1, <1>3, <1>4, QuietKeeps

LEMMA ContinueQuiet ==
  ASSUME GInv, FInv', NEW p \in Procs \ {Idle},
         \/ ExitWakeParent(p) \/ ExitAdoptEnd(p) \/ ExitSchedule(p) \/ WaitSleep(p) \/ WaitSchedule(p)
         \/ WaitWake(p) \/ SleepSchedule(p) \/ SleepEnd(p) \/ TrapReturn(p) \/ Leave(p)
         \/ p # InitProc /\ (ExitZombie(p) \/ WaitNoChild(p))
         \/ p = InitProc /\ (InitLoop \/ InitYield)
  PROVE  GInv'
<1> DEFINE places == {"exit_wake", "exit_adopt", "exit_sched", "dead", "sysret", "sleep_del", "trapret",
                      "user"}
           inits == {"kmain", "wait", "wait_sched", "wait_wake", "exit"}
<1>1. /\ halt = "no" /\ pc[p] # "unused" /\ halt' # "done"
      /\ UNCHANGED <<kthread, familyVars>>
  BY DEF ExitWakeParent, ExitAdoptEnd, ExitSchedule, WaitSleep, WaitSchedule, WaitWake,
         SleepSchedule, SleepEnd, TrapReturn, Leave, ExitZombie, WaitNoChild, InitLoop, InitYield,
         WakeWaiter, Asserted, At
<1>2. wpid'[InitProc] = Idle
  BY InitPlaces, ProcAssumption
     DEF ExitWakeParent, ExitAdoptEnd, ExitSchedule, WaitSleep, WaitSchedule, WaitWake,
         SleepSchedule, SleepEnd, TrapReturn, Leave, ExitZombie, WaitNoChild, InitLoop, InitYield,
         GInv, FInv, IInv, TypeOK
<1>3. \E l \in places \cup inits : Goto(p, l) /\ (p = InitProc => l \in inits)
  <2>1. CASE ExitWakeParent(p) \/ ExitAdoptEnd(p) \/ ExitSchedule(p)
    BY <2>1, InitPlaces DEF ExitWakeParent, ExitAdoptEnd, ExitSchedule, At, SwitchTo
  <2>2. CASE WaitSleep(p) \/ WaitSchedule(p) \/ WaitWake(p)
    BY <2>2 DEF WaitSleep, WaitSchedule, WaitWake, SwitchTo
  <2>3. CASE SleepSchedule(p) \/ SleepEnd(p)
    BY <2>3, InitPlaces DEF SleepSchedule, SleepEnd, SwitchTo, At, Return, AfterCall
  <2>4. CASE TrapReturn(p) \/ Leave(p)
    BY <2>4, InitPlaces DEF TrapReturn, Leave, SwitchTo, At
  <2>5. CASE p # InitProc /\ (ExitZombie(p) \/ WaitNoChild(p))
    BY <2>5 DEF ExitZombie, WaitNoChild, Return, AfterCall
  <2>6. CASE p = InitProc /\ (InitLoop \/ InitYield)
    BY <2>6 DEF InitLoop, InitYield, SwitchTo
  <2> QED BY <2>1, <2>2, <2>3, <2>4, <2>5, <2>6
<1> QED BY <1>1, <1>2, <1>3, GotoKeeps

LEMMA IdleQuiet ==
  ASSUME GInv, FInv', IdleLoop \/ Tick
  PROVE  GInv'
<1>1. CASE IdleLoop
  BY <1>1, InitPlaces, GotoKeeps, ProcAssumption, SchedAssumption DEF IdleLoop, At, SwitchTo
<1>2. CASE Tick
  <2>1. /\ halt = "no" /\ halt' # "done" /\ UNCHANGED <<kthread, familyVars, wpid>>
    BY <1>2 DEF Tick, InterruptsOn, Asserted
  <2>2. pc' = pc \/ (pc[current] = "user" /\ Goto(current, "irqret"))
    BY <1>2 DEF Tick
  <2>3. \A q \in Procs : pc'[q] = pc[q] \/ (pc[q] = "user" /\ pc'[q] = "irqret")
    BY <2>2 DEF Goto, GInv, FInv, IInv, TypeOK, SchedTypeOK
  <2>4. InitOK' /\ InitEndsLast'
    BY <2>1, <2>3, ProcAssumption DEF GInv, InitOK, InitEndsLast
  <2> QED BY <2>1, <2>3, <2>4, QuietKeeps
<1> QED BY <1>1, <1>2

(* init's do_wait finds no child: then there is no process left.  Another  *)
(* one, the oldest, would be a child of init.                              *)
LEMMA LastKeeps ==
  ASSUME GInv, FInv', WaitNoChild(InitProc)
  PROVE  GInv'
<1> USE ProcAssumption
<1>1. /\ pc[InitProc] = "wait" /\ WaitedFor(InitProc) = {} /\ wpid' = [wpid EXCEPT ![InitProc] = Idle]
      /\ UNCHANGED <<schedVars, pc, kthread, familyVars>>
  BY DEF WaitNoChild, At
<1>2. Kids(InitProc) = {}
  BY <1>1, InitPlaces, AllListed DEF WaitedFor, GInv
<1>3. PICK age \in [Procs -> Nat] : Younger(age, parent)
  BY DEF GInv, AgesOK
<1> DEFINE T == {n \in Nat : \E c \in Users : state[c] # "UNUSED" /\ age[c] = n}
<1>4. T = {}
  <2> SUFFICES ASSUME T # {} PROVE FALSE
    OBVIOUS
  <2>1. PICK n \in T : \A k \in T : n <= k
    BY Least
  <2>2. PICK c \in Users : state[c] # "UNUSED" /\ age[c] = n
    BY <2>1
  <2>3. c \in Procs /\ parent[c] \in Procs /\ parent[c] # None
    BY <2>2 DEF Users, GInv, FInv, IInv, TypeOK, WordsOK
  <2>4. parent[c] \in Users /\ state[parent[c]] # "UNUSED"
    BY <1>2, <2>2, <2>3 DEF Kids, Users, GInv, ParentsOK
  <2>5. age[parent[c]] \in T /\ age[parent[c]] < age[c] /\ age[parent[c]] \in Nat
    BY <1>3, <2>3, <2>4 DEF Younger
  <2> QED BY <2>1, <2>2, <2>5
<1>5. \A c \in Users : state[c] = "UNUSED"
  <2> SUFFICES ASSUME NEW c \in Users, state[c] # "UNUSED" PROVE FALSE
    OBVIOUS
  <2>1. age[c] \in Nat
    BY DEF Users
  <2>2. age[c] \in T
    BY <2>1
  <2> QED BY <1>4, <2>2
<1>6. InitEndsLast' /\ InitOK'
  BY <1>1, <1>5 DEF InitEndsLast, schedVars, GInv, InitOK, FInv, IInv, TypeOK
<1> QED BY <1>1, <1>6, QuietKeeps

LEMMA StopKeeps ==
  ASSUME GInv, FInv', Halted \/ UNCHANGED vars \/ ExitZombie(InitProc)
  PROVE  GInv'
<1>1. /\ UNCHANGED <<state, pc, kthread, familyVars, wpid>>
      /\ halt' = halt \/ halt' = "initexit"
  BY DEF Halted, vars, schedVars, ExitZombie
<1>2. InitOK' /\ InitEndsLast'
  BY <1>1 DEF GInv, InitOK, InitEndsLast
<1> QED BY <1>1, <1>2, QuietKeeps

(* do_fork: the child gets the first place and the others go one further.  *)
LEMMA ForkKeeps ==
  ASSUME GInv, FInv', NEW p \in Procs \ {Idle}, NEW c \in Users, Fork(p, c)
  PROVE  GInv'
<1> USE ProcAssumption
<1>1. /\ halt = "no" /\ pc[p] \in {"user", "kmain"} /\ state[c] = "UNUSED"
      /\ nrProcess < MaxProcess /\ SetLinks(p, c) /\ wpid' = wpid
  BY DEF Fork, UserCalls, At
<1>2. p # c /\ c \in Procs /\ state[p] # "UNUSED" /\ nrProcess' = nrProcess + 1
  BY <1>1 DEF GInv, FInv, IInv, PlaceOK, Users, SetLinks
<1>3. \A q \in Procs : state'[q] = IF q = c THEN "RUNNABLE" ELSE state[q]
  BY <1>1 DEF Fork, WakeupProc, MakeRunnable, Woken
<1>4. \A q \in Procs : /\ parent'[q] = IF q = c THEN p ELSE parent[q]
                       /\ optr'[q] = IF q = c THEN cptr[p] ELSE optr[q]
                       /\ cptr'[q] = IF q = p THEN c ELSE cptr[q]
                       /\ parent[q] \in Procs \cup {None}
  BY <1>1, <1>2 DEF SetLinks, GInv, FInv, IInv, TypeOK
<1>5. parent[c] = None /\ \A q \in Procs : parent[q] # c
  <2>1. parent[c] = None /\ cptr[c] = None
    BY <1>1, <1>2 DEF GInv, FInv, ChildlessOK
  <2> QED BY <1>2, <2>1, NoFirstNone DEF GInv, Kids
<1>6. CountOK'
  <2>1. Alive' = Alive \cup {c} /\ c \notin Alive
    BY <1>1, <1>2, <1>3 DEF Alive
  <2>2. IsFiniteSet(Alive') /\ Cardinality(Alive') = Cardinality(Alive) + 1
    BY <2>1, FS_AddElement DEF GInv, CountOK
  <2>3. nrProcess \in Int
    BY DEF GInv, FInv, IInv, TypeOK
  <2> QED BY <1>1, <1>2, <2>2, <2>3 DEF GInv, CountOK
<1>7. PlacesOK'
  <2>1. PICK pos \in [Procs -> Nat] : Listed(pos, parent, optr, cptr)
    BY DEF GInv, PlacesOK
  <2> DEFINE new == [q \in Procs |-> IF q = c THEN 0
                                     ELSE IF parent[q] = p THEN pos[q] + 1 ELSE pos[q]]
  <2>2. new \in [Procs -> Nat] /\ \A q \in Procs :
          new[q] = IF q = c THEN 0 ELSE IF parent[q] = p THEN pos[q] + 1 ELSE pos[q]
    OBVIOUS
  <2> HIDE DEF new
  <2>3. ASSUME NEW q \in Procs, parent'[q] # None
        PROVE  /\ new[q] = 0 => cptr'[parent'[q]] = q
               /\ new[q] # 0 => \E y \in Procs : /\ optr'[y] = q /\ parent'[y] = parent'[q]
                                                 /\ new[q] = new[y] + 1
    <3>1. CASE q = c
      BY <3>1, <1>4, <2>2
    <3>2. CASE q # c /\ parent[q] = p /\ pos[q] = 0
      <4>1. cptr[p] = q
        BY <3>2, <2>1 DEF Listed
      <4>2. optr'[c] = q /\ parent'[c] = parent'[q] /\ new[q] = new[c] + 1 /\ new[q] # 0
        BY <3>2, <4>1, <1>2, <1>4, <2>2
      <4> QED BY <1>2, <4>2
    <3>3. CASE q # c /\ ~(parent[q] = p /\ pos[q] = 0)
      <4>1. parent'[q] = parent[q] /\ parent[q] \in Procs /\ parent[q] # None
        BY <3>3, <2>3, <1>4
      <4>2. CASE pos[q] = 0
        BY <3>3, <4>1, <4>2, <1>4, <2>1, <2>2 DEF Listed
      <4>3. CASE pos[q] # 0
        <5>1. PICK y \in Procs : optr[y] = q /\ parent[y] = parent[q] /\ pos[q] = pos[y] + 1
          BY <4>1, <4>3, <2>1 DEF Listed
        <5>2. y # c
          BY <4>1, <5>1, <1>5
        <5>3. optr'[y] = q /\ parent'[y] = parent'[q] /\ new[q] = new[y] + 1 /\ new[q] # 0
          BY <3>3, <4>1, <5>1, <5>2, <1>4, <2>2
        <5> QED BY <5>3
      <4> QED BY <4>2, <4>3
    <3> QED BY <3>1, <3>2, <3>3
  <2> QED BY <2>2, <2>3 DEF PlacesOK, Listed
<1>8. AgesOK'
  <2>1. PICK age \in [Procs -> Nat] : Younger(age, parent)
    BY DEF GInv, AgesOK
  <2> DEFINE new == [age EXCEPT ![c] = age[p] + 1]
  <2>2. new \in [Procs -> Nat] /\ \A q \in Procs : new[q] = IF q = c THEN age[p] + 1 ELSE age[q]
    BY <1>2
  <2> HIDE DEF new
  <2>3. age[p] > 0 /\ c # Idle /\ c # InitProc
    BY <2>1 DEF Younger, Users
  <2>4. new[Idle] = 0 /\ new[InitProc] = 1 /\ \A q \in Users : new[q] > 1
    BY <2>1, <2>2, <2>3, SchedAssumption DEF Younger, Users
  <2>5. ASSUME NEW q \in Procs, parent'[q] # None PROVE new[parent'[q]] < new[q]
    <3>1. CASE q = c
      BY <3>1, <1>2, <1>4, <2>2
    <3>2. CASE q # c
      BY <3>2, <2>5, <1>4, <1>5, <2>1, <2>2 DEF Younger
    <3> QED BY <3>1, <3>2
  <2> QED BY <2>2, <2>4, <2>5 DEF AgesOK, Younger
<1>9. ParentsOK'
  <2> SUFFICES ASSUME NEW q \in Procs, parent'[q] # None
               PROVE  state'[parent'[q]] # "UNUSED" /\ (parent'[q] = Idle => q = InitProc)
    BY DEF ParentsOK
  <2>1. CASE q = c
    BY <2>1, <1>2, <1>3, <1>4
  <2>2. CASE q # c
    BY <2>2, <1>3, <1>4 DEF GInv, ParentsOK
  <2> QED BY <2>1, <2>2
<1>10. InitOK'
  <2>1. c # InitProc /\ InitProc \in Procs
    BY DEF Users
  <2>2. kthread'[InitProc] /\ wpid'[InitProc] = Idle
    BY <1>1, <2>1, InitPlaces DEF Fork, GInv, FInv, IInv, TypeOK
  <2>3. pc'[InitProc] = IF p = InitProc THEN "kmain" ELSE pc[InitProc]
    BY <1>2, <2>1, InitPlaces DEF Fork, AfterCall, GInv, FInv, IInv, TypeOK
  <2> QED BY <2>2, <2>3 DEF GInv, InitOK
<1>11. InitEndsLast'
  BY <1>1 DEF Fork, Asserted, InitEndsLast
<1> QED BY <1>6, <1>7, <1>8, <1>9, <1>10, <1>11 DEF GInv

(* One turn of do_exit's loop: the child gets the first place of init's    *)
(* list, and its siblings move up.                                         *)
LEMMA AdoptKeeps ==
  ASSUME GInv, FInv', NEW p \in Procs \ {Idle}, ExitAdopt(p)
  PROVE  GInv'
<1> USE ProcAssumption
<1> DEFINE i == InitProc
           c == cptr[p]
           h == cptr[i]
           e == optr[c]
<1>1. /\ halt = "no" /\ pc[p] = "exit_adopt" /\ c # None /\ MoveChild(p, c)
      /\ UNCHANGED <<pc, kthread, wpid, nrProcess>>
  BY DEF ExitAdopt, At, MoveChild
<1>2. /\ c \in Procs /\ i \in Procs /\ parent[c] = p
      /\ \A q \in Procs : parent[q] \in Procs \cup {None}
  BY <1>1 DEF GInv, FInv, IInv, TypeOK, HeadsOK
<1>3. p # i /\ state[i] # "UNUSED" /\ halt' # "done"
  BY <1>1, InitPlaces DEF GInv, FInv, ChildlessOK, ExitAdopt, WakeWaiter, Asserted
<1>4. \A q \in Procs : /\ parent'[q] = IF q = c THEN i ELSE parent[q]
                       /\ optr'[q] = IF q = c THEN h ELSE optr[q]
                       /\ cptr'[q] = IF q = i THEN c ELSE IF q = p THEN e ELSE cptr[q]
  BY <1>1, <1>2, <1>3 DEF MoveChild, GInv, FInv, IInv, TypeOK
<1>5. \A q \in Procs : state'[q] = "UNUSED" <=> state[q] = "UNUSED"
  BY <1>1 DEF GInv, FInv, IInv, PlaceOK
<1>6. CountOK'
  <2>1. Alive' = Alive
    BY <1>5 DEF Alive
  <2> QED BY <1>1, <2>1 DEF GInv, CountOK
<1>7. PlacesOK'
  <2>1. PICK pos \in [Procs -> Nat] : Listed(pos, parent, optr, cptr)
    BY DEF GInv, PlacesOK
  <2>2. \A q \in Procs \ {c} : parent[q] = p => pos[q] # 0
    BY <2>1 DEF Listed
  <2> DEFINE new == [q \in Procs |-> IF q = c THEN 0
                                     ELSE IF parent[q] = i THEN pos[q] + 1
                                     ELSE IF parent[q] = p THEN pos[q] - 1 ELSE pos[q]]
  <2>3. \A q \in Procs :
          new[q] = IF q = c THEN 0 ELSE IF parent[q] = i THEN pos[q] + 1
                   ELSE IF parent[q] = p THEN pos[q] - 1 ELSE pos[q]
    OBVIOUS
  <2>4. new \in [Procs -> Nat]
    <3>1. \A q \in Procs : new[q] \in Nat
      BY <2>1, <2>2
    <3> QED BY <3>1
  <2>5. e # None => pos[e] = pos[c] + 1
    BY <1>2, <2>1, NextPlace DEF GInv
  <2>6. pos[c] = 0
    BY <1>1, <2>1, FirstPlace DEF GInv
  <2> HIDE DEF new
  <2>7. ASSUME NEW q \in Procs, parent'[q] # None
        PROVE  /\ new[q] = 0 => cptr'[parent'[q]] = q
               /\ new[q] # 0 => \E y \in Procs : /\ optr'[y] = q /\ parent'[y] = parent'[q]
                                                 /\ new[q] = new[y] + 1
    <3> HIDE DEF c, e, h, i
    <3>1. CASE q = c
      BY <3>1, <1>2, <1>4, <2>3
    <3>2. CASE q # c /\ parent[q] = i /\ pos[q] = 0
      <4>1. h = q
        BY <3>2, <1>2, <2>1 DEF Listed, h
      <4>2. optr'[c] = q /\ parent'[c] = parent'[q] /\ new[q] = new[c] + 1 /\ new[q] # 0
        BY <3>2, <4>1, <1>2, <1>4, <2>3
      <4> QED BY <1>2, <4>2
    <3>3. CASE q # c /\ ~(parent[q] = i /\ pos[q] = 0)
      <4>1. parent'[q] = parent[q] /\ parent[q] \in Procs /\ parent[q] # None
        BY <3>3, <2>7, <1>2, <1>4
      <4>2. CASE pos[q] = 0
        <5>1. parent[q] # p /\ parent[q] # i /\ cptr[parent[q]] = q
          BY <3>3, <4>1, <4>2, <2>1, <2>2 DEF Listed
        <5> QED BY <3>3, <4>1, <4>2, <5>1, <1>4, <2>3
      <4>3. CASE pos[q] # 0
        <5>1. PICK y \in Procs : optr[y] = q /\ parent[y] = parent[q] /\ pos[q] = pos[y] + 1
          BY <4>1, <4>3, <2>1 DEF Listed
        <5>2. CASE y = c
          <6>1. q = e /\ parent[q] = p /\ new[q] = 0
            BY <5>1, <5>2, <3>3, <1>2, <1>3, <2>3, <2>6 DEF e, i
          <6> QED BY <6>1, <4>1, <1>3, <1>4
        <5>3. CASE y # c
          <6>1. optr'[y] = q /\ parent'[y] = parent'[q]
            BY <4>1, <5>1, <5>3, <1>4
          <6>2. pos[y] \in Nat /\ (parent[q] = p => pos[y] # 0)
            BY <5>1, <5>3, <2>2
          <6>3. new[q] = new[y] + 1 /\ new[q] # 0
            BY <3>3, <5>1, <5>3, <6>2, <1>3, <2>3 DEF i
          <6> QED BY <6>1, <6>3
        <5> QED BY <5>2, <5>3
      <4> QED BY <4>2, <4>3
    <3> QED BY <3>1, <3>2, <3>3
  <2> QED BY <2>4, <2>7 DEF PlacesOK, Listed
<1>8. AgesOK'
  <2>1. PICK age \in [Procs -> Nat] : Younger(age, parent)
    BY DEF GInv, AgesOK
  <2>2. p \in Users /\ age[p] > 1 /\ age[p] < age[c] /\ age[i] = 1
    BY <1>2, <1>3, <2>1 DEF Younger, Users
  <2>3. ASSUME NEW q \in Procs, parent'[q] # None PROVE age[parent'[q]] < age[q]
    <3>1. CASE q = c
      BY <3>1, <1>2, <1>4, <2>2
    <3>2. CASE q # c
      BY <3>2, <2>3, <1>4, <2>1 DEF Younger
    <3> QED BY <3>1, <3>2
  <2> QED BY <2>1, <2>3 DEF AgesOK, Younger
<1>9. ParentsOK'
  <2> SUFFICES ASSUME NEW q \in Procs, parent'[q] # None
               PROVE  state'[parent'[q]] # "UNUSED" /\ (parent'[q] = Idle => q = InitProc)
    BY DEF ParentsOK
  <2>1. CASE q = c
    BY <2>1, <1>2, <1>3, <1>4, <1>5
  <2>2. CASE q # c
    BY <2>2, <1>2, <1>4, <1>5 DEF GInv, ParentsOK
  <2> QED BY <2>1, <2>2
<1>10. InitOK' /\ InitEndsLast'
  BY <1>1, <1>3 DEF GInv, InitOK, InitEndsLast
<1> QED BY <1>6, <1>7, <1>8, <1>9, <1>10 DEF GInv

(* do_wait frees a zombie: the children after it move up.                  *)
LEMMA ReapKeeps ==
  ASSUME GInv, FInv', NEW p \in Procs \ {Idle}, NEW c \in Users, Reap(p, c)
  PROVE  GInv'
<1> USE ProcAssumption
<1> DEFINE o == optr[c]
           y == yptr[c]
<1>1. /\ halt = "no" /\ halt' = halt /\ current = p /\ pc[p] = "wait" /\ state[c] = "ZOMBIE"
      /\ RemoveLinks(c)
  BY DEF Reap, At, FoundZombie
<1>2. c \in Procs /\ parent[c] = p /\ c # p /\ c # InitProc /\ c # Idle
  BY <1>1, WaitedAreKids DEF Reap, FoundZombie, Users, GInv, FInv, IInv, PlaceOK, TornDown
<1>3. \A q \in Procs : /\ parent[q] \in Procs \cup {None} /\ optr[q] \in Procs \cup {None}
                       /\ yptr[q] \in Procs \cup {None}
  BY DEF GInv, FInv, IInv, TypeOK
<1>4. \A q \in Procs : /\ parent'[q] = IF q = c THEN None ELSE parent[q]
                       /\ optr'[q] = IF q = c THEN None ELSE IF q = y THEN o ELSE optr[q]
                       /\ cptr'[q] = IF y = None /\ q = p THEN o ELSE cptr[q]
  BY <1>1, <1>2 DEF RemoveLinks, GInv, FInv, IInv, TypeOK
<1>5. /\ \A q \in Procs : state'[q] = IF q = c THEN "UNUSED" ELSE state[q]
      /\ nrProcess' = nrProcess - 1
  BY <1>1, <1>2 DEF Reap, RemoveLinks, GInv, FInv, IInv, TypeOK, SchedTypeOK
<1>6. y # None => y \in Procs /\ optr[y] = c /\ parent[y] = p
  BY <1>1, <1>2, <1>3 DEF GInv, FInv, YoungerOK, Moving
<1>7. \A x \in Procs : optr[x] = c => x = y /\ y # None
  BY <1>2 DEF GInv, FInv, OlderOK
<1>8. \A q \in Procs : parent[q] # c
  <2>1. pc[c] = "dead"
    BY <1>1, <1>2 DEF GInv, FInv, IInv, PlaceOK, ChildlessOK, TornDown
  <2>2. cptr[c] = None
    BY <1>2, <2>1 DEF GInv, FInv, ChildlessOK
  <2> QED BY <1>2, <2>2, NoFirstNone DEF GInv, Kids
<1>9. CountOK'
  <2>1. Alive' = Alive \ {c} /\ c \in Alive
    BY <1>1, <1>2, <1>5 DEF Alive
  <2>2. IsFiniteSet(Alive') /\ Cardinality(Alive') = Cardinality(Alive) - 1
    BY <2>1, FS_RemoveElement DEF GInv, CountOK
  <2>3. nrProcess \in Int
    BY DEF GInv, FInv, IInv, TypeOK
  <2> QED BY <1>5, <2>2, <2>3 DEF GInv, CountOK
<1>10. PlacesOK'
  <2>1. PICK pos \in [Procs -> Nat] : Listed(pos, parent, optr, cptr)
    BY DEF GInv, PlacesOK
  <2>2. \A q \in Procs \ {c} : parent[q] = p => pos[q] # pos[c]
    BY <1>2, <2>1, PlacesDiffer DEF Kids
  <2>3. y = None => pos[c] = 0
    BY <1>2, <1>7, <2>1 DEF Listed
  <2>4. y # None => pos[c] = pos[y] + 1
    <3> HIDE DEF y
    <3> SUFFICES ASSUME y # None PROVE pos[c] = pos[y] + 1
      OBVIOUS
    <3>1. y \in Procs /\ optr[y] = c /\ optr[y] # None
      BY <1>2, <1>6
    <3>2. pos[optr[y]] = pos[y] + 1
      BY <2>1, <3>1, NextPlace DEF GInv
    <3> QED BY <3>1, <3>2
  <2> DEFINE new == [q \in Procs |-> IF q # c /\ parent[q] = p /\ pos[c] < pos[q]
                                     THEN pos[q] - 1 ELSE pos[q]]
  <2>5. \A q \in Procs : /\ pos[q] \in Nat
                         /\ new[q] = IF q # c /\ parent[q] = p /\ pos[c] < pos[q]
                                     THEN pos[q] - 1 ELSE pos[q]
    OBVIOUS
  <2>6. new \in [Procs -> Nat]
    <3>1. \A q \in Procs : new[q] \in Nat
      BY <1>2, <2>5
    <3> QED BY <3>1
  <2> HIDE DEF new, o, y
  <2>7. ASSUME NEW q \in Procs, parent'[q] # None
        PROVE  /\ new[q] = 0 => cptr'[parent'[q]] = q
               /\ new[q] # 0 => \E z \in Procs : /\ optr'[z] = q /\ parent'[z] = parent'[q]
                                                 /\ new[q] = new[z] + 1
    <3>1. q # c /\ parent'[q] = parent[q] /\ parent[q] \in Procs /\ parent[q] # None
      BY <2>7, <1>3, <1>4
    <3>2. CASE pos[q] = 0
      <4>1. cptr[parent[q]] = q /\ new[q] = 0
        BY <3>1, <3>2, <1>2, <2>1, <2>5 DEF Listed
      <4>2. ~(y = None /\ parent[q] = p)
        BY <3>1, <3>2, <2>2, <2>3
      <4> QED BY <3>1, <4>1, <4>2, <1>4
    <3>3. CASE pos[q] # 0
      <4>1. PICK x \in Procs : optr[x] = q /\ parent[x] = parent[q] /\ pos[q] = pos[x] + 1
        BY <3>1, <3>3, <2>1 DEF Listed
      <4>2. CASE x = c
        <5>1. q = o /\ parent[q] = p /\ new[q] = pos[c]
          BY <3>1, <4>1, <4>2, <1>2, <2>5 DEF o
        <5>2. CASE y = None
          BY <3>1, <5>1, <5>2, <1>4, <2>3
        <5>3. CASE y # None
          <6>1. y \in Procs /\ y # c /\ optr'[y] = q /\ parent'[y] = parent'[q]
            BY <3>1, <5>1, <5>3, <1>2, <1>4, <1>6, <2>4, <2>5
          <6>2. new[y] = pos[y] /\ new[q] = new[y] + 1 /\ new[q] # 0
            BY <5>1, <5>3, <6>1, <1>2, <2>4, <2>5
          <6> QED BY <6>1, <6>2
        <5> QED BY <5>2, <5>3
      <4>3. CASE x # c
        <5>1. optr'[x] = q /\ parent'[x] = parent'[q]
          BY <3>1, <4>1, <4>3, <1>4, <1>6, <1>2
        <5>2. parent[q] = p => pos[x] # pos[c] /\ pos[q] # pos[c]
          BY <3>1, <4>1, <4>3, <2>2
        <5>3. new[q] = new[x] + 1 /\ new[q] # 0
          BY <3>1, <4>1, <4>3, <5>2, <1>2, <2>5
        <5> QED BY <5>1, <5>3
      <4> QED BY <4>2, <4>3
    <3> QED BY <3>2, <3>3
  <2> QED BY <2>6, <2>7 DEF PlacesOK, Listed
<1>11. AgesOK'
  <2>1. PICK age \in [Procs -> Nat] : Younger(age, parent)
    BY DEF GInv, AgesOK
  <2>2. Younger(age, parent')
    BY <1>4, <2>1 DEF Younger
  <2> QED BY <2>2 DEF AgesOK
<1>12. ParentsOK'
  <2> HIDE DEF o, y
  <2> SUFFICES ASSUME NEW q \in Procs, parent'[q] # None
               PROVE  state'[parent'[q]] # "UNUSED" /\ (parent'[q] = Idle => q = InitProc)
    BY DEF ParentsOK
  <2>1. parent'[q] = parent[q] /\ parent[q] \in Procs /\ parent[q] # c /\ parent[q] # None
    BY <1>3, <1>4, <1>8
  <2>2. state[parent[q]] # "UNUSED" /\ (parent[q] = Idle => q = InitProc)
    BY <2>1 DEF GInv, ParentsOK
  <2> QED BY <1>5, <2>1, <2>2
<1>13. InitOK'
  <2>1. kthread'[InitProc] /\ wpid'[InitProc] = Idle
    BY <1>2, InitPlaces, SchedAssumption DEF Reap, GInv, FInv, IInv, TypeOK
  <2>2. pc'[InitProc] = IF p = InitProc THEN "init_yield" ELSE pc[InitProc]
    BY <1>2 DEF Reap, GInv, FInv, IInv, TypeOK
  <2> QED BY <2>1, <2>2 DEF GInv, InitOK
<1>14. InitEndsLast'
  BY <1>1 DEF InitEndsLast
<1> QED BY <1>9, <1>10, <1>11, <1>12, <1>13, <1>14 DEF GInv

LEMMA WholeNext == GInv /\ [Next]_vars => GInv'
<1> SUFFICES ASSUME GInv, [Next]_vars PROVE GInv'
  OBVIOUS
<1>1. FInv'
  BY FamilyNext DEF GInv
<1>2. ASSUME NEW p \in Procs \ {Idle}, Call(p)
      PROVE  GInv'
  BY <1>1, <1>2, ForkKeeps, CallQuiet, ExecQuiet, ProcAssumption DEF Call
<1>3. ASSUME NEW p \in Procs \ {Idle}, Continue(p)
      PROVE  GInv'
  <2>1. CASE ExitAdopt(p) \/ \E c \in Users : Reap(p, c)
    BY <1>1, <2>1, AdoptKeeps, ReapKeeps
  <2>2. CASE p = InitProc /\ (ExitZombie(p) \/ WaitNoChild(p))
    BY <1>1, <2>2, StopKeeps, LastKeeps
  <2>3. CASE ~(ExitAdopt(p) \/ \E c \in Users : Reap(p, c))
             /\ ~(p = InitProc /\ (ExitZombie(p) \/ WaitNoChild(p)))
    BY <1>1, <1>3, <2>3, ContinueQuiet DEF Continue
  <2> QED BY <2>1, <2>2, <2>3
<1>4. CASE IdleLoop \/ Tick
  BY <1>1, <1>4, IdleQuiet
<1>5. CASE InitLoop \/ InitYield
  BY <1>1, <1>5, ContinueQuiet, ProcAssumption
<1>6. CASE Halted \/ UNCHANGED vars
  BY <1>1, <1>6, StopKeeps
<1> QED BY <1>2, <1>3, <1>4, <1>5, <1>6 DEF Next

(* The links between processes, and who is childless, in every reachable   *)
(* state.                                                                  *)
THEOREM FamilyInvariance == Spec => []FInv
  BY FamilyInit, FamilyNext, PTL DEF Spec

(* No exit is missed: who sleeps in do_wait has no zombie among the        *)
(* children it waits for, but for one that is just exiting.                *)
THEOREM NoExitMissed == Spec => []NoLostChild
<1>1. FInv => NoLostChild
  BY WaitedAreKids DEF FInv, WaitOK, NoLostChild, NoZombie
<1> QED BY <1>1, FamilyInvariance, PTL

(* With that no child is missing from its parent's list, in every          *)
(* reachable state.                                                        *)
THEOREM WholeInvariance == Spec => []GInv
  BY WholeInit, WholeNext, PTL DEF Spec

(* The relations between processes agree: the list of a process holds all  *)
(* its children and nobody else, the links back are right, no pointer      *)
(* leads to a freed process, and nr_process counts the processes.          *)
THEOREM FamilyCorrect == Spec => []FamilyConsistent
<1>1. GInv => FamilyConsistent
  <2> SUFFICES ASSUME GInv PROVE FamilyConsistent
    OBVIOUS
  <2>1. nrProcess = Cardinality({p \in Procs : state[p] # "UNUSED"})
    BY DEF GInv, CountOK, Alive
  <2>2. ASSUME NEW p \in Procs
        PROVE  /\ Children(p) = {c \in Procs : parent[c] = p}
               /\ cptr[p] # None => yptr[cptr[p]] = None \/ Moving(cptr[p])
               /\ optr[p] # None => yptr[optr[p]] = p
               /\ yptr[p] # None => optr[yptr[p]] = p \/ Moving(p)
               /\ parent[p] # None => state[p] # "UNUSED" /\ state[parent[p]] # "UNUSED"
    <3>1. Children(p) = {c \in Procs : parent[c] = p}
      BY AllListed DEF GInv, Kids
    <3>2. /\ cptr[p] # None => yptr[cptr[p]] = None \/ Moving(cptr[p])
          /\ optr[p] # None => yptr[optr[p]] = p
          /\ yptr[p] # None => optr[yptr[p]] = p \/ Moving(p)
      BY DEF GInv, FInv, HeadsOK, OlderOK, YoungerOK
    <3>3. parent[p] # None => state[p] # "UNUSED" /\ state[parent[p]] # "UNUSED"
      BY DEF GInv, FInv, ChildlessOK, ParentsOK
    <3> QED BY <3>1, <3>2, <3>3
  <2> QED BY <2>1, <2>2 DEF FamilyConsistent
<1> QED BY <1>1, WholeInvariance, PTL

(* init ends only when it is the last process.                             *)
THEOREM InitLast == Spec => []InitEndsLast
<1>1. GInv => InitEndsLast
  BY DEF GInv
<1> QED BY <1>1, WholeInvariance, PTL
=============================================================================

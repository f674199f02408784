-------------------------------- MODULE Proc --------------------------------
(***************************************************************************)
(* The life of a process: fork, exec, exit, wait, kill, yield and sleep    *)
(* (kern/process/proc.c), the checks on the way back to user mode          *)
(* (kern/trap/trap.c), the idle loop and the program of init, over the     *)
(* scheduler core of Sched.                                                *)
(*                                                                         *)
(* pc[p] says where p is in the kernel: kernel code is cut exactly where   *)
(* it calls schedule() and where an interrupt can come between two steps   *)
(* that matter.  Memory, files and exit codes are abstracted; the releases *)
(* of do_exit do not block here (no semaphore they take is held by a       *)
(* process that has given the processor away).                             *)
(***************************************************************************)
EXTENDS Sched, Integers, FiniteSets

CONSTANTS
  InitProc,     \* initproc, pid 1
  None,         \* the null pointer
  MaxProcess,   \* MAX_PROCESS
  InitThreads,  \* bound: how many kernel threads init creates
  MaxSleep,     \* bound: the longest time a process sleeps, in ticks
  KillTargets   \* bound: the pids processes kill

ASSUME ProcAssumption ==
  /\ InitProc \in Procs \ {Idle}
  /\ None \notin Procs
  /\ MaxProcess \in Nat \ {0}
  /\ InitThreads \in Nat \ {0}
  /\ MaxSleep \in Nat
  /\ KillTargets \subseteq Procs

Users == Procs \ {Idle, InitProc}

VARIABLES
  pc,         \* where the process is in the kernel, "user" if outside; "trapret"
              \* is the way out of trap() after its checks, at which a child begins
  kthread,    \* it is a kernel thread: it has no user mode to return to
  exiting,    \* proc->flags & PF_EXITING
  parent,     \* proc->parent
  cptr,       \* its youngest child
  yptr,       \* its younger sibling
  optr,       \* its older sibling
  wpid,       \* the argument of do_wait; pid 0 (Idle) is "any child"
  timer,      \* ticks until its timer fires, 0 if no timer is pending
  nrProcess,  \* nr_process
  halt        \* "no", "done" (init returned), or which panic stopped the kernel

familyVars == <<parent, cptr, yptr, optr, nrProcess>>
vars == <<schedVars, pc, kthread, exiting, familyVars, wpid, timer, halt>>

PCs == {"unused", "idle", "user", "kmain", "sysret", "irqret", "trapret",
        "wait", "wait_sched", "wait_wake", "sleep_sched", "sleep_del",
        "exit", "exit_wake", "exit_adopt", "exit_sched", "dead", "init_yield"}

TypeOK ==
  /\ SchedTypeOK
  /\ pc \in [Procs -> PCs]
  /\ kthread \in [Procs -> BOOLEAN]
  /\ exiting \in [Procs -> BOOLEAN]
  /\ parent \in [Procs -> Procs \cup {None}]
  /\ cptr \in [Procs -> Procs \cup {None}]
  /\ yptr \in [Procs -> Procs \cup {None}]
  /\ optr \in [Procs -> Procs \cup {None}]
  /\ wpid \in [Procs -> Procs]
  /\ timer \in [Procs -> 0 .. MaxSleep]
  /\ nrProcess \in Int
  /\ halt \in {"no", "done", "initexit", "assert"}

\* After proc_init: idle runs and has created init.
Init ==
  /\ current = Idle
  /\ state = [p \in Procs |-> IF p \in {Idle, InitProc} THEN "RUNNABLE" ELSE "UNUSED"]
  /\ waitState = [p \in Procs |-> "NONE"]
  /\ needResched = [p \in Procs |-> p = Idle]
  /\ slice = [p \in Procs |-> IF p = InitProc THEN MaxTimeSlice ELSE 0]
  /\ rq = [p \in Procs |-> IF p = InitProc THEN 1 ELSE 0]
  /\ pc = [p \in Procs |-> IF p = Idle THEN "idle"
                           ELSE IF p = InitProc THEN "kmain" ELSE "unused"]
  /\ kthread = [p \in Procs |-> p \in {Idle, InitProc}]
  /\ exiting = [p \in Procs |-> FALSE]
  /\ parent = [p \in Procs |-> IF p = InitProc THEN Idle ELSE None]
  /\ cptr = [p \in Procs |-> IF p = Idle THEN InitProc ELSE None]
  /\ yptr = [p \in Procs |-> None]
  /\ optr = [p \in Procs |-> None]
  /\ wpid = [p \in Procs |-> Idle]
  /\ timer = [p \in Procs |-> 0]
  /\ nrProcess = 2
  /\ halt = "no"

-----------------------------------------------------------------------------
\* The kernel has not stopped and p, at l, has the processor.
At(p, l) == halt = "no" /\ current = p /\ pc[p] = l

Goto(p, l) == pc' = [pc EXCEPT ![p] = l]

\* Where a system call of p, or the corresponding call of a kernel thread, returns to.
AfterCall(p) == IF kthread[p] THEN "kmain" ELSE "sysret"

Return(p) == Goto(p, AfterCall(p))

\* p issues a system call.
UserCalls(p) == At(p, "user")

\* p issues a system call, or is a kernel thread other than init that calls the function.
Calls(p) == UserCalls(p) \/ (At(p, "kmain") /\ p # InitProc)

\* An assertion of the code: the kernel panics if c does not hold.
Asserted(c) == halt' = IF c THEN halt ELSE "assert"

\* schedule() called by p, which goes on at l when it runs again.
SwitchTo(p, l) == Schedule /\ Goto(p, l)

\* find_proc(pid): idleproc is not in the hash lists.
FindProc(p) == p # Idle /\ state[p] # "UNUSED"

-----------------------------------------------------------------------------
(* do_fork: the slot of the child is set up, linked as the youngest child  *)
(* of its parent and made runnable.                                        *)

SetLinks(p, c) ==
  /\ parent' = [parent EXCEPT ![c] = p]
  /\ optr' = [optr EXCEPT ![c] = cptr[p]]
  /\ yptr' = [q \in Procs |-> IF q = c THEN None
                              ELSE IF q = cptr[p] THEN c ELSE yptr[q]]
  /\ cptr' = [cptr EXCEPT ![p] = c]
  /\ nrProcess' = nrProcess + 1

Fork(p, c) ==
  /\ UserCalls(p) \/ (At(InitProc, "kmain") /\ p = InitProc /\ nrProcess < 2 + InitThreads)
  /\ nrProcess < MaxProcess
  /\ state[c] = "UNUSED"
  /\ Asserted(waitState[p] = "NONE")
  /\ SetLinks(p, c)
  /\ WakeupProc(c)
  /\ pc' = [pc EXCEPT ![c] = IF kthread[p] THEN "kmain" ELSE "trapret",
                      ![p] = AfterCall(p)]
  /\ kthread' = [kthread EXCEPT ![c] = kthread[p]]
  /\ UNCHANGED <<exiting, wpid, timer>>

\* At the limit of processes, or out of memory after which everything is undone.
\* (For init a failed kernel_thread is a boot failure, which is left out.)
ForkFails(p) ==
  /\ UserCalls(p)
  /\ Asserted(nrProcess >= MaxProcess \/ waitState[p] = "NONE")
  /\ Return(p)
  /\ UNCHANGED <<schedVars, kthread, exiting, familyVars, wpid, timer>>

\* A kernel thread, or a process, executes a program.  A kernel thread comes to
\* user mode without the checks of TrapReturn.
Exec(p) ==
  /\ Calls(p)
  /\ \/ Goto(p, IF kthread[p] THEN "trapret" ELSE "sysret")
     \/ Goto(p, "exit")
  /\ kthread' = [kthread EXCEPT ![p] = pc'[p] = "exit" /\ @]
  /\ UNCHANGED <<schedVars, exiting, familyVars, wpid, timer, halt>>

-----------------------------------------------------------------------------
(* do_exit.                                                                *)

\* sys_exit, or a kernel thread whose function returns.
Exit(p) ==
  /\ Calls(p)
  /\ Goto(p, "exit")
  /\ UNCHANGED <<schedVars, kthread, exiting, familyVars, wpid, timer, halt>>

\* Memory and files are released and the process becomes a zombie.
ExitZombie(p) ==
  /\ At(p, "exit")
  /\ IF p = InitProc
     THEN halt' = "initexit" /\ UNCHANGED <<state, pc>>
     ELSE /\ state' = [state EXCEPT ![p] = "ZOMBIE"]
          /\ Goto(p, "exit_wake")
          /\ UNCHANGED halt
  /\ UNCHANGED <<current, waitState, needResched, slice, rq>>
  /\ UNCHANGED <<kthread, exiting, familyVars, wpid, timer>>

\* wakeup_proc of q if it waits for a child.
WakeWaiter(q) ==
  IF waitState[q] = "WT_CHILD"
  THEN WakeupProc(q) /\ Asserted(state[q] # "ZOMBIE")
  ELSE UNCHANGED <<schedVars, halt>>

\* Interrupts are disabled from here to the end of the loop of ExitAdopt.
\* (Mutated form: the parent is not told.)
ExitWakeParentSilent(p) ==
  /\ At(p, "exit_wake")
  /\ Goto(p, "exit_adopt")
  /\ UNCHANGED <<schedVars, kthread, exiting, familyVars, wpid, timer, halt>>

ExitWakeParent(p) ==
  /\ At(p, "exit_wake")
  /\ WakeWaiter(parent[p])
  /\ Goto(p, "exit_adopt")
  /\ UNCHANGED <<kthread, exiting, familyVars, wpid, timer>>

\* One turn of the loop: the youngest child is moved to the front of init's.
\* (Mutated form: init gets the child but not into its list.)
MoveChildUnlinked(p, c) ==
  /\ parent' = [parent EXCEPT ![c] = InitProc]
  /\ optr' = [optr EXCEPT ![c] = cptr[InitProc]]
  /\ cptr' = [cptr EXCEPT ![p] = optr[c]]
  /\ UNCHANGED <<yptr, nrProcess>>

MoveChild(p, c) ==
  /\ parent' = [parent EXCEPT ![c] = InitProc]
  /\ optr' = [optr EXCEPT ![c] = cptr[InitProc]]
  /\ yptr' = [q \in Procs |-> IF q = cptr[InitProc] THEN c
                              ELSE IF q = c THEN None ELSE yptr[q]]
  /\ cptr' = [cptr EXCEPT ![p] = optr[c], ![InitProc] = c]
  /\ UNCHANGED nrProcess

\* (Mutated form: init is not told of a zombie it inherits.)
ExitAdoptSilent(p) ==
  /\ At(p, "exit_adopt")
  /\ cptr[p] # None
  /\ MoveChild(p, cptr[p])
  /\ UNCHANGED <<schedVars, pc, kthread, exiting, wpid, timer, halt>>

ExitAdopt(p) ==
  /\ At(p, "exit_adopt")
  /\ cptr[p] # None
  /\ MoveChild(p, cptr[p])
  /\ IF state[cptr[p]] = "ZOMBIE" THEN WakeWaiter(InitProc) ELSE UNCHANGED <<schedVars, halt>>
  /\ UNCHANGED <<pc, kthread, exiting, wpid, timer>>

ExitAdoptEnd(p) ==
  /\ At(p, "exit_adopt")
  /\ cptr[p] = None
  /\ Goto(p, "exit_sched")
  /\ UNCHANGED <<schedVars, kthread, exiting, familyVars, wpid, timer, halt>>

ExitSchedule(p) ==
  /\ At(p, "exit_sched")
  /\ SwitchTo(p, "dead")
  /\ UNCHANGED <<kthread, exiting, familyVars, wpid, timer, halt>>

-----------------------------------------------------------------------------
(* do_wait.                                                                *)

WaitCall(p, pid) ==
  /\ UserCalls(p)
  /\ wpid' = [wpid EXCEPT ![p] = pid]
  /\ Goto(p, "wait")
  /\ UNCHANGED <<schedVars, kthread, exiting, familyVars, timer, halt>>

\* The n-th child of p, the youngest first: n steps along optr from cptr.
ChildAt(p) ==
  LET at[n \in 0 .. MaxProcess] ==
        IF n = 0 THEN cptr[p]
        ELSE IF at[n - 1] = None THEN None ELSE optr[at[n - 1]]
  IN  at

Children(p) == {ChildAt(p)[n] : n \in 0 .. MaxProcess} \ {None}

\* The children p waits for: the one named, if it is a child of p, or all.
WaitedFor(p) ==
  IF wpid[p] = Idle THEN Children(p)
  ELSE {c \in {wpid[p]} : FindProc(c) /\ parent[c] = p}

\* The zombie the scan meets first.
FoundZombie(p, c) ==
  /\ c \in WaitedFor(p)
  /\ state[c] = "ZOMBIE"
  /\ wpid[p] = Idle =>
       \E n \in 0 .. MaxProcess :
         /\ ChildAt(p)[n] = c
         /\ \A m \in 0 .. n - 1 : state[ChildAt(p)[m]] # "ZOMBIE"

\* (Mutated form: a middle child is unlinked in one direction only.)
RemoveLinksOneWay(c) ==
  /\ optr' = [q \in Procs |-> IF q = c THEN None
                              ELSE IF q = yptr[c] THEN optr[c] ELSE optr[q]]
  /\ cptr' = IF yptr[c] = None THEN [cptr EXCEPT ![parent[c]] = optr[c]] ELSE cptr
  /\ parent' = [parent EXCEPT ![c] = None]
  /\ yptr' = [yptr EXCEPT ![c] = None]
  /\ nrProcess' = nrProcess - 1

RemoveLinks(c) ==
  /\ yptr' = [q \in Procs |-> IF q = c THEN None
                              ELSE IF q = optr[c] THEN yptr[c] ELSE yptr[q]]
  /\ optr' = [q \in Procs |-> IF q = c THEN None
                              ELSE IF q = yptr[c] THEN optr[c] ELSE optr[q]]
  /\ cptr' = IF yptr[c] = None THEN [cptr EXCEPT ![parent[c]] = optr[c]] ELSE cptr
  /\ parent' = [parent EXCEPT ![c] = None]
  /\ nrProcess' = nrProcess - 1

\* The zombie is unlinked and freed (a free slot has the values of alloc_proc).
Reap(p, c) ==
  /\ At(p, "wait")
  /\ FoundZombie(p, c)
  /\ RemoveLinks(c)
  /\ state' = [state EXCEPT ![c] = "UNUSED"]
  /\ slice' = [slice EXCEPT ![c] = 0]
  /\ needResched' = [needResched EXCEPT ![c] = FALSE]
  /\ exiting' = [exiting EXCEPT ![c] = FALSE]
  /\ kthread' = [kthread EXCEPT ![c] = FALSE]
  /\ pc' = [pc EXCEPT ![c] = "unused",
                      ![p] = IF p = InitProc THEN "init_yield" ELSE AfterCall(p)]
  /\ wpid' = [wpid EXCEPT ![p] = Idle, ![c] = Idle]
  /\ UNCHANGED <<current, waitState, rq, timer, halt>>

NoZombie(p) == \A c \in WaitedFor(p) : state[c] # "ZOMBIE"

WaitSleep(p) ==
  /\ At(p, "wait")
  /\ WaitedFor(p) # {} /\ NoZombie(p)
  /\ SetSleeping("WT_CHILD")
  /\ Goto(p, "wait_sched")
  /\ UNCHANGED <<current, needResched, slice, rq>>
  /\ UNCHANGED <<kthread, exiting, familyVars, wpid, timer, halt>>

WaitSchedule(p) ==
  /\ At(p, "wait_sched")
  /\ SwitchTo(p, "wait_wake")
  /\ UNCHANGED <<kthread, exiting, familyVars, wpid, timer, halt>>

\* After schedule(): a process that was killed exits, another one looks again.
WaitWake(p) ==
  /\ At(p, "wait_wake")
  /\ Goto(p, IF exiting[p] THEN "exit" ELSE "wait")
  /\ UNCHANGED <<schedVars, kthread, exiting, familyVars, wpid, timer, halt>>

\* -E_BAD_PROC.  init then ends, which it may only do as the last process.
WaitNoChild(p) ==
  /\ At(p, "wait")
  /\ WaitedFor(p) = {}
  /\ wpid' = [wpid EXCEPT ![p] = Idle]
  /\ IF p = InitProc THEN halt' = "done" /\ UNCHANGED pc ELSE Return(p) /\ UNCHANGED halt
  /\ UNCHANGED <<schedVars, kthread, exiting, familyVars, timer>>

-----------------------------------------------------------------------------
(* do_kill, do_yield, do_sleep.                                            *)

\* (Mutated form: the target is woken whatever it waits for.)
KillAlwaysWakes(p, q) ==
  /\ UserCalls(p)
  /\ FindProc(q) /\ ~exiting[q]
  /\ exiting' = [exiting EXCEPT ![q] = TRUE]
  /\ WakeupProc(q) /\ Asserted(state[q] # "ZOMBIE")
  /\ Return(p)
  /\ UNCHANGED <<kthread, familyVars, wpid, timer>>

Kill(p, q) ==
  /\ UserCalls(p)
  /\ FindProc(q) /\ ~exiting[q]
  /\ exiting' = [exiting EXCEPT ![q] = TRUE]
  /\ IF Interrupted(waitState[q])
     THEN WakeupProc(q) /\ Asserted(state[q] # "ZOMBIE")
     ELSE UNCHANGED <<schedVars, halt>>
  /\ Return(p)
  /\ UNCHANGED <<kthread, familyVars, wpid, timer>>

\* -E_INVAL or -E_KILLED.
KillFails(p, q) ==
  /\ UserCalls(p)
  /\ ~FindProc(q) \/ exiting[q]
  /\ Return(p)
  /\ UNCHANGED <<schedVars, kthread, exiting, familyVars, wpid, timer, halt>>

Yield(p) ==
  /\ UserCalls(p)
  /\ needResched' = [needResched EXCEPT ![p] = TRUE]
  /\ Return(p)
  /\ UNCHANGED <<current, state, waitState, slice, rq>>
  /\ UNCHANGED <<kthread, exiting, familyVars, wpid, timer, halt>>

SleepCall(p, t) ==
  /\ Calls(p)
  /\ SetSleeping("WT_TIMER")
  /\ timer' = [timer EXCEPT ![p] = t]
  /\ Goto(p, "sleep_sched")
  /\ UNCHANGED <<current, needResched, slice, rq>>
  /\ UNCHANGED <<kthread, exiting, familyVars, wpid, halt>>

SleepSchedule(p) ==
  /\ At(p, "sleep_sched")
  /\ SwitchTo(p, "sleep_del")
  /\ UNCHANGED <<kthread, exiting, familyVars, wpid, timer, halt>>

\* del_timer: the process may run again because it was killed.
SleepEnd(p) ==
  /\ At(p, "sleep_del")
  /\ timer' = [timer EXCEPT ![p] = 0]
  /\ Return(p)
  /\ UNCHANGED <<schedVars, kthread, exiting, familyVars, wpid, halt>>

-----------------------------------------------------------------------------
(* trap(): a clock tick, and the way back to user mode.                    *)

\* Handlers run with interrupts disabled, and so do the loop of do_exit and the
\* few instructions from forkret, or from a handler that was preempted, to iret.
\* (After a system call was preempted they are enabled there: a tick that comes
\* then is taken as one that comes after iret.)
InterruptsOn == halt = "no" /\ pc[current] \notin {"irqret", "trapret", "exit_adopt"}

Fires == {p \in Procs : timer[p] = 1}

Tick ==
  /\ InterruptsOn
  /\ RunTimers(Fires)
  /\ timer' = [p \in Procs |-> IF timer[p] > 0 THEN timer[p] - 1 ELSE 0]
  /\ Asserted(\A p \in Fires : /\ waitState[p] = "NONE" \/ Interrupted(waitState[p])
                             /\ state[p] # "ZOMBIE")
  /\ IF pc[current] = "user" THEN Goto(current, "irqret") ELSE UNCHANGED pc
  /\ UNCHANGED <<kthread, exiting, familyVars, wpid>>

\* (Mutated forms: the processor is given away before the check for a kill;
\* there is no such check.)
TrapReturnLateCheck(p) ==
  /\ At(p, "sysret") \/ At(p, "irqret")
  /\ IF needResched[p] THEN SwitchTo(p, "trapret")
     ELSE Goto(p, IF exiting[p] THEN "exit" ELSE "user") /\ UNCHANGED schedVars
  /\ UNCHANGED <<kthread, exiting, familyVars, wpid, timer, halt>>

TrapReturnNoCheck(p) ==
  /\ At(p, "sysret") \/ At(p, "irqret")
  /\ IF needResched[p] THEN SwitchTo(p, "trapret") ELSE Goto(p, "user") /\ UNCHANGED schedVars
  /\ UNCHANGED <<kthread, exiting, familyVars, wpid, timer, halt>>

\* The check of PF_EXITING, then that of need_resched.
TrapReturn(p) ==
  /\ At(p, "sysret") \/ At(p, "irqret")
  /\ IF exiting[p] THEN Goto(p, "exit") /\ UNCHANGED schedVars
     ELSE IF needResched[p] THEN SwitchTo(p, "trapret")
     ELSE Goto(p, "user") /\ UNCHANGED schedVars
  /\ UNCHANGED <<kthread, exiting, familyVars, wpid, timer, halt>>

\* The rest of trap(), or forkret, and __trapret: nothing is looked at any more.
Leave(p) ==
  /\ At(p, "trapret")
  /\ Goto(p, "user")
  /\ UNCHANGED <<schedVars, kthread, exiting, familyVars, wpid, timer, halt>>

-----------------------------------------------------------------------------
(* idle and init.                                                          *)

IdleLoop ==
  /\ At(Idle, "idle")
  /\ needResched[Idle]
  /\ SwitchTo(Idle, "idle")
  /\ UNCHANGED <<kthread, exiting, familyVars, wpid, timer, halt>>

\* init has created its threads: from now on it only reaps.
InitLoop ==
  /\ At(InitProc, "kmain")
  /\ cptr[InitProc] # None
  /\ Goto(InitProc, "wait")
  /\ UNCHANGED <<schedVars, kthread, exiting, familyVars, wpid, timer, halt>>

InitYield ==
  /\ At(InitProc, "init_yield")
  /\ SwitchTo(InitProc, "wait")
  /\ UNCHANGED <<kthread, exiting, familyVars, wpid, timer, halt>>

\* The kernel has stopped.
Halted == halt # "no" /\ UNCHANGED vars

-----------------------------------------------------------------------------
\* What a program or a kernel thread may call.
Call(p) ==
  \/ \E c \in Users : Fork(p, c)
  \/ ForkFails(p)
  \/ Exec(p)
  \/ Exit(p)
  \/ \E q \in Procs : WaitCall(p, q)
  \/ \E q \in KillTargets : Kill(p, q)
  \/ \E q \in KillTargets : KillFails(p, q)
  \/ Yield(p)
  \/ \E t \in 1 .. MaxSleep : SleepCall(p, t)

\* What the kernel does on its own for the process that runs.
Continue(p) ==
  \/ ExitZombie(p)
  \/ ExitWakeParent(p)
  \/ ExitAdopt(p)
  \/ ExitAdoptEnd(p)
  \/ ExitSchedule(p)
  \/ \E c \in Users : Reap(p, c)
  \/ WaitSleep(p)
  \/ WaitSchedule(p)
  \/ WaitWake(p)
  \/ WaitNoChild(p)
  \/ SleepSchedule(p)
  \/ SleepEnd(p)
  \/ TrapReturn(p)
  \/ Leave(p)

Next ==
  \/ \E p \in Procs \ {Idle} : Call(p) \/ Continue(p)
  \/ IdleLoop
  \/ InitLoop
  \/ InitYield
  \/ Tick
  \/ Halted

Spec == Init /\ [][Next]_vars

-----------------------------------------------------------------------------
(* Fairness.  A pending clock interrupt is delivered once interrupts are   *)
(* enabled; kernel code, and the code of kernel threads, goes on; a process*)
(* the run queue keeps offering is taken at some time (the stride of every *)
(* other process grows each time it is taken instead).  Nothing is assumed *)
(* of programs: they may loop in user mode for ever.                       *)

KernelStep ==
  \/ \E p \in Procs \ {Idle} : Continue(p) \/ (kthread[p] /\ Call(p))
  \/ IdleLoop
  \/ InitLoop
  \/ InitYield

\* A call of schedule() that takes p.
Dispatched(p) ==
  /\ \/ \E q \in Procs \ {Idle} :
          ExitSchedule(q) \/ WaitSchedule(q) \/ SleepSchedule(q) \/ TrapReturn(q)
     \/ IdleLoop
     \/ InitYield
  /\ current # p
  /\ current' = p

Fairness ==
  /\ SF_vars(Tick)
  /\ WF_vars(KernelStep)
  /\ \A p \in Procs \ {Idle} : SF_vars(Dispatched(p))

FairSpec == Spec /\ Fairness

-----------------------------------------------------------------------------
(* The relations between processes agree (set_links, remove_links, the     *)
(* loop of do_exit): the list from cptr along optr holds exactly the       *)
(* processes whose parent is p, yptr is the way back, no pointer leads to  *)
(* a freed process, and nr_process counts the processes.  In the middle of *)
(* do_exit's loop only the yptr of the next child to move is out of date.  *)
Moving(c) == pc[current] = "exit_adopt" /\ cptr[current] = c

FamilyConsistent ==
  /\ nrProcess = Cardinality({p \in Procs : state[p] # "UNUSED"})
  /\ \A p \in Procs :
       /\ Children(p) = {c \in Procs : parent[c] = p}
       /\ cptr[p] # None => yptr[cptr[p]] = None \/ Moving(cptr[p])
       /\ optr[p] # None => yptr[optr[p]] = p
       /\ yptr[p] # None => optr[yptr[p]] = p \/ Moving(p)
       /\ parent[p] # None => state[p] # "UNUSED" /\ state[parent[p]] # "UNUSED"

(* No exit is missed: whoever sleeps in do_wait has no zombie among the    *)
(* children it waits for, whichever way processes become its children, and *)
(* although do_exit makes the zombie before it looks at the wait state of  *)
(* the parent.  The zombie that is just exiting is the exception, until it *)
(* has looked.                                                             *)
NoLostChild ==
  \A p \in Procs :
    waitState[p] = "WT_CHILD" /\ ~NoZombie(p) => pc[current] \in {"exit_wake", "exit_adopt"}

(* init ends only as the last process: every process was reaped, orphans   *)
(* included (the assertions at the end of init_main).                      *)
InitEndsLast ==
  halt = "done" => \A p \in Users : state[p] = "UNUSED"

(* No sequence of calls makes an assertion fail: wakeup_proc is never asked*)
(* to wake a zombie, do_fork never runs with a wait reason, and a timer    *)
(* only fires for a process that is awake or sleeps interruptibly.         *)
NoAssertionFails == halt # "assert"

(* A process that is killed, and whose way to user mode is still before   *)
(* it - it is in a system call, asleep, queued or exiting - does not see   *)
(* user mode again, whichever way it goes on: the check of PF_EXITING in   *)
(* trap() comes before schedule().  Only who was past the check already,   *)
(* preempted by that schedule() or a child that has not run, sees it once  *)
(* more, until its next trap.  (A kernel thread has no such way: it may be *)
(* killed and execute a program all the same.)                             *)
PastCheck == {"trapret", "user"}

KilledStaysInKernel ==
  [][\A p \in Procs :
       exiting[p] /\ ~kthread[p] /\ pc[p] \notin PastCheck => pc'[p] \notin PastCheck]_vars

(* init reaps every zombie it inherits.                                    *)
OrphansReaped ==
  \A p \in Users :
    state[p] = "ZOMBIE" /\ parent[p] = InitProc ~> state[p] = "UNUSED"

(* do_sleep returns: the timer wakes the sleeper, also one whose timer     *)
(* fires before it has called schedule().                                  *)
SleepReturns ==
  \A p \in Users : pc[p] = "sleep_sched" ~> pc[p] = "sleep_del" /\ current = p

(* A killed process exits, unless it has gone to wait for a child after    *)
(* the kill.                                                               *)
KilledExits ==
  \A p \in Users :
    exiting[p] /\ ~kthread[p] ~> state[p] \in {"ZOMBIE", "UNUSED"} \/ waitState[p] = "WT_CHILD"

(* What the comments on WT_INTERRUPTED (proc.h) and the sleepkill test     *)
(* promise: a kill interrupts such a wait.  It does not hold of a process  *)
(* that is killed past the check in trap(), such as a child that has not   *)
(* run yet: its next call may sleep in such a wait, marked as killed.      *)
KillInterruptsWait ==
  \A p \in Procs : exiting[p] /\ ~kthread[p] => ~Interrupted(waitState[p])
=============================================================================

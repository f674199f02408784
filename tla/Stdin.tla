------------------------------- MODULE Stdin -------------------------------
(***************************************************************************)
(* The keyboard device (kern/fs/devs/dev_stdin.c): a ring of characters    *)
(* that the keyboard interrupt fills and read calls empty, one character   *)
(* at a time, sleeping on a wait queue when there is none.  A keystroke    *)
(* wakes all readers; a kill wakes one reader, which stays in the queue    *)
(* until it runs.                                                          *)
(*                                                                         *)
(* dev_stdin_read runs with interrupts disabled, except from where it is   *)
(* in the wait queue to where schedule() returns.                          *)
(***************************************************************************)
EXTENDS Sched, Sequences, SequencesExt

CONSTANTS
  BufSize,   \* STDIN_BUFSIZE
  MaxTyped,  \* bound: how many keys are pressed; a key is its number
  MaxRead    \* bound: the most characters one call asks for

ASSUME StdinAssumption ==
  /\ BufSize \in Nat \ {0} /\ MaxTyped \in Nat /\ MaxRead \in Nat \ {0}

VARIABLES
  pc,         \* where the process is
  exiting,    \* proc->flags & PF_EXITING
  buffer,     \* stdin_buffer
  rpos, wpos, \* p_rpos, p_wpos
  waitq,      \* wait_queue: the processes that are in it, as all are woken at once
  flags,      \* wait->wakeup_flags of the process' wait_t
  want,       \* how many characters the read call still asks for
  typed,      \* how many keys have been pressed
  lost,       \* history: the keys that were overwritten in the ring
  taken       \* history: the keys delivered to readers, in order

ring == <<buffer, rpos, wpos, typed, lost, taken>>
vars == <<schedVars, pc, exiting, ring, waitq, flags, want>>

Readers == Procs \ {Idle}
PCs == {"idle", "user", "read", "read_sched", "read_wake", "sysret", "exit", "dead"}

TypeOK ==
  /\ SchedTypeOK
  /\ pc \in [Procs -> PCs]
  /\ exiting \in [Procs -> BOOLEAN]
  /\ buffer \in [0 .. BufSize - 1 -> 0 .. MaxTyped]
  /\ rpos \in 0 .. wpos /\ wpos \in 0 .. rpos + BufSize
  /\ waitq \subseteq Readers
  /\ flags \in [Procs -> {"WT_INTERRUPTED", "WT_KBD"}]
  /\ want \in [Procs -> 0 .. MaxRead]
  /\ typed \in 0 .. MaxTyped
  /\ lost \subseteq 0 .. MaxTyped
  /\ taken \in Seq(0 .. MaxTyped)

Init ==
  /\ current \in Readers
  /\ state = [p \in Procs |-> "RUNNABLE"]
  /\ waitState = [p \in Procs |-> "NONE"]
  /\ needResched = [p \in Procs |-> FALSE]
  /\ slice = [p \in Procs |-> IF p = Idle THEN 0 ELSE MaxTimeSlice]
  /\ rq = [p \in Procs |-> IF p \in {current, Idle} THEN 0 ELSE 1]
  /\ pc = [p \in Procs |-> IF p = Idle THEN "idle" ELSE "user"]
  /\ exiting = [p \in Procs |-> FALSE]
  /\ buffer = [i \in 0 .. BufSize - 1 |-> 0]
  /\ rpos = 0 /\ wpos = 0
  /\ waitq = {}
  /\ flags = [p \in Procs |-> "WT_INTERRUPTED"]
  /\ want = [p \in Procs |-> 0]
  /\ typed = 0
  /\ lost = {}
  /\ taken = <<>>

At(p, l) == current = p /\ pc[p] = l
Goto(p, l) == pc' = [pc EXCEPT ![p] = l]
SwitchTo(p, l) == Schedule /\ Goto(p, l)

-----------------------------------------------------------------------------
(* dev_stdin_write, from the keyboard interrupt.                           *)

\* (Mutated forms: a full ring moves on over the oldest character; nobody
\* is woken.)
PutWraps ==
  /\ buffer' = [buffer EXCEPT ![wpos % BufSize] = typed + 1]
  /\ wpos' = wpos + 1
  /\ lost' = lost

Put ==
  /\ buffer' = [buffer EXCEPT ![wpos % BufSize] = typed + 1]
  /\ wpos' = IF wpos - rpos < BufSize THEN wpos + 1 ELSE wpos
  /\ lost' = IF wpos - rpos < BufSize THEN lost ELSE lost \cup {buffer[wpos % BufSize]}

WakeNobody ==
  UNCHANGED <<schedVars, flags, waitq>>

WakeReaders ==
  /\ MakeRunnable(waitq)
  /\ slice' = WokenSlice(waitq)
  /\ flags' = [p \in Procs |-> IF p \in waitq THEN "WT_KBD" ELSE flags[p]]
  /\ waitq' = {}
  /\ UNCHANGED <<current, needResched>>

InterruptsOn == pc[current] # "read"

Key ==
  /\ InterruptsOn
  /\ typed < MaxTyped
  /\ typed' = typed + 1
  /\ Put
  /\ WakeReaders
  /\ UNCHANGED <<pc, exiting, rpos, taken, want>>

-----------------------------------------------------------------------------
(* dev_stdin_read.                                                         *)

ReadCall(p, n) ==
  /\ At(p, "user")
  /\ want' = [want EXCEPT ![p] = n]
  /\ Goto(p, "read")
  /\ UNCHANGED <<schedVars, exiting, ring, waitq, flags>>

\* One turn of the loop that finds a character.
ReadChar(p) ==
  /\ At(p, "read")
  /\ want[p] > 0
  /\ rpos < wpos
  /\ taken' = Append(taken, buffer[rpos % BufSize])
  /\ rpos' = rpos + 1
  /\ want' = [want EXCEPT ![p] = @ - 1]
  /\ UNCHANGED <<schedVars, pc, exiting, buffer, wpos, typed, lost, waitq, flags>>

ReadSleep(p) ==
  /\ At(p, "read")
  /\ want[p] > 0
  /\ rpos >= wpos
  /\ SetSleeping("WT_KBD")
  /\ waitq' = waitq \cup {p}
  /\ flags' = [flags EXCEPT ![p] = "WT_INTERRUPTED"]
  /\ Goto(p, "read_sched")
  /\ UNCHANGED <<current, needResched, slice, rq, exiting, ring, want>>

ReadSchedule(p) ==
  /\ At(p, "read_sched")
  /\ SwitchTo(p, "read_wake")
  /\ UNCHANGED <<exiting, ring, waitq, flags, want>>

\* After schedule(): try again if it was a key, else return what was read.
\* (Mutated form: always try again.)
ReadWakeRetries(p) ==
  /\ At(p, "read_wake")
  /\ waitq' = waitq \ {p}
  /\ flags' = [flags EXCEPT ![p] = "WT_INTERRUPTED"]
  /\ Goto(p, "read")
  /\ UNCHANGED <<schedVars, exiting, ring, want>>

ReadWake(p) ==
  /\ At(p, "read_wake")
  /\ waitq' = waitq \ {p}
  /\ flags' = [flags EXCEPT ![p] = "WT_INTERRUPTED"]
  /\ IF flags[p] = "WT_KBD"
     THEN Goto(p, "read") /\ want' = want
     ELSE Goto(p, "sysret") /\ want' = [want EXCEPT ![p] = 0]
  /\ UNCHANGED <<schedVars, exiting, ring>>

ReadEnd(p) ==
  /\ At(p, "read")
  /\ want[p] = 0
  /\ Goto(p, "sysret")
  /\ UNCHANGED <<schedVars, exiting, ring, waitq, flags, want>>

-----------------------------------------------------------------------------
(* What surrounds a read, as in Proc: do_kill, the way back to user mode,  *)
(* do_exit and the idle loop.  A clock interrupt is taken in user mode     *)
(* only, where it may take the processor away.                             *)

Kill(p, q) ==
  /\ At(p, "user")
  /\ ~exiting[q] /\ state[q] # "ZOMBIE"
  /\ exiting' = [exiting EXCEPT ![q] = TRUE]
  /\ IF Interrupted(waitState[q]) THEN WakeupProc(q) ELSE UNCHANGED schedVars
  /\ Goto(p, "sysret")
  /\ UNCHANGED <<ring, waitq, flags, want>>

TrapReturn(p) ==
  /\ At(p, "sysret")
  /\ Goto(p, IF exiting[p] THEN "exit" ELSE "user")
  /\ UNCHANGED <<schedVars, exiting, ring, waitq, flags, want>>

Preempt(p) ==
  /\ At(p, "user")
  /\ IF exiting[p] THEN Goto(p, "exit") /\ UNCHANGED schedVars ELSE SwitchTo(p, "user")
  /\ UNCHANGED <<exiting, ring, waitq, flags, want>>

Exit(p) ==
  /\ At(p, "exit")
  /\ state' = [state EXCEPT ![p] = "ZOMBIE"]
  /\ Goto(p, "dead")
  /\ UNCHANGED <<current, waitState, needResched, slice, rq, exiting, ring, waitq, flags, want>>

ExitSchedule(p) ==
  /\ At(p, "dead")
  /\ SwitchTo(p, "dead")
  /\ UNCHANGED <<exiting, ring, waitq, flags, want>>

\* A clock tick lets cpu_idle look at the run queue.
IdleLoop ==
  /\ At(Idle, "idle")
  /\ SwitchTo(Idle, "idle")
  /\ UNCHANGED <<exiting, ring, waitq, flags, want>>

KernelStep ==
  \/ \E p \in Readers :
       \/ ReadChar(p) \/ ReadSleep(p) \/ ReadSchedule(p) \/ ReadWake(p) \/ ReadEnd(p)
       \/ TrapReturn(p) \/ Exit(p) \/ ExitSchedule(p)
  \/ IdleLoop

Next ==
  \/ Key
  \/ \E p \in Readers :
       \/ \E n \in 1 .. MaxRead : ReadCall(p, n)
       \/ \E q \in Readers : Kill(p, q)
       \/ Preempt(p)
  \/ KernelStep

Spec == Init /\ [][Next]_vars

\* Kernel code goes on, clock interrupts come in user mode, and the run queue
\* is served (see Proc).
Fairness ==
  /\ WF_vars(KernelStep)
  /\ WF_vars(\E p \in Readers : Preempt(p))
  /\ \A p \in Readers : SF_vars(KernelStep /\ current # p /\ current' = p)
  /\ \A p \in Readers : SF_vars((\E q \in Readers : Preempt(q)) /\ current # p /\ current' = p)

FairSpec == Spec /\ Fairness

-----------------------------------------------------------------------------
(* No reader sleeps while there is something to read, whatever comes       *)
(* between the look at the ring, the wait queue and schedule().            *)
NoSleepWithKeys ==
  \A p \in Readers : waitState[p] = "WT_KBD" => rpos = wpos

\* The keys in the ring, the next to be read first.
InRing == [i \in 1 .. wpos - rpos |-> buffer[(rpos + i - 1) % BufSize]]

(* Every key is delivered once, or is in the ring, or was lost because the *)
(* ring was full; and while none was lost the order is that of typing.     *)
KeysOnce ==
  /\ IsInjective(taken \o InRing)
  /\ ToSet(taken \o InRing) = (1 .. typed) \ lost
  /\ lost = {} => taken \o InRing = [i \in 1 .. typed |-> i]

(* A reader that a kill has woken returns from its read and exits, unless  *)
(* a key comes before it runs: then it tries again, and may even sleep     *)
(* again.                                                                  *)
KilledReaderLeaves ==
  \A p \in Readers, n \in 0 .. MaxTyped :
    (exiting[p] /\ p \in waitq /\ state[p] = "RUNNABLE" /\ typed = n)
      ~> (state[p] = "ZOMBIE" \/ typed > n)
=============================================================================

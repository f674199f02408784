# A formal model of the uCore kernel

This directory holds a TLA+ model of the kernel in this repository: modules, the TLC
configurations that check them on small instances, and theorems with proofs that TLAPS checks
for every value of the constants. `PROJECT.json` lists the components, the runs, the lines each
definition stands for, the hazards and the theorems; this text explains them.

## Scope

The repository is a course: exercise templates (`src/labcodes/lab1` to `lab8`), their solutions
(`src/labcodes_answer/lab1_result` to `lab8_result`), and a port to Rust that has begun
(`src/os`, `src/bootloader`). Each lab contains the one before, so
`src/labcodes_answer/lab8_result` is the complete kernel, and it alone is the reference. All
paths below are relative to its `kern/` unless they begin with `src/`.

The kernel runs on one processor, and it is not preemptive: kernel code gives the processor away
only where it calls `schedule()`. Interrupt handlers come between any two instructions where
interrupts are enabled, but a handler that interrupted kernel code returns to it. Concurrency is
therefore of three kinds, and the modules are cut accordingly:

1. between a process that marked itself as sleeping and its own `schedule()`, handlers run;
2. across `schedule()`, any other process runs for any time;
3. in user mode, a clock interrupt may take the processor away.

An action is the code from one such place to the next. `pc[p]` names the place.

## Inventory

| Component | State | Operations | Interacts with | What is hard | What makes it correct |
|---|---|---|---|---|---|
| Processes `process/proc.c`, `trap/trap.c` | `proc_struct` (state, flags, family pointers), `nr_process`, `current` | fork, exec, exit, wait, kill, yield, sleep; the checks on the way out of a trap | scheduler, timers, memory, files | exits racing waits; adoption by init; kills of sleeping, waking and queued processes | no lost child, exact families, every orphan is reaped, a killed process ends |
| Scheduler core `schedule/sched.c` | run queue, `need_resched`, time slices | `wakeup_proc`, `schedule`, the tick | everything that sleeps | wake-up before the sleeper called `schedule()` | the queue holds exactly the runnable processes that do not run |
| Stride policy `schedule/default_sched.c` | strides, priorities, the skew heap | enqueue, dequeue, pick, tick | scheduler core | 32-bit strides that wrap; sleepers that come back | the least stride is picked, nobody starves |
| PIDs `get_pid` in `process/proc.c` | `last_pid`, `next_safe` | find a free pid | fork, wait | a cache over a list that changes; wrap in mid-scan | pids are unique, the scan ends |
| Timers `add_timer`... in `schedule/sched.c` | a list of differences | add, delete, tick | sleep, kill | removal in the middle; equal times | each rings at its tick |
| Semaphores `sync/sem.c`, `sync/wait.c` | value, queue, wake-up flags | up, down | scheduler core | hand-over to a process that runs later | no unit lost or doubled |
| Monitors `sync/monitor.c`, `sync/check_sync.c` | `next_count`, `cv.count`, three kinds of semaphores | wait, signal, enter, leave | semaphores | the monitor is passed on, never freed | one owner, nobody left behind |
| Keyboard `fs/devs/dev_stdin.c` | ring, positions, wait queue | read, interrupt | scheduler core, kill | key, kill and sleep in every order; full ring | no sleep over a key, no key twice |
| Physical memory `mm/default_pmm.c`, `mm/pmm.c` | the list of free blocks, page counts, page tables | alloc, free, map, unmap, copy | all | merging of blocks; counts of mapped pages; running out | no page lost or given twice, count = mappings |
| Virtual memory `mm/vmm.c`, `mm/swap.c`, `mm/swap_fifo.c` | areas, swap entries, the FIFO list | map, unmap, dup, page fault, swap in and out | physical memory, processes | failures half-way; overlapping areas | areas disjoint and sorted, processes keep what they stored and see nobody else's |
| Kernel heap `mm/kmalloc.c` | the ring of free blocks, `slobfree`, the list of big blocks | kmalloc, kfree | physical memory | where a block is put back; records of big blocks | objects and blocks disjoint, none lost, the ring in order |
| Files `fs/file.c`, `fs/sysfile.c`, `fs/fs.c` | descriptor tables, working directories | open, close, dup, read, write, seek, fork, exec, exit | VFS | every way out of a failed call | counts of inodes are those of the descriptors |
| VFS `fs/vfs/*.c` | reference and open counts of inodes | lookup, open, close, chdir | files, SFS, devices | error paths | references balance, the last one drops the inode |
| SFS `fs/sfs/*.c` | bitmap, inodes in memory and on disk, block maps | load, reclaim, read, write, truncate, sync | VFS, disk | a full disk half-way through a growth; stale positions | a block is free or in one place of one file; files keep what was written |

Not components with a protocol of their own: `driver/` (port I/O), `debug/` (printing), `init/`
and boot code (straight line), `user/` (programs: in the model a program may issue any call at
any time), `tools/` (host tools).

The dangers this code has that a test hardly reaches are the `hazards` of `PROJECT.json`, each
at its line with the properties that cover it; where none does, a `note` says why.

## Modules

| Module | Models | Kind |
|---|---|---|
| `Sched` | the words of a process `sched.c` reads and writes; `wakeup_proc`, `schedule`, the tick | state and operations, extended by those below |
| `Proc` | fork, exec, exit, wait, kill, yield, sleep, trap return, idle, init | detailed |
| `MCProc` | the instance of `Proc` | for TLC |
| `SchedProofs`, `ProcProofs` | lemmas about `Sched`; theorems about `Proc`, its lists of children among them | proofs |
| `FreshPids` / `PidAlloc` | the promise of `get_pid` / its code | abstract / detailed |
| `Alarm` / `TimerList` | a timer as its remaining ticks / the list of differences | abstract / detailed |
| `QueueProofs` | theorems about `PidAlloc`, `TimerList`, `StridePolicy`, `Stride` and `Stdin` | proofs |
| `FirstFit` | `default_alloc_pages`, `default_free_pages`, pages as a row with a list of free blocks | state and operations |
| `Kmalloc` | `kmalloc`, `kfree`, the SLOB ring, over `FirstFit` | state and operations |
| `Vm` | areas, page tables, page faults, swapping, and what fork, exec, exit and wait do with them, over `FirstFit` | state and operations |
| `AddressSpaces` / `Memory`, `MCMemory` | private memory of processes / `Kmalloc` and `Vm` on one row of pages | abstract / detailed |
| `PageProofs`, `MemoryProofs` | what the operators of `FirstFit`, `Kmalloc` and one page table do / theorems about `Memory`, the refinement among them | proofs |
| `Sfs` | the simple file system: bitmap, inodes, block maps, read, write, truncate, sync | state and operations |
| `FileContents` / `Files`, `MCFiles` / `FilesProofs` | files that keep what was written / descriptors and VFS over `Sfs` / theorems about the counts of inodes and the blocks of files | abstract / detailed / proofs |
| `Sem` | `up` and `down` over `Sched` | state and operations |
| `Monitor` | `cond_wait`, `cond_signal`, entering and leaving, over `Sem` | state and operations |
| `HoareMonitor` / `MonitorUse`, `MCMonitor` / `MonitorProofs` | the monitor as `monitor.h` describes it / any use of `Monitor` / theorems about it, the refinement among them | abstract / detailed / proofs |
| `Dining` / `Philosophers`, `MCPhilosophers` / `PhilosophersProofs` | neighbours do not eat together / the two groups of threads of `check_sync.c` / theorems | abstract / detailed / proofs |
| `StrideWords` | strides as words that wrap, and their differences | operators, extended by the next two |
| `StridePolicy` / `Stride` | stride scheduling as it is meant / the skew heap, priorities, sleepers | abstract / detailed |
| `Stdin` | the keyboard ring and its readers over `Sched` | detailed |

`Proc`, `Stdin` and `Sem` extend `Sched`, `Monitor` extends `Sem`, `MonitorUse` and
`Philosophers` extend `Monitor`; `Kmalloc` and `Vm` extend `FirstFit` and `Memory` extends both;
`Files` extends `Sfs`. Those over `Sched` therefore use the one translation of `wakeup_proc` and
`schedule`. `Proc` keeps of a timer only the ticks that are left; that this is what the list of
`sched.c` provides is the refinement of `Alarm` by `TimerList`. `Sched` takes any queued process
next; `Stride` models which one the code takes. Likewise a slot of `Proc` stands for a process
and its pid, which `PidAlloc` justifies: pids are never shared.

How the code's state appears:

* `proc->state`, `wait_state`, `need_resched`, `time_slice` are `state`, `waitState`,
  `needResched`, `slice`. A free slot is `"UNUSED"`. The run queue is `rq`, the number of times
  each process is in it, so that a double insertion can be seen. The skew heap and the strides
  are left out there: `Schedule` may take any queued process.
* The skew heap of `Stride` is its pointers: `heap.root`, and `left`, `right` and `parent` of each
  process. `skew_heap_merge` calls itself; `Calls` is the chain of its calls, each of which
  (`Call`) hands two roots to the next and hangs what that one will return. `Calls` lists as many
  calls as there are processes, and the proof shows that more are never made. The pointers of a
  process that was removed are set to `None`: `skew_heap_insert` sets them anew.
* `parent`, `cptr`, `yptr`, `optr` are the pointers of the same names, changed as `set_links`,
  `remove_links` and the loop of `do_exit` change them, one turn at a time.
* A wait queue is a sequence; `wait->wakeup_flags` is `flags`.
* A process on its way to user mode that has passed the check of `PF_EXITING` in `trap()`, or never
  meets it, stands at `"trapret"`: who gives the processor away in the `schedule()` behind the
  check (`trap/trap.c:305`), a child that has not run yet, and a program that `execve` has just
  put in the place of a kernel thread. It is in the kernel there, and `Leave` is its way out,
  through `__trapret`. `TrapReturn` is the check.
* In `do_wait` the scan of the children and the two stores behind it (`process/proc.c:910`, 911)
  are one step: interrupts may come in between, but no handler changes what they read.
* In `Proc`, `halt` holds which panic or end stopped the kernel; the assertions of
  `wakeup_proc`, `do_fork` and `run_timer_list` set it, so that they are checked.
* In `Vm`, `Kmalloc`, `Sfs` and `Files` a handler makes many changes and nothing runs in between
  (the kernel is not preemptive, and the disk is polled, so that these handlers never sleep and
  find the semaphores of the file system free). It is one action, written as a function of a
  copy `k` of the state, call by call in the code's order: `Become(Dup(Now))`. A field `k.halt`
  carries a panic through the calls that follow: `"no page"` (`swap_out` without an mm),
  `"assert"`, `"overlap"` (`insert_vma_struct`), `"fault"` (a page fault that fails), `"no_op"`
  (the assertion of `fs/vfs/inode.h:196`, an inode without the operation), `"name"` (that of
  `fs/sfs/sfs_inode.c:442`, a name of more than 255 bytes), `"index"` and `"blocks"` (assertions of
  SFS about sizes), `"range"` (a panic, a block behind the last indirect one). A path is what it
  leads to: an inode, `Missing`, or `TooLong`.
* Free blocks of pages are the sequence `area` of first pages and lengths, in the order of
  `free_list`; the ring of the heap is `slob`: where `slobfree` points, and for each free block
  its length in units of 8 bytes and the next one; page tables are `pd` and `pte`. A page holds
  one value, a block of the disk `BlkWords` of them.
* A loop over an area, a list of areas or a list of blocks is `Loop`, which names what one turn
  does; `UnmapRange`, `CopyRange`, `LoadPages`, `Merge` and the others are such loops.
* For the refinement of `AddressSpaces` an address of a process is mapped to the set of what it
  holds: of one value, from memory or from the swap slot, or empty when the process has no page
  there. So `Absent` is the empty set, and no value of a page is taken for it.
* Characters are the numbers of the keys pressed, so that order and loss can be seen.
* `taken`, `lost` (`Stdin`), `issued` (`PidAlloc`), `rung` (`TimerList`), `grown` (`Kmalloc`),
  `starved` (`Sfs`) and `leaked` (`Files`) are history variables; no guard reads them.

Definitions whose comment says "mutated form" (`UpLast`, `PutWraps`, ...) are not part of any
specification. Each is a plausible mistake in the operation that follows it, kept to show that
the properties notice it.

## Runs

| Run | Instance | What it shows |
|---|---|---|
| `proc_safety` | 3 user slots, init, idle; slices of 1 tick; sleeps of 1 tick; init creates up to 2 threads; `MAX_PROCESS` 5; symmetric slots | types, `RunQueueExact`, `WaitStateConsistent`, `FamilyConsistent`, `NoLostChild`, `InitEndsLast`, `NoAssertionFails` |
| `proc_live` | 2 user slots, no kill of init, fair | `KilledStaysInKernel`, `OrphansReaped`, `SleepReturns`, `KilledExits` |
| `proc_kill` | as `proc_live` without fairness; init creates 1 thread | a disagreement, see Findings |
| `pid` | `MAX_PID` 7, `MAX_PROCESS` 6, fair | `NextSafeTrue`, `ScanEnds`, refinement of `FreshPids` |
| `timers` | 3 sleepers, sleeps of up to 4 ticks | `HeadNotDue`, refinement of `Alarm` |
| `monitor` | 4 users, 2 condition variables | `UpDownAssertions`, `QueuesExact`, `CountsExact`, `OneOwner`, `NobodyLeftBehind`, refinement of `HoareMonitor` |
| `philosophers` | 4 philosophers of either group, each eats once | `EatsWithForks`, `NothingLeftOver`, `NobodyStuck`, refinement of `Dining` |
| `stride` | 3 processes, 3-bit words (`BIG_STRIDE` 3), priorities 0 at first, set to 2 and 4, fair | `HeapExact`, `LeastFirst`, `NoStarvation`, refinement of `StridePolicy` |
| `stride_sleep` | as `stride`, priorities set to 0 too, without fairness | a disagreement, see Findings |
| `stdin` | 2 readers, a ring of 2, 4 keys, reads of up to 2, fair | `NoSleepWithKeys`, `KeysOnce`, `KilledReaderLeaves` |
| `memory` | 12 pages; 3 processes of 4 pages each, 2 to a page table, 6 programs; a heap of up to 4 pages of 4 units, 3 objects; a boot check with 3 pages | `PagesExact`, `MappingsExact`, `SlobExact`, refinement of `AddressSpaces` (`SpacesPrivate`) |
| `files` | 4 blocks of 2 words, 1 direct block; 2 files, 2 directories, stdout; 2 processes, 2 descriptors; 1 leaked reference | `ReferencesExact`, `BlocksExact`, refinement of `FileContents` (`FilesPersist`) |

Why the bounds are enough. Three user processes are a parent, a child and a grandchild (adoption
of living and dead children while init waits or runs), or two siblings with a third that kills;
`MAX_PROCESS` 5 is reached, so fork fails at the limit. A slice and a sleep of one tick are the
shortest, so that every tick may be one that reschedules and fires. Seven pids with up to five
processes let `last_pid` wrap many times with the scan started again in its middle. Three timers
are one before, one in the middle and one behind, and four ticks give equal and different times.
In the monitor four users are an owner, a signaller that stands back, a waiter and one at the
door, and two signallers at once are reached as well. Four philosophers are the least number where
opposite ones can eat together, so that a ring of waiting could arise; the code has five, who eat
four times. The ring of two is full, empty and in between, and four keys overwrite and wrap;
STDIN_BUFSIZE is 4096. A stride of three bits wraps every few picks, and a pass is 3 for the
default priority, 1 for priority 2, so that quotients are rounded, and 0 for priority 4, which is
above `BIG_STRIDE`; `Stride` starts with nobody queued, and either three processes are queued one
after the other and never sleep, or they come and go as they like, so that a sleeper's stride is
any distance behind. Twelve pages less init's kernel stack are two processes with
their kernel stacks, page directories and tables and most of their memory, and no more: forks are
refused their kernel stack, and copies, programs and faults run out in the middle. The programs of
`MCMemory` overlap in both ways, have a wrong header, a short segment, and a segment with nothing
in the file. Four units to a page of the heap are small objects, objects of a page but one unit
and big blocks of one and two pages. The check's three pages for four addresses swap out and in in
each order. What a behaviour of `Memory` or `Files` does is fixed at its start by `load`, which
keeps apart what cannot meet or what only multiplies states: the heap, the processes, the boot
check; and for files the sharing of descriptors, two descriptors of one file, a disk that is
nearly full, and two files in turn. Four blocks hold a file of two or three blocks with its
indirect block; they run out between the two blocks that the first indirect block takes, and in
the middle of a growth. Bounds that are not in the code: `InitThreads`, `MaxSleep`, `KillTargets`
(`Proc`), `MaxTicks` (`TimerList`), `MaxTyped` and `MaxRead` (`Stdin`), `Priorities` (`Stride`),
`Sizes`, `Orders`, `MaxObjects`, `HeapPages`, `SwapPages`, `Programs`, `Values` (`Memory`),
`Loads`, `MaxLeaks`, `Values` (`Files`).

No run switches off the deadlock check: a kernel with nothing to do has idle, which loops.

What the properties are for:

* `RunQueueExact` is the hazard of a wake-up that comes before `schedule()`; `NoLostChild` is
  the same for `do_wait`, over exits, adoptions and kills in every order between its sleep and its
  next scan. That no exit comes between a scan and the sleep after it is not shown but given: the
  kernel is not preemptive.
* `KilledStaysInKernel` is about the place of the check of `PF_EXITING`: from every place before
  it, a system call, a sleep, a queue or an exit, a process that was killed comes to no place
  behind it. It says nothing of who was behind it already; those are what `proc_kill` shows.
* `KilledExits` says as much as holds: a killed process exits unless it went to wait for a child
  after the kill.
* `NextSafeTrue` is why the fast path of `get_pid` may skip the list.
* `CountsExact`, `OneOwner` and the refinement together show that handing the monitor over
  through three kinds of semaphores, with an unprotected `next_count`, keeps the promise of the
  comment in `monitor.h`, including the order in which waiting processes go on.
* `NobodyStuck` is freedom from deadlock of the philosophers, stated as a safety property: their
  programs are finite, so if one can always go on, all end.
* `LeastFirst` is about a heap whose order may be stale: it was built by comparisons that have
  changed meanwhile, and once the strides in it are comparable its root must be the least all
  the same.
* `NoStarvation` is about every load, sleepers included: who does not sleep for good has the
  processor again and again. Its exceptions are what `default_sched.c` does not prevent: others
  that sleep and come back without end, and who set a priority above `BIG_STRIDE`, which
  `lab6_set_priority` accepts: its pass is 0 (`schedule/default_sched.c:132`), so that it stays the
  least and is taken each time.
* `KeysOnce` describes the ring when it is full: the oldest character is overwritten, and the
  order of typing is guaranteed only as long as that has not happened.
* `PagesExact` says that the free blocks are sorted, disjoint and never touch, and that every
  page is either in one of them or has exactly one user (a kernel stack, a directory, a table, a
  mapped address, the heap) that its count agrees with, even where fork, exec or a fault failed
  half-way. It does so until the kernel stops, and most ways in which memory runs out stop it
  (see below).
* `MappingsExact` ties areas, tables and counts: areas are disjoint and in order, a page is
  mapped only inside of an area and in a table that exists, and in the boot check the FIFO list
  holds exactly the pages that are in memory, each at its address.
* `SlobExact` is about where a block is put back: the ring is in order but at one place, blocks
  and objects share no unit and together are all the units of the pages the heap took; no free
  block touches the next one.
* `SpacesPrivate` is what all of this is for: what a process stores stays until it stores again,
  a child begins with a copy of its own, and nothing of swapping and of failed calls is seen.
* `ReferencesExact` says that the counts of every inode are those of descriptors, working
  directories and, for the one fault found, `leaked`; that an inode without references is not in
  memory; that it is open exactly as often as it is used.
* `BlocksExact` says of the bitmap and the block maps, in memory and on disk, that a block is
  free, or in one place of one file, and that a file has exactly the blocks its size needs, but
  for a growth that failed on a full disk (`starved`). And of the assertions about blocks, counts
  and references none fails but `"index"` and `"blocks"`, each only where it is said to; the stops
  that are not about blocks (`"no_op"`, `"name"`, `"range"`) are in the model, and outside of what
  it claims.
* `FilesPersist` says that reads find what was written last, through closing, reclaiming and
  loading again, and through a shutdown. It has two parts. `FileContents` has the words of files
  and the positions of descriptors, and says what each kind of call may make of them: a write puts
  its words from the position of its descriptor to the new one, into the file of that descriptor,
  and a gap before them reads as 0; an open may empty the file it opens; a seek, that of `execve`
  included, may make a file longer; a read, a copy, a close or anything else changes no file.
  `Files` implements this, and each step that changes a file is the call that may: a close, a
  `fsync`, a reclaim, an open without `O_TRUNC` or `O_CREAT`, or the shutdown changes none
  (`ChangesOnly`), and a write or truncating open does all it was asked to, unless blocks ran out
  (`ChangesAll`).

## Fairness

`Proc!Fairness` assumes three things. Clock interrupts come for ever, whenever interrupts are
enabled again and again (strong, since the loop of `do_exit` and handlers disable them). Kernel code
and kernel threads go on when they have the processor (weak). And a process that is offered for
dispatch again and again is taken at some time (strong): `NoStarvation` shows of the stride
scheduler that this is so once no others go on to fall asleep and wake up without end, if no
priority is above `BIG_STRIDE`. For the rest it is an assumption about the load: without that
exception TLC finds a process passed over for ever by two others that sleep and set their priorities
in turn, so that its stride is never the least by sign when one is taken. Programs are under no
obligation: they may loop in user mode for ever. `Stdin!Fairness` is the same without timers.
`Stride!StrideFairSpec` says that `schedule()` is called again and again, by the one that runs,
whose slice ends, or by idle, and that where nobody may sleep the processes are queued in some
order; of sleepers it does not assume that they wake. `PidAlloc!PidFairSpec` says that the loop in
`get_pid` goes on; interrupts are disabled around it. All other specifications are checked for
safety alone.

## Proofs

| Theorem | States |
|---|---|
| `ProcProofs!Invariance` | `Spec => []IInv` |
| `ProcProofs!TypeCorrect`, `RunQueueCorrect`, `WaitStateCorrect`, `AssertionsHold` | the invariants of the same meaning, for any number of processes, any slice and any sleep |
| `ProcProofs!KillHoldsInKernel` | `KilledStaysInKernel`: no step takes a killed process past the check of `PF_EXITING` |
| `QueueProofs!PidTypeCorrect`, `NextSafeCorrect`, `PidsNeverShared` | for every `MAX_PID` and `MAX_PROCESS` |
| `QueueProofs!GetPidIsFresh` | `PidSpec => FreshSpec`, the refinement of `FreshPids` |
| `QueueProofs!StridesConsistent` | the comparison of strides is an order, for any processes, priorities and `BIG_STRIDE` |
| `QueueProofs!HeapCorrect` | `HeapExact`, for any processes, priorities, sleepers and `BIG_STRIDE` |
| `QueueProofs!LeastTaken` | `LeastFirst`, likewise |
| `QueueProofs!PolicyImplemented` | `StrideSpec => PolicySpec`, the refinement of `StridePolicy` |
| `ProcProofs!FamilyCorrect` | `FamilyConsistent`: lists, links back, parents and `nr_process` agree, for any number of processes |
| `ProcProofs!InitLast` | `InitEndsLast`: init ends only when every other process has been reaped |
| `ProcProofs!NoExitMissed` | `NoLostChild`: `do_wait` misses no exit, for any number of processes |
| `ProcProofs!FamilyInvariance`, `WholeInvariance` | the two inductive invariants of these: the links of every list agree, and no child is missing from it |
| `QueueProofs!KeysCorrect` | `KeysOnce`: every key is delivered once, in the ring or overwritten in a full ring, in the order of typing |
| `QueueProofs!NoSleepCorrect` | `NoSleepWithKeys`, for any readers, any size of the ring, any keys and kills |
| `MonitorProofs!AssertionsHold`, `QueuesCorrect`, `CountsCorrect`, `MutualExclusion`, `NobodyLeft` | `UpDownAssertions`, `QueuesExact`, `CountsExact`, `OneOwner`, `NobodyLeftBehind`, for any users and conditions |
| `MonitorProofs!MonitorIsHoare` | `Spec => HoareSpec`, the refinement of `HoareMonitor`, order of waiting included |
| `PhilosophersProofs!Invariance` | `Spec => []IInv`, for any number of philosophers and meals, with semaphores and with the monitor |
| `PhilosophersProofs!ForksAreHeld`, `AllGivenBack`, `NoRing` | `EatsWithForks`, `NothingLeftOver`, `NobodyStuck`, likewise |
| `PhilosophersProofs!ForksAreKept` | `Spec => DiningSpec`, the refinement of `Dining` |
| `QueueProofs!HeadCorrect` | `HeadNotDue`, the assertion of `run_timer_list`, for any sleepers and times |
| `QueueProofs!ListIsAlarm` | `TimerSpec => AlarmSpec`, the refinement of `Alarm` |
| `FilesProofs!FilesInvariance` | `Spec => []IInv`, for any processes, files, descriptors and sizes of the disk |
| `FilesProofs!ReferencesCorrect` | `ReferencesExact`, likewise |
| `FilesProofs!BlocksCorrect` | `BlocksExact`, likewise |
| `MemoryProofs!EveryPageOnce` | `PagesExact`, for any numbers of pages, processes and addresses, any programs, any sizes of objects |
| `MemoryProofs!MappingsHold` | `MappingsExact`, likewise |
| `MemoryProofs!SlobCorrect` | `SlobExact`, likewise |
| `MemoryProofs!SpacesArePrivate` | `Spec => SpacesPrivate`, the refinement of `AddressSpaces` |

Assumptions: only those named in the modules. `SchedAssumption` says that idle is a process and a
slice is positive, `ProcAssumption` that init is another process and that the bounds are numbers,
`BigStrideAssumption` that `BIG_STRIDE` is positive, `PidAssumption` is the `static_assert` of
`get_pid` and that there is a pid to give, `StdinAssumption` that the ring has a place and the
bounds are numbers, `MonitorAssumption` and `MonitorUseAssumption` that there is a condition
variable, that the semaphores are those of a monitor, that `Nobody` is no process and that
processes are finitely many, for the counts. `TimerAssumption` says that the bounds are numbers,
`StrideAssumption` that there are finitely many processes, that `None` is not one of them and that
priorities are words, of any value, `PhilosophersAssumption` that there is a philosopher and that
the conditions are the seats 0 to `N` - 1. `SfsAssumption` and `FilesAssumption` say that sizes
are numbers and blocks not empty, that processes are finitely many, for the counts, that an inode
is one of a file, a directory or the device, and that the root is a directory; `LoadsAssumption`
that what programs pass to calls are inodes and numbers, and that the files on the disk at the
start are different ones and have a block each. `PagesAssumption` says that there are pages,
`HeapAssumption` that a page has more units than a record of a big block, that objects have at
least two units and at most a page less one, the limit of `slob_alloc`, and that orders are
numbers. `VmAssumption` says that addresses and page tables are not empty, that the pages of a
stack that `load_icode` maps at once are pages of the stack, which lies below `Top`, and that a
program has a sequence of headers, of any kind; `MemoryAssumption` that the pages of init's kernel
stack, of the heap and of the boot check are pages there are, with one left for the rest of the
kernel.

*Processes.* `RunQueueExact` is not inductive: whether `schedule()` queues the caller, and
whether a wake-up may, depends on the caller's state, which depends on where it is. `IInv`
therefore adds, for every process, which states and wait reasons its place allows (`PlaceOK`: a
process before the `schedule()` of a wait sleeps or has been woken, one that has been torn down
is a zombie and has no timer), and how the words of one process agree (`WordsOK`). `SchedProofs`
shows once what `WakeupProc`, `Schedule` and `RunTimers` do to the run queue, for any caller;
`ProcProofs` has three lemmas for the shapes actions have (`MoveKeeps`: the process only moves,
`SwitchKeeps`: it calls `schedule()`, `WakeKeeps`: it wakes others) and one lemma per action or
group of actions, which uses them.

*Families.* `NoLostChild` depends on what the list of a process that sleeps in `do_wait` can
become, and every step that forks, exits or reaps changes links of processes far from it. `FInv`
adds to `IInv` that `optr`, `yptr` and `parent` agree (`HeadsOK`, `OlderOK`, `YoungerOK`, with
the `yptr` that the loop of `do_exit` leaves behind for one turn), that a process beyond that
loop has no children, and `WaitOK`: a zombie that a sleeper waits for is the process that runs,
and is about to look at its parent. A walk along a list stays among the children of one parent
(`WalkStays`), so a step that keeps the links of those keeps the list (`ListKept`), and adoption
puts one child in front of init's (`AdoptedList`). These are inductions over the length of a
walk; they are by the least number at which a walk would go wrong (`Least`), since an induction
rule with an operator as a parameter cannot be used. Most actions are `Plain`: they change no
link and make no zombie.

`FamilyConsistent` says more: that a child is not only linked to others of its parent but
reached from `cptr`. `FInv` does not exclude a ring of siblings beside the list. `GInv`
therefore adds that there are places: a number for each child, 0 for the one `cptr` names and
otherwise one more than that of a sibling whose `optr` leads to it (`PlacesOK`). Then no two
children have the same place and there is one at every place before it (`PlacesDiffer`,
`PlacesFilled`), so the walk meets each at its place (`AllListed`), and `MAX_PROCESS` steps are
enough (`PlacesFit`, from the count of processes). Fork and adoption push the places of one list
up by one, reaping and adoption close a gap in another. For `InitEndsLast` processes have ages,
older parents than children (`AgesOK`): if init has no child, the oldest process left would be
one.

*Keyboard.* A reader looks at the ring, joins the queue and marks itself as sleeping with
interrupts disabled, so between its look and its sleep no key comes; and a key wakes all in the
queue. `IInv` says that each sleeper is in the wait queue, once, with the flags it has there;
what a killed reader leaves in the queue is harmless because it takes itself out when it runs.
For `KeysOnce`, `KeyAt` numbers the keys that were delivered or are in the ring; the places
modulo the size of the ring differ within one turn of it and come again after it
(`PlacesDiffer`, `PlaceAgain`), so a key is written over none or over the oldest.

*Monitor.* There is one token: the free mutex, a unit of `next` or of a condition on its way to
a process that was woken, or a process that is active. The invariant says where it is, and that
`next_count` and `cv.count` differ from the lengths of the queues only by the processes between
the change of the count and the queue. From this, `up` meets an empty queue of `next` or of a
condition never where a count promised a process, a unit is never left in those semaphores, and
one process at most is active. For the refinement, the monitor changes hands at the `up`, not
when the woken process runs; the one that called `up` and is on its way into a queue counts as
the last in it.

*Pids.* The invariant adds to `NextSafeTrue` that the list has no pid twice and that outside of
a call `last_pid` is the pid issued last, and during a scan that every pid passed over since
then is in use, which is what the refinement needs: the free pid that is found is the first one
above.

*Strides.* `Consistent` says that differences add up: `p` to `q` plus `q` to `r` is `p` to `r`,
as 32-bit signed numbers. Hence they are antisymmetric and the least number does not occur. The
process that runs is behind nobody, so its differences are between `-BIG_STRIDE` and 0 and after
the pass, at most `BIG_STRIDE`, still in range (`SignedExact`, `RunShifts`): no comparison
overflows.

*Skew heap.* `HeapExact` is not inductive: it does not say who is above whom, and where a merge
goes depends on that; and that there is no circle does not survive a merge by itself. `StrideInv` has
instead that the pointers make a tree (`Forest`) in which whoever is above could be there by
`Comp` (`Before`), and that some numbers, the ranks, grow along them (`Ranks`). A merge takes two
trees through its calls one at a time (`CallTurns` for the pointers, `ForestTurns`, `OrderTurns`
and `MergingTurns` for the rest): who comes to the top in a call gets the number of that call as
its new rank, and those below keep theirs, lifted above all of these. Each call settles one
process, so that there are at most as many calls as processes (`MergeExact`). A set without a
way out would contain one of least rank, whose parent has a smaller one (`NoLoop`). Nothing asks
`Comp` to be an order for all this, so the heap is exact whatever sleepers bring. For
`LeastFirst`, take of the queued processes with the least stride one that has no other of them
as its parent: if it is not the root, its parent is ahead of it by at most `BIG_STRIDE`, and the
comparison says so, against `Before`. While nobody sleeps the
root is behind nobody, since `Consistent` makes `Comp` an order (`RootFirst`), and a pick is a
step of `StridePolicy` (`PickRuns`).

*Philosophers.* `IInv` has three parts. A philosopher's place says its phase (`PhaseOK`): whoever
gives it the forks sets its phase and wakes it in one step, so who comes back from `down()` or
`cond_wait` eats already and need not look again. The mutex, or the monitor, is one token
(`OwnerOK`), and at most one philosopher has signalled and stands back (`CountOK`), since
between two signals of a `phi_put_forks` the one that was woken leaves at once and hands the
monitor back. And who is hungry with both forks free is about to be tested (`TestOK`): by itself,
or by a neighbour that is putting its forks back, even while that one stands back for the other
neighbour. From the last part follows that nobody is stuck: if all who are left slept, the token
would be free, each of them would be hungry with no neighbour eating, and somebody would have to
be testing it, but who tests has the processor. A step is one of a few shapes (`QuietKeeps`: only
the place changes; `SleepKeeps`: a `down()` that waits; `GiveKeeps`: the token is passed on;
`ServeKeeps`: a neighbour is given its forks), each with a lemma; `UpWakes`, `UpQueues`,
`JoinsQueue` and `SameQueues` say once what the calls do to the wait queues.

*Timers.* What a timer has left is the sum of the differences up to it (`Sums`). Adding
and removing one keeps the sums of all others: the one behind a new timer is lowered by as much
as the new one adds, the one behind a removed timer raised by it. A tick lowers the first
difference and thereby all sums. The head is never 0 after it because all timers that are due
are taken off at once.

*Counts of inodes.* A call is a function of a copy of the state, and much of it goes on between
two points where `ReferencesExact` holds: `vfs_open` has taken a reference that no descriptor
has, `fd_array_dup` has one count of the two. `FilesProofs` therefore speaks of a copy `k`, of
the references `E` that no table has, and of its counts being those of the tables and `E`
(`Whole`). Three layers lead there. What `Sfs` does to blocks and sizes leaves the counts of all
inodes alone (`Same`), whichever of its ways it goes and wherever it stops; its loops, and those
of `files_destroy` and `dup_files`, are followed turn by turn. Each step of `fs/vfs` on an inode
adds or takes one (`Up`, `Down`), under the condition that makes its assertions hold: who gives a
reference back has one, and more references are left than opens (`RefDecStep`). And each change
of a table changes the sets of its users by one member (`OpenFd`, `CloseFd`, `EnterPwd`,
`NewTable`, `DropTable`). An operation on descriptors combines one of each, and a call is a chain
of them: `DupFilesKeeps` goes through the descriptors with some copied and some not, `ExecEnds`
through every failure of `do_execve`. Of the invariant, `WholeNow` is `ReferencesExact` for all
inodes at once, with the shape of tables and inodes.

*Blocks of files.* `BlocksExact` is not inductive. Within a call a block is in hand: taken from the
bitmap and not yet at its place, or taken from its place and not yet given back; and a file that
grows has blocks its size does not need yet. And while a file is written, all others have to stay as
they are, which follows only if nobody else has the block that is written to. So the proof has one
function `Map(k)`, from all places of all files (the direct blocks, the entries, the block of
entries) to blocks, as memory has them where an inode is loaded and the disk where it is not.
`Exact` says that the free blocks, those in hand and those at places are all blocks, each once; four
lemmas say what taking, placing, clearing and giving back do to it, for any map. `Part` says that
the files but one are sound (`FileSound`) and this one is on its way to a size (`Going`): its places
up to its count of blocks are filled and, before blocks ran out, no others are. Each loop of `Sfs`
is followed with `Part` (`GrowStep`, `ShrinkStep`, `MoveStep`), and its ends make the file sound
again (`TruncStep`, `IoStep`). What the disk has of an inode that is not dirty is part of `Going`,
because `sfs_reclaim` drops the one in memory and `sfs_load_inode` then takes the one on the disk. A
growth that fills entries does not make the inode dirty, so until it is through, or when it fails,
the disk has a smaller count of blocks than memory. `Excuse` says how the kernel stops: with none of
the assertions about blocks, counts and references but for a descriptor behind the end of its file,
or after blocks ran out. The layers on top carry `Fit`, for all files, along with the counts.
`FilesInvariance` is the one inductive invariant for both; the `files` run's instance satisfies it
in all states.

*Free pages and the heap.* A list of free blocks is described by the set of pages it covers
(`Free`): what `AllocPages` takes leaves that set, what `FreePages` gets joins it, and the blocks
stay in order and apart (`AllocIs`, `FreeIs`). A freed block takes in at most one neighbour on
each side, though the loop looks at all: `Merged` says after each turn that the blocks that are
passed are apart from the one that grows, or were taken in. The ring of the heap is described by
its blocks and their sizes, with `next` always the block that comes next by address and the last
leading to the first (`SlobOK`); wherever `slobfree` points, a walk from there meets all of them
(`RingAll`), and the search of `slob_free` finds the one place (`BeforeIs`). `SlobInv` says that
blocks, objects and records share no unit and fill the pages of the heap, and `Shared` that
those pages, big blocks and free pages share none.

*Memory of processes.* `PagesExact` does not survive the middle of a call: a page is in hand, a
table has no entry yet, an area is half copied. As with the blocks of files there is one function
`Map(k)`, here from all places that may hold a page (both pages of a stack, the directory, the
tables, the entries of each process) to pages, and `Exact` says that every page is free, held by
somebody else (`H`) or at one place, with the count that goes with it. Four lemmas (`TakeExact`,
`PutExact`, `ClearExact`, `DropExact`) say what taking, mapping, unmapping and giving back a page
do to it. `Sound` adds that areas are in order, that what is mapped lies in an area and below a
table, and that a table lies below an area: without the last one `exit_mmap`, which looks for
tables by areas, would lose pages. `InsertVma` keeps it because its assertion stops the kernel when
areas overlap. Every loop is followed turn by turn with what it has done so far: `Unmapped`,
`Bare` and `Dropped` of `exit_mmap`, `Copying` and `Duplicated` of `dup_mmap`, `Filling`,
`Imaged` and `Stacked` of `load_icode`, which also say what each address holds, so that at the
end a child has a copy (`DupMmapIs`) and a program its image (`ImageIs`, `LoadIcodeIs`). A loop
is a recursive function, and its turns are an induction by the least turn at which something
would be wrong; `Turning` lists the turns of all loops, since the lemma that they exist
(`TurnsExist`) cannot take one as a parameter. A call that stops the kernel leaves the state as it
was, so each of these lemmas speaks of a copy that has not stopped.

`Peers` is the invariant of processes: `Sound`, nothing swapped, and who is there has a kernel
stack, who runs may have memory. `Boot` is that of the boot check: init alone has memory and all
of its tables, and the FIFO list has its mapped pages, each once, at the address that
`pra_vaddr` names (`FifoOK`). So when pages run out the list is not empty, since a page is left
that the kernel does not hold (`FifoFull`), `swap_out` finds the entry of the page it takes
(`EvictIs`), and its assertions hold. `MemInv` is the one inductive invariant: `SlobInv` with
`Shared`, `Peers` or `Boot`, whichever of them runs. From it `PagesExact` follows by counting:
uses are one for each page (`UsesApart`, `UsesCover`). For the refinement each step is a
`SpaceStep`, which says of every address what it holds afterwards, and that is a step of
`AddressSpaces` (`SpaceMaps`).

Only model-checked: everything about liveness, which is out of the prover's reach, with
`KilledReaderLeaves`; and of files `FilesPersist`, which needs to know of every word what
`FilesProofs` knows of every block.

## Findings

`proc_kill` (`KillInterruptsWait`) is a run that TLC refutes. `process/proc.h:74` says of
`WT_INTERRUPTED` that "the wait state could be interrupted". In the run init forks a thread that
executes a program; the program forks a child and kills it before the child has run. `do_kill`
finds it runnable and only sets `PF_EXITING`. When the child is dispatched it goes from `forkret`
to user mode, where nothing looks at the flag, and calls `sleep`: now it sleeps in a state that
could be interrupted, marked as killed, and a second kill answers `-E_KILLED` without waking it.
The sleep ends with its timer, and the child exits on the way back; had it children and called
`wait`, that would end with an exit of one of them. The same may happen to the others that stand
at `"trapret"`, as who was queued by the `schedule()` in `trap()` behind the check. `KilledExits`
in `proc_live` states the weaker property that does hold.

The keyboard has a relative of it, which `KilledReaderLeaves` leaves room for: a reader woken by
a kill stays in the wait queue until it runs, so a key that comes first changes its
`wakeup_flags` to `WT_KBD` and the read tries again; if another reader has taken the key, the
killed one sleeps until the next.

`stride_sleep` (`PicksMinimum`) is the other. `schedule/default_sched.c:96` says that
`stride_pick_next` takes the element "with the minimum value of stride". A process of the
default priority 0 moves by `BIG_STRIDE`, so after two picks its stride is 0xFFFFFFFE. A process
that is created then, or first wakes then, is queued with stride 0, which the comparison by sign
takes to be 2 ahead: the first process is taken again. `StridePolicy` shows why the constant is
right while nobody sleeps; what is missing for the others is to bring the stride of a newcomer
up to those in the queue.

### Met while modelling

These are not runs: no text of the repository promises the contrary, or they lie outside of what
is modelled. The states that they lead to are in the models; the values of `halt` above and the
history variables name them.

* Memory that runs out stops the kernel: `alloc_pages` calls `swap_out` with `check_mm_struct`,
  which is NULL after the boot check (`mm/pmm.c:172`). Hence the paths for a NULL page in
  `copy_range` and `do_pgfault` are dead; only a request for several pages fails and is handled,
  so that `do_fork` fails at the kernel stack.
* A page fault of a user program that cannot be handled panics (`trap/trap.c:211`) before the
  `do_exit(-E_KILLED)` below it.
* `mm_map` looks at its first address alone; a segment that reaches from a hole into the next
  area stops the kernel in `insert_vma_struct` (`mm/vmm.c:172`). `load_icode` passes over a
  segment whose file size is 0, so one that is all bss is never mapped.
* `slob_alloc` never gives a page back, so that init's last assertion on the number of free
  pages (`process/proc.c:1029`) may fail if the processes needed more heap than there was.
  `kmalloc` of 4080 to 4087 bytes, and `find_order` above two pages, would compute wrong orders;
  nothing asks for such sizes.
* `vfs_open` with `O_CREAT|O_EXCL` of a file that exists keeps the reference of its lookup
  (`fs/vfs/vfsfile.c:46`); `O_CREAT` alone truncates a file that exists, even when it is opened
  for reading only (`fs/vfs/vfsfile.c:53`).
* A relative name of 256 bytes or more, up to the 4095 that `copy_path` admits, stops the kernel
  when it is opened, entered or executed: nothing looks at its length before the assertion of
  `sfs_dirent_search_nolock` (`fs/sfs/sfs_inode.c:442`, `"name"`).
* A key that comes before a killed reader has run replaces the reason it was woken for
  (`fs/devs/dev_stdin.c:59`); the reader then goes on reading.
* Creating a file, reading or seeking in a directory, fsync or truncation of a device and
  execution of a directory stop the kernel: the inode does not have the operation (`"no_op"`).
* A seek behind the end makes the file longer, whatever the descriptor may do, that of
  `load_icode` included. A position that another descriptor's truncation left behind the end
  stops the kernel at the next write (`fs/sfs/sfs_inode.c:356`, `"index"`).
* When the disk fills up in the middle of a growth, the blocks found so far stay in the file; a
  later truncation to the size it has is stopped by an assertion (`fs/sfs/sfs_inode.c:935`,
  `"blocks"`). A write whose first block cannot be found sets the size to its offset all the
  same (`fs/sfs/sfs_inode.c:638`).
* `SFS_MAX_FILE_SIZE` is far beyond 12 direct and 1024 indirect blocks: a write in between
  panics (`fs/sfs/sfs_inode.c:286`, `"range"`).

## Not modelled

* Exit codes, arguments, trap frames and the copies between user and kernel memory: data that no
  property here tells apart.
* The boot: detection of memory, the kernel's own mapping, the checks of `pmm.c` and `vmm.c`,
  which call modelled functions in one fixed order.
* `fs/vfs/` names and mounting: one file system and one device are mounted once; a path is what
  it leads to. The directories of SFS are read only (its `create`, `unlink` and `rename` are not
  there), so their entries do not change.
* Errors of the disk, which the driver turns into panics, and power loss: nothing in the code
  recovers from it, and since the freemap reaches the disk at the shutdown alone
  (`fs/sfs/sfs_fs.c:33`), blocks of files that were written since would count as free after it.
* `try_down`, pipes, `CLONE_VM` and `CLONE_FS`, user semaphores, alignment in `kmalloc`: no call
  comes there.
* `driver/`, `debug/`, `tools/`, `user/`; and the other copies of the kernel:
  `src/labcodes/lab1` to `lab8` are its templates and `src/labcodes_answer/lab1_result` to
  `lab7_result` the steps towards it, file by file the same code, so the lines modelled are a
  small share of the repository and a large one of the kernel.

## Plan

Done: processes, scheduler, pids, timers, semaphores, monitors, keyboard, the stride scheduler,
memory and files, with the theorems above. What is left: `FilesPersist` step by step, with `Map`
of `FilesProofs` extended from blocks to words, since no transfer changes a word of another file
and loops move each word of theirs once.

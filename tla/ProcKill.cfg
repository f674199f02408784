CONSTANTS
  Idle = idle
  InitProc = init
  None = none
  Procs = {idle, init, u1, u2}
  MaxTimeSlice = 1
  MaxProcess = 4
  InitThreads = 1
  MaxSleep = 1
  KillTargets = {u1, u2}
SPECIFICATION Spec
INVARIANT KillInterruptsWait

CONSTANTS
  Idle = idle
  InitProc = init
  None = none
  Procs = {idle, init, u1, u2, u3}
  MaxTimeSlice = 1
  MaxProcess = 5
  InitThreads = 2
  MaxSleep = 1
  KillTargets = {init, u1, u2, u3}
SPECIFICATION Spec
SYMMETRY UserSymmetry
INVARIANTS
  TypeOK
  RunQueueExact
  WaitStateConsistent
  FamilyConsistent
  NoLostChild
  InitEndsLast
  NoAssertionFails

CONSTANTS
  N = 4
  TIMES = 1
  Idle = 4
  Procs <- MCProcs
  Cvs <- MCCvs
  Sems <- MCSems
  MaxTimeSlice = 1
SPECIFICATION Spec
INVARIANTS
  EatsWithForks
  NothingLeftOver
  NobodyStuck
PROPERTY DiningSpec

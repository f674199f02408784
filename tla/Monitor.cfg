CONSTANTS
  Idle = idle
  Procs = {idle, u1, u2, u3, u4}
  Cvs = {c1, c2}
  Nobody = nobody
  Sems <- MonitorSems
  MaxTimeSlice = 1
SPECIFICATION Spec
INVARIANTS
  UpDownAssertions
  QueuesExact
  CountsExact
  OneOwner
  NobodyLeftBehind
PROPERTY HoareSpec

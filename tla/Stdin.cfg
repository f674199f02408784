CONSTANTS
  Idle = idle
  Procs = {idle, r1, r2}
  MaxTimeSlice = 1
  BufSize = 2
  MaxTyped = 4
  MaxRead = 2
SPECIFICATION FairSpec
INVARIANTS
  NoSleepWithKeys
  KeysOnce
PROPERTY KilledReaderLeaves

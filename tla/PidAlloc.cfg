CONSTANTS
  MaxPid = 7
  MaxProcess = 6
SPECIFICATION PidFairSpec
INVARIANTS
  NextSafeTrue
PROPERTIES
  FreshSpec
  ScanEnds

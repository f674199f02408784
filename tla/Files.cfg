SPECIFICATION Spec
CONSTANTS
  Files = {"f", "g"}
  Dirs = {"root", "d"}
  Root = "root"
  Device = "stdout"
  NBlocks = 4
  BlkWords = 2
  NDirect = 1
  MaxSize = 8
  Procs = {1, 2}
  First = 1
  NFds = 2
  Kept = 1
  Values = {7}
  Loads <- MCLoads
  MaxLeaks = 1
INVARIANTS
  ReferencesExact
  BlocksExact
PROPERTIES
  FilesPersist

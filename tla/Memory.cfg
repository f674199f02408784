SPECIFICATION Spec
CONSTANTS
  NPages = 12
  PageUnits = 4
  Sizes = {2, 3}
  Orders = {0, 1}
  MaxObjects = 3
  Procs = {1, 2, 3}
  InitProc = 1
  Top = 4
  TablePages = 2
  StackPages = 2
  EagerPages = 1
  Values = {"a"}
  Programs <- MCPrograms
  HeapPages = 4
  SwapPages = 3
INVARIANTS
  PagesExact
  MappingsExact
  SlobExact
PROPERTIES
  SpacesPrivate

SPECIFICATION Spec
CONSTANTS
  Object = {a, b}
  NULL = NULL
  Value <- MCValue
  Default = 0
  Capacity = 3
  MaxCapacity = 6
  Node <- MCNode
  MaxElements = 4
  KeysOf <- MCKeysOf
  MaxKeys <- MCMaxKeys
  Priorities <- MCPriorities
SYMMETRY AnyObject
INVARIANTS
  HoldsWhatWasPut
  BackwardMirrorsForward
  AdaptersKeepOrder
  StorageAccounted
  KeysInOrder
  IteratorsWork
  BothWaysAgree
  TreapIsHeap
  TreeLookupsAgree
  TraversalsRebuild
PROPERTIES
  AvlInsertKeepsBalance

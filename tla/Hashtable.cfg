SPECIFICATION Spec
CONSTANTS
  Obj <- OneObject
  Node <- SetNodes
  KeyOf <- SetKeys
  HashOf <- SetHashes
  Unique = TRUE
  BucketCount = 1
  Rehashes <- NoRehashes
  AllocFails = FALSE
  NULL = NULL
INVARIANTS
  TypeOK
  EveryNodePlaced
  LoadBounded
  AdvanceIsNext
  WalkFromFind

SPECIFICATION Spec
CONSTANTS
  Obj <- OneObject
  Node <- SetNodes
  KeyOf <- SetKeys
  HashOf <- SetHashes
  Unique = TRUE
  BucketCount = 2
  Rehashes <- NoRehashes
  AllocFails = FALSE
  NULL = NULL
INVARIANTS
  RangeForMeetsAll

SPECIFICATION Spec
CONSTANTS
  Obj <- TwoObjects
  Node <- MultiNodes
  KeyOf <- MultiKeys
  HashOf <- MultiHashes
  Unique = FALSE
  BucketCount = 1
  Rehashes <- SomeRehashes
  AllocFails = TRUE
  NULL = NULL
INVARIANTS
  LookupsAgree
PROPERTIES
  UnorderedSpec

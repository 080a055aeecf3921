SPECIFICATION MapSpec
CONSTANTS
  Node <- TwinNodes
  NULL = NULL
  KeyOf <- TwinKeys
  RhsFirst = FALSE
  MutateCopies = FALSE
INVARIANTS
  OwnedOnce
  UniqueKeys
PROPERTIES
  CopyIsEqual

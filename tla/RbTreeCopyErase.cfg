SPECIFICATION ObjSpec
CONSTANTS
  Node <- TwinNodes
  NULL = NULL
  KeyOf <- TwinKeys
  RhsFirst = FALSE
  MutateCopies = TRUE
INVARIANTS
  EraseKeepsTheRest

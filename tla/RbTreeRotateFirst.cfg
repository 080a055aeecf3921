SPECIFICATION Spec
CONSTANTS
  Node <- FewNodes
  NULL = NULL
  KeyOf <- FewDistinctKeys
  RhsFirst = TRUE
INVARIANTS
  BinaryTreeWhenIdle

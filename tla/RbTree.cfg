SPECIFICATION Spec
CONSTANTS
  Node <- MCNode
  NULL = NULL
  KeyOf <- SomeEqualKeys
  RhsFirst = FALSE
INVARIANTS
  TypeOK
  LinksOK
  NothingLost
  RedBlackWhenIdle
  OneDefect
  NoNullDereference
  LookupsAgree
  AdvanceIsNeighbour
PROPERTIES
  OrderedSpec
  CallsReturn

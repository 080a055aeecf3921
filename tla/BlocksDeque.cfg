SPECIFICATION Spec
CONSTANTS
  Obj <- TwoObjects
  Value <- TwoValues
  Junk = Junk
  None = None
  BlockCapacity = 2
  MaxSize = 4
  Lists <- ShortList
  ReuseEmptied = FALSE
INVARIANTS
  TypeOK
  EveryDequeConsistent
PROPERTIES
  SequenceSpec

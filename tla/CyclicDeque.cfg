SPECIFICATION Spec
CONSTANTS
  Obj <- TwoObjects
  Value <- TwoValues
  Junk = Junk
  InitialCapacity = 2
  MaxSize = 3
INVARIANTS
  TypeOK
PROPERTIES
  SequenceSpec

SPECIFICATION QueueSpec
CONSTANTS
  Obj <- OneObject
  Value <- TwoValues
  Junk = Junk
  None = None
  BlockCapacity = 3
  MaxSize = 4
  Lists <- NoLists
  ReuseEmptied = TRUE
INVARIANTS
  FrontWasPushed

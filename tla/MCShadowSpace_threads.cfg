SPECIFICATION Spec
CONSTANTS
  Thread = {t1,t2}
  Slots = 3
  MaxCopy = 2
  MaxOps = 4
  Ptr = {"p1","p2","p3"}
  Null = null
  SizeMod = 4
  WordMod = 32
  Base <- MCBase
  Size <- MCSize
INVARIANTS
  TypeOK
  LoadedBoundsFit
  NothingLost
  ShadowFollowsMemory
SYMMETRY Symmetry
CHECK_DEADLOCK FALSE

SPECIFICATION Spec
CONSTANTS
  Var = {v1, v2}
  Obj = {"a", "c", "u"}
  Cacheable = {"a"}
  MaxAddr = 6
  TagUnit = 8
  WordMod = 64
  CacheSize = 1
  MaxErrors = 1
  MaxFixups = 1
  Lo <- MCLo
  Hi <- MCHi
  Kind <- MCKind
  Offsets <- MCOffsets
INVARIANTS
  TypeOK
  TagsTellTruth
  GenuineBounds
  CacheIsTrue
  InvalidIsReported
SYMMETRY Symmetry
CHECK_DEADLOCK FALSE

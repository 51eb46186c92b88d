SPECIFICATION FetchSpec
CONSTANTS
  None = None
  Type <- MCType
  Kind <- MCKind
  SizeOf <- MCSizeOf
  Of <- MCOf
  LenOf <- MCLenOf
  Memb <- MCMemb
  Rel <- MCRel
  Nret <- MCNret
  MakePrecise <- MCMakePrecise
  Complement <- MCComplement
  BaseName = {"int", "uint", "flt", "schar", "uchar"}
  PointerName = {"voidp", "intp", "fltp", "Sp", "voidpp", "absp"}
  StructName = {"S", "P", "G", "in", "sa"}
  FunName = {"fi", "gi", "fv", "gv", "hv"}
  VoidType <- Void
  SignedChar <- SChar
  UnsignedChar <- UChar
  MaxOff = 5
  Chunk = {"h"}
  Heap = {"h"}
  Cacheable = {"h"}
  InitChunk <- FetchChunk
  Ptr <- FetchPtr
  TestType <- CheckedType
  FunType <- NoFun
  MaxDegree = 2
  MaxArgs = 0
  CacheSize = 1
  PeriodMod = 3
  MaxChecks = 3
  Place <- FetchPlace
  Reach = {1, 3, 6}
  PointeeType <- FetchType
INVARIANTS
  BoundsWithin
  ElementsExact
  UncheckedOnlyIfReached
CHECK_DEADLOCK FALSE

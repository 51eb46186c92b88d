SPECIFICATION Spec
CONSTANTS
  None = None
  Type <- MCType
  Kind <- MCKind
  SizeOf <- MCSizeOf
  Of <- MCOf
  LenOf <- MCLenOf
  Memb <- MCMemb
  Rel <- MCRel
  Nret <- MCNret
  MakePrecise <- MCMakePrecise
  Complement <- MCComplement
  BaseName = {"int", "uint", "flt", "schar", "uchar"}
  PointerName = {"voidp", "intp", "fltp", "Sp", "voidpp", "absp"}
  StructName = {"S", "P", "G", "in", "sa"}
  FunName = {"fi", "gi", "fv", "gv", "hv", "nv"}
  VoidType <- Void
  SignedChar <- SChar
  UnsignedChar <- UChar
  MaxOff = 5
  Chunk = {"f", "h", "g", "s"}
  Heap = {"h", "g"}
  Cacheable = {"h"}
  InitChunk <- MemoryChunk
  Ptr <- MemoryPtr
  TestType <- MemoryType
  FunType <- MemoryFun
  MaxDegree = 1
  MaxArgs = 2
  CacheSize = 1
  PeriodMod = 65536
  MaxChecks = 2
INVARIANTS
  StrictStoresRight
  RefiningIsSound
  ArgsCounted
PROPERTIES
  DecidedTypeStays
CHECK_DEADLOCK FALSE

SPECIFICATION Spec
CONSTANTS
  None = None
  Type <- MCType
  Kind <- MCKind
  SizeOf <- MCSizeOf
  Of <- MCOf
  LenOf <- MCLenOf
  Memb <- MCMemb
  Rel <- MCRel
  Nret <- MCNret
  MakePrecise <- MCMakePrecise
  Complement <- MCComplement
  BaseName = {"int", "uint", "flt", "schar", "uchar"}
  PointerName = {"voidp", "intp", "fltp", "Sp", "voidpp", "absp"}
  StructName = {"S", "P", "G", "in", "sa", "big", "wrap"}
  FunName = {"fi", "gi", "fv", "gv", "hv", "nv"}
  VoidType <- Void
  SignedChar <- SChar
  UnsignedChar <- UChar
  MaxOff = 5
  Chunk = {"h"}
  Heap = {"h"}
  Cacheable = {"h"}
  InitChunk <- CastChunk
  Ptr <- CastPtr
  TestType <- CastType
  FunType <- NoFun
  MaxDegree = 2
  MaxArgs = 0
  CacheSize = 1
  PeriodMod = 3
  MaxChecks = 2
INVARIANTS
  TypeOK
  ChunkTypesFit
  IsARight
  ArrayEntriesTrue
  LikenessIsSound
  DegreeRight
  Accounted
CHECK_DEADLOCK FALSE

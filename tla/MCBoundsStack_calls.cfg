SPECIFICATION Spec
CONSTANTS
  Fn = {"start", "main", "C", "U", "H"}
  Inst = {"main", "C", "H"}
  Callable = {"C", "U"}
  Handler = {"H"}
  Start = "start"
  Main = "main"
  Params <- MCParams
  Results <- MCResults
  Bound = {b1, b2}
  ArgvBound = b1
  Invalid = invalid
  Garbled = garbled
  None = none
  Indirect = FALSE
  StackTop = 12
  MaxDepth = 4
  MaxJumps = 1
INVARIANTS
  TypeOK
  NoStrayCookie
  InFlightIntact
  StackKept
PROPERTY
  AbstractSpec
VIEW LiveView
CHECK_DEADLOCK FALSE

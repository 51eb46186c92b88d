SPECIFICATION Spec
CONSTANTS
  Objs = {"tls", "argv", "h1", "h2"}
  Heap = {"h1", "h2"}
  Lo <- MCLo
  Hi <- MCHi
  Slots = {256, 257, 258}
  Argv = "argv"
  Var = {p, q}
  Used = {"malloc", "getenv", "strchr", "strstr", "memset", "realloc", "fgetc", "_obstack_begin", "qsort", "__errno_location", "__ctype_b_loc"}
  StaticAt <- MCStaticAt
  MaxOps = 6
  none = none
SYMMETRY Locals
INVARIANTS
  TypeOK
  OwnProvenance
  Enforced
  NoFalseAlarm
  StackRestored

SPECIFICATION Spec
CONSTANTS
  Reg = {"rax", "rcx", "rsp"}
  Fixable = {"rax", "rcx"}
  LowRange = 4
  TagRange = 8
  Mapped = {1, 2, 3}
  Instr <- MCInstr
  Values <- MCValues
INVARIANTS
  SameAddress
  ExitJustified
PROPERTIES
  Resolved

CONSTANTS
  W = 6
  E = 4
  ED = 3
  FD = 2
  Operand = {0}
  Hosts = {"x87"}
  Value <- Doubles
  Padding = {0}
  MaxOps = 1
SPECIFICATION MCSpec
CHECK_DEADLOCK FALSE
INVARIANTS
  ConstKept

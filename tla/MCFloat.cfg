CONSTANTS
  W = 6
  E = 4
  ED = 3
  FD = 2
  Operand <- Edges
  Hosts = {"quad", "double"}
  Value <- Doubles
  Padding = {0, 63}
  MaxOps = 2
SPECIFICATION MCSpec
CHECK_DEADLOCK FALSE
INVARIANTS
  ArithNearest
  ValuesKept
  ConstKept

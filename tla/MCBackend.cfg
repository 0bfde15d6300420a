CONSTANTS
  L = 3
  K = 2
  Home <- MCHome
  Constant <- MCConstant
  Address <- MCAddress
  Distance <- MCDistance
  Far <- MCFar
  Offset <- MCOffset
  Slots <- MCSlots
  NREG = 2
  MaxArgs = 3
  Scalar = {"int", "double", "ldouble"}
  Aggregate = {"ll", "ff", "cd", "fi", "fd", "ff2", "big"}
  Layout <- MCLayout
  CB = 2
  MaxFields = 3
  FieldType = {"char", "llong"}
  FieldWidth = {0, 1, 11}
  Aligned = {0, 4}
  Pack = {0, 2}
  Label = {"L"}
  MaxStmts <- MCMaxStmts
  WI = 2
  WL = 3
  Linear = 1
  MaxCases = 4
  NB_REGS = 4
  Sig <- MCSig
  MaxOps <- MCMaxOps
  InitType <- MCInitType
  Item <- MCItem
  MaxItems = 3
SPECIFICATION MCSpec
CHECK_DEADLOCK FALSE
INVARIANTS
  CodeRight
  CallsAgree
  BitsRight
  WaysRight
  SwitchFinds
  OperandsKept
  InitRight

CONSTANTS
  a = a
  b = b
  c = c
  Name = {a, b, c}
  ElfHash <- HashValues
  Resolved = {}
  Dynsym = FALSE
  MaxSyms = 3
  Inputs <- KindsOfOne
  Library <- NoLibrary
  Member <- NoLibrary
  Parts = {"table"}
SPECIFICATION MCSpec
CHECK_DEADLOCK FALSE
INVARIANTS
  StrongRefReported

CONSTANTS
  a = a
  b = b
  c = c
  Name = {a, b, c}
  ElfHash <- HashValues
  Resolved = {c}
  Dynsym = FALSE
  MaxSyms = 3
  Inputs <- AllKinds
  Library <- TwoLibraries
  Member <- TwoMembers
  Parts = {"table", "dynamic"}
SPECIFICATION MCSpec
CHECK_DEADLOCK FALSE
INVARIANTS
  Precedence
  AllReported
  Bound
  HashFinds
  RelocNames
PROPERTIES
  ScanComplete
  ArchiveEnds

CONSTANTS
  N = 5
  Troubles = {}
  MaxStops = 2
  MaxPushes = 1
SPECIFICATION MCSpec
CHECK_DEADLOCK FALSE
INVARIANTS
  FixInRange
  Narrowest
  OwnLibrary
  MatrixHonest
PROPERTIES
  SearchEnds

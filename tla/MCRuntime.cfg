SPECIFICATION MCSpec
CONSTANTS
  Addr = {1, 2, 3, 4}
  Size = {1, 2}
  Limit = 5
  Stack <- MCStack
  Process = {p1, p2, p3}
  None = None
  Programs <- MCPrograms
  Sources <- MCSources
  Counts = {0, 6}
  Chunk = 40
  MaxLinks = 2
  MaxKills = 1
SYMMETRY MCSymmetry
 
PROPERTY TreeIsSet
CHECK_DEADLOCK FALSE

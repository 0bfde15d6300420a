CONSTANTS
  Thread = {t1, t2}
  NULL = NULL
  BtThread = {t1, t2}
  Tokens = 2
  Cold = {}
  Exprs = TRUE
  Insist = FALSE
SPECIFICATION Spec
INVARIANTS
  MutualExclusion
  CleanHandover
  OwnGlobals
  ListsSound
  HashKept
PROPERTY SemsReleased

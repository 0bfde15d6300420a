CONSTANTS
  Thread = {t1, t2}
  NULL = NULL
  BtThread = {t1, t2}
  Tokens = 2
  Cold = {"compile"}
  Exprs = FALSE
  Insist = FALSE
SPECIFICATION Spec
INVARIANT CompileExclusion

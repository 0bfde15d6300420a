SPECIFICATION Spec
CONSTANTS
  Thread <- MCThread
  None = None
  Block <- MCBlock
  Top <- MCTop
  Sizes = {1, 2}
  MaxDepth = 2
  Env = {e1, e2}
  FREE_REUSE_SIZE = 1
  Does <- Mixed
  Allowed = {}
INVARIANTS Tracked FreedKept ChildSound

SPECIFICATION Spec
CONSTANTS
  Pasted <- MCPasted
  Worlds <- MCWorlds
  Dirs <- MCDirs
  IDs = {"A", "B", "F", "G"}
  IFDEF_STACK_SIZE = 3
  INCLUDE_STACK_SIZE = 2
INVARIANTS OutputRight ErrorsRight
PROPERTY IncludeBalanced
CHECK_DEADLOCK FALSE

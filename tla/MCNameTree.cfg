SPECIFICATION Spec
CONSTANTS
  Names <- MCNames
  NewPaths <- MCNewPaths
  OldPaths <- MCOldPaths
  Paths <- MCPaths
  Files = {"quit.txt"}
  NBLOCKS = 4
  MaxPrompt = 2
  RemovesCurrent = FALSE
  LongText = FALSE
INVARIANTS
  TreeShape
  PwdNamesCwd
  NoCrash
  ReloadRestores
PROPERTIES
  ImplementsFileTree

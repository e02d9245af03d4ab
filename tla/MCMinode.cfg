SPECIFICATION Spec
CONSTANTS
  Inodes <- MCInodes
  Dirs <- MCDirs
  Names <- MCNames
  Disk <- MCDisk
  Paths <- MCPaths
  NMINODE = 4
  MaxRef = 4
  FrameKept = TRUE
INVARIANTS
  TypeOK
  NoAliases
  HoldersPinned
  SlotsKeepInodes
  PwdNamesCwd
PROPERTIES
  ImplementsWorkingDirectory
  CommandsEnd
CHECK_DEADLOCK FALSE

SPECIFICATION Spec
CONSTANTS
  Disks <- MCDisks
  REACH = 14
  STACK = 9
  WORD = 128
  Memory <- MCMemory
  Glyph <- MCGlyph
  Prints <- MCPrints
  Inodes <- MCInodes
  Dirs <- MCDirs
  Names <- MCNames
  Disk <- MCDisk
  Requests <- MCRequests
  PATHS = 3
  INODES_PER_BLOCK = 8
  DescriptorKept = TRUE
INVARIANTS
  PartitionsListed
  
  ShowsTheFile

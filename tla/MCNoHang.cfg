SPECIFICATION Spec
CONSTANTS
  NPROC = 5
  UserEvents <- MCEvents
  Commands <- FamilyCommands
INVARIANT NoHang
CHECK_DEADLOCK FALSE

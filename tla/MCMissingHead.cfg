SPECIFICATION Spec
CONSTANTS
  NPROC = 4
  CAP = 2
  UNITS = 2
  MaxLines = 2
  Lines <- MCMissingHead
PROPERTY
  PromptReturns
CHECK_DEADLOCK FALSE

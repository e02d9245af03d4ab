SPECIFICATION Spec
CONSTANTS
  NPROC = 4
  CAP = 3
  UNITS = 2
  MaxLines = 2
  Lines <- MCLines
INVARIANTS
  OneTerminalReader
  PipelineDelivers
PROPERTIES
  PromptReturns
  PipelinesEnd
CHECK_DEADLOCK FALSE

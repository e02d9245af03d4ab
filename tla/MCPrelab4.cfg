SPECIFICATION Spec
CONSTANTS
  M = 4
  N = 3
  WORD = 32
  Tests = 3
  START = 2
  INTERVAL = 1
  USEC_IN_SEC = 4
  STOPTICK = 6
  SIXTY = 2
  MaxMerged = 3
INVARIANTS
  NoLostUpdate
  TotalsCorrect
  ClockLags
PROPERTIES
  PartsEnd

SPECIFICATION Spec
CONSTANTS
  NPROC = 4
  UserEvents <- MCEvents
  Commands <- AllCommands
INVARIANTS
  TypeOK
  QueueInv
  SchedulerFindsProc
  P1NeverDies
  ListsEndAtPrompt
PROPERTIES
  NoOvertaking
  WakeupExact
  P0RunsLast
  JesusRaisesAll
  CallsReturn
  ExitWakesParent
CHECK_DEADLOCK FALSE

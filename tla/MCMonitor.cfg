SPECIFICATION FairSpec
CONSTANTS
  Number = {0}
  Expr = {e1}
  Value = {0, 1}
  Fault = Fault
  Builds <- AllBuilds
  IsaCheck = {TRUE, FALSE}
  KEY_QUEUE_LEN = 2
  Steps = {0, 2}
  MaxEvents = 2
INVARIANTS
  TypeOK
  PlainEnd
  RunningInside
  SiExact
  WatchCurrent
PROPERTIES
  QuitReturns
  SiReturns
\* NEMU ends when the user leaves it or an assertion fails.
CHECK_DEADLOCK FALSE

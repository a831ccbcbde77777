SPECIFICATION Spec
CONSTANTS
  Number = {0, 1}
  Expr = {e1}
  Value = {0, 1}
  Fault = Fault
  Builds <- DefaultBuild
  IsaCheck = {FALSE}
  KEY_QUEUE_LEN = 2
  Steps = {1}
  MaxEvents = 0
INVARIANT
  EndIsFinal
CHECK_DEADLOCK FALSE

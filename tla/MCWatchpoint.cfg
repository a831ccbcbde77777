SPECIFICATION WSpec
CONSTANTS
  NR_WP = 3
  Expr = {e1, e2}
  BadExpr = {bad}
  Value = {0, 1}
  Fault = Fault
  Freed = Freed
  NULL = NULL
  MaxArgs = 2
INVARIANTS
  WTypeOK
  PoolPartition
  ListsSound
  NoListAssert
  ValuesCurrent
PROPERTY
  ImplementsWatchSet
\* The monitor stops when the user quits or an assertion fails.
CHECK_DEADLOCK FALSE

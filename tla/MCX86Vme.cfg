SPECIFICATION XSpec
CONSTANTS
  Page = {1, 2, 3, 4, 5, 6}
  pgalloc <- Lowest
  KDir = 1
  KTable <- OneTable
  KIdx = {"k1"}
  UIdx = {"u1", "u2"}
  PIdx = {"p1", "p2"}
  VA <- UserPages
  PA = {a1}
  Prot = {{}, {"R", "W"}}
  MaxSpaces = 2
  Cached <- OneCached
  Thread = {boot, t1}
  Boot = boot
  NULL = NULL
INVARIANTS
  XTypeOK
  TablesOwned
  KernelEverywhere
  UserSeesTables
PROPERTY
  ImplementsVme
\* A panic stops the machine.
CHECK_DEADLOCK FALSE

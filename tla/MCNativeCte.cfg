SPECIFICATION CSpec
CONSTANTS
  Page = {p1, p2, p3, p4}
  VA = {v1, v2}
  PA = {a1}
  Prot <- AllProt
  NULL = NULL
  k1 = k1
  u1 = u1
  u2 = u2
  KThread = {k1}
  UThread = {u1, u2}
  DEPTH = 2
  PCS = 2
  Work <- Workloads
SYMMETRY Names
INVARIANTS
  NTypeOK
  MunmapsAll
  ListsApart
  RunsIntact
PROPERTY
  ImplementsVme

SPECIFICATION NRemapSpec
CONSTANTS
  Page = {p1, p2, p3, p4, p5}
  VA = {v1, v2}
  PA = {a1}
  Prot <- AllProt
  NULL = NULL
SYMMETRY Names
INVARIANT
  MunmapsAll
CHECK_DEADLOCK FALSE

SPECIFICATION Spec
CONSTANTS
  N = 4
  BYTE = 4
  WIDTH = 16
  Word64 <- MCWord64
  Word32 <- MCWord32
  Gpr <- MCGpr
  Rm <- MCRm
INVARIANTS
  KlibExact
  MulDivExact
\* A call returns and nothing follows.
CHECK_DEADLOCK FALSE

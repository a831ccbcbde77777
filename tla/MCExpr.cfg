SPECIFICATION GSpec
CONSTANTS
  WORD = 16
  NumLimit = 32
  HexLimit = 10
  Reg <- MCReg
  Mem <- MCMem
  Inputs <- ExprTexts
  MAX_INDEX = 10
  Digits = {0, 5}
  LOOP = 2
  RECURSION = 4
INVARIANTS
  TypeOK
  EvalCorrect
  LinesPass
CHECK_DEADLOCK FALSE

SPECIFICATION GSpec
CONSTANTS
  WORD = 16
  NumLimit = 32
  HexLimit = 10
  Reg <- MCReg
  Mem <- MCMem
  Inputs <- BracketTexts
  MAX_INDEX = 10
  Digits = {0, 5}
  LOOP = 0
  RECURSION = 4
INVARIANT
  BracketsChecked
CHECK_DEADLOCK FALSE

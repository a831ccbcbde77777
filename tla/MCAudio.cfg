SPECIFICATION AFairSpec
CONSTANTS
  SBUF_SIZE_MAX = 3
  PlayLens = {0, 2, 3, 4}
  StreamLens = {1, 2}
  MaxBytes = 5
INVARIANTS
  ATypeOK
  CountInRange
  AllAccepted
  StreamInOrder
PROPERTY
  PlayReturns
\* The program plays at most MaxBytes.
CHECK_DEADLOCK FALSE

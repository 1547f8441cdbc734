SPECIFICATION Spec
CONSTANTS
  SIZE = 8
  U16 = 64
  SEPTET = 4
  Remaining = {0, 1, 3, 5}
  MaxRoom = 9
  MaxBytes = 24
INVARIANTS TypeOK IntactUntilFull OnlyExactFill

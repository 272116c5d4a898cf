SPECIFICATION AccessSpec
CONSTANTS
  Thread = {one, two}
  one = one
  two = two
  Programs <- MCPrograms
  Bases <- MCBases
  Size = 48
  Vector = 16
INVARIANTS AccessTypes InGuest OnlyOldValues
PROPERTIES PowerPC
CHECK_DEADLOCK FALSE

SPECIFICATION IntegerSpec
CONSTANTS
  Half = 2
  WordBits = 2
  Parts = {1}
  GPR = {r3, r4}
  Start <- LowStarts
  Imm <- AllImm
  Ops <- AllOps
  Record = {TRUE, FALSE}
  Length = 2
  r3 = r3
  r4 = r4
INVARIANTS ResultRight LongSum
CHECK_DEADLOCK FALSE

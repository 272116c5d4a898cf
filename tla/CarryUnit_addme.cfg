SPECIFICATION Spec
CONSTANTS
  Half = 2
  WordBits = 2
  Parts = {1}
  GPR = {r3, r4}
  Start <- LowStarts
  Imm <- AllImm
  Ops = {"addc", "addme"}
  Record = {FALSE}
  Length = 2
  r3 = r3
  r4 = r4
PROPERTY AddMeCarries
CHECK_DEADLOCK FALSE

SPECIFICATION Spec
CONSTANTS
  Size = 4
  Target = {{1}, {3}, {9}, {2, 4}}
  Plain = {"fpu", "vmx", "mffs", "mtfsf", "call", "int"}
  Rounding = {"nearest", "down"}
INVARIANT CacheFits
INVARIANT RoundingInForce
PROPERTY ModeFits
CHECK_DEADLOCK FALSE

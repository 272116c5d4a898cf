SPECIFICATION NativeSpec
CONSTANTS
  Inputs <- MCInputs
  Layout <- MCLayout
  Import <- MCImport
  Functions <- MCFunctions
  NoPatch = NoPatch
  PerUnit = 2
  MaxUnits = 2
  MaxRuns = 3
  MaxFaults = 2
  f = f
  g = g
  a = a
  b = b
  c = c
  p = p
  old = old
  new = new
INVARIANTS TypeOK DoneIsUpToDate OnlyStaleTouched OnlyItsUnits OwnImage OneGame
CHECK_DEADLOCK FALSE

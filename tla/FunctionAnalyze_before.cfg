SPECIFICATION Spec
CONSTANTS
  Length = 2
  Before = 1
  Conditional <- BackConditional
  Goto = {}
INVARIANT ChasesNothingBefore
CHECK_DEADLOCK FALSE

SPECIFICATION Spec
CONSTANTS
  Length = 4
  Before = 1
  Conditional <- ShortConditional
  Goto <- ShortGoto
INVARIANT TypeOK
INVARIANT SanityCheck
INVARIANT SizeIsReached
INVARIANT ChasesNothingBefore
INVARIANT WorkBounded
CHECK_DEADLOCK FALSE

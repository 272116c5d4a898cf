SPECIFICATION FairSpec
CONSTANTS
  Section <- MCSection
  Instruction <- MCInstruction
  Configured <- MCConfigured
  Unwind <- MCUnwind
  Import <- MCImport
  MaxSize = 2
INVARIANT UniqueBases
INVARIANT LocalCallsResolve
INVARIANT SweepCovers
PROPERTY Terminates
CHECK_DEADLOCK FALSE

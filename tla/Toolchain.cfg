SPECIFICATION ToolSpec
CONSTANTS
  Bases <- AllBases
  Patches <- AllPatches
  Offsets <- AllOffsets
  Decode <- MCDecode
  Digit <- MCDigit
  High <- MCHigh
  Back = 12
  Layout <- MCLayout
  Inputs <- MCInputs
INVARIANT UnpackInPlace
INVARIANT StaysInside
INVARIANT PatchThenLoad
INVARIANT EveryTableFound
INVARIANT SwitchFollowsTable
INVARIANT GuardedJumpArrives
CHECK_DEADLOCK FALSE

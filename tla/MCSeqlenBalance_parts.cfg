SPECIFICATION Spec
CONSTANTS
  N = 6
  MaxParts = 4
  Lengths <- MCLengths
  Limits <- MCLimits
INVARIANTS
  PartsExact
  AssertionsHold
  SpreadBounded
  OvershootBounded
  RestoresOrder
CHECK_DEADLOCK FALSE

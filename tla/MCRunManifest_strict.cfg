SPECIFICATION Spec
CONSTANTS
  StrictVdra = TRUE
  StrictGroups = FALSE
  LiveMayFail = TRUE
  Findings <- MCFindings
  MaxWork = 3
  MaxRestart = 2
  None = None
INVARIANTS
  FailuresDisqualify
  ClaimsObserved
PROPERTIES
  RestartsNeverHeal
CHECK_DEADLOCK FALSE

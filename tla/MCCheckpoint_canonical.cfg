SPECIFICATION Spec
CONSTANTS
  Canonical = TRUE
  ResumeModes = {"auto"}
  LiveMayFail = FALSE
  MaxStep = 2
  MaxWork = 4
  MaxRestart = 2
  None = None
  Torn = Torn
INVARIANTS
  MarkedIsWhole
  RestartsOneHistory
PROPERTIES
  ImplementsStore
CHECK_DEADLOCK FALSE

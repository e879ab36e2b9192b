SPECIFICATION Spec
CONSTANTS
  NumIterations = 3
  KeepSteps = 2
  Minimize = TRUE
  Setups <- ThreeSetups
  MaxBoots = 3
  None = None
  Torn = Torn
  Gone = Gone
  Bare = Bare
INVARIANTS
  IterationsAgree
  StepsChain
  ResumesOnePolicy
CHECK_DEADLOCK FALSE

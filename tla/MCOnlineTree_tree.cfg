SPECIFICATION FairSpec
CONSTANTS
  MaxDepth = 2
  Default = 3
  MaxK = 3
  QueueCount = 2
  Capacity = 2
  TimesOut = TRUE
  RootAllocation = FALSE
  SkipNearLeaf = FALSE
  Capped = TRUE
  Cap <- UniformCap
  PilotTokens = 3
  MayFail = {"estimate", "allocate", "generate"}
INVARIANTS
  QueuesAttended
  ReturnedWhole
PROPERTIES
  BuildEnds
  ImplementsForkJoin
CHECK_DEADLOCK FALSE

SPECIFICATION Spec
CONSTANTS
  Mini = 3
  Batches = 2
  Epochs = 2
  DP = 2
  Micro = 1
  MaxTokens = 4
  Reservations <- MCReservations
  Worlds <- MCWorlds
INVARIANTS
  InStep
  NeverCrashes
  StepsAccounted
PROPERTIES
  ImplementsSingleRank
  UpdateEnds
CHECK_DEADLOCK FALSE

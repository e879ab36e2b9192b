SPECIFICATION HandshakeSpec
CONSTANTS
  r1 = r1
  r2 = r2
  r3 = r3
  w1 = w1
  w2 = w2
  Rows = {r1, r2, r3}
  Workers = {w1, w2}
  WorkerOf <- MCWorkerOf
  FreeCacheEngine = TRUE
  Stricts = {TRUE, FALSE}
  MaxUpdates = 1
  MaxGenerations = 2
  Build = Build
  None = None
INVARIANTS
  SnapshotHonest
  StrictMeansVerified
  LostProbesForgiven
PROPERTIES
  GenerationEnds
CHECK_DEADLOCK FALSE

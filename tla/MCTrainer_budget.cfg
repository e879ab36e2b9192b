SPECIFICATION FairTrainerSpec
CONSTANTS
  e1 = e1
  e2 = e2
  e3 = e3
  e4 = e4
  e5 = e5
  e6 = e6
  q1 = q1
  q2 = q2
  t1 = t1
  t2 = t2
  t3 = t3
  p1 = p1
  p2 = p2
  p3 = p3
  p4 = p4
  p5 = p5
  Edge <- MCEdge
  Question <- MCQuestion
  Tree <- MCTree
  Parent <- MCParent
  QuestionOf <- MCQuestionOf
  TreeOf <- MCTreeOf
  ParentOf <- MCParentOf
  Silent <- MCSilent
  Batches <- MCTreeBatches
  Units = {"complete_tree"}
  Unit = "complete_tree"
  Target = 3
  Cap = 2
  MaxAge = 2
  MiniBatch = 1
  Total = 5
  Start = 3
  SaveFreq = 2
  Limit = 0
  Budget = 5
  MaxIteration = 6
  MaxReservations = 6
  MaxAdded = 12
INVARIANTS
  TreesStayWhole
  SavesComplete
CHECK_DEADLOCK FALSE

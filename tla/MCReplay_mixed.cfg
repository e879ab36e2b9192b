SPECIFICATION Spec
CONSTANTS
  e1 = e1
  e2 = e2
  e3 = e3
  e4 = e4
  e5 = e5
  q1 = q1
  q2 = q2
  t1 = t1
  t2 = t2
  t3 = t3
  p1 = p1
  p2 = p2
  p3 = p3
  p4 = p4
  Edge <- MCEdge
  Question <- MCQuestion
  Tree <- MCTree
  Parent <- MCParent
  QuestionOf <- MCQuestionOf
  TreeOf <- MCTreeOf
  ParentOf <- MCParentOf
  Batches <- MCBatches
  Units = {"edge", "complete_tree"}
  Target = 3
  Cap = 2
  MaxAge = 2
  MaxIteration = 2
  MaxReservations = 2
  MaxAdded = 5
INVARIANTS
  HoldsAccounted
  CountersBalance
PROPERTIES
  ReservationsLawful
  ImplementsLots
CHECK_DEADLOCK FALSE

SPECIFICATION Spec
CONSTANTS
  MaxSends = 3
  MaxSpurious = 3
  MayFailToStart = TRUE
INVARIANTS TypeOK AnswersMatch DestroyedAlone FaultNeedsLoss
PROPERTIES ReceiveServed DestructorReturnsOrDeadlocks
CHECK_DEADLOCK FALSE

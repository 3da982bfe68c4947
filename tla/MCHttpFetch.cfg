\* Every outcome of every attempt, with the session's own retry limits.
SPECIFICATION Spec
INVARIANTS
  OutcomeRight
  PostedOnce
  AttemptsBounded
PROPERTIES
  ImplementsLeg
  FetchEnds
CHECK_DEADLOCK FALSE

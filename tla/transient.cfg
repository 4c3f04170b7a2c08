SPECIFICATION Spec
CONSTANTS
  StateNum = 4
  TimePoints <- EvenPoints
  deltaMin = 2
  deltaMax = 6
  FirstStep = 3
  corrMaxOrder = 2
  relaxTSR = FALSE
  GoodGuess = 2
  MayDiverge = TRUE
INVARIANTS
  StepsMatchSolutions
  CurrentFollowsSolution
  OrderHasHistory
  SavedNearPoint
PROPERTIES
  RunEnds
  ImplementsStepHistory

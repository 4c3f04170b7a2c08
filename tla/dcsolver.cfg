SPECIFICATION Spec
CONSTANTS
  MaxIter = 44
  GStart = 6
  GStep = 2
  SFull = 6
  SStep = 2
INVARIANTS
  SourcesRestored
  SolvedAsGiven
PROPERTIES
  EachHelperOnce
  Ends

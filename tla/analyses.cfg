SPECIFICATION Spec
CONSTANTS
  Sweeps = {"SW1", "SW2", "SW3"}
  Leaves = {"AC1", "SP1"}
  Params = {"R", "S", "T"}
  Points <- TwoOrThree
  Netlists <- FourOrFive
INVARIANTS
  AllPlaced
  AxesMatchResults
  InnermostFirst
PROPERTIES
  BiasFirst
CHECK_DEADLOCK FALSE

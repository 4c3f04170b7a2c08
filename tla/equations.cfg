SPECIFICATION Spec
CONSTANTS
  Lists <- Three
  Undefined = {"u"}
  Generated = {"g.0001"}
  Properties = {"R1.R"}
  Datasets = {{"r"}, {"r", "a"}}
  MaxRefs = 2
  MaxTotal = 4
  MaxSolves = 1
INVARIANTS
  EvaluableMarked
  NoneLost
  OneDefinition
  ShortCyclesReported
PROPERTIES
  OperandsFirst
CHECK_DEADLOCK FALSE

SPECIFICATION Spec
CONSTANTS
  gnd = gnd
  PacGround = PacGround
  netA = netA
  netB = netB
  netC = netC
  Netlists <- Some
  Frequencies = 2
  MaxSolves = 2
INVARIANTS
  NodeListAgrees
  HeadReducible
  ResultsAtPorts
  NetlistRestored
PROPERTIES
  ImplementsReduction

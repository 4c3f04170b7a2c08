SPECIFICATION SearchSpec
CONSTANTS
  Resolution = 200
INVARIANTS
  AlphaInRange
  FewTurns
CHECK_DEADLOCK FALSE

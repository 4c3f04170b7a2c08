SPECIFICATION Spec
CONSTANTS
  Drawings = {blank, wired}
  Blank = blank
  Ports = {}
  Settings = {plain, framed}
  Limits = {0, 1, 2}
INVARIANTS
  EntryIsDocument
  UnchangedIsSaved
PROPERTIES
  RangeKept
SYMMETRY AnySettings
CONSTRAINT Explored
CHECK_DEADLOCK FALSE

SPECIFICATION Spec
CONSTANTS
  Docs = {d1, d2}
  Names = {"n1", "n2"}
  Spellings = {"../n2"}
  Clean <- CleanSecond
  Contents = {"blank", "drawn", "moved"}
  Blank = "blank"
  Uses <- UsesFirst
SYMMETRY Symmetry
INVARIANTS
  
  FileAsSaved
  NamedSelectedSaved
CHECK_DEADLOCK FALSE

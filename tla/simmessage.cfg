SPECIFICATION Spec
CONSTANTS
  Dialogs = {s1, s2}
  Schematics = {p1}
  VHDLSims = {p2}
  VHDLModules = {p3}
  Platforms <- UnixAndWindows
INVARIANTS
  EndsOnce
  ReportIsFinal

  
CHECK_DEADLOCK FALSE

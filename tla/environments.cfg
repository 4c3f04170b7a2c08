SPECIFICATION Spec
CONSTANTS
  Types = {"T", "U"}
  Instances <- Expanded
  Type <- TypeTable
  Parent <- ParentTable
  Definition <- LineTable
  Args <- Given
  Default = 7
  Points = {1, 2}
INVARIANTS
  OwnValues
  StillOurs

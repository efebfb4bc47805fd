SPECIFICATION Spec
CONSTANTS
  MaxCells = 17
  MaxDepth = 2
  GridX = 2
  GridY = 1
  NumSteps = 4
  Scale = 5
  RefineThreshold = 2
  CoarsenThreshold = 1
  Variations = {0, 1, 2, 3}
INVARIANTS
  TreeWellFormed
  LeavesTileDomain
  OrphansOnlyWhenFull
  CoarsenExhaustive
  FreshValues
  CreatedCellsStay
PROPERTIES
  ImplementsMesh

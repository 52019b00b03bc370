\* Images of two layers and more; the stage is run twice.
CONSTANTS
  Names = {"a", "b", "c"}
  Data = {"old", "x", "y"}
  Partial = "partial"
  Scenarios <- MCScenarios
  MaxRuns = 2
SPECIFICATION Unpack
INVARIANTS
  UnpackTypeOK
  UnionExtracted
CHECK_DEADLOCK FALSE

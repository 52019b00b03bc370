\* Both backends; the stage is run up to three times.
CONSTANTS
  PartNames = {"efi", "root", "data"}
  DiskSize = 10
  Scenarios <- MCScenarios
  MaxRuns = 3
SPECIFICATION Spec
INVARIANTS
  TypeOK
  NamedOnce
  CompleteAtOnce
  Expanded
PROPERTIES
  DataKept
CHECK_DEADLOCK FALSE

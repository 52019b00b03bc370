\* Eight machines and stages; each stage is run twice.
CONSTANTS
  Names = {"root", "wheel", "ann", "bob", "cid"}
  Keys = {"k1", "k2", "k3"}
  HumanIdMin = 3
  IdLimit = 8
  Scenarios <- MCScenarios
  MaxRuns = 2
SPECIFICATION Spec
INVARIANTS
  TypeOK
  UidsDistinct
  AccountsComplete
PROPERTIES
  AccountsKept
  KeysKept
CHECK_DEADLOCK FALSE

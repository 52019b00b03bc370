SPECIFICATION Spec
CONSTANTS
  SysctlOrder <- MCSysctlOrder
  PackageOrder <- MCPackageOrder
  Scenarios <- MCScenarios
INVARIANTS
  TypeOK
  
  OthersKept
  WorkTreeIsBranch
PROPERTIES
  IdKeptIfGuarded
CHECK_DEADLOCK FALSE

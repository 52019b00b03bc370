\* Every answer of every provider, alone, in pairs and changing; two runs.
CONSTANTS
  Data = {"config", "script", ""}
  Empty = ""
  Configs = {"config", ""}
  Partial = "partial"
  Scenarios <- MCScenarios
  MaxRuns = 2
SPECIFICATION Spec
INVARIANTS
  TypeOK
  FirstAnswerWins
  AnyAnswerSuffices
  NamedIsConfig
CHECK_DEADLOCK FALSE

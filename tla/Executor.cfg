\* Two plugins and one conditional.
CONSTANTS
  StageNames = {"a", "b", "none"}
  Unnamed = ""
  Conditionals = 1
  Plugins = 2
  Invocations <- MCInvocations
SPECIFICATION Spec
INVARIANTS
  TypeOK
  ErrorsReported
  ChainWhole
  AnalyzePredictsRun
PROPERTY
  PromiseKept
CHECK_DEADLOCK FALSE

\* Every list of up to three stages over two names, one of which reads as an index.
CONSTANTS
  StageNames = {"a", "1"}
  Unnamed = ""
  MaxStages = 3
SPECIFICATION Planning
INVARIANTS
  AfterHonoured
  DeclarationOrderKept
  RefusedOnlyForAfterCycle
CHECK_DEADLOCK FALSE

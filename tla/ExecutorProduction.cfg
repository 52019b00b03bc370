\* DefaultExecutor::new() on YAML and on dot notation: two plugins and one conditional.
CONSTANTS
  StageNames = {"a", "b", "none"}
  Unnamed = ""
  Conditionals = 1
  Plugins = 2
  Invocations <- ProductionInvocations
SPECIFICATION Spec
INVARIANT
  YamlStagesRun
CHECK_DEADLOCK FALSE

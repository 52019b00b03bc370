\* Templates, command lines, documents and calls of functions.
SPECIFICATION Spec
CONSTANTS
  IntMax = 7
  Tags <- MCTags
  TagLimit = 5
  Loops <- MCLoops
  Lines <- MCLines
  Nodes <- MCNodes
  Clouds <- MCClouds
  Calls <- MCCalls
INVARIANTS
  BoundAlike
  TextsKept
  FunctionsAsPromised
CHECK_DEADLOCK FALSE

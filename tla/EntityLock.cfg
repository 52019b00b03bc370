\* One edit per process, or one process with every fault.
CONSTANTS
  p = p
  q = q
  Procs = {p, q}
  Names = {"root", "ann", "bob", "cid", "dan"}
  Rests = {1, 2, 3}
  NoRest = 0
  Scenarios <- MCScenarios
SPECIFICATION Spec
INVARIANTS
  TypeOK
  OneEditor
  LockFileCleanedUp
PROPERTY
  EditsAtomic
CHECK_DEADLOCK FALSE

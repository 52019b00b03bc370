\* Two edits per process.
CONSTANTS
  p = p
  q = q
  Procs = {p, q}
  Names = {"root", "ann", "bob", "cid", "dan"}
  Rests = {1, 2, 3}
  NoRest = 0
  Scenarios <- SeveralEach
SPECIFICATION Spec
INVARIANT
  EnsuredLinesKept
CHECK_DEADLOCK FALSE

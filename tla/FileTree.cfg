\* Entries of three plugins that meet; the stage is run twice.
CONSTANTS
  Names = {"a", "b", "c"}
  Data = {"old", "download", "directory", "file"}
  Partial = "partial"
  Bits = {"files", "dirs", "closed"}
  FileBits = "files"
  DirBits = "dirs"
  None = None
  Scenarios <- MCScenarios
  MaxRuns = 2
SPECIFICATION Spec
INVARIANTS
  TypeOK
  AsAsked
  EachForItself
CHECK_DEADLOCK FALSE

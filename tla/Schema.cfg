CONSTANTS
  Tools = {t1, t2}
  Targets = {0, 3, 8}
  MaxRuns = 3
  Server = Server
SPECIFICATION Spec
SYMMETRY ToolSymmetry
INVARIANTS NoGaps RecordedIsThere StartRepairs
CHECK_DEADLOCK FALSE

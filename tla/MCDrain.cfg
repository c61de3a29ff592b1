SPECIFICATION MCSpec
CONSTANTS
  d1 = d1
  d2 = d2
  A = A
  B = B
  Drives = {d1, d2}
  None = None
  MayGate = {B}
  Task <- MCTask
  MaxRuns = 2
  MaxUnmounts = 1
  MaxRetries = 1
  CdWorlds <- MCCdWorlds
  NvMax = 4
  NvPasses = 2
  NvWorlds <- MCNvWorlds
  PjWorlds <- MCPjWorlds
  PjDrives = {"d1", "d2"}
  PjStarts = 2
  EnWorlds <- MCEnWorlds
  EnTries = 2
INVARIANTS
  ChildrenContained
PROPERTIES
  FillTruthful
  ProjectionKept
  WorkersEnd
CHECK_DEADLOCK FALSE

SPECIFICATION HandoverSpec
CONSTANTS
  Tabs = {t1, t2}
  Drives = {d1}
  Repos = {r1}
  WorkOutcomes = {"done"}
  None = None
  MaxEvents = 0
  MaxRuns = 2
  MaxWork = 2
INVARIANTS
  SessionReachesWorker

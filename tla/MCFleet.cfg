SPECIFICATION MCSpec
CONSTANTS
  Tabs = {t1, t2}
  Drives = {d1}
  Repos = {r1}
  WorkOutcomes = {"paused", "raised"}
  None = None
  MaxEvents = 2
  MaxRuns = 2
  MaxWork = 3
  RgDisks = {"d1", "d2"}
  RgWorlds <- MCRgWorlds
  RgLabels = {1, 2, 3}
  DvWorlds <- MCDvWorlds
  LdWorlds <- MCLdWorlds
  CtWorlds <- MCCtWorlds
  RcFiles = {1, 2}
  RcDrives = {1, 2}
  RcWorlds <- MCRcWorlds
  CvFiles = {1, 2}
  CvWorlds <- MCCvWorlds
INVARIANTS
  FleetSound
  AnswerDecidesItsPrompt
  PortalTruthful
PROPERTIES
  SelectionFrozen
  IdentityKept
  CatalogKept
  RecoverySound
  OperationsEnd
  FleetSettles
CHECK_DEADLOCK FALSE

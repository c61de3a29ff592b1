SPECIFICATION FairMutationSpec
CONSTANTS
  p1 = p1
  p2 = p2
  q1 = q1
  Procs = {p1, p2}
  Proposals = {q1}
  Sids = {1}
  Drives = {1}
  DrivesOf <- MCDrivesOf
  Facts = {0}
  MaxRev = 3
  MaxEpoch = 1
  WorkOutcomes = {"paused"}
  None = None
PROPERTIES
  ControllerReleased
CHECK_DEADLOCK FALSE

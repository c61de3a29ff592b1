SPECIFICATION SessionSpec
CONSTANTS
  p1 = p1
  p2 = p2
  q1 = q1
  q2 = q2
  Procs = {p1, p2}
  Proposals = {q1}
  Sids = {1, 2}
  Drives = {1}
  DrivesOf <- MCDrivesOf
  Facts = {0, 1}
  MaxRev = 3
  MaxEpoch = 1
  WorkOutcomes = {"done", "paused"}
  None = None
SYMMETRY MCSymmetry
INVARIANTS
  SessionTypeOK
  OneLive
  AttemptsOrdered
  PinnedApproval
PROPERTIES
  RevisionOwnedByLive
  RenewedLeaseSurvives
CHECK_DEADLOCK FALSE

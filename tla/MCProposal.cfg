SPECIFICATION ProposalSpec
CONSTANTS
  p1 = p1
  p2 = p2
  q1 = q1
  q2 = q2
  q3 = q3
  a1 = a1
  a2 = a2
  Procs = {p1, p2}
  Proposals = {q1, q2, q3}
  Plans = {a1, a2}
  Sids = {1}
  Drives = {1}
  DrivesOf <- MCDrivesOf
  Facts = {0, 1}
  MaxRev = 3
  MaxEpoch = 1
  WorkOutcomes = {"paused"}
  None = None
CONSTRAINT MCScope
SYMMETRY MCSymmetry
INVARIANTS
  ReviewSound
  ApprovalSound
PROPERTIES
  LifecycleForward
CHECK_DEADLOCK FALSE

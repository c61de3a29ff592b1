SPECIFICATION MutationSpec
CONSTANTS
  p1 = p1
  p2 = p2
  q1 = q1
  Procs = {p1, p2}
  Proposals = {q1}
  Sids = {1}
  Drives = {1, 2}
  DrivesOf <- MCOneDriveOf
  Facts = {0}
  MaxRev = 5
  MaxEpoch = 2
  WorkOutcomes = {"paused"}
  None = None
CONSTRAINT MCScope
SYMMETRY MCSymmetry
INVARIANTS
  AnchorsAccountForBytes
  WritersExcluded
PROPERTIES
  ImplementsEvidence
CHECK_DEADLOCK FALSE

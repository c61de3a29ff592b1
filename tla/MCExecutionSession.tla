------------------------- MODULE MCExecutionSession -------------------------
(***************************************************************************)
(* Bounds for ExecutionSession: interchangeable processes, and the drives  *)
(* of each proposal.                                                       *)
(***************************************************************************)
EXTENDS ExecutionSession, TLC

CONSTANTS p1, p2, q1, q2

MCDrivesOf == [q \in Proposals |-> Drives]

MCSymmetry == Permutations(Procs)

=============================================================================

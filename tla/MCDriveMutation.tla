-------------------------- MODULE MCDriveMutation --------------------------
(***************************************************************************)
(* Bounds for DriveMutation.                                               *)
(***************************************************************************)
EXTENDS DriveMutation, TLC

CONSTANTS p1, p2, q1

MCDrivesOf == [q \in Proposals |-> Drives]
MCOneDriveOf == [q \in Proposals |-> {1}]

MCSymmetry == Permutations(Procs)

\* Two scopes in one run: a session, recovery and epoch changes on one drive ...
OneDrive ==
  /\ planner_revision <= 4
  /\ \A d \in Drives \ {1} : drive[d].gen = 0 /\ unobserved[d]
  /\ \A p \in Procs : env[p].drives \subseteq {1}

\* ... and envelopes and reconciliations of two drives without a session.
TwoDrives ==
  /\ \A p \in Procs : proc[p].pc = "idle"
  /\ \A s \in Sids : session[s] = NoSession
  /\ \A d \in Drives : drive[d].epoch = 1
  /\ \A p \in Procs : \A k \in env[p].keys : k[2] = 1

MCScope == OneDrive \/ TwoDrives

=============================================================================

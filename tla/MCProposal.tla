----------------------------- MODULE MCProposal -----------------------------
(***************************************************************************)
(* Bounds for Proposal: interchangeable processes, proposals and plans.    *)
(***************************************************************************)
EXTENDS Proposal, TLC

CONSTANTS p1, p2, q1, q2, q3, a1, a2

MCDrivesOf == [q \in Proposals |-> Drives]

MCSymmetry == Permutations(Procs) \cup Permutations(Proposals) \cup Permutations(Plans)

\* Two scopes in one run: three proposals that compete, without a session ...
Drafting ==
  /\ planner_revision <= 3
  /\ \A p \in Procs : proc[p].pc = "idle"
  /\ \A s \in Sids : session[s] = NoSession

\* ... and two proposals of one plan beside a session and its successor.
Filling ==
  /\ Cardinality({q \in Proposals : proposal[q].lifecycle # "absent"}) <= 2
  /\ planner_revision <= 3
  /\ facts = 0
  /\ \A q \in Proposals : content[q].plan = active_plan /\ content[q].assigned = 0
  /\ \A p \in Procs : review[p].plan \in {active_plan, None} /\ review[p].assigned \in {0, None}

MCScope == Drafting \/ Filling

=============================================================================

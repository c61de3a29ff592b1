------------------------------ MODULE Capacity ------------------------------
(***************************************************************************)
(* What plan_capacity makes of a verdict: the tasks with the budgets of    *)
(* the candidates they came from, the order of the drives and a ledger of  *)
(* each; for a refusal, the rows that tell the operator what to change.    *)
(* All of it is read from the judged state; no action is added.            *)
(***************************************************************************)
EXTENDS Placement

DriveTier(d) == IF Facts(d).replica THEN "replica" ELSE IF Facts(d).raid THEN "raid_home" ELSE "primary"

\* Mutant: the source of a task is not looked at.
MatchAnySource(t) == Head(SelectSeq(plSet.candidates[t.req], LAMBDA c : c.target = t.target))
\* _match_candidate: the candidate a task came from; a home that was pending has its drive by now.
MatchCandidate(t) ==
  LET same == SelectSeq(plSet.candidates[t.req], LAMBDA c : c.target = t.target)
      exact == SelectSeq(same, LAMBDA c : c.source \in {t.source, Pending})
  IN IF exact = <<>> THEN Head(same) ELSE Head(exact)
TaskBudget(t) == MatchCandidate(t).budget
AssignedTasks == {[req |-> t.req, target |-> t.target, budget |-> TaskBudget(t)] : t \in plVerdict.plan}

Ledger(d) ==
  LET tasks == {t \in AssignedTasks : t.target = d}
  IN [tier |-> DriveTier(d), known |-> plEvidence[d].executable, usable |-> plEvidence[d].free,
      durable |-> Total(tasks, Durable), workspace |-> Peak(tasks, Work)]

\* _batch_order: a drive's turn is that of its most urgent task.
BatchOrder ==
  Ordered({t.target : t \in plVerdict.plan},
          LAMBDA d : Rank(Head(Ordered(On(plVerdict.plan, d), Rank))) \o <<d>>)

-----------------------------------------------------------------------------
(* The rows of a refusal                                                   *)

Lead(d) == IF Ledger(d).known THEN "change_capacity" ELSE "mount_or_reconcile_drive"
\* _capacity_short_failures: the requirement that lacks most on its roomiest drive, if any lacks.
ShortRow(req) ==
  LET c == Head(Ordered(CandidatesOf(req), LAMBDA x : <<-Free[x.target], x.target, x.budget.gd, x.source>>))
  IN [req |-> req, drives |-> {x.target : x \in CandidatesOf(req)}, required |-> Needs(c),
      available |-> Free[c.target], lead |-> Lead(c.target),
      code |-> IF Durable(c) > Free[c.target] THEN "CAPACITY_DURABLE_SHORT" ELSE "CAPACITY_WORKSPACE_SHORT"]
CapacityShort ==
  LET short == {row \in {ShortRow(req) : req \in Want} : row.required > row.available}
      Place(row) == <<row.available - row.required>> \o row.req
  IN {row \in short : \A other \in short \ {row} : LexLess(Place(row), Place(other))}

\* Mutant: unknown drives of the plan are named, wanted or not.
UnknownOfPlan == {[drives |-> {d}, lead |-> Lead(d)] : d \in {e \in Labels : ~Ledger(e).known}}
\* _unknown_evidence_failures: one row for each unknown drive a candidate would go to.
UnknownEvidence ==
  LET unknown == {d \in CandidateTargets : ~Ledger(d).known}
  IN {[drives |-> {d}, lead |-> Lead(d)] : d \in IF unknown = {} THEN CandidateTargets ELSE unknown}

FirstOf(reqs) == CHOOSE req \in reqs : \A other \in reqs \ {req} : Before(req, other)
\* _structural_failure_projection of the diagnostics of _structural.
StructuralRow(code) ==
  CASE code = "TARGET_TIER_MISSING" -> [req |-> FirstBlocked, drives |-> plSet.eligible[FirstBlocked[1]], required |-> 0]
    [] code = "UNPROVEN_PROVENANCE" ->
         [req |-> FirstBlocked, required |-> 0,
          drives |-> {d \in plSet.eligible[FirstBlocked[1]] : Unproven(FirstBlocked[2], d)}]
    [] code = "FAILURE_DOMAIN_UNSATISFIABLE" ->
         [req |-> FirstOf({r \in Want : r[1] = Replica /\ DomainsCollide(r)}), drives |-> {}, required |-> 0]
    [] OTHER ->
         LET req == FirstOf({r \in Want : ExceedsMax(r)})
         IN [req |-> req, drives |-> {c.target : c \in CandidatesOf(req)}, required |-> Peak(CandidatesOf(req), Needs)]

-----------------------------------------------------------------------------
(* Properties                                                              *)

\* The tasks a feasible plan hands to Fill carry the budgets the packing was found with, every
\* drive's ledger fits what the drive was known to have, and the drive of a home is served before
\* that of its replica (_project_assigned_tasks, _ledgers, _batch_order).
PlanHandedOver ==
  plVerdict.code = "FEASIBLE" =>
    /\ \A t \in plVerdict.plan : TaskBudget(t) = t.budget
    /\ \A d \in Labels : Ledger(d).durable + Ledger(d).workspace <= Ledger(d).usable
    /\ ToSet(BatchOrder) = {t.target : t \in plVerdict.plan}
    /\ \A t, h \in plVerdict.plan : t.req[1] = Replica /\ h.req = HomeOf(t.req) =>
         \E i, j \in DOMAIN BatchOrder : i < j /\ BatchOrder[i] = h.target /\ BatchOrder[j] = t.target

\* A refusal tells the operator something he can act on.  Missing evidence is always some drive's,
\* one a file would have gone to, and is to be mounted; a shortage is never reported of a drive
\* nobody could read, and is reported whenever some requirement fits no drive by itself; what
\* blocks a requirement names all the drives it is blocked on (plan_capacity, capacity.py:1068).
RefusalsNameTheirCause ==
  /\ plVerdict.code = "CAPACITY_EVIDENCE_UNKNOWN" =>
       UnknownEvidence # {} /\ \A row \in UnknownEvidence :
         row.drives \subseteq CandidateTargets /\ row.lead = "mount_or_reconcile_drive"
  /\ plVerdict.code = "INFEASIBLE_UNDER_ADMISSION_BUDGET" =>
       /\ \A row \in CapacityShort : row.lead = "change_capacity" /\ row.required > row.available
       /\ CapacityShort = {} => \A req \in Want : \E c \in CandidatesOf(req) : Needs(c) <= Free[c.target]
  /\ plVerdict.code = "UNPROVEN_PROVENANCE" =>
       LET row == StructuralRow(plVerdict.code) IN row.drives # {} /\ row.drives = plSet.eligible[row.req[1]]
  /\ plVerdict.code = "TARGET_TIER_MISSING" => StructuralRow(plVerdict.code).drives = {}
  /\ plVerdict.code = "REQUIREMENT_EXCEEDS_USABLE_MAX" =>
       LET row == StructuralRow(plVerdict.code) IN \A d \in row.drives : row.required > plEvidence[d].most
  /\ plVerdict.code = "FAILURE_DOMAIN_UNSATISFIABLE" => StructuralRow(plVerdict.code).req[1] = Replica

\* What a preview reports is proved, not only found, and reported as it is (placement.gate_b,
\* improve, capacity.plan_capacity).
VerdictsSound ==
  /\ PlTypeOK /\ VerdictsAreProofs /\ ImprovedIsBest
  /\ plStage = "judged" => PlanHandedOver /\ RefusalsNameTheirCause
=============================================================================

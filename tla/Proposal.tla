------------------------------ MODULE Proposal ------------------------------
(***************************************************************************)
(* Placement proposals: modelark/proposal.py (preview_pure, publish_draft, *)
(* discard_draft, approve) and the catalog writes that withdraw approvals, *)
(* run by the processes of ExecutionSession next to their Fill sessions.   *)
(*                                                                         *)
(* A preview reads the catalog in several statements and no transaction.   *)
(* publish_draft and approve compare the revision the preview read first   *)
(* with the current one inside their transactions.                         *)
(***************************************************************************)
EXTENDS ExecutionSession

CONSTANT Plans      \* plan ids

VARIABLES
  active_plan,      \* the plan row with is_active
  content,          \* content[q]: columns and task rows of a proposal, never updated
  review            \* review[p]: the preview or approval p is running

proposalVars == <<active_plan, content, review>>
allVars      == <<sessionVars, proposalVars>>

\* successor_replan writes no catalog row when it is approved, like adopt_current.
Kinds == {"adopt_current", "finalize"}

Content == [plan     : Plans,               \* plan_id
            kind     : Kinds,               \* mutation_kind
            assigned : Facts]               \* the facts the task rows were computed from

ReviewRow == [pc       : {"idle", "plan", "revision", "assigned", "bound",
                          "ctrl", "fence", "observed"},
              plan     : Plans \cup {None},
              rev      : Nat,                     \* based_on_revision
              assigned : Facts \cup {None},
              semantic : Facts \cup {None},       \* semantic_input_hash
              id       : Proposals \cup {None},   \* proposal to approve
              keys     : SUBSET Keys]             \* captured fence keys

NoReview == [pc |-> "idle", plan |-> None, rev |-> 0, assigned |-> None,
             semantic |-> None, id |-> None, keys |-> {}]

ProposalTypeOK ==
  /\ SessionTypeOK
  /\ active_plan \in Plans
  /\ content \in [Proposals -> Content]
  /\ review \in [Procs -> ReviewRow]

-----------------------------------------------------------------------------
(* create_draft: preview_pure, then publish_draft *)

AtRest(p) == proc[p].pc = "idle" /\ review[p].pc = "idle"

\* proposal_api.create_draft: the active plan is the one to preview.
PreviewPlan(p) ==
  /\ AtRest(p)
  /\ review' = [review EXCEPT ![p] = [NoReview EXCEPT !.pc = "plan", !.plan = active_plan]]
  /\ UNCHANGED <<sessionVars, active_plan, content>>

\* preview_pure reads the revision before any fact ...
PreviewRevision(p) ==
  /\ review[p].pc = "plan"
  /\ review' = [review EXCEPT ![p] = [@ EXCEPT !.pc = "revision", !.rev = planner_revision]]
  /\ UNCHANGED <<sessionVars, active_plan, content>>

\* ... then the facts of the assignment ...
PreviewAssign(p) ==
  /\ review[p].pc = "revision"
  /\ review' = [review EXCEPT ![p] = [@ EXCEPT !.pc = "assigned", !.assigned = facts]]
  /\ UNCHANGED <<sessionVars, active_plan, content>>

\* Mutant: the revision is read after the facts.
PreviewBind_RevisionLast(p) ==
  /\ review[p].pc = "assigned"
  /\ review' = [review EXCEPT ![p] = [@ EXCEPT !.pc = "bound", !.semantic = facts,
                                               !.rev = planner_revision]]
  /\ UNCHANGED <<sessionVars, active_plan, content>>

\* ... and last those of the semantic hash.
PreviewBind(p) ==
  /\ review[p].pc = "assigned"
  /\ review' = [review EXCEPT ![p] = [@ EXCEPT !.pc = "bound", !.semantic = facts]]
  /\ UNCHANGED <<sessionVars, active_plan, content>>

\* publish_draft's PROPOSAL_REVIEW_PENDING.
NonePending == CurrentDrafts = {}

\* BEGIN IMMEDIATE: no live session, the revision of the preview, no current draft;
\* insert the draft.  The revision does not move.
PublishDraft(p, kind) ==
  /\ review[p].pc = "bound"
  /\ Live = {}
  /\ review[p].rev = planner_revision
  /\ NonePending
  /\ \E q \in Proposals :
       /\ proposal[q].lifecycle = "absent"
       /\ proposal' = [proposal EXCEPT ![q] = [lifecycle |-> "draft", based_on |-> review[p].rev,
                                               semantic |-> review[p].semantic]]
       /\ content' = [content EXCEPT ![q] = [plan |-> review[p].plan, kind |-> kind,
                                             assigned |-> review[p].assigned]]
  /\ review' = [review EXCEPT ![p] = NoReview]
  /\ UNCHANGED <<plannerVars, facts, session, driveVars, fenceVars, proc, active_plan>>

\* discard_draft: one transaction; the revision does not move either.
DiscardDraft(q) ==
  /\ Live = {}
  /\ proposal[q].lifecycle = "draft"
  /\ proposal' = [proposal EXCEPT ![q].lifecycle = "superseded"]
  /\ UNCHANGED <<plannerVars, facts, session, driveVars, fenceVars, proc, proposalVars>>

-----------------------------------------------------------------------------
(* approve *)

\* Mutant: the plan of the draft is not compared.
PlanActive_Any(q) == TRUE

\* require_active_proposal_plan.
PlanActive(q) == content[q].plan = active_plan

\* require_unambiguous_current_draft.
Unambiguous == \A q, r \in CurrentDrafts : q = r

\* Before any lock.  The lifecycle is not looked at here.
ApprovePreflight(p, q) ==
  /\ AtRest(p)
  /\ proposal[q].lifecycle # "absent"
  /\ PlanActive(q)
  /\ Unambiguous
  /\ Live = {}
  /\ review' = [review EXCEPT ![p] = [NoReview EXCEPT !.pc = "ctrl", !.id = q]]
  /\ UNCHANGED <<sessionVars, active_plan, content>>

ApproveController(p) ==
  /\ review[p].pc = "ctrl"
  /\ HoldController(p)
  /\ review' = [review EXCEPT ![p] = [@ EXCEPT !.pc = "fence",
                                               !.keys = KeysOf(DrivesOf[review[p].id])]]
  /\ UNCHANGED <<catalogVars, ctrlChild, held, child, proc, active_plan, content>>

ApproveHoldFence(p) ==
  /\ review[p].pc = "fence"
  /\ HoldNextDrive(p, review[p].keys)
  /\ UNCHANGED <<catalogVars, ctrl, ctrlChild, child, proc, proposalVars>>

\* Every fence held: facts unchanged, then the admission evidence of every drive.
ApproveObserve(p) ==
  /\ review[p].pc = "fence"
  /\ review[p].keys \subseteq held[p]
  /\ review[p].keys = KeysOf(DrivesOf[review[p].id])
  /\ review' = [review EXCEPT ![p].pc = "observed"]
  /\ UNCHANGED <<sessionVars, active_plan, content>>

\* Mutant: the lifecycle of the draft is not looked at again.
IsDraft_Seen(q) == TRUE

\* PROPOSAL_NOT_DRAFT.
IsDraft(q) == proposal[q].lifecycle = "draft"

\* _semantic_input_hash: the facts it binds are those of the draft.
SemanticCurrent(q) == proposal[q].semantic = facts

\* The checks of _approve_tx: fence facts, lifecycle, revision, plan, pending drafts,
\* semantic hash, exact assignment, and bump_revision's live session.
ApproveAuthority(p) ==
  LET q == review[p].id
  IN  /\ review[p].keys = KeysOf(DrivesOf[q])
      /\ IsDraft(q)
      /\ proposal[q].based_on = planner_revision
      /\ PlanActive(q)
      /\ Unambiguous
      /\ SemanticCurrent(q)
      /\ content[q].assigned = facts
      /\ Live = {}

\* _apply_mutation: finalize stamps selection rows, which the semantic hash binds.
AppliedFacts(q) == IF content[q].kind = "finalize" THEN Facts ELSE {facts}

\* Supersede every approval, then approve q.
Approved(q) == [SupersedeApprovals EXCEPT ![q].lifecycle = "approved"]

\* BEGIN IMMEDIATE: check, apply the mutation, move the approval, bump; unlock.
ApproveCommit(p) ==
  LET q == review[p].id
  IN  /\ review[p].pc = "observed"
      /\ ApproveAuthority(p)
      /\ planner_revision < MaxRev
      /\ facts' \in AppliedFacts(q)
      /\ proposal' = Approved(q)
      /\ active_approved' = q
      /\ planner_revision' = planner_revision + 1
      /\ CloseAll(p)
      /\ review' = [review EXCEPT ![p] = NoReview]
      /\ UNCHANGED <<next_fencing_token, session, driveVars, proc, active_plan, content>>

\* A Refusal of a preview, of the publication or of an approval once the lock it waited
\* for is held: a check above, an infeasible plan, a requested mutation or canonical hash
\* that differs, evidence that does not admit the assignment, a Fill in this process.
ReviewRefuse(p) ==
  /\ \/ review[p].pc \in {"plan", "revision", "assigned", "bound", "observed"}
     \/ review[p].pc = "ctrl" /\ ControllerFree
     \/ review[p].pc = "fence" /\ review[p].keys \subseteq held[p]
  /\ CloseAll(p)
  /\ review' = [review EXCEPT ![p] = NoReview]
  /\ UNCHANGED <<catalogVars, proc, active_plan, content>>

-----------------------------------------------------------------------------
(* The writes that withdraw approvals *)

\* plan.set_active.
SwitchPlan(plan) ==
  /\ plan # active_plan
  /\ InvalidateApproval(facts)
  /\ active_plan' = plan
  /\ UNCHANGED <<content, review>>

\* drive_lifecycle.declare_lost: takes the drive's fence without waiting, inside its
\* transaction, and gives it back after the commit.
DeclareLost(d, f) ==
  /\ \A k \in KeysOf({d}) : Free(k)
  /\ InvalidateApproval(f)
  /\ UNCHANGED proposalVars

-----------------------------------------------------------------------------
ReviewCrash(p) ==
  /\ ~AtRest(p)
  /\ CloseAll(p)
  /\ proc' = [proc EXCEPT ![p] = Idle]
  /\ review' = [review EXCEPT ![p] = NoReview]
  /\ UNCHANGED <<catalogVars, active_plan, content>>

\* The approval the catalog starts with adopted the current selection.
ProposalInit ==
  /\ SessionInit
  /\ active_plan \in Plans
  /\ content = [q \in Proposals |-> [plan |-> active_plan, kind |-> "adopt_current",
                                     assigned |-> facts]]
  /\ review = [p \in Procs |-> NoReview]

\* The session operations of a process that is not reviewing.
SessionsNext(p) ==
  /\ review[p].pc = "idle"
  /\ StartNext(p) \/ FillNext(p) \/ SessionWrite(p) \/ RecoverNext(p)
  /\ UNCHANGED proposalVars

DraftNext(p) ==
  \/ PreviewPlan(p)
  \/ PreviewRevision(p)
  \/ PreviewAssign(p)
  \/ PreviewBind(p)
  \/ \E kind \in Kinds : PublishDraft(p, kind)

ApproveNext(p) ==
  \/ \E q \in Proposals : ApprovePreflight(p, q)
  \/ ApproveController(p)
  \/ ApproveHoldFence(p)
  \/ ApproveObserve(p)
  \/ ApproveCommit(p)

ProposalNext ==
  \/ \E p \in Procs : SessionsNext(p) \/ DraftNext(p) \/ ApproveNext(p) \/ ReviewRefuse(p)
                      \/ ReviewCrash(p)
  \/ (\E s \in Sids : Expire(s)) /\ UNCHANGED proposalVars
  \/ (\E f \in Facts : GraphWrite(f)) /\ UNCHANGED proposalVars
  \/ \E q \in Proposals : DiscardDraft(q)
  \/ \E plan \in Plans : SwitchPlan(plan)
  \/ \E d \in Drives, f \in Facts : DeclareLost(d, f)

ProposalSpec == ProposalInit /\ [][ProposalNext]_allVars

-----------------------------------------------------------------------------
(* Properties *)

\* planner_state points at the one approved row, or at nothing when there is none: the
\* pointer and the lifecycle column are written by different statements of approve,
\* set_active and declare_lost and never disagree.
PointerIsApproval == \A q \in Proposals : proposal[q].lifecycle = "approved" <=> q = active_approved

\* What an operator can approve is what the planner saw at one moment: though a preview
\* reads revision, assignment and semantic facts in separate statements, a draft at the
\* current revision was computed from the current facts alone.
CurrentDraftFaithful ==
  \A q \in CurrentDrafts : proposal[q].semantic = facts /\ content[q].assigned = facts

\* There is never more than one draft to decide on, whoever publishes, and a draft that
\* a graph write or a Fill made stale does not come back.
SingleCurrentDraft == Unambiguous

\* The active approval belongs to the active plan, though a preview reads the active plan
\* before it reads the revision.
ApprovedPlanActive == active_approved # None => content[active_approved].plan = active_plan

\* A Fill never runs beside an open review: start's transaction refuses a pending draft,
\* publication refuses a live session, and nothing in between lets both through.  (A row
\* that had been ended is the subject of NeverReactivated.)
NoReviewUnderFill == \A s \in Live : ~session[s].ended => CurrentDrafts = {}

\* What the operator is asked to review is one draft, of one state of the catalog, and no
\* Fill runs beside it (preview_pure, publish_draft, start_session).
ReviewSound ==
  /\ ProposalTypeOK
  /\ CurrentDraftFaithful
  /\ SingleCurrentDraft
  /\ NoReviewUnderFill

\* The approval: one row and one pointer to it, of the active plan, and never replaced under
\* the session that executes it (approve, start_session, graph_write).
ApprovalSound == PointerIsApproval /\ ApprovedPlanActive /\ PinnedApproval

\* A proposal is drafted once, approved at most once and superseded for good, with the
\* content it was drafted with; an approval withdrawn or discarded while another process
\* is in approve stays withdrawn.
LifecycleStep ==
  \A q \in Proposals :
    LET before == proposal[q].lifecycle
        after  == proposal'[q].lifecycle
    IN  /\ <<before, after>> \in {<<"absent", "draft">>, <<"draft", "approved">>,
                                  <<"draft", "superseded">>, <<"approved", "superseded">>}
           \/ before = after
        /\ before # "absent" => content'[q] = content[q]

LifecycleForward == [][LifecycleStep]_allVars

\* What the repository says of approval: the write of the approval itself does not change
\* the semantic input with which its execution is compared.  Until the next revision the
\* catalog still has the facts the approval binds.
ApprovalExecutable ==
  /\ active_approved # None
  /\ planner_revision = proposal[active_approved].based_on + 1
  => facts = proposal[active_approved].semantic

=============================================================================

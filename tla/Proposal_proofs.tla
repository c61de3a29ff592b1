--------------------------- MODULE Proposal_proofs ---------------------------
(***************************************************************************)
(* Proofs about Proposal for any number of processes, proposals, plans,    *)
(* sessions and drives: what is reviewed is one draft of one state of the  *)
(* catalog, the approval and its pointer agree, and proposals only move    *)
(* forward.                                                                *)
(*                                                                         *)
(* The locks carry nothing here: all of it rests on planner_revision.  A   *)
(* draft, and the locals of a preview, were read at some past revision;    *)
(* facts change only with the revision; so what is still at the current    *)
(* one is of the current facts.                                            *)
(***************************************************************************)
EXTENDS Proposal, ExecutionSession_proofs

\* A row that was inserted was based on a revision that the catalog has reached.
RevisionsReached ==
  \A q \in Proposals : proposal[q].lifecycle # "absent" => proposal[q].based_on <= planner_revision

\* The locals of a preview were read at its revision or later, and the ones of an approval
\* name a proposal that was inserted.
ReviewOK(p) ==
  /\ review[p].pc \in {"plan", "revision", "assigned", "bound"} => review[p].plan \in Plans
  /\ review[p].pc \in {"revision", "assigned", "bound"} => review[p].rev <= planner_revision
  /\ review[p].pc \in {"assigned", "bound"} =>
       /\ review[p].assigned \in Facts
       /\ review[p].rev = planner_revision => review[p].assigned = facts
  /\ review[p].pc = "bound" =>
       /\ review[p].semantic \in Facts
       /\ review[p].rev = planner_revision => review[p].semantic = facts
  /\ review[p].pc \in {"ctrl", "fence", "observed"} =>
       /\ review[p].id \in Proposals
       /\ proposal[review[p].id].lifecycle # "absent"

ReviewsOK == \A p \in Procs : ReviewOK(p)

\* The inductive invariant.
ProposalInv ==
  /\ SessionInv
  /\ ProposalTypeOK
  /\ RevisionsReached
  /\ ReviewsOK
  /\ CurrentDraftFaithful
  /\ SingleCurrentDraft
  /\ NoReviewUnderFill
  /\ PointerIsApproval
  /\ ApprovedPlanActive

-----------------------------------------------------------------------------
(* Type correctness *)

\* The rows that the steps of a review store have their type.
LEMMA ReviewRows ==
  ASSUME NEW r \in ReviewRow
  PROVE  /\ NoReview \in ReviewRow
         /\ \A plan \in Plans : [NoReview EXCEPT !.pc = "plan", !.plan = plan] \in ReviewRow
         /\ \A n \in Nat : [r EXCEPT !.pc = "revision", !.rev = n] \in ReviewRow
         /\ \A f \in Facts : [r EXCEPT !.pc = "assigned", !.assigned = f] \in ReviewRow
         /\ \A f \in Facts : [r EXCEPT !.pc = "bound", !.semantic = f] \in ReviewRow
         /\ \A q \in Proposals : [NoReview EXCEPT !.pc = "ctrl", !.id = q] \in ReviewRow
         /\ \A K \in SUBSET Keys : [r EXCEPT !.pc = "fence", !.keys = K] \in ReviewRow
         /\ [r EXCEPT !.pc = "observed"] \in ReviewRow
<1>1. NoReview \in ReviewRow
  BY DEF NoReview, ReviewRow
<1>2. \A plan \in Plans : [NoReview EXCEPT !.pc = "plan", !.plan = plan] \in ReviewRow
  BY DEF NoReview, ReviewRow
<1>3. \A q \in Proposals : [NoReview EXCEPT !.pc = "ctrl", !.id = q] \in ReviewRow
  BY DEF NoReview, ReviewRow
<1>4. /\ \A n \in Nat : [r EXCEPT !.pc = "revision", !.rev = n] \in ReviewRow
      /\ \A f \in Facts : [r EXCEPT !.pc = "assigned", !.assigned = f] \in ReviewRow
      /\ \A f \in Facts : [r EXCEPT !.pc = "bound", !.semantic = f] \in ReviewRow
  BY DEF ReviewRow
<1>5. /\ \A K \in SUBSET Keys : [r EXCEPT !.pc = "fence", !.keys = K] \in ReviewRow
      /\ [r EXCEPT !.pc = "observed"] \in ReviewRow
  BY DEF ReviewRow
<1> QED
  BY <1>1, <1>2, <1>3, <1>4, <1>5

\* Superseding approvals, and approving one proposal, keep the type of the table.
LEMMA ApprovalRows ==
  ASSUME CatalogTypeOK
  PROVE  /\ SupersedeApprovals \in [Proposals -> ProposalRow]
         /\ \A q \in Proposals : Approved(q) \in [Proposals -> ProposalRow]
<1>1. SupersedeApprovals \in [Proposals -> ProposalRow]
  BY DEF SupersedeApprovals, CatalogTypeOK, ProposalRow, Lifecycles
<1>2. \A q \in Proposals : Approved(q) \in [Proposals -> ProposalRow]
  BY <1>1 DEF Approved, ProposalRow, Lifecycles
<1> QED
  BY <1>1, <1>2

\* The initial states have their types.
LEMMA ProposalTypeInit == ProposalInit => ProposalTypeOK
<1> SUFFICES ASSUME ProposalInit PROVE ProposalTypeOK
  OBVIOUS
<1>1. SessionTypeOK
  BY TypeInit DEF ProposalInit
<1>2. content \in [Proposals -> Content]
  BY DEF ProposalInit, SessionInit, Content, Kinds
<1>3. NoReview \in ReviewRow
  BY DEF NoReview, ReviewRow
<1> QED
  BY <1>1, <1>2, <1>3 DEF ProposalInit, ProposalTypeOK

\* The commit of an approval keeps the types.
LEMMA ApproveCommitType ==
  ASSUME ProposalTypeOK, ReviewsOK, NEW p \in Procs, ApproveCommit(p)
  PROVE  ProposalTypeOK' /\ review[p].id \in Proposals
<1> USE DEF ProposalTypeOK
<1>1. review[p].id \in Proposals
  BY DEF ApproveCommit, ReviewsOK, ReviewOK
<1>2. CatalogTypeOK /\ FenceTypeOK
  BY DEF SessionTypeOK
<1>3. Approved(review[p].id) \in [Proposals -> ProposalRow]
  BY <1>1, <1>2, ApprovalRows
<1>4. facts' \in Facts
  BY <1>2 DEF ApproveCommit, AppliedFacts, CatalogTypeOK
<1>5. CatalogTypeOK'
  BY <1>1, <1>2, <1>3, <1>4 DEF ApproveCommit, CatalogTypeOK, driveVars
<1>6. SessionTypeOK'
  BY <1>2, <1>5, CloseAllType DEF ApproveCommit, SessionTypeOK
<1>7. NoReview \in ReviewRow
  BY DEF NoReview, ReviewRow
<1>8. UNCHANGED <<active_plan, content>> /\ review' \in [Procs -> ReviewRow]
  BY <1>7 DEF ApproveCommit
<1> QED
  BY <1>1, <1>6, <1>8

\* Every step keeps the types.
LEMMA ProposalTypeStep ==
  ASSUME SessionInv, ProposalTypeOK, ReviewsOK, [ProposalNext]_allVars
  PROVE  ProposalTypeOK'
<1> USE DEF ProposalTypeOK
<1>0. /\ SessionTypeOK /\ CatalogTypeOK /\ FenceTypeOK
      /\ \A r \in Procs : review[r] \in ReviewRow
      /\ LocalsOK /\ RowsOK
  BY DEF SessionTypeOK, SessionInv
<1>1. ASSUME [SessionNext]_sessionVars PROVE SessionTypeOK'
  BY <1>0, <1>1, TypeStep
<1>2. ASSUME UNCHANGED sessionVars PROVE SessionTypeOK'
  BY <1>1, <1>2
<1>3. ASSUME NEW p \in Procs, NEW row \in ReviewRow, review' = [review EXCEPT ![p] = row]
      PROVE  review' \in [Procs -> ReviewRow]
  BY <1>3
<1>4. ASSUME NEW p \in Procs, SessionsNext(p) PROVE ProposalTypeOK'
  BY <1>1, <1>4 DEF SessionsNext, SessionNext, proposalVars
<1>5. ASSUME NEW p \in Procs, DraftNext(p) PROVE ProposalTypeOK'
  <2>1. CASE PreviewPlan(p)
    BY <1>0, <1>2, <1>3, <2>1, ReviewRows DEF PreviewPlan
  <2>2. CASE PreviewRevision(p)
    BY <1>0, <1>2, <1>3, <2>2, ReviewRows DEF PreviewRevision, CatalogTypeOK
  <2>3. CASE PreviewAssign(p)
    BY <1>0, <1>2, <1>3, <2>3, ReviewRows DEF PreviewAssign, CatalogTypeOK
  <2>4. CASE PreviewBind(p)
    BY <1>0, <1>2, <1>3, <2>4, ReviewRows DEF PreviewBind, CatalogTypeOK
  <2>5. ASSUME NEW kind \in Kinds, PublishDraft(p, kind) PROVE ProposalTypeOK'
    <3>1. /\ review[p].plan \in Plans /\ review[p].rev \in Nat
          /\ review[p].assigned \in Facts /\ review[p].semantic \in Facts
      BY <1>0, <2>5 DEF PublishDraft, ReviewsOK, ReviewOK, ReviewRow
    <3>2. /\ [lifecycle |-> "draft", based_on |-> review[p].rev,
              semantic |-> review[p].semantic] \in ProposalRow
          /\ [plan |-> review[p].plan, kind |-> kind,
              assigned |-> review[p].assigned] \in Content
      BY <3>1 DEF ProposalRow, Lifecycles, Content
    <3>3. proposal' \in [Proposals -> ProposalRow] /\ content' \in [Proposals -> Content]
      BY <1>0, <2>5, <3>2 DEF PublishDraft, CatalogTypeOK
    <3>4. CatalogTypeOK'
      BY <1>0, <2>5, <3>3 DEF PublishDraft, CatalogTypeOK, plannerVars, driveVars
    <3>5. SessionTypeOK'
      BY <1>0, <2>5, <3>4, FencesUnchangedType DEF PublishDraft, SessionTypeOK
    <3> QED
      BY <1>0, <1>3, <2>5, <3>3, <3>5, ReviewRows DEF PublishDraft
  <2> QED
    BY <1>5, <2>1, <2>2, <2>3, <2>4, <2>5 DEF DraftNext
<1>6. ASSUME NEW p \in Procs, ApproveNext(p) PROVE ProposalTypeOK'
  <2>1. ASSUME NEW q \in Proposals, ApprovePreflight(p, q) PROVE ProposalTypeOK'
    BY <1>0, <1>2, <1>3, <2>1, ReviewRows DEF ApprovePreflight
  <2>2. CASE ApproveController(p)
    <3>1. DrivesOf[review[p].id] \in SUBSET Drives
      BY <2>2, CatalogAssumption DEF ApproveController, ReviewsOK, ReviewOK
    <3>2. KeysOf(DrivesOf[review[p].id]) \in SUBSET Keys
      BY <1>0, <3>1, KeysOfType
    <3>3. SessionTypeOK'
      BY <1>0, <2>2, CatalogUnchangedType, HoldControllerType DEF ApproveController, SessionTypeOK
    <3> QED
      BY <1>0, <1>3, <2>2, <3>2, <3>3, ReviewRows DEF ApproveController
  <2>3. CASE ApproveHoldFence(p)
    <3>1. review[p].keys \in SUBSET Keys
      BY <1>0 DEF ReviewRow
    <3>2. FenceTypeOK'
      BY <1>0, <2>3, <3>1 DEF ApproveHoldFence, HoldNextDrive, FenceTypeOK
    <3> QED
      BY <1>0, <2>3, <3>2, CatalogUnchangedType DEF ApproveHoldFence, SessionTypeOK, proposalVars
  <2>4. CASE ApproveObserve(p)
    BY <1>0, <1>2, <1>3, <2>4, ReviewRows DEF ApproveObserve
  <2>5. CASE ApproveCommit(p)
    BY <2>5, ApproveCommitType
  <2> QED
    BY <1>6, <2>1, <2>2, <2>3, <2>4, <2>5 DEF ApproveNext
<1>7. ASSUME NEW p \in Procs, ReviewRefuse(p) PROVE ProposalTypeOK'
  BY <1>0, <1>3, <1>7, CatalogUnchangedType, CloseAllType, ReviewRows
  DEF ReviewRefuse, SessionTypeOK
<1>8. ASSUME NEW p \in Procs, ReviewCrash(p) PROVE ProposalTypeOK'
  <2>1. Idle \in ProcRow
    BY DEF Idle, ProcRow
  <2>2. SessionTypeOK'
    BY <1>0, <1>8, <2>1, CatalogUnchangedType, CloseAllType DEF ReviewCrash, SessionTypeOK
  <2> QED
    BY <1>0, <1>3, <1>8, <2>2, ReviewRows DEF ReviewCrash
<1>9. ASSUME NEW q \in Proposals, DiscardDraft(q) PROVE ProposalTypeOK'
  <2>1. proposal' \in [Proposals -> ProposalRow]
    BY <1>0, <1>9 DEF DiscardDraft, CatalogTypeOK, ProposalRow, Lifecycles
  <2>2. CatalogTypeOK'
    BY <1>0, <1>9, <2>1 DEF DiscardDraft, CatalogTypeOK, plannerVars, driveVars
  <2> QED
    BY <1>0, <1>9, <2>2, FencesUnchangedType DEF DiscardDraft, SessionTypeOK, proposalVars
<1>10. ASSUME NEW plan \in Plans, SwitchPlan(plan) PROVE ProposalTypeOK'
  BY <1>0, <1>1, <1>10 DEF SwitchPlan, SessionNext, OperatorNext, CatalogTypeOK
<1>11. ASSUME NEW d \in Drives, NEW f \in Facts, DeclareLost(d, f) PROVE ProposalTypeOK'
  BY <1>1, <1>11 DEF DeclareLost, SessionNext, OperatorNext, proposalVars
<1>12. CASE (\E s \in Sids : Expire(s)) /\ UNCHANGED proposalVars
  BY <1>1, <1>12 DEF SessionNext, proposalVars
<1>13. CASE (\E f \in Facts : GraphWrite(f)) /\ UNCHANGED proposalVars
  BY <1>1, <1>13 DEF SessionNext, OperatorNext, proposalVars
<1>14. CASE UNCHANGED allVars
  BY <1>2, <1>14 DEF allVars, proposalVars
<1> QED
  BY <1>4, <1>5, <1>6, <1>7, <1>8, <1>9, <1>10, <1>11, <1>12, <1>13, <1>14 DEF ProposalNext

-----------------------------------------------------------------------------
(* What a step does to the planner and to the proposals *)

\* Facts change only with the revision, which never goes back.
RevisionFrame ==
  /\ planner_revision' >= planner_revision
  /\ planner_revision' = planner_revision => facts' = facts

\* No proposal but the ones in New is inserted; what was inserted stays, with the revision
\* and the facts it was computed from, and only becomes approved or superseded.
ProposalFrame(New) ==
  \A q \in Proposals \ New :
    /\ proposal[q].lifecycle = "absent" => proposal'[q].lifecycle = "absent"
    /\ proposal[q].lifecycle # "absent" =>
         /\ proposal'[q].lifecycle # "absent"
         /\ proposal'[q].based_on = proposal[q].based_on
         /\ proposal'[q].semantic = proposal[q].semantic
         /\ content'[q] = content[q]
    /\ proposal'[q].lifecycle = "draft" => proposal[q].lifecycle = "draft"

\* The steps of the sessions and of the operator: what they do to the planner.
LEMMA PlannerStep ==
  ASSUME SessionTypeOK, [SessionNext]_sessionVars
  PROVE  \/ UNCHANGED <<planner_revision, facts, proposal, active_approved>>
         \/ /\ planner_revision' = planner_revision + 1
            /\ UNCHANGED <<proposal, active_approved>>
         \/ \E f \in Facts : InvalidateApproval(f)
<1>1. ASSUME NEW p \in Procs, StartNext(p)
      PROVE  UNCHANGED <<planner_revision, facts, proposal, active_approved>>
  BY <1>1 DEF StartNext, StartPreflight, StartController, HoldDriveFence, StartAdmit,
     StartReadRevision, StartCommit, StartUnlock, Refuse, catalogVars, plannerVars
<1>2. ASSUME NEW p \in Procs, FillNext(p)
      PROVE  UNCHANGED <<planner_revision, facts, proposal, active_approved>>
  BY <1>2 DEF FillNext, ClaimRead, ClaimUpdate, Heartbeat, SessionWriteRefused, Terminalize,
     catalogVars, plannerVars
<1>3. ASSUME NEW p \in Procs, RecoverNext(p) \/ Crash(p)
      PROVE  UNCHANGED <<planner_revision, facts, proposal, active_approved>>
  BY <1>3 DEF RecoverNext, RecoverPrecheck, RecoverController, RecoverCommit, RecoverUnlock,
     Crash, catalogVars, plannerVars
<1>4. ASSUME NEW s \in Sids, Expire(s)
      PROVE  UNCHANGED <<planner_revision, facts, proposal, active_approved>>
  BY <1>4 DEF Expire, plannerVars
<1>5. ASSUME NEW p \in Procs, SessionWrite(p)
      PROVE  /\ planner_revision' = planner_revision + 1
             /\ UNCHANGED <<proposal, active_approved>>
  BY <1>5 DEF SessionWrite, WriteAsSession
<1>6. ASSUME NEW f \in Facts, GraphWrite(f)
      PROVE  /\ planner_revision' = planner_revision + 1
             /\ UNCHANGED <<proposal, active_approved>>
  BY <1>6 DEF GraphWrite
<1> QED
  BY <1>1, <1>2, <1>3, <1>4, <1>5, <1>6
  DEF SessionNext, OperatorNext, sessionVars, catalogVars, plannerVars

\* Withdrawing approvals only moves approved rows to superseded.
LEMMA WithdrawFrame ==
  ASSUME CatalogTypeOK, proposal' = SupersedeApprovals, UNCHANGED content
  PROVE  /\ ProposalFrame({})
         /\ \A q \in Proposals : proposal'[q].lifecycle # "approved"
<1>1. \A q \in Proposals : proposal[q] \in ProposalRow
  BY DEF CatalogTypeOK
<1>2. ASSUME NEW q \in Proposals
      PROVE  /\ proposal'[q].based_on = proposal[q].based_on
             /\ proposal'[q].semantic = proposal[q].semantic
             /\ proposal'[q].lifecycle = IF proposal[q].lifecycle = "approved" THEN "superseded"
                                         ELSE proposal[q].lifecycle
  BY <1>1 DEF SupersedeApprovals, ProposalRow
<1> QED
  BY <1>2 DEF ProposalFrame

\* Approving q moves q to approved and the other approved rows to superseded.
LEMMA ApproveFrame ==
  ASSUME CatalogTypeOK, NEW q \in Proposals, proposal[q].lifecycle = "draft",
         proposal' = Approved(q), UNCHANGED content
  PROVE  /\ ProposalFrame({})
         /\ \A r \in Proposals :
              proposal'[r].lifecycle = IF r = q THEN "approved"
                                       ELSE IF proposal[r].lifecycle = "approved"
                                            THEN "superseded" ELSE proposal[r].lifecycle
<1>1. \A r \in Proposals : proposal[r] \in ProposalRow
  BY DEF CatalogTypeOK
<1>2. SupersedeApprovals \in [Proposals -> ProposalRow]
  BY ApprovalRows
<1>3. \A r \in Proposals :
        SupersedeApprovals[r] = IF proposal[r].lifecycle = "approved"
                                THEN [proposal[r] EXCEPT !.lifecycle = "superseded"]
                                ELSE proposal[r]
  BY DEF SupersedeApprovals
<1>4. \A r \in Proposals :
        proposal'[r] = IF r = q THEN [SupersedeApprovals[q] EXCEPT !.lifecycle = "approved"]
                       ELSE SupersedeApprovals[r]
  BY <1>2 DEF Approved
<1>5. ASSUME NEW r \in Proposals
      PROVE  /\ proposal'[r].based_on = proposal[r].based_on
             /\ proposal'[r].semantic = proposal[r].semantic
             /\ proposal'[r].lifecycle = IF r = q THEN "approved"
                                         ELSE IF proposal[r].lifecycle = "approved"
                                              THEN "superseded" ELSE proposal[r].lifecycle
  <2>1. SupersedeApprovals[r] \in ProposalRow
    BY <1>2
  <2>2. /\ SupersedeApprovals[r].based_on = proposal[r].based_on
        /\ SupersedeApprovals[r].semantic = proposal[r].semantic
        /\ SupersedeApprovals[r].lifecycle = IF proposal[r].lifecycle = "approved"
                                             THEN "superseded" ELSE proposal[r].lifecycle
    BY <1>1, <1>3 DEF ProposalRow
  <2>3. CASE r = q
    <3>1. proposal'[r] = [SupersedeApprovals[r] EXCEPT !.lifecycle = "approved"]
      BY <1>4, <2>3
    <3> QED
      BY <2>1, <2>2, <2>3, <3>1 DEF ProposalRow
  <2>4. CASE r # q
    BY <1>4, <2>2, <2>4
  <2> QED
    BY <2>3, <2>4
<1> QED
  BY <1>5 DEF ProposalFrame

\* No draft but those in New becomes current again: a draft that a new revision made stale
\* stays so.
LEMMA DraftsStay ==
  ASSUME ProposalTypeOK, RevisionsReached, planner_revision' \in Nat, RevisionFrame,
         NEW New, ProposalFrame(New), NEW q \in CurrentDrafts', q \notin New
  PROVE  /\ q \in CurrentDrafts /\ facts' = facts /\ planner_revision' = planner_revision
         /\ proposal'[q].semantic = proposal[q].semantic /\ content'[q] = content[q]
<1>1. /\ q \in Proposals /\ proposal'[q].lifecycle = "draft"
      /\ proposal'[q].based_on = planner_revision'
  BY DEF CurrentDrafts
<1>2. /\ proposal[q].lifecycle = "draft"
      /\ proposal'[q].based_on = proposal[q].based_on
      /\ proposal'[q].semantic = proposal[q].semantic
      /\ content'[q] = content[q]
  BY <1>1 DEF ProposalFrame
<1>3. proposal[q].based_on <= planner_revision
  BY <1>1, <1>2 DEF RevisionsReached
<1>4. planner_revision \in Nat /\ proposal[q].based_on \in Nat
  BY <1>1 DEF ProposalTypeOK, SessionTypeOK, CatalogTypeOK, ProposalRow
<1>5. planner_revision' = planner_revision
  BY <1>1, <1>2, <1>3, <1>4 DEF RevisionFrame
<1> QED
  BY <1>1, <1>2, <1>5 DEF RevisionFrame, CurrentDrafts

\* Under such a step the review of a process that does not move keeps its meaning.
LEMMA ReviewKept ==
  ASSUME ProposalTypeOK, planner_revision' \in Nat, RevisionFrame, NEW New,
         \A q \in New : proposal[q].lifecycle = "absent",
         ProposalFrame(New), NEW r \in Procs, ReviewOK(r), review'[r] = review[r]
  PROVE  ReviewOK(r)'
<1>1. review[r] \in ReviewRow /\ planner_revision \in Nat
  BY DEF ProposalTypeOK, SessionTypeOK, CatalogTypeOK
<1>2. review[r].rev \in Nat
  BY <1>1 DEF ReviewRow
<1>3. ASSUME review[r].rev <= planner_revision
      PROVE  /\ review[r].rev <= planner_revision'
             /\ review[r].rev = planner_revision' => /\ review[r].rev = planner_revision
                                                     /\ facts' = facts
  BY <1>1, <1>2, <1>3 DEF RevisionFrame
<1>4. ASSUME review[r].id \in Proposals, proposal[review[r].id].lifecycle # "absent"
      PROVE  proposal'[review[r].id].lifecycle # "absent"
  BY <1>4 DEF ProposalFrame
<1> QED
  BY <1>3, <1>4 DEF ReviewOK

\* A step that changes no session or token, and leaves or resets the locals of each
\* process, keeps the session invariant if it keeps the pinned approval.
LEMMA SessionInvReset ==
  ASSUME SessionInv, SessionTypeOK', UNCHANGED <<session, next_fencing_token>>,
         \A r \in Procs : proc'[r] = proc[r] \/ proc'[r] = Idle, PinnedApproval'
  PROVE  SessionInv'
<1> USE DEF SessionInv
<1>1. LocalsOK'
  <2>1. ASSUME NEW r \in Procs PROVE LocalOK(r)'
    <3>1. CASE proc'[r] = proc[r]
      BY <3>1 DEF LocalsOK, LocalOK
    <3>2. CASE proc'[r] = Idle
      BY <3>2 DEF LocalOK, Idle, FillPcs, RecoverPcs
    <3> QED
      BY <3>1, <3>2
  <2> QED
    BY <2>1 DEF LocalsOK
<1>2. RowsOK' /\ Contiguous'
  BY DEF RowsOK, Contiguous
<1>3. OneLive'
  BY DEF OneLive, Live
<1>4. TokensIncrease'
  BY DEF TokensIncrease
<1>5. ResumeLineage'
  BY DEF ResumeLineage
<1> QED
  BY <1>1, <1>2, <1>3, <1>4, <1>5

-----------------------------------------------------------------------------
(* The invariant is kept *)

\* The invariant holds at first.
LEMMA ProposalInvInit == ProposalInit => ProposalInv
<1> SUFFICES ASSUME ProposalInit PROVE ProposalInv
  OBVIOUS
<1>1. SessionInv /\ ProposalTypeOK
  BY SessionInvInit, ProposalTypeInit DEF ProposalInit
<1>2. \A q \in Proposals : /\ proposal[q].lifecycle \in {"absent", "approved"}
                           /\ proposal[q].based_on = 0
  BY DEF ProposalInit, SessionInit
<1>3. CurrentDrafts = {}
  BY <1>2 DEF CurrentDrafts
<1>4. RevisionsReached
  BY <1>2 DEF RevisionsReached, ProposalInit, SessionInit
<1>5. ReviewsOK
  BY DEF ReviewsOK, ReviewOK, ProposalInit, NoReview
<1>6. PointerIsApproval
  BY DEF PointerIsApproval, ProposalInit, SessionInit
<1>7. ApprovedPlanActive
  BY DEF ApprovedPlanActive, ProposalInit, SessionInit
<1> QED
  BY <1>1, <1>3, <1>4, <1>5, <1>6, <1>7
  DEF ProposalInv, CurrentDraftFaithful, SingleCurrentDraft, Unambiguous, NoReviewUnderFill

\* What a step that inserts no proposal owes to keep the invariant: the frames, the
\* session invariant, the reviews that move, and the approval.
LEMMA InvKept ==
  ASSUME ProposalInv, ProposalTypeOK', SessionInv', RevisionFrame, ProposalFrame({}),
         SessionFrame \/ CurrentDrafts = {},
         \A r \in Procs : review'[r] = review[r] \/ ReviewOK(r)',
         PointerIsApproval', ApprovedPlanActive'
  PROVE  ProposalInv'
<1> USE DEF ProposalInv
<1>1. planner_revision \in Nat /\ planner_revision' \in Nat
  BY DEF ProposalTypeOK, SessionTypeOK, CatalogTypeOK
<1>2. \A q \in CurrentDrafts' :
        /\ q \in CurrentDrafts /\ facts' = facts
        /\ proposal'[q].semantic = proposal[q].semantic /\ content'[q] = content[q]
  BY <1>1, DraftsStay
<1>3. CurrentDraftFaithful'
  BY <1>2 DEF CurrentDraftFaithful
<1>4. SingleCurrentDraft'
  BY <1>2 DEF SingleCurrentDraft, Unambiguous
<1>5. RevisionsReached'
  <2>1. ASSUME NEW q \in Proposals, proposal'[q].lifecycle # "absent"
        PROVE  proposal'[q].based_on <= planner_revision'
    <3>1. proposal[q].lifecycle # "absent" /\ proposal'[q].based_on = proposal[q].based_on
      BY <2>1 DEF ProposalFrame
    <3>2. proposal[q].based_on <= planner_revision /\ proposal[q].based_on \in Nat
      BY <3>1 DEF RevisionsReached, ProposalTypeOK, SessionTypeOK, CatalogTypeOK, ProposalRow
    <3> QED
      BY <1>1, <3>1, <3>2 DEF RevisionFrame
  <2> QED
    BY <2>1 DEF RevisionsReached
<1>6. ReviewsOK'
  <2>1. ASSUME NEW r \in Procs PROVE ReviewOK(r)'
    <3>1. CASE review'[r] = review[r]
      <4>1. ReviewOK(r)
        BY DEF ReviewsOK
      <4> QED
        BY <1>1, <3>1, <4>1, ReviewKept
    <3> QED
      BY <3>1
  <2> QED
    BY <2>1 DEF ReviewsOK
<1>7. NoReviewUnderFill'
  <2>1. ASSUME NEW s \in Live', ~session'[s].ended PROVE CurrentDrafts' = {}
    <3>1. CASE SessionFrame
      <4>1. s \in Sids /\ session[s] \in SessionRow /\ session'[s].state \in LIVE_STATES
        BY <2>1 DEF Live, ProposalTypeOK, SessionTypeOK, CatalogTypeOK
      <4>2. ~session[s].ended /\ session[s].state # "absent"
        BY <2>1, <3>1, <4>1 DEF SessionFrame, LIVE_STATES
      <4>3. session[s].state \notin TERMINAL_STATES
        BY <4>1, <4>2 DEF SessionInv, RowsOK
      <4>4. s \in Live
        BY <4>1, <4>2, <4>3 DEF Live, SessionRow
      <4> QED
        BY <1>2, <4>2, <4>4 DEF NoReviewUnderFill
    <3>2. CASE CurrentDrafts = {}
      BY <1>2, <3>2
    <3> QED
      BY <3>1, <3>2
  <2> QED
    BY <2>1 DEF NoReviewUnderFill
<1> QED
  BY <1>3, <1>4, <1>5, <1>6, <1>7

\* The steps of the sessions, and a graph write, keep the invariant.
LEMMA SessionsKeepInv ==
  ASSUME ProposalInv, ProposalTypeOK', [SessionNext]_sessionVars, UNCHANGED proposalVars,
         \A f \in Facts : ~InvalidateApproval(f)
  PROVE  ProposalInv'
<1> USE DEF ProposalInv
<1>1. SessionInv'
  BY SessionInvStep
<1>2. \/ UNCHANGED <<planner_revision, facts, proposal, active_approved>>
      \/ /\ planner_revision' = planner_revision + 1
         /\ UNCHANGED <<proposal, active_approved>>
  BY PlannerStep DEF SessionInv
<1>3. RevisionFrame
  BY <1>2 DEF RevisionFrame, ProposalTypeOK, SessionTypeOK, CatalogTypeOK
<1>4. UNCHANGED <<proposal, active_approved, active_plan, content, review>>
  BY <1>2 DEF proposalVars
<1>5. ProposalFrame({})
  BY <1>4 DEF ProposalFrame
<1>6. PointerIsApproval' /\ ApprovedPlanActive'
  BY <1>4 DEF PointerIsApproval, ApprovedPlanActive
<1>7. SessionFrame \/ CurrentDrafts = {}
  <2>1. CASE \A p \in Procs : ~StartCommit(p)
    BY <2>1, FrameStep DEF SessionInv
  <2>2. ASSUME NEW p \in Procs, StartCommit(p) PROVE CurrentDrafts = {}
    BY <2>2 DEF StartCommit, StartAuthority
  <2> QED
    BY <2>1, <2>2
<1> QED
  BY <1>1, <1>3, <1>4, <1>5, <1>6, <1>7, InvKept

\* So do the writes that withdraw approvals.
LEMMA WithdrawKeepsInv ==
  ASSUME ProposalInv, ProposalTypeOK', NEW f \in Facts, InvalidateApproval(f),
         UNCHANGED <<content, review>>
  PROVE  ProposalInv'
<1> USE DEF ProposalInv
<1>1. SessionInv'
  BY SessionInvStep DEF SessionNext, OperatorNext
<1>2. RevisionFrame
  BY DEF RevisionFrame, InvalidateApproval, ProposalTypeOK, SessionTypeOK, CatalogTypeOK
<1>3. /\ ProposalFrame({})
      /\ \A q \in Proposals : proposal'[q].lifecycle # "approved"
  BY WithdrawFrame DEF InvalidateApproval, ProposalTypeOK, SessionTypeOK
<1>4. active_approved' = None /\ None \notin Proposals
  BY CatalogAssumption DEF InvalidateApproval
<1>5. PointerIsApproval' /\ ApprovedPlanActive'
  BY <1>3, <1>4 DEF PointerIsApproval, ApprovedPlanActive
<1>6. SessionFrame
  BY DEF SessionFrame, InvalidateApproval
<1> QED
  BY <1>1, <1>2, <1>3, <1>5, <1>6, InvKept

\* A step of a review that writes no catalog row keeps the invariant, if what the process
\* has read is as ReviewOK says.
LEMMA ReviewKeepsInv ==
  ASSUME ProposalInv, ProposalTypeOK', UNCHANGED <<catalogVars, active_plan, content>>,
         \A r \in Procs : proc'[r] = proc[r] \/ proc'[r] = Idle,
         NEW p \in Procs, NEW row, review' = [review EXCEPT ![p] = row], ReviewOK(p)'
  PROVE  ProposalInv'
<1> USE DEF ProposalInv
<1>1. /\ UNCHANGED <<planner_revision, next_fencing_token, active_approved, facts, proposal,
                     session>>
      /\ UNCHANGED <<active_plan, content>>
  BY DEF catalogVars, plannerVars
<1>2. SessionInv'
  <2>1. PinnedApproval'
    BY <1>1 DEF PinnedApproval, SessionInv, Live
  <2> QED
    BY <1>1, <2>1, SessionInvReset DEF ProposalTypeOK
<1>3. RevisionFrame
  BY <1>1 DEF RevisionFrame, ProposalTypeOK, SessionTypeOK, CatalogTypeOK
<1>4. ProposalFrame({})
  BY <1>1 DEF ProposalFrame
<1>5. SessionFrame
  BY <1>1 DEF SessionFrame
<1>6. PointerIsApproval' /\ ApprovedPlanActive'
  BY <1>1 DEF PointerIsApproval, ApprovedPlanActive
<1>7. \A r \in Procs : review'[r] = review[r] \/ ReviewOK(r)'
  BY DEF ProposalTypeOK
<1> QED
  BY <1>2, <1>3, <1>4, <1>5, <1>6, <1>7, InvKept

\* So does the publication of a draft: it was computed from the current facts, it is alone,
\* and no session is live.
LEMMA PublishKeepsInv ==
  ASSUME ProposalInv, ProposalTypeOK', NEW p \in Procs, NEW kind \in Kinds,
         PublishDraft(p, kind)
  PROVE  ProposalInv'
<1> USE DEF ProposalInv
<1>1. PICK q \in Proposals :
        /\ proposal[q].lifecycle = "absent"
        /\ proposal' = [proposal EXCEPT ![q] = [lifecycle |-> "draft", based_on |-> review[p].rev,
                                                semantic |-> review[p].semantic]]
        /\ content' = [content EXCEPT ![q] = [plan |-> review[p].plan, kind |-> kind,
                                              assigned |-> review[p].assigned]]
  BY DEF PublishDraft
<1>2. /\ review[p].pc = "bound" /\ review[p].rev = planner_revision
      /\ CurrentDrafts = {} /\ Live = {} /\ ReviewOK(p)
      /\ UNCHANGED <<planner_revision, next_fencing_token, active_approved, facts, session,
                     proc, active_plan>>
      /\ review' = [review EXCEPT ![p] = NoReview]
  BY DEF PublishDraft, NonePending, plannerVars, ReviewsOK
<1>3. review[p].semantic = facts /\ review[p].assigned = facts
  BY <1>2 DEF ReviewOK
<1>4. planner_revision \in Nat /\ proposal \in [Proposals -> ProposalRow]
      /\ content \in [Proposals -> Content] /\ review \in [Procs -> ReviewRow]
  BY DEF ProposalTypeOK, SessionTypeOK, CatalogTypeOK
<1>5. /\ proposal'[q].lifecycle = "draft" /\ proposal'[q].based_on = planner_revision
      /\ proposal'[q].semantic = facts /\ content'[q].assigned = facts
  BY <1>1, <1>2, <1>3, <1>4
<1>6. \A r \in Proposals \ {q} : proposal'[r] = proposal[r] /\ content'[r] = content[r]
  BY <1>1, <1>4
<1>7. CurrentDrafts' = {q}
  BY <1>2, <1>5, <1>6 DEF CurrentDrafts
<1>8. CurrentDraftFaithful' /\ SingleCurrentDraft'
  BY <1>2, <1>5, <1>7 DEF CurrentDraftFaithful, SingleCurrentDraft, Unambiguous
<1>9. NoReviewUnderFill'
  BY <1>2 DEF NoReviewUnderFill, Live
<1>10. RevisionsReached'
  BY <1>2, <1>4, <1>5, <1>6 DEF RevisionsReached
<1>11. q # active_approved
  BY <1>1 DEF PointerIsApproval
<1>12. PointerIsApproval'
  BY <1>2, <1>5, <1>6, <1>11 DEF PointerIsApproval
<1>13. ApprovedPlanActive'
  <2>1. CASE active_approved \in Proposals
    BY <1>2, <1>6, <1>11, <2>1 DEF ApprovedPlanActive
  <2>2. CASE active_approved = None
    BY <1>2, <2>2 DEF ApprovedPlanActive
  <2> QED
    BY <2>1, <2>2 DEF ProposalTypeOK, SessionTypeOK, CatalogTypeOK
<1>14. SessionInv'
  <2>1. PinnedApproval'
    BY <1>2 DEF PinnedApproval, Live
  <2> QED
    BY <1>2, <2>1, SessionInvReset DEF ProposalTypeOK
<1>15. ReviewsOK'
  <2>1. RevisionFrame
    BY <1>2, <1>4 DEF RevisionFrame
  <2>2. ProposalFrame({q})
    BY <1>6 DEF ProposalFrame
  <2>3. ASSUME NEW r \in Procs, r # p PROVE ReviewOK(r)'
    <3>1. ReviewOK(r) /\ review'[r] = review[r]
      BY <1>2, <1>4, <2>3 DEF ReviewsOK
    <3>2. planner_revision' \in Nat /\ \A n \in {q} : proposal[n].lifecycle = "absent"
      BY <1>1, <1>2, <1>4
    <3> QED
      BY <2>1, <2>2, <3>1, <3>2, ReviewKept
  <2>4. ReviewOK(p)'
    BY <1>2, <1>4 DEF ReviewOK, NoReview
  <2> QED
    BY <2>3, <2>4 DEF ReviewsOK
<1> QED
  BY <1>8, <1>9, <1>10, <1>12, <1>13, <1>14, <1>15

\* So does discarding one: what is left to decide on is what was, without it.
LEMMA DiscardKeepsInv ==
  ASSUME ProposalInv, ProposalTypeOK', NEW q \in Proposals, DiscardDraft(q)
  PROVE  ProposalInv'
<1> USE DEF ProposalInv
<1>1. /\ proposal[q].lifecycle = "draft" /\ Live = {}
      /\ proposal' = [proposal EXCEPT ![q].lifecycle = "superseded"]
      /\ UNCHANGED <<planner_revision, next_fencing_token, active_approved, facts, session,
                     proc, active_plan, content, review>>
  BY DEF DiscardDraft, plannerVars, proposalVars
<1>2. proposal \in [Proposals -> ProposalRow]
  BY DEF ProposalTypeOK, SessionTypeOK, CatalogTypeOK
<1>3. /\ proposal'[q].lifecycle = "superseded"
      /\ proposal'[q].based_on = proposal[q].based_on
      /\ proposal'[q].semantic = proposal[q].semantic
      /\ \A r \in Proposals \ {q} : proposal'[r] = proposal[r]
  BY <1>1, <1>2 DEF ProposalRow
<1>4. ProposalFrame({})
  BY <1>1, <1>3 DEF ProposalFrame
<1>5. RevisionFrame
  BY <1>1 DEF RevisionFrame, ProposalTypeOK, SessionTypeOK, CatalogTypeOK
<1>6. SessionFrame
  BY <1>1 DEF SessionFrame
<1>7. q # active_approved
  BY <1>1 DEF PointerIsApproval
<1>8. PointerIsApproval' /\ ApprovedPlanActive'
  BY <1>1, <1>3, <1>7 DEF PointerIsApproval, ApprovedPlanActive
<1>9. SessionInv'
  <2>1. PinnedApproval'
    BY <1>1 DEF PinnedApproval, Live
  <2> QED
    BY <1>1, <2>1, SessionInvReset DEF ProposalTypeOK
<1> QED
  BY <1>1, <1>4, <1>5, <1>6, <1>8, <1>9, InvKept

\* So does the commit of an approval, which makes every other draft stale.
LEMMA ApproveKeepsInv ==
  ASSUME ProposalInv, ProposalTypeOK', NEW p \in Procs, ApproveCommit(p)
  PROVE  ProposalInv'
<1> USE DEF ProposalInv
<1> DEFINE q == review[p].id
<1>1. /\ q \in Proposals /\ proposal[q].lifecycle = "draft" /\ content[q].plan = active_plan
      /\ proposal' = Approved(q) /\ active_approved' = q
      /\ planner_revision' = planner_revision + 1 /\ Live = {}
      /\ review' = [review EXCEPT ![p] = NoReview]
      /\ UNCHANGED <<next_fencing_token, session, proc, active_plan, content>>
  BY ApproveCommitType DEF ApproveCommit, ApproveAuthority, IsDraft, PlanActive, SemanticCurrent
<1>2. CatalogTypeOK
  BY DEF ProposalTypeOK, SessionTypeOK
<1>3. RevisionFrame
  BY <1>1, <1>2 DEF RevisionFrame, CatalogTypeOK
<1>4. /\ ProposalFrame({})
      /\ \A r \in Proposals :
           proposal'[r].lifecycle = IF r = q THEN "approved"
                                    ELSE IF proposal[r].lifecycle = "approved"
                                         THEN "superseded" ELSE proposal[r].lifecycle
  <2> HIDE DEF q
  <2> QED
    BY <1>1, <1>2, ApproveFrame
<1>5. PointerIsApproval'
  <2>1. \A r \in Proposals : proposal'[r].lifecycle = "approved" <=> r = q
    BY <1>4
  <2> QED
    BY <1>1, <2>1 DEF PointerIsApproval
<1>6. ApprovedPlanActive'
  BY <1>1 DEF ApprovedPlanActive
<1>7. SessionFrame
  BY <1>1 DEF SessionFrame
<1>8. SessionInv'
  <2>1. PinnedApproval'
    BY <1>1 DEF PinnedApproval, Live
  <2> QED
    BY <1>1, <2>1, SessionInvReset DEF ProposalTypeOK
<1>9. \A r \in Procs : review'[r] = review[r] \/ ReviewOK(r)'
  <2>1. ReviewOK(p)'
    BY <1>1 DEF ReviewOK, NoReview, ProposalTypeOK
  <2> QED
    BY <1>1, <2>1 DEF ProposalTypeOK
<1> QED
  BY <1>3, <1>4, <1>5, <1>6, <1>7, <1>8, <1>9, InvKept

\* The steps of previews and approvals that write no row, one by one.
LEMMA ReviewsKeepInv ==
  ASSUME ProposalInv, ProposalTypeOK', NEW p \in Procs,
         \/ DraftNext(p) \/ ApproveNext(p) \/ ReviewRefuse(p) \/ ReviewCrash(p),
         \A kind \in Kinds : ~PublishDraft(p, kind), ~ApproveCommit(p)
  PROVE  ProposalInv'
<1> USE DEF ProposalInv
<1>0. /\ review[p] \in ReviewRow /\ review \in [Procs -> ReviewRow] /\ ReviewOK(p)
      /\ proc \in [Procs -> ProcRow] /\ planner_revision \in Nat /\ facts \in Facts
      /\ active_plan \in Plans
  BY DEF ProposalTypeOK, SessionTypeOK, CatalogTypeOK, ReviewsOK
<1>1. ASSUME NEW row, review' = [review EXCEPT ![p] = row],
             UNCHANGED <<catalogVars, active_plan, content>>,
             \A r \in Procs : proc'[r] = proc[r] \/ proc'[r] = Idle, ReviewOK(p)'
      PROVE  ProposalInv'
  BY <1>1, ReviewKeepsInv
<1>2. CASE PreviewPlan(p)
  <2>1. ReviewOK(p)'
    BY <1>0, <1>2 DEF PreviewPlan, ReviewOK, NoReview
  <2> QED
    BY <1>1, <1>2, <2>1 DEF PreviewPlan, sessionVars
<1>3. CASE PreviewRevision(p)
  <2>1. UNCHANGED <<catalogVars, proc, active_plan, content>>
    BY <1>3 DEF PreviewRevision, sessionVars
  <2>2. /\ review'[p].pc = "revision" /\ review'[p].plan = review[p].plan
        /\ review'[p].rev = planner_revision /\ review[p].plan \in Plans
    BY <1>0, <1>3 DEF PreviewRevision, ReviewOK, ReviewRow
  <2>3. ReviewOK(p)'
    BY <1>0, <2>1, <2>2 DEF ReviewOK, catalogVars, plannerVars
  <2> QED
    BY <1>1, <1>3, <2>1, <2>3 DEF PreviewRevision
<1>4. CASE PreviewAssign(p)
  <2>1. UNCHANGED <<catalogVars, proc, active_plan, content>>
    BY <1>4 DEF PreviewAssign, sessionVars
  <2>2. /\ review'[p].pc = "assigned" /\ review'[p].plan = review[p].plan
        /\ review'[p].rev = review[p].rev /\ review'[p].assigned = facts
        /\ review[p].plan \in Plans /\ review[p].rev <= planner_revision
    BY <1>0, <1>4 DEF PreviewAssign, ReviewOK, ReviewRow
  <2>3. ReviewOK(p)'
    BY <1>0, <2>1, <2>2 DEF ReviewOK, catalogVars, plannerVars
  <2> QED
    BY <1>1, <1>4, <2>1, <2>3 DEF PreviewAssign
<1>5. CASE PreviewBind(p)
  <2>1. UNCHANGED <<catalogVars, proc, active_plan, content>>
    BY <1>5 DEF PreviewBind, sessionVars
  <2>2. /\ review'[p].pc = "bound" /\ review'[p].plan = review[p].plan
        /\ review'[p].rev = review[p].rev /\ review'[p].assigned = review[p].assigned
        /\ review'[p].semantic = facts
        /\ review[p].plan \in Plans /\ review[p].rev <= planner_revision
        /\ review[p].assigned \in Facts
        /\ review[p].rev = planner_revision => review[p].assigned = facts
    BY <1>0, <1>5 DEF PreviewBind, ReviewOK, ReviewRow
  <2>3. ReviewOK(p)'
    BY <1>0, <2>1, <2>2 DEF ReviewOK, catalogVars, plannerVars
  <2> QED
    BY <1>1, <1>5, <2>1, <2>3 DEF PreviewBind
<1>6. ASSUME NEW q \in Proposals, ApprovePreflight(p, q) PROVE ProposalInv'
  <2>1. UNCHANGED <<catalogVars, proc, active_plan, content>>
    BY <1>6 DEF ApprovePreflight, sessionVars
  <2>2. review'[p].pc = "ctrl" /\ review'[p].id = q /\ proposal[q].lifecycle # "absent"
    BY <1>0, <1>6 DEF ApprovePreflight, NoReview
  <2>3. ReviewOK(p)'
    BY <2>1, <2>2 DEF ReviewOK, catalogVars
  <2> QED
    BY <1>1, <1>6, <2>1, <2>3 DEF ApprovePreflight
<1>7. CASE ApproveController(p)
  <2>1. UNCHANGED <<catalogVars, proc, active_plan, content>>
    BY <1>7 DEF ApproveController
  <2>2. /\ review'[p].pc = "fence" /\ review'[p].id = review[p].id
        /\ review[p].id \in Proposals /\ proposal[review[p].id].lifecycle # "absent"
    BY <1>0, <1>7 DEF ApproveController, ReviewOK, ReviewRow
  <2>3. ReviewOK(p)'
    BY <2>1, <2>2 DEF ReviewOK, catalogVars
  <2> QED
    BY <1>1, <1>7, <2>1, <2>3 DEF ApproveController
<1>8. CASE ApproveHoldFence(p)
  <2>1. /\ UNCHANGED <<catalogVars, proc, active_plan, content>>
        /\ review' = review
    BY <1>8 DEF ApproveHoldFence, proposalVars
  <2>2. review' = [review EXCEPT ![p] = review[p]]
    BY <1>0, <2>1
  <2>3. ReviewOK(p)'
    BY <1>0, <2>1 DEF ReviewOK, catalogVars, plannerVars
  <2> QED
    BY <1>1, <2>1, <2>2, <2>3
<1>9. CASE ApproveObserve(p)
  <2>1. UNCHANGED <<catalogVars, proc, active_plan, content>>
    BY <1>9 DEF ApproveObserve, sessionVars
  <2>2. /\ review'[p].pc = "observed" /\ review'[p].id = review[p].id
        /\ review[p].id \in Proposals /\ proposal[review[p].id].lifecycle # "absent"
    BY <1>0, <1>9 DEF ApproveObserve, ReviewOK, ReviewRow
  <2>3. ReviewOK(p)'
    BY <2>1, <2>2 DEF ReviewOK, catalogVars
  <2>4. review' = [review EXCEPT ![p] = [review[p] EXCEPT !.pc = "observed"]]
    BY <1>9 DEF ApproveObserve
  <2> QED
    BY <1>1, <2>1, <2>3, <2>4
<1>10. CASE ReviewRefuse(p) \/ ReviewCrash(p)
  <2>1. /\ UNCHANGED <<catalogVars, active_plan, content>>
        /\ review' = [review EXCEPT ![p] = NoReview]
    BY <1>10 DEF ReviewRefuse, ReviewCrash
  <2>2. \A r \in Procs : proc'[r] = proc[r] \/ proc'[r] = Idle
    BY <1>0, <1>10 DEF ReviewRefuse, ReviewCrash
  <2>3. ReviewOK(p)'
    BY <1>0, <2>1 DEF ReviewOK, NoReview
  <2> QED
    BY <1>1, <2>1, <2>2, <2>3
<1> QED
  BY <1>2, <1>3, <1>4, <1>5, <1>6, <1>7, <1>8, <1>9, <1>10 DEF DraftNext, ApproveNext

\* Every step keeps the invariant.
LEMMA ProposalInvStep == ProposalInv /\ [ProposalNext]_allVars => ProposalInv'
<1> SUFFICES ASSUME ProposalInv, [ProposalNext]_allVars PROVE ProposalInv'
  OBVIOUS
<1>0. ProposalTypeOK'
  BY ProposalTypeStep DEF ProposalInv
<1>1. ASSUME NEW p \in Procs, SessionsNext(p) PROVE ProposalInv'
  <2>1. [SessionNext]_sessionVars /\ UNCHANGED proposalVars
    BY <1>1 DEF SessionsNext, SessionNext
  <2>2. ASSUME NEW f \in Facts, InvalidateApproval(f) PROVE ProposalInv'
    BY <1>0, <2>1, <2>2, WithdrawKeepsInv DEF proposalVars
  <2> QED
    BY <1>0, <2>1, <2>2, SessionsKeepInv
<1>2. ASSUME NEW p \in Procs, DraftNext(p) \/ ApproveNext(p) \/ ReviewRefuse(p) \/ ReviewCrash(p)
      PROVE  ProposalInv'
  <2>1. ASSUME NEW kind \in Kinds, PublishDraft(p, kind) PROVE ProposalInv'
    BY <1>0, <2>1, PublishKeepsInv
  <2>2. CASE ApproveCommit(p)
    BY <1>0, <2>2, ApproveKeepsInv
  <2> QED
    BY <1>0, <1>2, <2>1, <2>2, ReviewsKeepInv
<1>3. CASE \/ (\E s \in Sids : Expire(s)) /\ UNCHANGED proposalVars
           \/ (\E f \in Facts : GraphWrite(f)) /\ UNCHANGED proposalVars
           \/ UNCHANGED allVars
  <2>1. [SessionNext]_sessionVars /\ UNCHANGED proposalVars
    BY <1>3 DEF SessionNext, OperatorNext, allVars
  <2>2. ASSUME NEW f \in Facts, InvalidateApproval(f) PROVE ProposalInv'
    BY <1>0, <2>1, <2>2, WithdrawKeepsInv DEF proposalVars
  <2> QED
    BY <1>0, <2>1, <2>2, SessionsKeepInv
<1>4. ASSUME NEW q \in Proposals, DiscardDraft(q) PROVE ProposalInv'
  BY <1>0, <1>4, DiscardKeepsInv
<1>5. ASSUME NEW plan \in Plans, SwitchPlan(plan) PROVE ProposalInv'
  <2>1. facts \in Facts
    BY DEF ProposalInv, ProposalTypeOK, SessionTypeOK, CatalogTypeOK
  <2> QED
    BY <1>0, <1>5, <2>1, WithdrawKeepsInv DEF SwitchPlan
<1>6. ASSUME NEW d \in Drives, NEW f \in Facts, DeclareLost(d, f) PROVE ProposalInv'
  BY <1>0, <1>6, WithdrawKeepsInv DEF DeclareLost, proposalVars
<1> QED
  BY <1>1, <1>2, <1>3, <1>4, <1>5, <1>6 DEF ProposalNext

-----------------------------------------------------------------------------
(* Theorems *)

\* The inductive invariant holds in every reachable state (preview_pure, publish_draft,
\* discard_draft, approve, set_active, declare_lost, beside start_session and the Fills).
THEOREM ProposalInvariant == ProposalSpec => []ProposalInv
BY ProposalInvInit, ProposalInvStep, PTL DEF ProposalSpec

\* What is reviewed is one draft of one state of the catalog, and no Fill runs beside it.
THEOREM ReviewsSound == ProposalSpec => []ReviewSound
<1>1. ProposalInv => ReviewSound
  BY DEF ProposalInv, ReviewSound
<1> QED
  BY <1>1, ProposalInvariant, PTL

\* The approved row, the pointer to it, the active plan and the session that executes it
\* agree.
THEOREM ApprovalsSound == ProposalSpec => []ApprovalSound
<1>1. ProposalInv => ApprovalSound
  BY DEF ProposalInv, SessionInv, ApprovalSound
<1> QED
  BY <1>1, ProposalInvariant, PTL

\* The session theorems survive the reviews: processes that preview and approve beside the
\* Fills break none of them.
THEOREM SessionsUnderReview ==
  ProposalSpec => [](OneLive /\ AttemptsOrdered /\ PinnedApproval)
<1>1. ProposalInv => OneLive /\ AttemptsOrdered /\ PinnedApproval
  BY DEF ProposalInv, SessionInv, AttemptsOrdered
<1> QED
  BY <1>1, ProposalInvariant, PTL

\* Only four steps write a proposal, each a move forward.
LEMMA Forward == ProposalInv /\ [ProposalNext]_allVars => LifecycleStep
<1> SUFFICES ASSUME ProposalInv, [ProposalNext]_allVars PROVE LifecycleStep
  OBVIOUS
<1> USE DEF ProposalInv
<1>0. /\ CatalogTypeOK /\ proposal \in [Proposals -> ProposalRow]
      /\ content \in [Proposals -> Content] /\ ReviewsOK
  BY DEF ProposalTypeOK, SessionTypeOK, CatalogTypeOK
<1>1. ASSUME UNCHANGED <<proposal, content>> PROVE LifecycleStep
  BY <1>1 DEF LifecycleStep
<1>2. ASSUME NEW f \in Facts, InvalidateApproval(f), UNCHANGED content PROVE LifecycleStep
  <2>1. \A q \in Proposals :
          proposal'[q].lifecycle = IF proposal[q].lifecycle = "approved" THEN "superseded"
                                   ELSE proposal[q].lifecycle
    BY <1>0, <1>2 DEF InvalidateApproval, SupersedeApprovals, ProposalRow
  <2> QED
    BY <1>2, <2>1 DEF LifecycleStep
<1>3. ASSUME [SessionNext]_sessionVars, UNCHANGED content PROVE LifecycleStep
  <2>1. \/ UNCHANGED proposal
        \/ \E f \in Facts : InvalidateApproval(f)
    BY <1>3, PlannerStep DEF ProposalTypeOK
  <2> QED
    BY <1>1, <1>2, <1>3, <2>1
<1>4. ASSUME NEW p \in Procs, NEW kind \in Kinds, PublishDraft(p, kind) PROVE LifecycleStep
  <2>1. PICK q \in Proposals :
          /\ proposal[q].lifecycle = "absent"
          /\ proposal' = [proposal EXCEPT ![q] = [lifecycle |-> "draft",
                            based_on |-> review[p].rev, semantic |-> review[p].semantic]]
          /\ content' = [content EXCEPT ![q] = [plan |-> review[p].plan, kind |-> kind,
                                                assigned |-> review[p].assigned]]
    BY <1>4 DEF PublishDraft
  <2>2. /\ proposal'[q].lifecycle = "draft"
        /\ \A r \in Proposals \ {q} : proposal'[r] = proposal[r] /\ content'[r] = content[r]
    BY <1>0, <2>1
  <2> QED
    BY <2>1, <2>2 DEF LifecycleStep
<1>5. ASSUME NEW q \in Proposals, DiscardDraft(q) PROVE LifecycleStep
  <2>1. /\ proposal[q].lifecycle = "draft" /\ proposal'[q].lifecycle = "superseded"
        /\ \A r \in Proposals \ {q} : proposal'[r] = proposal[r]
        /\ UNCHANGED content
    BY <1>0, <1>5 DEF DiscardDraft, ProposalRow, proposalVars
  <2> QED
    BY <2>1 DEF LifecycleStep
<1>6. ASSUME NEW p \in Procs, ApproveCommit(p) PROVE LifecycleStep
  <2> DEFINE q == review[p].id
  <2>1. /\ q \in Proposals /\ proposal[q].lifecycle = "draft" /\ proposal' = Approved(q)
        /\ UNCHANGED content
    BY <1>6, ApproveCommitType DEF ApproveCommit, ApproveAuthority, IsDraft, SemanticCurrent
  <2> HIDE DEF q
  <2>2. \A r \in Proposals :
          proposal'[r].lifecycle = IF r = q THEN "approved"
                                   ELSE IF proposal[r].lifecycle = "approved"
                                        THEN "superseded" ELSE proposal[r].lifecycle
    BY <1>0, <2>1, ApproveFrame
  <2> QED
    BY <2>1, <2>2 DEF LifecycleStep
<1>7. ASSUME NEW p \in Procs, SessionsNext(p) PROVE LifecycleStep
  BY <1>3, <1>7 DEF SessionsNext, SessionNext, proposalVars
<1>8. ASSUME NEW p \in Procs, DraftNext(p), \A kind \in Kinds : ~PublishDraft(p, kind)
      PROVE  LifecycleStep
  BY <1>1, <1>8 DEF DraftNext, PreviewPlan, PreviewRevision, PreviewAssign, PreviewBind,
     sessionVars, catalogVars
<1>9. ASSUME NEW p \in Procs, ApproveNext(p), ~ApproveCommit(p) PROVE LifecycleStep
  BY <1>1, <1>9 DEF ApproveNext, ApprovePreflight, ApproveController, ApproveHoldFence,
     ApproveObserve, sessionVars, catalogVars, proposalVars
<1>10. ASSUME NEW p \in Procs, ReviewRefuse(p) \/ ReviewCrash(p) PROVE LifecycleStep
  BY <1>1, <1>10 DEF ReviewRefuse, ReviewCrash, catalogVars
<1>11. ASSUME NEW plan \in Plans, SwitchPlan(plan) PROVE LifecycleStep
  BY <1>0, <1>2, <1>11 DEF SwitchPlan, CatalogTypeOK
<1>12. ASSUME NEW d \in Drives, NEW f \in Facts, DeclareLost(d, f) PROVE LifecycleStep
  BY <1>2, <1>12 DEF DeclareLost, proposalVars
<1>13. CASE \/ (\E s \in Sids : Expire(s)) /\ UNCHANGED proposalVars
            \/ (\E f \in Facts : GraphWrite(f)) /\ UNCHANGED proposalVars
            \/ UNCHANGED allVars
  BY <1>3, <1>13 DEF SessionNext, OperatorNext, allVars, proposalVars
<1> QED
  BY <1>4, <1>5, <1>6, <1>7, <1>8, <1>9, <1>10, <1>11, <1>12, <1>13 DEF ProposalNext

\* A proposal is drafted once, approved at most once and superseded for good, with the
\* content it was drafted with (publish_draft, approve, discard_draft, set_active).
THEOREM LifecycleMovesForward == ProposalSpec => LifecycleForward
BY ProposalInvariant, Forward, PTL DEF ProposalSpec, LifecycleForward

=============================================================================

----------------------- MODULE ExecutionSession_proofs -----------------------
(***************************************************************************)
(* Proofs about ExecutionSession for any number of processes, proposals,   *)
(* sessions and drives.                                                    *)
(*                                                                         *)
(* None of the safety invariants is inductive alone.  What they share is   *)
(* that a process carries session ids and proposals across its lock waits: *)
(* LocalsOK says what those locals still mean when they are used, RowsOK   *)
(* and Contiguous what the rows of execution_sessions look like.           *)
(***************************************************************************)
EXTENDS ExecutionSession, TLAPS

\* A process that works on a session names one that was inserted; once start has its
\* controller it has an approval; the predecessor that StartAdmit accepted has ended
\* and belongs to that approval, still, when the transaction inserts the row.
LocalOK(p) ==
  /\ proc[p].pc \in FillPcs \cup RecoverPcs \cup {"start_unlock"} =>
       proc[p].sid \in Sids /\ session[proc[p].sid].state # "absent"
  /\ proc[p].pc \in {"start_fence", "start_admitted", "start_bound"} =>
       proc[p].prop \in Proposals
  /\ proc[p].pc \in {"start_admitted", "start_bound"} /\ proc[p].pred # None =>
       /\ session[proc[p].pred].ended
       /\ session[proc[p].pred].prop = proc[p].prop

LocalsOK == \A p \in Procs : LocalOK(p)

\* A row that was not inserted is blank, an inserted one names its approval, and a row
\* in a terminal state has its terminal_at.
RowsOK ==
  \A s \in Sids :
    /\ session[s].state = "absent" => session[s] = NoSession
    /\ session[s].state # "absent" => session[s].prop \in Proposals
    /\ session[s].state \in TERMINAL_STATES => session[s].ended

\* Rows are inserted in the order of their numbers.
Contiguous ==
  \A s, t \in Sids : s < t /\ session[t].state # "absent" => session[s].state # "absent"

\* The inductive invariant.
SessionInv ==
  /\ SessionTypeOK
  /\ LocalsOK
  /\ RowsOK
  /\ Contiguous
  /\ OneLive
  /\ TokensIncrease
  /\ PinnedApproval
  /\ ResumeLineage

-----------------------------------------------------------------------------
(* Facts about the helpers *)

\* Lock keys of drives are lock keys.
LEMMA KeysOfType ==
  ASSUME CatalogTypeOK, NEW D \in SUBSET Drives
  PROVE  KeysOf(D) \in SUBSET Keys
BY DEF KeysOf, Keys, CatalogTypeOK

\* Closing handles keeps the shape of the locks.
LEMMA CloseAllType ==
  ASSUME FenceTypeOK, NEW p \in Procs, CloseAll(p)
  PROVE  FenceTypeOK'
BY DEF FenceTypeOK, CloseAll

\* So does taking the controller, when nothing else changes.
LEMMA HoldControllerType ==
  ASSUME FenceTypeOK, NEW p \in Procs, HoldController(p), UNCHANGED <<ctrlChild, held, child>>
  PROVE  FenceTypeOK'
BY DEF FenceTypeOK, HoldController

\* The approval start resolves is a proposal or NULL.
LEMMA SelectedApprovalType ==
  ASSUME NEW req
  PROVE  SelectedApproval(req) \in Proposals \cup {None}
BY DEF SelectedApproval

\* A new token is a number, above the counter and above the predecessor's token.
LEMMA NextTokenAbove ==
  ASSUME CatalogTypeOK, NEW pred \in Sids \cup {None}
  PROVE  /\ NextToken(pred) \in Nat
         /\ NextToken(pred) > next_fencing_token
         /\ pred # None => NextToken(pred) > session[pred].token
<1>1. next_fencing_token \in Nat
  BY DEF CatalogTypeOK
<1>2. pred # None => session[pred].token \in Nat
  BY DEF CatalogTypeOK, SessionRow
<1> QED
  BY <1>1, <1>2 DEF NextToken

\* A lock step leaves the catalog, and its types, alone.
LEMMA CatalogUnchangedType ==
  ASSUME CatalogTypeOK, UNCHANGED catalogVars
  PROVE  CatalogTypeOK'
BY DEF CatalogTypeOK, catalogVars, plannerVars, driveVars, Live

\* Nor is a catalog read a step of the locks.
LEMMA FencesUnchangedType ==
  ASSUME FenceTypeOK, UNCHANGED fenceVars
  PROVE  FenceTypeOK'
BY DEF FenceTypeOK, fenceVars

\* Everything but planner revision, facts, approvals and sessions is a frame.
LEMMA SessionRowUpdateType ==
  ASSUME CatalogTypeOK, session' \in [Sids -> SessionRow],
         UNCHANGED <<plannerVars, facts, proposal, driveVars>>
  PROVE  CatalogTypeOK'
BY DEF CatalogTypeOK, plannerVars, driveVars

\* The updates of one row of execution_sessions keep its type.
LEMMA SessionRowUpdate ==
  ASSUME NEW r \in SessionRow, NEW state \in LIVE_STATES \cup TERMINAL_STATES,
         NEW p \in Procs
  PROVE  /\ [r EXCEPT !.state = state, !.worker = p] \in SessionRow
         /\ [r EXCEPT !.state = state, !.lease = "null", !.ended = TRUE] \in SessionRow
         /\ [r EXCEPT !.state = state, !.ended = TRUE] \in SessionRow
BY DEF SessionRow, Leases

-----------------------------------------------------------------------------
(* Type correctness *)

\* Initially every variable has its type.
LEMMA TypeInit == SessionInit => SessionTypeOK
<1> SUFFICES ASSUME SessionInit PROVE SessionTypeOK
  OBVIOUS
<1>1. proposal \in [Proposals -> ProposalRow]
  BY DEF SessionInit, ProposalRow, Lifecycles
<1>2. NoSession \in SessionRow
  BY DEF NoSession, SessionRow, Leases
<1>3. CatalogTypeOK
  BY <1>1, <1>2 DEF SessionInit, CatalogTypeOK
<1>4. FenceTypeOK
  BY DEF SessionInit, FenceInit, FenceTypeOK
<1>5. Idle \in ProcRow
  BY DEF Idle, ProcRow
<1> QED
  BY <1>3, <1>4, <1>5 DEF SessionInit, SessionTypeOK

\* Every step of the protocol keeps the types.
LEMMA TypeStep ==
  ASSUME SessionTypeOK, LocalsOK, RowsOK, [SessionNext]_sessionVars
  PROVE  SessionTypeOK'
<1> USE DEF SessionTypeOK
<1>0. Idle \in ProcRow
  BY DEF Idle, ProcRow
<1>1. ASSUME NEW p \in Procs, StartNext(p) PROVE SessionTypeOK'
  <2>1. ASSUME NEW req \in Proposals \cup {None}, NEW pred \in Sids \cup {None},
               StartPreflight(p, req, pred)
        PROVE  SessionTypeOK'
    <3>1. proc' \in [Procs -> ProcRow]
      BY <2>1 DEF StartPreflight, ProcRow, Idle, StartPcs
    <3> QED
      BY <2>1, <3>1, CatalogUnchangedType, FencesUnchangedType DEF StartPreflight
  <2>2. CASE StartController(p)
    <3> DEFINE q == SelectedApproval(proc[p].req)
    <3>1. q \in Proposals
      BY <2>2, SelectedApprovalType DEF StartController
    <3>2. KeysOf(DrivesOf[q]) \in SUBSET Keys
      BY <3>1, KeysOfType, CatalogAssumption
    <3>3. [proc[p] EXCEPT !.pc = "start_fence", !.prop = q, !.req = None,
                          !.keys = KeysOf(DrivesOf[q])] \in ProcRow
      <4> HIDE DEF q
      <4> QED BY <3>1, <3>2 DEF ProcRow, StartPcs
    <3>4. proc' \in [Procs -> ProcRow]
      BY <2>2, <3>3 DEF StartController
    <3> QED
      BY <2>2, <3>4, CatalogUnchangedType, HoldControllerType DEF StartController
  <2>3. CASE HoldDriveFence(p)
    <3>1. FenceTypeOK'
      BY <2>3 DEF HoldDriveFence, HoldNextDrive, FenceTypeOK, ProcRow
    <3> QED
      BY <2>3, <3>1, CatalogUnchangedType DEF HoldDriveFence
  <2>4. CASE StartAdmit(p)
    <3>1. proc' \in [Procs -> ProcRow]
      BY <2>4 DEF StartAdmit, ProcRow, StartPcs
    <3> QED
      BY <2>4, <3>1, CatalogUnchangedType, FencesUnchangedType DEF StartAdmit
  <2>5. CASE StartReadRevision(p)
    <3>0. [proc[p] EXCEPT !.pc = "start_bound", !.rev = planner_revision] \in ProcRow
      BY DEF ProcRow, StartPcs, CatalogTypeOK
    <3>1. proc' \in [Procs -> ProcRow]
      BY <2>5, <3>0 DEF StartReadRevision
    <3> QED
      BY <2>5, <3>1, CatalogUnchangedType, FencesUnchangedType DEF StartReadRevision
  <2>6. CASE StartCommit(p)
    <3>1. PICK s \in Sids : /\ session' = [session EXCEPT ![s] = NewSession(p)]
                            /\ proc' = [proc EXCEPT ![p] = [@ EXCEPT !.pc = "start_unlock", !.sid = s]]
      BY <2>6 DEF StartCommit
    <3>2. proc[p].pred \in Sids \cup {None} /\ proc[p].prop \in Proposals \cup {None}
          /\ proc[p].rev \in Nat
      BY DEF ProcRow
    <3>3. NextToken(proc[p].pred) \in Nat
      BY <3>2, NextTokenAbove
    <3>4. NewSession(p) \in SessionRow
      BY <3>2, <3>3 DEF NewSession, SessionRow, LIVE_STATES, Leases
    <3>5. session' \in [Sids -> SessionRow]
      BY <3>1, <3>4 DEF CatalogTypeOK
    <3>6. proc' \in [Procs -> ProcRow]
      BY <3>1 DEF ProcRow, StartPcs
    <3>7. CatalogTypeOK'
      BY <2>6, <3>3, <3>5 DEF StartCommit, CatalogTypeOK, driveVars
    <3> QED
      BY <2>6, <3>6, <3>7, FencesUnchangedType DEF StartCommit
  <2>7. CASE StartUnlock(p)
    <3>1. proc' \in [Procs -> ProcRow]
      BY <2>7 DEF StartUnlock, ProcRow, Idle, FillPcs
    <3> QED
      BY <2>7, <3>1, CatalogUnchangedType, CloseAllType DEF StartUnlock
  <2>8. CASE Refuse(p)
    BY <2>8, <1>0, CatalogUnchangedType, CloseAllType DEF Refuse
  <2> QED
    BY <1>1, <2>1, <2>2, <2>3, <2>4, <2>5, <2>6, <2>7, <2>8 DEF StartNext
<1>2. ASSUME NEW p \in Procs, FillNext(p) \/ SessionWrite(p) PROVE SessionTypeOK'
  <2>1. CASE ClaimRead(p)
    <3>1. proc' \in [Procs -> ProcRow]
      BY <2>1 DEF ClaimRead, ProcRow, FillPcs
    <3> QED
      BY <2>1, <3>1, CatalogUnchangedType, FencesUnchangedType DEF ClaimRead
  <2>2. CASE ClaimUpdate(p)
    <3>1. proc' \in [Procs -> ProcRow]
      BY <2>2 DEF ClaimUpdate, ProcRow, FillPcs
    <3>2. session' \in [Sids -> SessionRow]
      <4> DEFINE s == proc[p].sid
      <4>1. s \in Sids
        BY <2>2 DEF ClaimUpdate, LocalsOK, LocalOK, FillPcs
      <4>2. [session[s] EXCEPT !.state = "running", !.worker = p] \in SessionRow
        BY <4>1, SessionRowUpdate DEF CatalogTypeOK, LIVE_STATES
      <4> QED
        BY <2>2, <4>2 DEF ClaimUpdate, CatalogTypeOK
    <3> QED
      BY <2>2, <3>1, <3>2, SessionRowUpdateType, FencesUnchangedType DEF ClaimUpdate
  <2>3. CASE Heartbeat(p)
    <3>1. proc' \in [Procs -> ProcRow]
      BY <2>3 DEF Heartbeat, ProcRow, FillPcs
    <3>2. session' \in [Sids -> SessionRow]
      BY <2>3 DEF Heartbeat, CatalogTypeOK, SessionRow, Leases
    <3> QED
      BY <2>3, <3>1, <3>2, SessionRowUpdateType, FencesUnchangedType DEF Heartbeat
  <2>4. CASE SessionWrite(p)
    <3> DEFINE s == proc[p].sid
    <3>a. s \in Sids
      BY <2>4 DEF SessionWrite, LocalsOK, LocalOK, FillPcs
    <3>b. [session[s] EXCEPT !.bound = planner_revision + 1] \in SessionRow
      BY <3>a DEF CatalogTypeOK, SessionRow
    <3>1. session' \in [Sids -> SessionRow]
      BY <2>4, <3>b DEF SessionWrite, WriteAsSession, CatalogTypeOK
    <3>2. CatalogTypeOK'
      BY <2>4, <3>1 DEF SessionWrite, WriteAsSession, CatalogTypeOK, driveVars
    <3> QED
      BY <2>4, <3>2, FencesUnchangedType DEF SessionWrite
  <2>5. CASE SessionWriteRefused(p)
    <3>1. proc' \in [Procs -> ProcRow]
      BY <2>5 DEF SessionWriteRefused, ProcRow, FillPcs
    <3> QED
      BY <2>5, <3>1, CatalogUnchangedType, FencesUnchangedType DEF SessionWriteRefused
  <2>6. ASSUME NEW state \in TERMINAL_STATES, Terminalize(p, state) PROVE SessionTypeOK'
    <3> DEFINE s == proc[p].sid
    <3>a. s \in Sids
      BY <2>6 DEF Terminalize, LocalsOK, LocalOK, FillPcs
    <3>b. [session[s] EXCEPT !.state = state, !.lease = "null", !.ended = TRUE] \in SessionRow
      BY <3>a, SessionRowUpdate DEF CatalogTypeOK
    <3>1. session' \in [Sids -> SessionRow]
      BY <2>6, <3>b DEF Terminalize, CatalogTypeOK
    <3> QED
      BY <2>6, <1>0, <3>1, SessionRowUpdateType, FencesUnchangedType DEF Terminalize
  <2> QED
    BY <1>2, <2>1, <2>2, <2>3, <2>4, <2>5, <2>6 DEF FillNext
<1>3. ASSUME NEW p \in Procs, RecoverNext(p) PROVE SessionTypeOK'
  <2>1. ASSUME NEW s \in Sids, RecoverPrecheck(p, s) PROVE SessionTypeOK'
    <3>1. proc' \in [Procs -> ProcRow]
      BY <2>1 DEF RecoverPrecheck, ProcRow, Idle, RecoverPcs
    <3> QED
      BY <2>1, <3>1, CatalogUnchangedType, FencesUnchangedType DEF RecoverPrecheck
  <2>2. CASE RecoverController(p)
    <3> DEFINE s == proc[p].sid
    <3>1. s \in Sids /\ session[s].prop \in Proposals
      BY <2>2 DEF RecoverController, LocalsOK, LocalOK, RowsOK, RecoverPcs
    <3>2. OwnedDirty(s) \in SUBSET DirtyRow
      BY DEF OwnedDirty, CatalogTypeOK
    <3>3. RecoveryDrives(s) \in SUBSET Drives
      BY <3>1, <3>2, CatalogAssumption DEF RecoveryDrives, DirtyRow
    <3>4. KeysOf(RecoveryDrives(s)) \in SUBSET Keys
      BY <3>3, KeysOfType
    <3>a. [proc[p] EXCEPT !.pc = "recover_fence", !.keys = KeysOf(RecoveryDrives(s)),
                          !.owned = OwnedDirty(s)] \in ProcRow
      BY <3>2, <3>4 DEF ProcRow, RecoverPcs
    <3>5. proc' \in [Procs -> ProcRow]
      BY <2>2, <3>a DEF RecoverController
    <3> QED
      BY <2>2, <3>5, CatalogUnchangedType, HoldControllerType DEF RecoverController
  <2>3. CASE RecoverCommit(p)
    <3>1. proc' \in [Procs -> ProcRow]
      BY <2>3 DEF RecoverCommit, ProcRow, RecoverPcs
    <3> DEFINE s == proc[p].sid
    <3>a. s \in Sids
      BY <2>3 DEF RecoverCommit, LocalsOK, LocalOK, RecoverPcs
    <3>b. [session[s] EXCEPT !.state = "failed", !.ended = TRUE] \in SessionRow
      BY <3>a, SessionRowUpdate DEF CatalogTypeOK, TERMINAL_STATES, RESUMABLE_STATES
    <3>2. session' \in [Sids -> SessionRow]
      BY <2>3, <3>b DEF RecoverCommit, CatalogTypeOK
    <3> QED
      BY <2>3, <3>1, <3>2, SessionRowUpdateType, FencesUnchangedType DEF RecoverCommit
  <2>4. CASE RecoverUnlock(p)
    BY <2>4, <1>0, CatalogUnchangedType, CloseAllType DEF RecoverUnlock
  <2> QED
    BY <1>3, <2>1, <2>2, <2>3, <2>4 DEF RecoverNext
<1>4. ASSUME NEW p \in Procs, Crash(p) PROVE SessionTypeOK'
  BY <1>0, <1>4, CatalogUnchangedType, CloseAllType DEF Crash
<1>5. ASSUME NEW s \in Sids, Expire(s) PROVE SessionTypeOK'
  <2>1. session' \in [Sids -> SessionRow]
    BY <1>5 DEF Expire, CatalogTypeOK, SessionRow, Leases
  <2> QED
    BY <1>5, <2>1, SessionRowUpdateType, FencesUnchangedType DEF Expire
<1>6. ASSUME NEW f \in Facts, GraphWrite(f) \/ InvalidateApproval(f) PROVE SessionTypeOK'
  <2>1. SupersedeApprovals \in [Proposals -> ProposalRow]
    BY DEF SupersedeApprovals, CatalogTypeOK, ProposalRow, Lifecycles
  <2>2. CatalogTypeOK'
    BY <1>6, <2>1 DEF GraphWrite, InvalidateApproval, CatalogTypeOK, driveVars
  <2> QED
    BY <1>6, <2>2, FencesUnchangedType DEF GraphWrite, InvalidateApproval
<1>7. CASE UNCHANGED sessionVars
  BY <1>7, CatalogUnchangedType, FencesUnchangedType DEF sessionVars
<1> QED
  BY <1>1, <1>2, <1>3, <1>4, <1>5, <1>6, <1>7 DEF SessionNext, OperatorNext

-----------------------------------------------------------------------------
(* What a step does to the rows of execution_sessions *)

\* Every step but the one that inserts a row: identity, lineage and token of each row
\* stay, an ended row stays ended, and no row appears or vanishes.
SessionFrame ==
  /\ next_fencing_token' = next_fencing_token
  /\ \A s \in Sids :
       /\ session'[s].prop = session[s].prop
       /\ session'[s].pred = session[s].pred
       /\ session'[s].token = session[s].token
       /\ session[s].ended => session'[s].ended
       /\ session[s].state = "absent" => session'[s] = session[s]
       /\ session[s].state # "absent" => session'[s].state # "absent"
       /\ session'[s].state \in TERMINAL_STATES => session[s].state \in TERMINAL_STATES
                                                   \/ session'[s].ended

\* Every step that inserts no row is a SessionFrame.
LEMMA FrameStep ==
  ASSUME SessionTypeOK, LocalsOK, RowsOK, [SessionNext]_sessionVars,
         \A p \in Procs : ~StartCommit(p)
  PROVE  SessionFrame
<1>1. CASE UNCHANGED <<session, next_fencing_token>>
  BY <1>1 DEF SessionFrame
<1>2. session \in [Sids -> SessionRow]
  BY DEF SessionTypeOK, CatalogTypeOK
<1>3. ASSUME NEW p \in Procs, ClaimUpdate(p) PROVE SessionFrame
  <2>1. proc[p].sid \in Sids /\ session[proc[p].sid].state # "absent"
    BY <1>3 DEF ClaimUpdate, LocalsOK, LocalOK, FillPcs
  <2>2. next_fencing_token' = next_fencing_token
    BY <1>3 DEF ClaimUpdate, plannerVars
  <2>3. \/ session' = session
        \/ session' = [session EXCEPT ![proc[p].sid] = [@ EXCEPT !.state = "running", !.worker = p]]
    BY <1>3 DEF ClaimUpdate
  <2>4. "running" \notin TERMINAL_STATES
    BY DEF TERMINAL_STATES, RESUMABLE_STATES
  <2>5. CASE session' = [session EXCEPT ![proc[p].sid] = [@ EXCEPT !.state = "running", !.worker = p]]
    <3> DEFINE s == proc[p].sid
               row == [session[s] EXCEPT !.state = "running", !.worker = p]
    <3>1. /\ row.prop = session[s].prop
          /\ row.pred = session[s].pred
          /\ row.token = session[s].token
          /\ row.ended = session[s].ended
          /\ row.state = "running"
      BY <1>2, <2>1 DEF SessionRow
    <3>2. \A t \in Sids : session'[t] = IF t = s THEN row ELSE session[t]
      BY <1>2, <2>1, <2>5
    <3> HIDE DEF row, s
    <3> QED
      BY <2>1, <2>2, <2>4, <3>1, <3>2 DEF SessionFrame, s
  <2> QED
    BY <1>1, <2>2, <2>3, <2>5
<1>4. ASSUME NEW p \in Procs, Heartbeat(p) PROVE SessionFrame
  <2>1. proc[p].sid \in Sids /\ session[proc[p].sid].state # "absent"
    BY <1>4 DEF Heartbeat, LocalsOK, LocalOK, FillPcs
  <2>2. next_fencing_token' = next_fencing_token
    BY <1>4 DEF Heartbeat, plannerVars
  <2> QED
    BY <1>2, <1>4, <2>1, <2>2 DEF Heartbeat, SessionFrame, SessionRow
<1>5. ASSUME NEW p \in Procs, SessionWrite(p) PROVE SessionFrame
  <2>1. proc[p].sid \in Sids /\ session[proc[p].sid].state # "absent"
    BY <1>5 DEF SessionWrite, LocalsOK, LocalOK, FillPcs
  <2> QED
    BY <1>2, <1>5, <2>1 DEF SessionWrite, WriteAsSession, SessionFrame, SessionRow
<1>6. ASSUME NEW p \in Procs, NEW state \in TERMINAL_STATES, Terminalize(p, state)
      PROVE  SessionFrame
  <2>1. proc[p].sid \in Sids /\ session[proc[p].sid].state # "absent"
    BY <1>6 DEF Terminalize, LocalsOK, LocalOK, FillPcs
  <2>2. next_fencing_token' = next_fencing_token
    BY <1>6 DEF Terminalize, plannerVars
  <2> QED
    BY <1>2, <1>6, <2>1, <2>2
    DEF Terminalize, SessionFrame, SessionRow, TERMINAL_STATES, RESUMABLE_STATES
<1>7. ASSUME NEW s \in Sids, Expire(s) PROVE SessionFrame
  <2>1. session[s].state # "absent"
    BY <1>7 DEF Expire, LIVE_STATES
  <2>2. next_fencing_token' = next_fencing_token
    BY <1>7 DEF Expire, plannerVars
  <2> QED
    BY <1>2, <1>7, <2>1, <2>2 DEF Expire, SessionFrame, SessionRow
<1>8. ASSUME NEW p \in Procs, RecoverCommit(p) PROVE SessionFrame
  <2>1. proc[p].sid \in Sids /\ session[proc[p].sid].state # "absent"
    BY <1>8 DEF RecoverCommit, LocalsOK, LocalOK, RecoverPcs
  <2>2. next_fencing_token' = next_fencing_token
    BY <1>8 DEF RecoverCommit, plannerVars
  <2> QED
    BY <1>2, <1>8, <2>1, <2>2 DEF RecoverCommit, SessionFrame, SessionRow
<1>9. ASSUME NEW p \in Procs, StartNext(p) PROVE SessionFrame
  BY <1>1, <1>9 DEF StartNext, StartPreflight, StartController, HoldDriveFence, StartAdmit,
     StartReadRevision, StartUnlock, Refuse, catalogVars, plannerVars
<1>10. ASSUME NEW p \in Procs, ClaimRead(p) \/ SessionWriteRefused(p) PROVE SessionFrame
  BY <1>1, <1>10 DEF ClaimRead, SessionWriteRefused, catalogVars, plannerVars
<1>11. ASSUME NEW p \in Procs, NEW s \in Sids, RecoverPrecheck(p, s) PROVE SessionFrame
  BY <1>1, <1>11 DEF RecoverPrecheck, catalogVars, plannerVars
<1>12. ASSUME NEW p \in Procs, RecoverController(p) \/ RecoverUnlock(p) \/ Crash(p)
       PROVE  SessionFrame
  BY <1>1, <1>12 DEF RecoverController, RecoverUnlock, Crash, catalogVars, plannerVars
<1>13. ASSUME NEW f \in Facts, GraphWrite(f) \/ InvalidateApproval(f) PROVE SessionFrame
  BY <1>1, <1>13 DEF GraphWrite, InvalidateApproval
<1>14. CASE UNCHANGED sessionVars
  BY <1>1, <1>14 DEF sessionVars, catalogVars, plannerVars
<1> QED
  BY <1>3, <1>4, <1>5, <1>6, <1>7, <1>8, <1>9, <1>10, <1>11, <1>12, <1>13, <1>14
  DEF SessionNext, FillNext, RecoverNext, OperatorNext

\* The step that inserts a row: it was blank, no row is live, its token is above the
\* counter, its predecessor has ended.
LEMMA InsertStep ==
  ASSUME SessionInv, NEW p \in Procs, StartCommit(p)
  PROVE  \E s \in Sids :
           /\ NextSid(s)
           /\ session[s] = NoSession
           /\ Live = {}
           /\ session' = [session EXCEPT ![s] = NewSession(p)]
           /\ proc' = [proc EXCEPT ![p] = [@ EXCEPT !.pc = "start_unlock", !.sid = s]]
           /\ next_fencing_token' = NextToken(proc[p].pred)
           /\ proc[p].prop \in Proposals
           /\ proc[p].prop = active_approved
           /\ proposal[proc[p].prop].lifecycle = "approved"
           /\ UNCHANGED <<active_approved, proposal>>
<1>1. proc[p].prop \in Proposals
  BY DEF SessionInv, LocalsOK, LocalOK, StartCommit
<1>2. /\ proc[p].prop = active_approved
      /\ proposal[proc[p].prop].lifecycle = "approved"
  BY <1>1, CatalogAssumption DEF StartCommit, StartAuthority, SelectedApproval
<1>3. Live = {}
  BY DEF StartCommit, StartAuthority
<1>4. PICK s \in Sids : /\ NextSid(s)
                        /\ session' = [session EXCEPT ![s] = NewSession(p)]
                        /\ proc' = [proc EXCEPT ![p] = [@ EXCEPT !.pc = "start_unlock", !.sid = s]]
  BY DEF StartCommit
<1>5. session[s] = NoSession
  BY <1>4 DEF NextSid, SessionInv, RowsOK
<1> QED
  BY <1>1, <1>2, <1>3, <1>4, <1>5 DEF StartCommit

-----------------------------------------------------------------------------
(* One lemma per conjunct of the invariant *)

\* The shape of the rows: an inserted row is a full one, and inserted rows stay so.
LEMMA RowsStep ==
  ASSUME SessionInv, [SessionNext]_sessionVars
  PROVE  RowsOK' /\ Contiguous'
<1> USE DEF SessionInv
<1>1. ASSUME NEW p \in Procs, StartCommit(p) PROVE RowsOK' /\ Contiguous'
  <2>1. PICK s \in Sids : /\ NextSid(s)
                          /\ session' = [session EXCEPT ![s] = NewSession(p)]
                          /\ proc[p].prop \in Proposals
    BY <1>1, InsertStep
  <2>2. session \in [Sids -> SessionRow]
    BY DEF SessionTypeOK, CatalogTypeOK
  <2>3. /\ session'[s].state = "starting"
        /\ session'[s].prop = proc[p].prop
        /\ \A t \in Sids : t # s => session'[t] = session[t]
    BY <2>1, <2>2 DEF NewSession
  <2>4. RowsOK'
    BY <2>1, <2>3 DEF RowsOK, TERMINAL_STATES, RESUMABLE_STATES
  <2>5. Contiguous'
    BY <2>1, <2>3, CatalogAssumption DEF Contiguous, NextSid
  <2> QED
    BY <2>4, <2>5
<1>2. CASE SessionFrame
  <2>1. RowsOK'
    BY <1>2 DEF SessionFrame, RowsOK
  <2>2. Contiguous'
    BY <1>2 DEF SessionFrame, Contiguous, RowsOK
  <2> QED
    BY <2>1, <2>2
<1> QED
  BY <1>1, <1>2, FrameStep

\* Tokens: the new row is the last one and its token is above the counter, which is
\* above every token given out.
LEMMA TokensStep ==
  ASSUME SessionInv, [SessionNext]_sessionVars
  PROVE  TokensIncrease'
<1> USE DEF SessionInv
<1>0. session \in [Sids -> SessionRow] /\ CatalogTypeOK
  BY DEF SessionTypeOK, CatalogTypeOK
<1>1. ASSUME NEW p \in Procs, StartCommit(p) PROVE TokensIncrease'
  <2> DEFINE tok == NextToken(proc[p].pred)
  <2>1. PICK n \in Sids : /\ NextSid(n)
                          /\ session' = [session EXCEPT ![n] = NewSession(p)]
                          /\ next_fencing_token' = tok
    BY <1>1, InsertStep
  <2>2. proc[p].pred \in Sids \cup {None}
    BY DEF SessionTypeOK, ProcRow
  <2>3. tok \in Nat /\ tok > next_fencing_token /\ next_fencing_token \in Nat
    BY <1>0, <2>2, NextTokenAbove DEF CatalogTypeOK
  <2>4. /\ session'[n].token = tok
        /\ \A t \in Sids : t # n => session'[t] = session[t]
    BY <1>0, <2>1 DEF NewSession
  <2>5. \A t \in Sids : t > n => session[t].state = "absent"
    BY <2>1, CatalogAssumption DEF NextSid, Contiguous
  <2>6. \A t \in Sids : session[t].token \in Nat /\ session[t].token <= next_fencing_token
    BY <1>0 DEF TokensIncrease, SessionRow
  <2>7. \A t \in Sids : session'[t].token <= tok
    BY <2>3, <2>4, <2>6
  <2>8. ASSUME NEW s \in Sids, NEW t \in Sids, s < t, session'[t].state # "absent"
        PROVE  session'[s].token < session'[t].token
    <3>1. CASE t = n
      BY <2>3, <2>4, <2>6, <2>8, <3>1, CatalogAssumption
    <3>2. CASE t # n
      <4>1. session[t].state # "absent" /\ session'[t] = session[t]
        BY <2>4, <2>8, <3>2
      <4>2. s # n
        BY <2>5, <2>8, <4>1
      <4> QED
        BY <2>4, <2>8, <4>1, <4>2 DEF TokensIncrease
    <3> QED
      BY <3>1, <3>2
  <2> QED
    BY <2>1, <2>7, <2>8 DEF TokensIncrease
<1>2. CASE SessionFrame
  BY <1>2 DEF SessionFrame, TokensIncrease
<1> QED
  BY <1>1, <1>2, FrameStep

\* Lineage: what StartAdmit saw of the predecessor is still true when the row is
\* inserted, and an ended row keeps its approval, its token and its end.
LEMMA LineageStep ==
  ASSUME SessionInv, [SessionNext]_sessionVars
  PROVE  ResumeLineage'
<1> USE DEF SessionInv
<1>0. session \in [Sids -> SessionRow] /\ CatalogTypeOK
  BY DEF SessionTypeOK, CatalogTypeOK
<1>1. ASSUME NEW p \in Procs, StartCommit(p) PROVE ResumeLineage'
  <2>1. PICK n \in Sids : /\ session[n] = NoSession
                          /\ session' = [session EXCEPT ![n] = NewSession(p)]
    BY <1>1, InsertStep
  <2>2. proc[p].pred \in Sids \cup {None}
    BY DEF SessionTypeOK, ProcRow
  <2>3. /\ session'[n].pred = proc[p].pred
        /\ session'[n].prop = proc[p].prop
        /\ session'[n].token = NextToken(proc[p].pred)
        /\ \A t \in Sids : t # n => session'[t] = session[t]
    BY <1>0, <2>1 DEF NewSession
  <2>4. ~session[n].ended /\ session[n].pred = None
    BY <2>1 DEF NoSession
  <2>5. ASSUME NEW s \in Sids, NEW r \in Sids, session'[s].pred = r
        PROVE  /\ session'[r].prop = session'[s].prop
               /\ session'[r].ended
               /\ session'[r].token < session'[s].token
    <3>1. CASE s = n
      <4>1. proc[p].pred = r /\ r # None
        BY <2>3, <2>5, <3>1, CatalogAssumption
      <4>2. session[r].ended /\ session[r].prop = proc[p].prop
        BY <1>1, <4>1 DEF LocalsOK, LocalOK, StartCommit
      <4>3. session'[r] = session[r]
        BY <2>3, <2>4, <4>2
      <4>4. NextToken(r) > session[r].token
        BY <1>0, <4>1, NextTokenAbove
      <4>5. session[r].token \in Nat /\ NextToken(r) \in Nat
        BY <1>0, NextTokenAbove DEF SessionRow
      <4> QED
        BY <2>3, <3>1, <4>1, <4>2, <4>3, <4>4, <4>5
    <3>2. CASE s # n
      <4>1. session'[s] = session[s]
        BY <2>3, <3>2
      <4>2. session[r].ended
        BY <2>5, <4>1 DEF ResumeLineage
      <4>3. session'[r] = session[r]
        BY <2>3, <2>4, <4>2
      <4> QED
        BY <2>5, <4>1, <4>3 DEF ResumeLineage
    <3> QED
      BY <3>1, <3>2
  <2> QED
    BY <2>5 DEF ResumeLineage
<1>2. CASE SessionFrame
  BY <1>2 DEF SessionFrame, ResumeLineage
<1> QED
  BY <1>1, <1>2, FrameStep

\* One live session: a row is inserted only when none is live, and the only other step
\* that can make a row live, the claim, is refused by the index unless it is the one.
LEMMA OneLiveStep ==
  ASSUME SessionInv, [SessionNext]_sessionVars
  PROVE  OneLive'
<1> USE DEF SessionInv
<1>0. session \in [Sids -> SessionRow]
  BY DEF SessionTypeOK, CatalogTypeOK
<1>1. ASSUME Live' \subseteq Live PROVE OneLive'
  BY <1>1 DEF OneLive
<1>2. ASSUME UNCHANGED session PROVE OneLive'
  BY <1>1, <1>2 DEF Live
<1>3. ASSUME NEW p \in Procs, StartNext(p) PROVE OneLive'
  <2>1. CASE StartCommit(p)
    <3>1. PICK n \in Sids : /\ Live = {}
                            /\ session' = [session EXCEPT ![n] = NewSession(p)]
      BY <2>1, InsertStep
    <3>2. Live' \subseteq {n}
      BY <1>0, <3>1 DEF Live
    <3> QED
      BY <3>2 DEF OneLive
  <2> QED
    BY <1>2, <1>3, <2>1 DEF StartNext, StartPreflight, StartController, HoldDriveFence,
       StartAdmit, StartReadRevision, StartUnlock, Refuse, catalogVars
<1>4. ASSUME NEW p \in Procs, ClaimUpdate(p) PROVE OneLive'
  <2>1. CASE Live \subseteq {proc[p].sid}
    <3>1. Live' \subseteq {proc[p].sid}
      BY <1>0, <1>4, <2>1 DEF ClaimUpdate, Live
    <3> QED
      BY <3>1 DEF OneLive
  <2> QED
    BY <1>2, <1>4, <2>1 DEF ClaimUpdate
<1>5. ASSUME NEW p \in Procs, Heartbeat(p) PROVE OneLive'
  BY <1>0, <1>1, <1>5 DEF Heartbeat, Live, SessionRow
<1>6. ASSUME NEW p \in Procs, SessionWrite(p) PROVE OneLive'
  BY <1>0, <1>1, <1>6 DEF SessionWrite, WriteAsSession, Live, SessionRow
<1>7. ASSUME NEW p \in Procs, NEW state \in TERMINAL_STATES, Terminalize(p, state) PROVE OneLive'
  <2>1. state \notin LIVE_STATES
    BY DEF TERMINAL_STATES, RESUMABLE_STATES, LIVE_STATES
  <2>2. Live' \subseteq Live
    BY <1>0, <1>7, <2>1 DEF Terminalize, Live, SessionRow
  <2> QED
    BY <1>1, <2>2
<1>8. ASSUME NEW s \in Sids, Expire(s) PROVE OneLive'
  BY <1>0, <1>1, <1>8 DEF Expire, Live, SessionRow
<1>9. ASSUME NEW p \in Procs, RecoverCommit(p) PROVE OneLive'
  BY <1>0, <1>1, <1>9 DEF RecoverCommit, Live, SessionRow, LIVE_STATES
<1>10. ASSUME NEW p \in Procs, ClaimRead(p) \/ SessionWriteRefused(p) PROVE OneLive'
  BY <1>2, <1>10 DEF ClaimRead, SessionWriteRefused, catalogVars
<1>11. ASSUME NEW p \in Procs, NEW s \in Sids, RecoverPrecheck(p, s) PROVE OneLive'
  BY <1>2, <1>11 DEF RecoverPrecheck, catalogVars
<1>12. ASSUME NEW p \in Procs, RecoverController(p) \/ RecoverUnlock(p) \/ Crash(p) PROVE OneLive'
  BY <1>2, <1>12 DEF RecoverController, RecoverUnlock, Crash, catalogVars
<1>13. ASSUME NEW f \in Facts, GraphWrite(f) \/ InvalidateApproval(f) PROVE OneLive'
  BY <1>2, <1>13 DEF GraphWrite, InvalidateApproval
<1>14. CASE UNCHANGED sessionVars
  BY <1>2, <1>14 DEF sessionVars, catalogVars
<1> QED
  BY <1>3, <1>4, <1>5, <1>6, <1>7, <1>8, <1>9, <1>10, <1>11, <1>12, <1>13, <1>14
  DEF SessionNext, FillNext, RecoverNext, OperatorNext

\* The pinned approval: approvals are withdrawn only while no session is live, and a
\* row that becomes live without being inserted had its terminal_at already.
LEMMA PinnedStep ==
  ASSUME SessionInv, [SessionNext]_sessionVars
  PROVE  PinnedApproval'
<1> USE DEF SessionInv
<1>0. session \in [Sids -> SessionRow]
  BY DEF SessionTypeOK, CatalogTypeOK
<1>1. ASSUME NEW p \in Procs, StartCommit(p) PROVE PinnedApproval'
  <2>1. PICK n \in Sids : /\ Live = {}
                          /\ session' = [session EXCEPT ![n] = NewSession(p)]
                          /\ proc[p].prop = active_approved
                          /\ proposal[proc[p].prop].lifecycle = "approved"
                          /\ UNCHANGED <<active_approved, proposal>>
    BY <1>1, InsertStep
  <2>2. Live' \subseteq {n} /\ session'[n].prop = proc[p].prop
    BY <1>0, <2>1 DEF Live, NewSession
  <2> QED
    BY <2>1, <2>2 DEF PinnedApproval
<1>2. ASSUME NEW f \in Facts, InvalidateApproval(f) PROVE PinnedApproval'
  BY <1>2 DEF InvalidateApproval, PinnedApproval, Live
<1>3. ASSUME SessionFrame, UNCHANGED <<active_approved, proposal>> PROVE PinnedApproval'
  <2>1. ASSUME NEW s \in Sids, session'[s].state \in LIVE_STATES, ~session'[s].ended
        PROVE  session[s].state \in LIVE_STATES /\ ~session[s].ended
    <3>1. ~session[s].ended
      BY <1>3, <2>1 DEF SessionFrame
    <3>2. session[s].state # "absent"
      BY <1>3, <2>1 DEF SessionFrame, LIVE_STATES
    <3>3. session[s].state \notin TERMINAL_STATES
      BY <3>1 DEF RowsOK
    <3> QED
      BY <1>0, <3>1, <3>2, <3>3 DEF SessionRow
  <2>2. ASSUME NEW s \in Live', ~session'[s].ended
        PROVE  /\ session'[s].prop = active_approved'
               /\ proposal'[session'[s].prop].lifecycle = "approved"
    <3>1. s \in Sids /\ s \in Live /\ ~session[s].ended
      BY <2>1, <2>2 DEF Live
    <3> QED
      BY <1>3, <3>1 DEF PinnedApproval, SessionFrame
  <2> QED
    BY <2>2 DEF PinnedApproval
<1>4. \/ UNCHANGED <<active_approved, proposal>>
      \/ \E f \in Facts : InvalidateApproval(f)
  <2>1. ASSUME NEW p \in Procs, StartNext(p) PROVE UNCHANGED <<active_approved, proposal>>
    BY <2>1 DEF StartNext, StartPreflight, StartController, HoldDriveFence, StartAdmit,
       StartReadRevision, StartCommit, StartUnlock, Refuse, catalogVars, plannerVars
  <2>2. ASSUME NEW p \in Procs, FillNext(p) \/ SessionWrite(p)
        PROVE  UNCHANGED <<active_approved, proposal>>
    BY <2>2 DEF FillNext, ClaimRead, ClaimUpdate, Heartbeat, SessionWrite, WriteAsSession,
       SessionWriteRefused, Terminalize, catalogVars, plannerVars
  <2>3. ASSUME NEW p \in Procs, RecoverNext(p) \/ Crash(p)
        PROVE  UNCHANGED <<active_approved, proposal>>
    BY <2>3 DEF RecoverNext, RecoverPrecheck, RecoverController, RecoverCommit, RecoverUnlock,
       Crash, catalogVars, plannerVars
  <2>4. ASSUME NEW s \in Sids, Expire(s) PROVE UNCHANGED <<active_approved, proposal>>
    BY <2>4 DEF Expire, plannerVars
  <2>5. ASSUME NEW f \in Facts, GraphWrite(f) PROVE UNCHANGED <<active_approved, proposal>>
    BY <2>5 DEF GraphWrite
  <2> QED
    BY <2>1, <2>2, <2>3, <2>4, <2>5
    DEF SessionNext, OperatorNext, sessionVars, catalogVars, plannerVars
<1> QED
  BY <1>1, <1>2, <1>3, <1>4, FrameStep

\* The locals of a process that does not move keep their meaning, whatever the others
\* do to the rows meanwhile.
LEMMA LocalsKept ==
  ASSUME SessionInv, [SessionNext]_sessionVars, NEW r \in Procs, proc'[r] = proc[r]
  PROVE  LocalOK(r)'
<1> USE DEF SessionInv
<1>0. session \in [Sids -> SessionRow] /\ proc[r] \in ProcRow
  BY DEF SessionTypeOK, CatalogTypeOK
<1> DEFINE Kept(s) ==
             /\ session[s].state # "absent" => session'[s].state # "absent"
             /\ session[s].ended => session'[s].ended /\ session'[s].prop = session[s].prop
<1>1. \A s \in Sids : Kept(s)
  <2>1. ASSUME NEW p \in Procs, StartCommit(p) PROVE \A s \in Sids : Kept(s)
    <3>1. PICK n \in Sids : /\ session[n] = NoSession
                            /\ session' = [session EXCEPT ![n] = NewSession(p)]
      BY <2>1, InsertStep
    <3>2. session[n].state = "absent" /\ ~session[n].ended
      BY <3>1 DEF NoSession
    <3> QED
      BY <1>0, <3>1, <3>2
  <2>2. CASE SessionFrame
    BY <2>2 DEF SessionFrame
  <2> QED
    BY <2>1, <2>2, FrameStep
<1>2. LocalOK(r)
  BY DEF LocalsOK
<1>3. proc[r].pred \in Sids \cup {None}
  BY <1>0 DEF ProcRow
<1> QED
  BY <1>1, <1>2, <1>3 DEF LocalOK

\* The locals of the process that moves.
LEMMA LocalsStep ==
  ASSUME SessionInv, [SessionNext]_sessionVars
  PROVE  LocalsOK'
<1> USE DEF SessionInv
<1>0. /\ session \in [Sids -> SessionRow]
      /\ proc \in [Procs -> ProcRow]
  BY DEF SessionTypeOK, CatalogTypeOK
<1>1. ASSUME NEW p \in Procs, NEW row, proc' = [proc EXCEPT ![p] = row], LocalOK(p)'
      PROVE  LocalsOK'
  <2>1. ASSUME NEW r \in Procs, r # p PROVE LocalOK(r)'
    <3>1. proc'[r] = proc[r]
      BY <1>0, <1>1, <2>1
    <3> QED
      BY <3>1, LocalsKept
  <2> QED
    BY <1>1, <2>1 DEF LocalsOK
<1>2. ASSUME UNCHANGED proc PROVE LocalsOK'
  BY <1>2, LocalsKept DEF LocalsOK
<1>3. ASSUME NEW p \in Procs, proc' = [proc EXCEPT ![p] = Idle] PROVE LocalsOK'
  <2>1. proc'[p].pc = "idle"
    BY <1>0, <1>3 DEF Idle
  <2>2. LocalOK(p)'
    BY <2>1 DEF LocalOK, FillPcs, RecoverPcs
  <2> QED
    BY <1>1, <1>3, <2>2
\* A step that moves the program counter within the worker or the recovery.
<1>4. ASSUME NEW p \in Procs, NEW pc \in FillPcs \cup RecoverPcs, UNCHANGED session,
             proc[p].pc \in FillPcs \cup RecoverPcs,
             proc' = [proc EXCEPT ![p].pc = pc]
      PROVE  LocalsOK'
  <2>1. proc' = [proc EXCEPT ![p] = [proc[p] EXCEPT !.pc = pc]]
    BY <1>4
  <2>2. proc'[p].pc = pc /\ proc'[p].sid = proc[p].sid
    BY <1>0, <1>4 DEF ProcRow
  <2>3. proc[p].sid \in Sids /\ session[proc[p].sid].state # "absent"
    BY <1>4 DEF LocalsOK, LocalOK
  <2>4. LocalOK(p)'
    BY <1>4, <2>2, <2>3 DEF LocalOK, FillPcs, RecoverPcs
  <2> QED
    BY <1>1, <2>1, <2>4
<1>5. ASSUME NEW p \in Procs, StartNext(p) PROVE LocalsOK'
  <2>1. ASSUME NEW req \in Proposals \cup {None}, NEW pred \in Sids \cup {None},
               StartPreflight(p, req, pred)
        PROVE  LocalsOK'
    <3>1. proc'[p].pc = "start_ctrl"
      BY <1>0, <2>1 DEF StartPreflight, Idle
    <3>2. LocalOK(p)'
      BY <3>1 DEF LocalOK, FillPcs, RecoverPcs
    <3> QED
      BY <1>1, <2>1, <3>2 DEF StartPreflight
  <2>2. CASE StartController(p)
    <3> DEFINE q == SelectedApproval(proc[p].req)
    <3>1. q \in Proposals
      BY <2>2, SelectedApprovalType DEF StartController
    <3>2. proc'[p].pc = "start_fence" /\ proc'[p].prop = q
      BY <1>0, <2>2 DEF StartController, ProcRow
    <3>3. LocalOK(p)'
      BY <3>1, <3>2 DEF LocalOK, FillPcs, RecoverPcs
    <3> QED
      BY <1>1, <2>2, <3>3 DEF StartController
  <2>3. CASE HoldDriveFence(p)
    BY <1>2, <2>3 DEF HoldDriveFence
  <2>4. CASE StartAdmit(p)
    <3>1. /\ proc[p].prop \in Proposals
          /\ proc[p].pred \in Sids \cup {None}
      BY <1>0, <2>4 DEF LocalsOK, LocalOK, StartAdmit, ProcRow
    <3>2. proc[p].pred # None => /\ session[proc[p].pred].ended
                                 /\ session[proc[p].pred].prop = proc[p].prop
      BY <2>4, <3>1 DEF StartAdmit, PredecessorOK, RowsOK, TERMINAL_STATES
    <3>3. /\ proc'[p].pc = "start_admitted"
          /\ proc'[p].prop = proc[p].prop
          /\ proc'[p].pred = proc[p].pred
      BY <1>0, <2>4 DEF StartAdmit, ProcRow
    <3>4. UNCHANGED session
      BY <2>4 DEF StartAdmit, catalogVars
    <3>5. LocalOK(p)'
      BY <3>1, <3>2, <3>3, <3>4 DEF LocalOK, FillPcs, RecoverPcs
    <3>6. proc' = [proc EXCEPT ![p] = [proc[p] EXCEPT !.pc = "start_admitted"]]
      BY <2>4 DEF StartAdmit
    <3> QED
      BY <1>1, <3>5, <3>6
  <2>5. CASE StartReadRevision(p)
    <3>1. /\ proc'[p].pc = "start_bound"
          /\ proc'[p].prop = proc[p].prop
          /\ proc'[p].pred = proc[p].pred
      BY <1>0, <2>5 DEF StartReadRevision, ProcRow
    <3>2. UNCHANGED session /\ proc[p].pc = "start_admitted"
      BY <2>5 DEF StartReadRevision, catalogVars
    <3>3. LocalOK(p)'
      BY <3>1, <3>2 DEF LocalsOK, LocalOK, FillPcs, RecoverPcs
    <3> QED
      BY <1>1, <2>5, <3>3 DEF StartReadRevision
  <2>6. CASE StartCommit(p)
    <3>1. PICK n \in Sids :
             /\ session' = [session EXCEPT ![n] = NewSession(p)]
             /\ proc' = [proc EXCEPT ![p] = [@ EXCEPT !.pc = "start_unlock", !.sid = n]]
      BY <2>6, InsertStep
    <3>2. session'[n].state = "starting"
      BY <1>0, <3>1 DEF NewSession
    <3>3. proc'[p].pc = "start_unlock" /\ proc'[p].sid = n
      BY <1>0, <3>1 DEF ProcRow
    <3>4. LocalOK(p)'
      BY <3>2, <3>3 DEF LocalOK
    <3> QED
      BY <1>1, <3>1, <3>4
  <2>7. CASE StartUnlock(p)
    <3>1. proc'[p].pc = "claim" /\ proc'[p].sid = proc[p].sid
      BY <1>0, <2>7 DEF StartUnlock, Idle
    <3>2. proc[p].sid \in Sids /\ session[proc[p].sid].state # "absent"
      BY <2>7 DEF StartUnlock, LocalsOK, LocalOK
    <3>3. LocalOK(p)'
      BY <2>7, <3>1, <3>2 DEF StartUnlock, LocalOK, catalogVars
    <3> QED
      BY <1>1, <2>7, <3>3 DEF StartUnlock
  <2>8. CASE Refuse(p)
    BY <1>3, <2>8 DEF Refuse
  <2> QED
    BY <1>5, <2>1, <2>2, <2>3, <2>4, <2>5, <2>6, <2>7, <2>8 DEF StartNext
<1>6. ASSUME NEW p \in Procs, ClaimUpdate(p) \/ Heartbeat(p) PROVE LocalsOK'
  <2>1. PICK pc \in FillPcs : \/ proc' = [proc EXCEPT ![p].pc = pc]
                              \/ proc' = proc
    BY <1>6 DEF ClaimUpdate, Heartbeat, FillPcs
  <2>2. proc[p].sid \in Sids /\ session[proc[p].sid].state # "absent"
    BY <1>6 DEF ClaimUpdate, Heartbeat, LocalsOK, LocalOK, FillPcs
  <2>3. session'[proc[p].sid].state # "absent"
    BY <1>0, <1>6, <2>2 DEF ClaimUpdate, Heartbeat, SessionRow
  <2>4. CASE proc' = [proc EXCEPT ![p].pc = pc]
    <3>1. proc'[p].pc = pc /\ proc'[p].sid = proc[p].sid
      BY <1>0, <2>4 DEF ProcRow
    <3>2. LocalOK(p)'
      BY <2>2, <2>3, <3>1 DEF LocalOK, FillPcs
    <3>3. proc' = [proc EXCEPT ![p] = [proc[p] EXCEPT !.pc = pc]]
      BY <2>4
    <3> QED
      BY <1>1, <3>2, <3>3
  <2> QED
    BY <1>2, <2>1, <2>4
<1>7. ASSUME NEW p \in Procs, ClaimRead(p) \/ SessionWriteRefused(p) PROVE LocalsOK'
  BY <1>4, <1>7 DEF ClaimRead, SessionWriteRefused, FillPcs, catalogVars
<1>8. ASSUME NEW p \in Procs, NEW state, SessionWrite(p) \/ Terminalize(p, state) PROVE LocalsOK'
  BY <1>2, <1>3, <1>8 DEF SessionWrite, Terminalize
<1>9. ASSUME NEW p \in Procs, NEW s \in Sids, RecoverPrecheck(p, s) PROVE LocalsOK'
  <2>1. session[s].state # "absent"
    BY <1>9 DEF RecoverPrecheck, RowsOK, NoSession
  <2>2. proc'[p].pc = "recover_ctrl" /\ proc'[p].sid = s
    BY <1>0, <1>9 DEF RecoverPrecheck, Idle
  <2>3. LocalOK(p)'
    BY <1>9, <2>1, <2>2 DEF RecoverPrecheck, LocalOK, catalogVars
  <2> QED
    BY <1>1, <1>9, <2>3 DEF RecoverPrecheck
<1>10. ASSUME NEW p \in Procs, RecoverController(p) PROVE LocalsOK'
  <2>1. proc'[p].pc = "recover_fence" /\ proc'[p].sid = proc[p].sid
    BY <1>0, <1>10 DEF RecoverController, ProcRow
  <2>2. proc[p].sid \in Sids /\ session[proc[p].sid].state # "absent"
    BY <1>10 DEF RecoverController, LocalsOK, LocalOK, RecoverPcs
  <2>3. LocalOK(p)'
    BY <1>10, <2>1, <2>2 DEF RecoverController, LocalOK, catalogVars
  <2> QED
    BY <1>1, <1>10, <2>3 DEF RecoverController
<1>11. ASSUME NEW p \in Procs, RecoverCommit(p) PROVE LocalsOK'
  <2>1. proc'[p].pc = "recover_unlock" /\ proc'[p].sid = proc[p].sid
    BY <1>0, <1>11 DEF RecoverCommit, ProcRow
  <2>2. proc[p].sid \in Sids
    BY <1>11 DEF RecoverCommit, LocalsOK, LocalOK, RecoverPcs
  <2>3. session'[proc[p].sid].state # "absent"
    BY <1>0, <1>11, <2>2 DEF RecoverCommit, SessionRow
  <2>4. LocalOK(p)'
    BY <2>1, <2>2, <2>3 DEF LocalOK
  <2>5. proc' = [proc EXCEPT ![p] = [proc[p] EXCEPT !.pc = "recover_unlock"]]
    BY <1>11 DEF RecoverCommit
  <2> QED
    BY <1>1, <2>4, <2>5
<1>12. ASSUME NEW p \in Procs, RecoverUnlock(p) \/ Crash(p) PROVE LocalsOK'
  BY <1>3, <1>12 DEF RecoverUnlock, Crash
<1>13. CASE (\E s \in Sids : Expire(s)) \/ OperatorNext \/ UNCHANGED sessionVars
  BY <1>2, <1>13 DEF Expire, OperatorNext, GraphWrite, InvalidateApproval, sessionVars
<1> QED
  BY <1>5, <1>6, <1>7, <1>8, <1>9, <1>10, <1>11, <1>12, <1>13
  DEF SessionNext, FillNext, RecoverNext

-----------------------------------------------------------------------------
(* Theorems *)

\* The invariant holds of an approved plan that no session has executed yet.
LEMMA SessionInvInit == SessionInit => SessionInv
<1> SUFFICES ASSUME SessionInit PROVE SessionInv
  OBVIOUS
<1>1. SessionTypeOK
  BY TypeInit
<1>2. \A s \in Sids : session[s] = NoSession
  BY DEF SessionInit
<1>3. \A p \in Procs : proc[p].pc = "idle"
  BY DEF SessionInit, Idle
<1>4. LocalsOK
  BY <1>3 DEF LocalsOK, LocalOK, FillPcs, RecoverPcs
<1>5. \A s \in Sids : /\ session[s].state = "absent"
                      /\ session[s].pred = None
                      /\ session[s].token = 0
  BY <1>2 DEF NoSession
<1>6. RowsOK /\ Contiguous
  BY <1>2, <1>5 DEF RowsOK, Contiguous, TERMINAL_STATES, RESUMABLE_STATES
<1>7. Live = {}
  BY <1>5 DEF Live, LIVE_STATES
<1>8. OneLive /\ PinnedApproval
  BY <1>7 DEF OneLive, PinnedApproval
<1>9. TokensIncrease
  BY <1>5 DEF SessionInit, TokensIncrease
<1>10. ResumeLineage
  BY <1>5, CatalogAssumption DEF ResumeLineage
<1> QED
  BY <1>1, <1>4, <1>6, <1>8, <1>9, <1>10 DEF SessionInv

\* Every step of every process, of the clock and of the operator preserves it.
LEMMA SessionInvStep == SessionInv /\ [SessionNext]_sessionVars => SessionInv'
<1> SUFFICES ASSUME SessionInv, [SessionNext]_sessionVars PROVE SessionInv'
  OBVIOUS
<1>1. SessionTypeOK'
  BY TypeStep DEF SessionInv
<1> QED
  BY <1>1, LocalsStep, RowsStep, OneLiveStep, TokensStep, PinnedStep, LineageStep DEF SessionInv

\* The invariant holds in every reachable state.
THEOREM SessionInvariant == SessionSpec => []SessionInv
BY SessionInvInit, SessionInvStep, PTL DEF SessionSpec

\* Every variable keeps its type: rows of the catalog, locks and program points.
THEOREM TypeCorrect == SessionSpec => []SessionTypeOK
<1>1. SessionInv => SessionTypeOK
  BY DEF SessionInv
<1> QED
  BY <1>1, SessionInvariant, PTL

\* At most one session is live, for any number of processes starting, claiming,
\* recovering and crashing.
THEOREM SingleLiveSession == SessionSpec => []OneLive
<1>1. SessionInv => OneLive
  BY DEF SessionInv
<1> QED
  BY <1>1, SessionInvariant, PTL

\* Fencing tokens strictly increase with the order of insertion.
THEOREM FencingTokensIncrease == SessionSpec => []TokensIncrease
<1>1. SessionInv => TokensIncrease
  BY DEF SessionInv
<1> QED
  BY <1>1, SessionInvariant, PTL

\* A live session executes the active approval.
THEOREM ApprovalPinned == SessionSpec => []PinnedApproval
<1>1. SessionInv => PinnedApproval
  BY DEF SessionInv
<1> QED
  BY <1>1, SessionInvariant, PTL

\* A resumed session continues an ended session of the same approval.
THEOREM LineageSound == SessionSpec => []ResumeLineage
<1>1. SessionInv => ResumeLineage
  BY DEF SessionInv
<1> QED
  BY <1>1, SessionInvariant, PTL

\* Attempts are ordered by their tokens and by their predecessors.
THEOREM AttemptsInOrder == SessionSpec => []AttemptsOrdered
<1>1. TokensIncrease /\ ResumeLineage => AttemptsOrdered
  BY DEF AttemptsOrdered
<1> QED
  BY <1>1, FencingTokensIncrease, LineageSound, PTL

\* No write but the session's own advances planner_revision under a live session.
LEMMA LiveRevision == SessionInv /\ [SessionNext]_sessionVars => LiveRevisionStep
<1> SUFFICES ASSUME SessionInv, [SessionNext]_sessionVars,
                    NEW s \in Sids, session[s].state \in LIVE_STATES,
                    planner_revision' # planner_revision
             PROVE  session'[s].bound = planner_revision'
  BY DEF LiveRevisionStep
<1>0. session \in [Sids -> SessionRow] /\ s \in Live
  BY DEF SessionInv, SessionTypeOK, CatalogTypeOK, Live
<1>1. ASSUME NEW p \in Procs, SessionWrite(p) PROVE session'[s].bound = planner_revision'
  <2>1. proc[p].sid \in Live
    BY <1>1 DEF SessionWrite, WriteAsSession, SessionInv, LocalsOK, LocalOK, FillPcs, Live
  <2>2. proc[p].sid = s
    BY <1>0, <2>1 DEF SessionInv, OneLive
  <2> QED
    BY <1>0, <1>1, <2>2 DEF SessionWrite, WriteAsSession, SessionRow
<1>2. ASSUME NEW p \in Procs, StartNext(p) PROVE FALSE
  BY <1>2 DEF StartNext, StartPreflight, StartController, HoldDriveFence, StartAdmit,
     StartReadRevision, StartCommit, StartUnlock, Refuse, catalogVars, plannerVars
<1>3. ASSUME NEW p \in Procs, FillNext(p) PROVE FALSE
  BY <1>3 DEF FillNext, ClaimRead, ClaimUpdate, Heartbeat, SessionWriteRefused, Terminalize,
     catalogVars, plannerVars
<1>4. ASSUME NEW p \in Procs, RecoverNext(p) \/ Crash(p) PROVE FALSE
  BY <1>4 DEF RecoverNext, RecoverPrecheck, RecoverController, RecoverCommit, RecoverUnlock,
     Crash, catalogVars, plannerVars
<1>5. ASSUME NEW t \in Sids, Expire(t) PROVE FALSE
  BY <1>5 DEF Expire, plannerVars
<1>6. ASSUME NEW f \in Facts, GraphWrite(f) \/ InvalidateApproval(f) PROVE FALSE
  BY <1>0, <1>6 DEF GraphWrite, InvalidateApproval
<1> QED
  BY <1>1, <1>2, <1>3, <1>4, <1>5, <1>6
  DEF SessionNext, OperatorNext, sessionVars, catalogVars, plannerVars

\* While a session stays live the catalog's revision is the session's own.
THEOREM RevisionOwned == SessionSpec => RevisionOwnedByLive
BY SessionInvariant, LiveRevision, PTL DEF SessionSpec, RevisionOwnedByLive

\* The transaction of recovery is the only step from recover_fence to recover_unlock.
LEMMA Renewal == SessionInv /\ [SessionNext]_sessionVars => RenewalStep
<1> SUFFICES ASSUME SessionInv, [SessionNext]_sessionVars, NEW p \in Procs,
                    proc[p].pc = "recover_fence", proc'[p].pc = "recover_unlock"
             PROVE  /\ session[proc[p].sid].lease = "expired"
                    /\ session'[proc[p].sid] # session[proc[p].sid]
  BY DEF RenewalStep
<1>0. proc \in [Procs -> ProcRow] /\ session \in [Sids -> SessionRow]
  BY DEF SessionInv, SessionTypeOK, CatalogTypeOK
<1>1. CASE RecoverCommit(p)
  <2>1. session[proc[p].sid].lease = "expired" /\ session[proc[p].sid].state \in LIVE_STATES
    BY <1>1 DEF RecoverCommit, RecoverAuthority
  <2>2. proc[p].sid \in Sids
    BY <1>1 DEF RecoverCommit, SessionInv, LocalsOK, LocalOK, RecoverPcs
  <2>3. session'[proc[p].sid].state = "failed"
    BY <1>0, <1>1, <2>2 DEF RecoverCommit, SessionRow
  <2> QED
    BY <2>1, <2>3 DEF LIVE_STATES
<1>2. ASSUME NEW r \in Procs, StartNext(r) PROVE FALSE
  <2>1. ASSUME NEW req, NEW pred, StartPreflight(r, req, pred) PROVE FALSE
    BY <1>0, <2>1 DEF StartPreflight, Idle
  <2>2. CASE StartController(r)
    BY <1>0, <2>2 DEF StartController, ProcRow
  <2>3. CASE HoldDriveFence(r)
    BY <2>3 DEF HoldDriveFence
  <2>4. CASE StartAdmit(r) \/ StartReadRevision(r)
    BY <1>0, <2>4 DEF StartAdmit, StartReadRevision, ProcRow
  <2>5. CASE StartCommit(r)
    BY <1>0, <2>5 DEF StartCommit, ProcRow
  <2>6. CASE StartUnlock(r) \/ Refuse(r)
    BY <1>0, <2>6 DEF StartUnlock, Refuse, Idle
  <2> QED
    BY <1>2, <2>1, <2>2, <2>3, <2>4, <2>5, <2>6 DEF StartNext
<1>3. ASSUME NEW r \in Procs, FillNext(r) \/ SessionWrite(r) PROVE FALSE
  BY <1>0, <1>3 DEF FillNext, ClaimRead, ClaimUpdate, Heartbeat, SessionWriteRefused,
     Terminalize, SessionWrite, Idle, ProcRow
<1>4. ASSUME NEW r \in Procs, RecoverNext(r) \/ Crash(r) PROVE RecoverCommit(p)
  <2>1. CASE RecoverCommit(r)
    <3>1. r = p
      BY <1>0, <2>1 DEF RecoverCommit, ProcRow
    <3> QED
      BY <2>1, <3>1
  <2>2. ASSUME NEW s, RecoverPrecheck(r, s) PROVE FALSE
    BY <1>0, <2>2 DEF RecoverPrecheck, Idle
  <2>3. CASE RecoverController(r)
    BY <1>0, <2>3 DEF RecoverController, ProcRow
  <2>4. CASE RecoverUnlock(r) \/ Crash(r)
    BY <1>0, <2>4 DEF RecoverUnlock, Crash, Idle
  <2> QED
    BY <1>4, <2>1, <2>2, <2>3, <2>4 DEF RecoverNext
<1>5. CASE (\E s \in Sids : Expire(s)) \/ OperatorNext \/ UNCHANGED sessionVars
  BY <1>5 DEF Expire, OperatorNext, GraphWrite, InvalidateApproval, sessionVars
<1> QED
  BY <1>1, <1>2, <1>3, <1>4, <1>5 DEF SessionNext

\* A lease renewed during a recoverer's lock waits is never taken away.
THEOREM RenewalRespected == SessionSpec => RenewedLeaseSurvives
BY SessionInvariant, Renewal, PTL DEF SessionSpec, RenewedLeaseSurvives

=============================================================================

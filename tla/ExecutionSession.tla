-------------------------- MODULE ExecutionSession --------------------------
(***************************************************************************)
(* Durable Fill sessions: modelark/execution_session.py (start, claim,     *)
(* heartbeat, session_write, terminalize), execution_recovery.py (expired  *)
(* session recovery) and the path of fill.execute that calls them, run by  *)
(* several processes on one catalog, with the operator graph writes of     *)
(* proposal.graph_write that race with them.                               *)
(*                                                                         *)
(* A process takes the controller lock, then the drive locks in canonical  *)
(* order, then a short BEGIN IMMEDIATE transaction.  What it read before   *)
(* it waited for a lock may be stale when the transaction runs.            *)
(***************************************************************************)
EXTENDS Fences

CONSTANT WorkOutcomes   \* the outcomes of a drain loop that are enumerated

ASSUME OutcomeAssumption == WorkOutcomes \subseteq TERMINAL_STATES

VARIABLE proc       \* proc[p]: the program point and the locals of process p

sessionVars == <<catalogVars, fenceVars, proc>>

StartPcs   == {"start_ctrl", "start_fence", "start_admitted", "start_bound", "start_unlock"}
FillPcs    == {"claim", "claim_update", "work", "finish"}
RecoverPcs == {"recover_ctrl", "recover_fence", "recover_unlock"}

ProcRow == [pc   : {"idle"} \cup StartPcs \cup FillPcs \cup RecoverPcs,
            req  : Proposals \cup {None},     \* requested proposal id, None if omitted
            prop : Proposals \cup {None},     \* proposal resolved under the controller
            pred : Sids \cup {None},          \* predecessor_id
            sid  : Sids \cup {None},          \* session started, or to recover
            rev  : Nat,                       \* bound_rev
            keys : SUBSET Keys,               \* captured fence keys
            owned: SUBSET DirtyRow]           \* owned_before

Idle == [pc |-> "idle", req |-> None, prop |-> None, pred |-> None, sid |-> None,
         rev |-> 0, keys |-> {}, owned |-> {}]

SessionTypeOK == CatalogTypeOK /\ FenceTypeOK /\ proc \in [Procs -> ProcRow]

-----------------------------------------------------------------------------
(* start_session *)

\* Preflight: an early refusal only.  No authority is carried over the lock wait.
StartPreflight(p, req, pred) ==
  /\ proc[p].pc = "idle"
  /\ SelectedApproval(req) # None
  /\ CurrentDrafts = {}
  /\ proc' = [proc EXCEPT ![p] = [Idle EXCEPT !.pc = "start_ctrl", !.req = req, !.pred = pred]]
  /\ UNCHANGED <<catalogVars, fenceVars>>

\* Controller held: resolve the approval again and capture its drives' lock keys.
StartController(p) ==
  LET q == SelectedApproval(proc[p].req)
  IN  /\ proc[p].pc = "start_ctrl"
      /\ q # None
      /\ HoldController(p)
      /\ proc' = [proc EXCEPT ![p] = [@ EXCEPT !.pc = "start_fence", !.prop = q,
                                               !.req = None,
                                               !.keys = KeysOf(DrivesOf[q])]]
      /\ UNCHANGED <<catalogVars, ctrlChild, held, child>>

\* A blocking acquire of the next drive fence, for start and for recovery.
HoldDriveFence(p) ==
  /\ proc[p].pc \in {"start_fence", "recover_fence"}
  /\ HoldNextDrive(p, proc[p].keys)
  /\ UNCHANGED <<catalogVars, ctrl, ctrlChild, child, proc>>

\* _PhysicalFenceBinding.validate_current.
BindingCurrent(p, D) == proc[p].keys = KeysOf(D)

\* Mutant: any row that is not live is taken for a resumable predecessor.
PredecessorOK_NotLive(pred, q) == pred # None => session[pred].state \notin LIVE_STATES

\* is_resumable_terminal and the approval match of the predecessor.
PredecessorOK(pred, q) ==
  pred # None => /\ session[pred].state \in RESUMABLE_STATES
                 /\ session[pred].prop = q

\* Every fence held: live check, predecessor check, and the pure projection of the
\* approval on the catalog facts, all outside a transaction.
StartAdmit(p) ==
  LET q == proc[p].prop
  IN  /\ proc[p].pc = "start_fence"
      /\ proc[p].keys \subseteq held[p]
      /\ BindingCurrent(p, DrivesOf[q])
      /\ Live = {}
      /\ PredecessorOK(proc[p].pred, q)
      /\ facts = proposal[q].semantic
      /\ proc' = [proc EXCEPT ![p].pc = "start_admitted"]
      /\ UNCHANGED <<catalogVars, fenceVars>>

\* bound_rev = planner_revision(con), read before BEGIN IMMEDIATE.
StartReadRevision(p) ==
  /\ proc[p].pc = "start_admitted"
  /\ proc' = [proc EXCEPT ![p] = [@ EXCEPT !.pc = "start_bound", !.rev = planner_revision]]
  /\ UNCHANGED <<catalogVars, fenceVars>>

\* UPDATE next_fencing_token, raised above the predecessor's token if need be.
NextToken(pred) ==
  LET t == next_fencing_token + 1
  IN  IF pred # None /\ t <= session[pred].token THEN session[pred].token + 1 ELSE t

NewSession(p) ==
  [state |-> "starting", prop |-> proc[p].prop, pred |-> proc[p].pred,
   bound |-> proc[p].rev, token |-> NextToken(proc[p].pred), worker |-> None,
   lease |-> "held", ended |-> FALSE]

\* The uuid of the row: the next unused number.
NextSid(s) == session[s].state = "absent" /\ \A t \in Sids : t < s => session[t].state # "absent"

\* Mutant: the approval resolved under the controller is trusted in the transaction.
StartAuthority_StaleApproval(p) ==
  BindingCurrent(p, DrivesOf[proc[p].prop]) /\ Live = {} /\ CurrentDrafts = {}

\* The checks repeated inside the transaction.
StartAuthority(p) ==
  /\ SelectedApproval(proc[p].prop) = proc[p].prop
  /\ BindingCurrent(p, DrivesOf[proc[p].prop])
  /\ Live = {}
  /\ CurrentDrafts = {}

\* BEGIN IMMEDIATE: recheck, allocate the token, insert the row.
StartCommit(p) ==
  /\ proc[p].pc = "start_bound"
  /\ StartAuthority(p)
  /\ \E s \in Sids :
       /\ NextSid(s)
       /\ session' = [session EXCEPT ![s] = NewSession(p)]
       /\ proc' = [proc EXCEPT ![p] = [@ EXCEPT !.pc = "start_unlock", !.sid = s]]
  /\ next_fencing_token' = NextToken(proc[p].pred)
  /\ UNCHANGED <<planner_revision, active_approved, facts, proposal, driveVars, fenceVars>>

\* Leaving the with-block: drive handles close, then the controller's.
StartUnlock(p) ==
  /\ proc[p].pc = "start_unlock"
  /\ CloseAll(p)
  /\ proc' = [proc EXCEPT ![p] = [Idle EXCEPT !.pc = "claim", !.sid = proc[p].sid]]
  /\ UNCHANGED catalogVars

\* Mutant: a refusal leaks the lock handles.
Refuse_Leak(p) ==
  /\ \/ proc[p].pc \in {"start_ctrl", "recover_ctrl"} /\ ControllerFree
     \/ proc[p].pc \in {"start_fence", "recover_fence"} /\ proc[p].keys \subseteq held[p]
     \/ proc[p].pc \in {"start_admitted", "start_bound"}
  /\ proc' = [proc EXCEPT ![p] = Idle]
  /\ UNCHANGED <<catalogVars, fenceVars>>

\* A Refusal once the lock that was waited for is held.  Besides the checks above it
\* stands for those on state this module leaves out: a pending archive publication, a
\* changed execution config, missing capacity evidence, an unproven identity.
Refuse(p) ==
  /\ \/ proc[p].pc \in {"start_ctrl", "recover_ctrl"} /\ ControllerFree
     \/ proc[p].pc \in {"start_fence", "recover_fence"} /\ proc[p].keys \subseteq held[p]
     \/ proc[p].pc \in {"start_admitted", "start_bound"}
  /\ CloseAll(p)
  /\ proc' = [proc EXCEPT ![p] = Idle]
  /\ UNCHANGED catalogVars

-----------------------------------------------------------------------------
(* The worker: fill.execute *)

\* claim_worker reads the row ...
ClaimRead(p) ==
  /\ proc[p].pc = "claim"
  /\ proc' = [proc EXCEPT ![p].pc =
                IF session[proc[p].sid].state \in {"starting", "running"}
                THEN "claim_update" ELSE "finish"]
  /\ UNCHANGED <<catalogVars, fenceVars>>

\* Mutant: no one-live index behind the update.
ClaimUpdate_NoIndex(p) ==
  /\ proc[p].pc = "claim_update"
  /\ session' = [session EXCEPT ![proc[p].sid] = [@ EXCEPT !.state = "running",
                                                           !.worker = p]]
  /\ proc' = [proc EXCEPT ![p].pc = "work"]
  /\ UNCHANGED <<plannerVars, facts, proposal, driveVars, fenceVars>>

\* ... and updates it in a second statement whose WHERE names the session and its
\* token but not the state.  Only the one-live index can refuse the update.
ClaimUpdate(p) ==
  LET s == proc[p].sid
  IN  /\ proc[p].pc = "claim_update"
      /\ IF Live \subseteq {s}
         THEN /\ session' = [session EXCEPT ![s] = [@ EXCEPT !.state = "running",
                                                             !.worker = p]]
              /\ proc' = [proc EXCEPT ![p].pc = "work"]
         ELSE /\ session' = session
              /\ proc' = [proc EXCEPT ![p].pc = "finish"]
      /\ UNCHANGED <<plannerVars, facts, proposal, driveVars, fenceVars>>

\* heartbeat at a batch boundary: renew the lease of a running row, or fail closed.
Heartbeat(p) ==
  LET s == proc[p].sid
  IN  /\ proc[p].pc = "work"
      /\ IF session[s].state \in {"running", "stopping"}
         THEN /\ session' = [session EXCEPT ![s].lease = "held"]
              /\ proc' = proc
         ELSE /\ session' = session
              /\ proc' = [proc EXCEPT ![p].pc = "finish"]
      /\ UNCHANGED <<plannerVars, facts, proposal, driveVars, fenceVars>>

\* session_write's transaction around the rows its operation writes.  The bump and the
\* session's bound revision commit together.
WriteAsSession(s) ==
  /\ session[s].state \in LIVE_STATES
  /\ planner_revision < MaxRev
  /\ planner_revision' = planner_revision + 1
  /\ session' = [session EXCEPT ![s].bound = planner_revision + 1]

\* A catalog write of the running transport (fetch.RunCtx.write): archived progress.
SessionWrite(p) ==
  /\ proc[p].pc = "work"
  /\ WriteAsSession(proc[p].sid)
  /\ UNCHANGED <<next_fencing_token, active_approved, facts, proposal, driveVars,
                 fenceVars, proc>>

\* session_write of a worker whose session has ended: SESSION_STATE_INVALID.
SessionWriteRefused(p) ==
  /\ proc[p].pc = "work"
  /\ session[proc[p].sid].state \notin LIVE_STATES
  /\ proc' = [proc EXCEPT ![p].pc = "finish"]
  /\ UNCHANGED <<catalogVars, fenceVars>>

\* What _terminalize_session_outcome is given: any outcome of the drain loop after
\* work, a block after a refused claim, a failure after a refused heartbeat or write.
Outcomes(pc) == IF pc = "work" THEN WorkOutcomes ELSE {"blocked", "failed"}

\* terminalize: a compare-and-set on the live states; a no-op on an ended row.
Terminalize(p, state) ==
  LET s == proc[p].sid
  IN  /\ proc[p].pc \in {"work", "finish"}
      /\ state \in Outcomes(proc[p].pc)
      /\ session' = IF session[s].state \in LIVE_STATES
                    THEN [session EXCEPT ![s] = [@ EXCEPT !.state = state,
                                                          !.lease = "null",
                                                          !.ended = TRUE]]
                    ELSE session
      /\ proc' = [proc EXCEPT ![p] = Idle]
      /\ UNCHANGED <<plannerVars, facts, proposal, driveVars, fenceVars>>

-----------------------------------------------------------------------------
(* Expiry and recover_expired_session *)

\* The clock passes expires_at.
Expire(s) ==
  /\ session[s].state \in LIVE_STATES
  /\ session[s].lease = "held"
  /\ session' = [session EXCEPT ![s].lease = "expired"]
  /\ UNCHANGED <<plannerVars, facts, proposal, driveVars, fenceVars, proc>>

\* Fail-fast check before any lock.  An ended row that keeps its past expires_at
\* passes it: only the transaction looks at the state.
RecoverPrecheck(p, s) ==
  /\ proc[p].pc = "idle"
  /\ session[s].lease = "expired"
  /\ proc' = [proc EXCEPT ![p] = [Idle EXCEPT !.pc = "recover_ctrl", !.sid = s]]
  /\ UNCHANGED <<catalogVars, fenceVars>>

\* _recovery_labels: the proposal's drives and those the session left dirty.
RecoveryDrives(s) == DrivesOf[session[s].prop] \cup {r.drive : r \in OwnedDirty(s)}

RecoverController(p) ==
  LET s == proc[p].sid
  IN  /\ proc[p].pc = "recover_ctrl"
      /\ HoldController(p)
      /\ proc' = [proc EXCEPT ![p] = [@ EXCEPT !.pc = "recover_fence",
                                               !.keys = KeysOf(RecoveryDrives(s)),
                                               !.owned = OwnedDirty(s)]]
      /\ UNCHANGED <<catalogVars, ctrlChild, held, child>>

\* Mutant: the lease the fail-fast check saw is trusted in the transaction.
RecoverAuthority_StaleLease(p) ==
  LET s == proc[p].sid
  IN  /\ BindingCurrent(p, RecoveryDrives(s))
      /\ OwnedDirty(s) = proc[p].owned
      /\ session[s].state \in LIVE_STATES

\* The checks repeated inside the transaction: fence facts, labels, lease, state.
RecoverAuthority(p) ==
  LET s == proc[p].sid
  IN  /\ BindingCurrent(p, RecoveryDrives(s))
      /\ OwnedDirty(s) = proc[p].owned
      /\ session[s].lease = "expired"
      /\ session[s].state \in LIVE_STATES

\* Mutant: a state that the CHECK constraint of execution_sessions does not know.
RecoverCommit_Expired(p) ==
  /\ proc[p].pc = "recover_fence"
  /\ proc[p].keys \subseteq held[p]
  /\ RecoverAuthority(p)
  /\ session' = [session EXCEPT ![proc[p].sid] = [@ EXCEPT !.state = "expired",
                                                           !.ended = TRUE]]
  /\ proc' = [proc EXCEPT ![p].pc = "recover_unlock"]
  /\ UNCHANGED <<plannerVars, facts, proposal, driveVars, fenceVars>>

\* Mutant: the expired session is ended without its drive fences.
RecoverCommit_Unfenced(p) ==
  /\ proc[p].pc = "recover_fence"
  /\ RecoverAuthority(p)
  /\ session' = [session EXCEPT ![proc[p].sid] = [@ EXCEPT !.state = "failed",
                                                           !.ended = TRUE]]
  /\ proc' = [proc EXCEPT ![p].pc = "recover_unlock"]
  /\ UNCHANGED <<plannerVars, facts, proposal, driveVars, fenceVars>>

\* BEGIN IMMEDIATE: end the session as failed; expires_at keeps its value.
RecoverCommit(p) ==
  /\ proc[p].pc = "recover_fence"
  /\ proc[p].keys \subseteq held[p]
  /\ RecoverAuthority(p)
  /\ session' = [session EXCEPT ![proc[p].sid] = [@ EXCEPT !.state = "failed",
                                                           !.ended = TRUE]]
  /\ proc' = [proc EXCEPT ![p].pc = "recover_unlock"]
  /\ UNCHANGED <<plannerVars, facts, proposal, driveVars, fenceVars>>

RecoverUnlock(p) ==
  /\ proc[p].pc = "recover_unlock"
  /\ CloseAll(p)
  /\ proc' = [proc EXCEPT ![p] = Idle]
  /\ UNCHANGED catalogVars

-----------------------------------------------------------------------------
(* Crashes, and the operator writes of other processes *)

\* SIGKILL of the process, its threads included: the kernel closes its descriptors.
Crash(p) ==
  /\ proc[p].pc # "idle"
  /\ CloseAll(p)
  /\ proc' = [proc EXCEPT ![p] = Idle]
  /\ UNCHANGED catalogVars

\* Mutant: a graph write that does not ask for a live session.
GraphWrite_UnderLive(f) ==
  /\ planner_revision < MaxRev
  /\ planner_revision' = planner_revision + 1
  /\ facts' = f
  /\ UNCHANGED <<next_fencing_token, active_approved, proposal, session, driveVars,
                 fenceVars, proc>>

\* proposal.graph_write with an operation that leaves approvals alone (selection,
\* discovery, protect, plan membership): no controller lock, refused while live.
GraphWrite(f) ==
  /\ Live = {}
  /\ planner_revision < MaxRev
  /\ planner_revision' = planner_revision + 1
  /\ facts' = f
  /\ UNCHANGED <<next_fencing_token, active_approved, proposal, session, driveVars,
                 fenceVars, proc>>

\* The graph writes that withdraw every approval: plan.set_active, declare_lost.
SupersedeApprovals ==
  [q \in Proposals |-> IF proposal[q].lifecycle = "approved"
                       THEN [proposal[q] EXCEPT !.lifecycle = "superseded"]
                       ELSE proposal[q]]

InvalidateApproval(f) ==
  /\ Live = {}
  /\ planner_revision < MaxRev
  /\ planner_revision' = planner_revision + 1
  /\ facts' = f
  /\ proposal' = SupersedeApprovals
  /\ active_approved' = None
  /\ UNCHANGED <<next_fencing_token, session, driveVars, fenceVars, proc>>

-----------------------------------------------------------------------------
\* An approved proposal, no session yet, drives whose identity is known and that no
\* mutation has touched (generation 0).
SessionInit ==
  /\ planner_revision = 1
  /\ next_fencing_token = 0
  /\ active_approved \in Proposals
  /\ facts \in Facts
  /\ proposal \in [Proposals -> [lifecycle : {"absent", "approved"}, based_on : {0},
                                 semantic : {facts}]]
  /\ \A q \in Proposals : proposal[q].lifecycle = "approved" <=> q = active_approved
  /\ session = [s \in Sids |-> NoSession]
  /\ drive = [d \in Drives |-> [epoch |-> 1, gen |-> 0]]
  /\ dirty = {}
  /\ anchor = {}
  /\ FenceInit
  /\ proc = [p \in Procs |-> Idle]

StartNext(p) ==
  \/ \E req \in Proposals \cup {None}, pred \in Sids \cup {None} : StartPreflight(p, req, pred)
  \/ StartController(p)
  \/ HoldDriveFence(p)
  \/ StartAdmit(p)
  \/ StartReadRevision(p)
  \/ StartCommit(p)
  \/ StartUnlock(p)
  \/ Refuse(p)

FillNext(p) ==
  \/ ClaimRead(p)
  \/ ClaimUpdate(p)
  \/ Heartbeat(p)
  \/ SessionWriteRefused(p)
  \/ \E state \in TERMINAL_STATES : Terminalize(p, state)

RecoverNext(p) ==
  \/ \E s \in Sids : RecoverPrecheck(p, s)
  \/ RecoverController(p)
  \/ RecoverCommit(p)
  \/ RecoverUnlock(p)

OperatorNext == \E f \in Facts : GraphWrite(f) \/ InvalidateApproval(f)

SessionNext ==
  \/ \E p \in Procs : StartNext(p) \/ FillNext(p) \/ SessionWrite(p) \/ RecoverNext(p) \/ Crash(p)
  \/ \E s \in Sids : Expire(s)
  \/ OperatorNext

SessionSpec == SessionInit /\ [][SessionNext]_sessionVars

-----------------------------------------------------------------------------
(* Properties *)

\* At most one session is live in the whole catalog, whichever process started or
\* claimed it (idx_execution_sessions_one_live and the check inside start's
\* transaction).
OneLive == \A s, t \in Live : s = t

\* A later row always carries a greater fencing token than every earlier one, and
\* planner_state never falls behind a token it has given out, so a token identifies
\* one attempt for ever.
TokensIncrease ==
  /\ \A s, t \in Sids : /\ s < t
                        /\ session[t].state # "absent"
                        => session[s].token < session[t].token
  /\ \A s \in Sids : session[s].token <= next_fencing_token

\* The approval a live session executes is the active one for as long as the session
\* lives: no approval can be replaced or withdrawn between the moment start resolved
\* it and the end of the session.  (A row that terminal_at marks as ended is the
\* subject of NeverReactivated.)
PinnedApproval ==
  \A s \in Live : ~session[s].ended =>
    /\ session[s].prop = active_approved
    /\ proposal[session[s].prop].lifecycle = "approved"

\* A resumed session continues the approval of a predecessor that had ended, under a
\* greater token (start_session's predecessor checks, made before the transaction).
ResumeLineage ==
  \A s, r \in Sids : session[s].pred = r =>
    /\ session[r].prop = session[s].prop
    /\ session[r].ended
    /\ session[r].token < session[s].token

\* Attempts are totally ordered by their tokens, and a resumed one continues an ended attempt
\* of the same approval: what is left of an old attempt can never pass for the current one.
AttemptsOrdered == TokensIncrease /\ ResumeLineage

\* While a session stays live, every advance of planner_revision is the session's own
\* write, and the session is bound to the new revision by the same transaction: no
\* operator graph write commits under a live session.
LiveRevisionStep ==
  \A s \in Sids :
    /\ session[s].state \in LIVE_STATES
    /\ session'[s].state \in LIVE_STATES
    /\ planner_revision' # planner_revision
    => session'[s].bound = planner_revision'

RevisionOwnedByLive == [][LiveRevisionStep]_sessionVars

\* A lease renewed while a recoverer waited for its locks is not taken away: whatever
\* the fail-fast check saw, recovery ends only a session whose lease is expired at
\* the moment of the transaction.
RenewalStep ==
  \A p \in Procs :
    /\ proc[p].pc = "recover_fence"
    /\ proc'[p].pc = "recover_unlock"
    => /\ session[proc[p].sid].lease = "expired"
       /\ session'[proc[p].sid] # session[proc[p].sid]

RenewedLeaseSurvives == [][RenewalStep]_sessionVars

\* What the repository says of a session start: the live row is bound to the
\* catalog's current planner revision.
LiveBoundToRevision == \A s \in Live : session[s].bound = planner_revision

\* What RFC-002 forbids: a terminal session row that is live again.
NeverReactivated == \A s \in Live : ~session[s].ended

=============================================================================

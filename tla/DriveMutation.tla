--------------------------- MODULE DriveMutation ---------------------------
(***************************************************************************)
(* The physical mutation envelope of modelark/drive_mutation.py and the    *)
(* operator reconciliation of drive_bootstrap.reconcile_drive, run by the  *)
(* processes of ExecutionSession next to session start, recovery, graph    *)
(* writes and crashes.                                                     *)
(*                                                                         *)
(* An envelope takes the controller and the sorted drive locks, withdraws  *)
(* the drives' clean evidence by opening a dirty generation, lets the body *)
(* and its children write, observes the drives again and publishes clean   *)
(* anchors.  It runs for a session (fetch of a Fill), for the same worker  *)
(* without the session's token (replica copies), or for an operator.       *)
(***************************************************************************)
EXTENDS ExecutionSession

VARIABLES
  env,          \* env[p]: the envelope or reconciliation p is running
  unobserved    \* unobserved[d]: bytes of d changed since the last observation

mutationVars == <<sessionVars, env, unobserved>>

EnvRow == [pc     : {"idle", "ctrl", "fence", "proven", "body", "observed",
                     "reconcile_ctrl", "reconcile_fence", "reconcile_inventory"},
           owner  : Sids \cup {None},      \* owner_session_id
           drives : SUBSET Drives,         \* drive_labels
           map    : BOOLEAN,               \* map_path given: controller kept for the body
           cap    : SUBSET Generation,     \* captured (epoch, generation) facts
           keys   : SUBSET Keys]           \* captured fence keys

NoEnv == [pc |-> "idle", owner |-> None, drives |-> {}, map |-> FALSE, cap |-> {}, keys |-> {}]

MutationTypeOK ==
  /\ SessionTypeOK
  /\ env \in [Procs -> EnvRow]
  /\ unobserved \in [Drives -> BOOLEAN]

FactsOf(D) == {CurrentGeneration(d) : d \in D}

\* _drive_facts and _fence_identity are what they were when they were captured.
CapturedCurrent(p) ==
  /\ env[p].cap = FactsOf(env[p].drives)
  /\ KeysOf(env[p].drives) \subseteq env[p].keys

-----------------------------------------------------------------------------
(* drive_mutation *)

\* fetch.run_fetch for a Fill session (one drive, session token) or for a plain CLI
\* fetch (no token); map_path is given when the drive is a git-annex repository.
FillEnvelope(p, d, map) ==
  /\ env[p].pc = "idle" /\ child[p] = {}
  /\ \/ proc[p].pc = "work" /\ d \in DrivesOf[session[proc[p].sid].prop]
     \/ proc[p].pc = "idle"
  /\ env' = [env EXCEPT ![p] = [NoEnv EXCEPT !.pc = "ctrl", !.drives = {d}, !.map = map,
                                             !.owner = proc[p].sid]]
  /\ UNCHANGED <<sessionVars, unobserved>>

\* fetch.run_replica_tasks: source and target drive, always with map_path, never with
\* the session's token.
ReplicaEnvelope(p, source, target) ==
  /\ env[p].pc = "idle" /\ child[p] = {}
  /\ source # target
  /\ \/ proc[p].pc = "work" /\ {source, target} \subseteq DrivesOf[session[proc[p].sid].prop]
     \/ proc[p].pc = "idle"
  /\ env' = [env EXCEPT ![p] = [NoEnv EXCEPT !.pc = "ctrl", !.drives = {source, target},
                                             !.map = TRUE]]
  /\ UNCHANGED <<sessionVars, unobserved>>

MutateController(p) ==
  /\ env[p].pc = "ctrl"
  /\ HoldController(p)
  /\ env' = [env EXCEPT ![p] = [@ EXCEPT !.pc = "fence", !.cap = FactsOf(env[p].drives),
                                         !.keys = KeysOf(env[p].drives)]]
  /\ UNCHANGED <<catalogVars, ctrlChild, held, child, proc, unobserved>>

\* A blocking acquire of the next drive fence, for an envelope and a reconciliation.
MutateHoldFence(p) ==
  /\ env[p].pc \in {"fence", "reconcile_fence"}
  /\ HoldNextDrive(p, env[p].keys)
  /\ UNCHANGED <<catalogVars, ctrl, ctrlChild, child, proc, env, unobserved>>

\* Who may commit: the owner while its session is live (session_write), anybody else
\* only while no session is (bump_revision).
WriteAllowed(p) ==
  IF env[p].owner # None THEN session[env[p].owner].state \in LIVE_STATES ELSE Live = {}

BumpRevision(p) ==
  IF env[p].owner # None
  THEN WriteAsSession(env[p].owner)
  ELSE /\ planner_revision < MaxRev
       /\ planner_revision' = planner_revision + 1
       /\ session' = session

\* _advance_one: only a clean or never-written drive can open a generation.
CanAdvance(d) == drive[d].gen = 0 \/ GenerationIsClean(d)

\* The generation that the advance of d opens.
Advanced(d) == [CurrentGeneration(d) EXCEPT !.gen = @ + 1]

\* Every fence held: the facts are still the captured ones and each drive is observed
\* to be the drive the catalog means, before the transaction.
MutateProve(p) ==
  /\ env[p].pc = "fence"
  /\ env[p].keys \subseteq held[p]
  /\ CapturedCurrent(p)
  /\ env' = [env EXCEPT ![p].pc = "proven"]
  /\ UNCHANGED <<sessionVars, unobserved>>

\* The dirty advance of every drive in one transaction, which revalidates identity and
\* epoch but takes the generation as it finds it; then the controller is closed unless
\* the map writer keeps it.
MutateDirty(p) ==
  LET D == env[p].drives
  IN  /\ env[p].pc = "proven"
      /\ KeysOf(D) = env[p].keys
      /\ WriteAllowed(p)
      /\ \A d \in D : CanAdvance(d)
      /\ BumpRevision(p)
      /\ dirty' = dirty \cup {[drive |-> d, epoch |-> drive[d].epoch, gen |-> drive[d].gen + 1,
                               owner |-> env[p].owner] : d \in D}
      /\ drive' = [d \in Drives |-> IF d \in D THEN [drive[d] EXCEPT !.gen = @ + 1] ELSE drive[d]]
      /\ env' = [env EXCEPT ![p] = [@ EXCEPT !.pc = "body",
                                             !.cap = {Advanced(d) : d \in D}]]
      /\ ctrl' = IF env[p].map THEN ctrl ELSE None
      /\ UNCHANGED <<next_fencing_token, active_approved, facts, proposal, anchor,
                     ctrlChild, held, child, proc, unobserved>>

\* A monitored child (download, compression, git-annex) inherits the fence
\* descriptors: those of the drives, and the controller's when the map is written.
SpawnChild(p) ==
  /\ env[p].pc = "body"
  /\ child[p] = {}
  /\ child' = [child EXCEPT ![p] = env[p].keys]
  /\ ctrlChild' = IF env[p].map THEN p ELSE ctrlChild
  /\ UNCHANGED <<catalogVars, ctrl, held, proc, env, unobserved>>

ChildExit(p) ==
  /\ child[p] # {}
  /\ child' = [child EXCEPT ![p] = {}]
  /\ ctrlChild' = IF ctrlChild = p THEN None ELSE ctrlChild
  /\ UNCHANGED <<catalogVars, ctrl, held, proc, env, unobserved>>

\* Whoever may be writing d: the body of an envelope, or a child, orphaned or not.
Writes(p, d) == \/ env[p].pc = "body" /\ d \in env[p].drives
                \/ \E k \in child[p] : k[1] = d

DriveWrite(d) ==
  /\ \E p \in Procs : Writes(p, d)
  /\ unobserved' = [unobserved EXCEPT ![d] = TRUE]
  /\ UNCHANGED <<sessionVars, env>>

\* Mutant: the drives are observed while a child is still running.
MutateObserve_NoWait(p) ==
  /\ env[p].pc = "body"
  /\ unobserved' = [d \in Drives |-> unobserved[d] /\ d \notin env[p].drives]
  /\ env' = [env EXCEPT ![p].pc = "observed"]
  /\ UNCHANGED sessionVars

\* After the body, its children waited for: reconcile the touched set and observe
\* every drive again.
MutateObserve(p) ==
  /\ env[p].pc = "body"
  /\ child[p] = {}
  /\ unobserved' = [d \in Drives |-> unobserved[d] /\ d \notin env[p].drives]
  /\ env' = [env EXCEPT ![p].pc = "observed"]
  /\ UNCHANGED sessionVars

\* All candidate anchors in one transaction under the (epoch, generation) CAS.
MutatePublish(p) ==
  /\ env[p].pc = "observed"
  /\ CapturedCurrent(p)
  /\ WriteAllowed(p)
  /\ BumpRevision(p)
  /\ anchor' = anchor \cup env[p].cap
  /\ CloseAll(p)
  /\ env' = [env EXCEPT ![p] = NoEnv]
  /\ UNCHANGED <<next_fencing_token, active_approved, facts, proposal, drive, dirty,
                 proc, unobserved>>

\* A refusal, or an exception of the body, of reconcile or of observe: the handles
\* close, an opened generation stays dirty.  It happens once the lock that was waited
\* for is held, and after the children have been killed and waited for.
MutateAbort(p) ==
  /\ \/ env[p].pc \in {"ctrl", "reconcile_ctrl"} /\ ControllerFree
     \/ env[p].pc \in {"fence", "reconcile_fence"} /\ env[p].keys \subseteq held[p]
     \/ env[p].pc \in {"proven", "body", "observed", "reconcile_inventory"}
  /\ child[p] = {}
  /\ CloseAll(p)
  /\ env' = [env EXCEPT ![p] = NoEnv]
  /\ UNCHANGED <<catalogVars, proc, unobserved>>

-----------------------------------------------------------------------------
(* drive_bootstrap.reconcile_drive on a registered drive *)

\* _dirty_owner: the session that left the current generation dirty, if any.
DirtyOwners(d) ==
  IF GenerationIsClean(d) THEN {}
  ELSE {r.owner : r \in {x \in dirty : /\ x.drive = d
                                       /\ x.epoch = drive[d].epoch
                                       /\ x.gen = drive[d].gen}} \ {None}

\* _capture_recovery_owner: an owner must have ended.
OwnersEnded(d) == \A s \in DirtyOwners(d) : session[s].state \in TERMINAL_STATES

ReconcileBegin(p, d) ==
  /\ env[p].pc = "idle" /\ proc[p].pc = "idle" /\ child[p] = {}
  /\ Live = {}
  /\ OwnersEnded(d)
  /\ env' = [env EXCEPT ![p] = [NoEnv EXCEPT !.pc = "reconcile_ctrl", !.drives = {d}]]
  /\ UNCHANGED <<sessionVars, unobserved>>

\* Under the controller: capture the facts; a changed capacity means a new epoch, and
\* then the locks of both epochs are taken.
ReconcileController(p, transition) ==
  \E d \in env[p].drives :
    /\ env[p].pc = "reconcile_ctrl"
    /\ Live = {}
    /\ OwnersEnded(d)
    /\ transition => DirtyOwners(d) = {} /\ drive[d].epoch < MaxEpoch
    /\ HoldController(p)
    /\ env' = [env EXCEPT ![p] =
                 [@ EXCEPT !.pc = "reconcile_fence", !.cap = FactsOf({d}),
                           !.keys = KeysOf({d}) \cup
                             IF transition THEN {<<d, drive[d].epoch + 1>>} ELSE {}]]
    /\ UNCHANGED <<catalogVars, ctrlChild, held, child, proc, unobserved>>

\* Fences held: revalidate, then the complete inventory and a final observation.
ReconcileInventory(p) ==
  /\ env[p].pc = "reconcile_fence"
  /\ env[p].keys \subseteq held[p]
  /\ Live = {}
  /\ CapturedCurrent(p)
  /\ \A d \in env[p].drives : OwnersEnded(d)
  /\ unobserved' = [d \in Drives |-> unobserved[d] /\ d \notin env[p].drives]
  /\ env' = [env EXCEPT ![p].pc = "reconcile_inventory"]
  /\ UNCHANGED sessionVars

\* _recover_owned_generation and the branches of _decide_and_commit: a new epoch, a
\* refresh of a clean or untouched drive, or an anchor for the dirty generation.
ReconciledGeneration(p, d) ==
  IF <<d, drive[d].epoch + 1>> \in env[p].keys
  THEN [drive |-> d, epoch |-> drive[d].epoch + 1, gen |-> 1]
  ELSE IF CanAdvance(d) THEN Advanced(d) ELSE CurrentGeneration(d)

ReconcileCommit(p) ==
  \E d \in env[p].drives :
    LET g == ReconciledGeneration(p, d)
    IN  /\ env[p].pc = "reconcile_inventory"
        /\ Live = {}
        /\ CapturedCurrent(p)
        /\ OwnersEnded(d)
        /\ planner_revision < MaxRev
        /\ planner_revision' = planner_revision + 1
        /\ drive' = [drive EXCEPT ![d] = [epoch |-> g.epoch, gen |-> g.gen]]
        /\ dirty' = IF g = CurrentGeneration(d) THEN dirty
                    ELSE dirty \cup {[drive |-> d, epoch |-> g.epoch, gen |-> g.gen, owner |-> None]}
        /\ anchor' = anchor \cup {g}
        /\ CloseAll(p)
        /\ env' = [env EXCEPT ![p] = NoEnv]
        /\ UNCHANGED <<next_fencing_token, active_approved, facts, proposal, session,
                       proc, unobserved>>

-----------------------------------------------------------------------------
\* SIGKILL of p anywhere, inside an envelope or not.
MutationCrash(p) ==
  /\ proc[p].pc # "idle" \/ env[p].pc # "idle"
  /\ CloseAll(p)
  /\ proc' = [proc EXCEPT ![p] = Idle]
  /\ env' = [env EXCEPT ![p] = NoEnv]
  /\ UNCHANGED <<catalogVars, unobserved>>

MutationInit ==
  /\ SessionInit
  /\ env = [p \in Procs |-> NoEnv]
  /\ unobserved = [d \in Drives |-> TRUE]

\* A process is in one operation at a time; only the transport's own catalog writes
\* happen inside the body of an envelope.
BaseNext(p) ==
  /\ \/ env[p].pc = "idle" /\ (StartNext(p) \/ FillNext(p) \/ RecoverNext(p))
     \/ env[p].pc \in {"idle", "body"} /\ SessionWrite(p)
  /\ UNCHANGED <<env, unobserved>>

EnvelopeNext(p) ==
  \/ \E d \in Drives, map \in BOOLEAN : FillEnvelope(p, d, map)
  \/ \E source, target \in Drives : ReplicaEnvelope(p, source, target)
  \/ MutateController(p)
  \/ MutateHoldFence(p)
  \/ MutateProve(p)
  \/ MutateDirty(p)
  \/ SpawnChild(p)
  \/ ChildExit(p)
  \/ MutateObserve(p)
  \/ MutatePublish(p)
  \/ MutateAbort(p)

ReconcileNext(p) ==
  \/ \E d \in Drives : ReconcileBegin(p, d)
  \/ \E transition \in BOOLEAN : ReconcileController(p, transition)
  \/ ReconcileInventory(p)
  \/ ReconcileCommit(p)

MutationNext ==
  \/ \E p \in Procs : BaseNext(p) \/ EnvelopeNext(p) \/ ReconcileNext(p) \/ MutationCrash(p)
  \/ \E d \in Drives : DriveWrite(d)
  \/ (\E s \in Sids : Expire(s)) /\ UNCHANGED <<env, unobserved>>
  \/ OperatorNext /\ UNCHANGED <<env, unobserved>>

MutationSpec == MutationInit /\ [][MutationNext]_mutationVars

\* The steps of a process between the moment it has the controller and the moment it
\* closes it, the transport body apart: catalog reads, transactions of bounded length
\* and lock waits.
LockedStep(p) ==
  \/ /\ env[p].pc = "idle"
     /\ \/ HoldDriveFence(p) \/ StartAdmit(p) \/ StartReadRevision(p) \/ StartCommit(p)
        \/ StartUnlock(p) \/ RecoverCommit(p) \/ RecoverUnlock(p) \/ Refuse(p)
     /\ UNCHANGED <<env, unobserved>>
  \/ MutateHoldFence(p) \/ MutateProve(p) \/ MutateDirty(p) \/ MutatePublish(p)
  \/ ReconcileInventory(p) \/ ReconcileCommit(p)
  \/ env[p].pc # "body" /\ MutateAbort(p)

\* The end of the transport body, by its return or by an exception.
BodyEnd(p) == env[p].pc = "body" /\ (MutateObserve(p) \/ MutateAbort(p))

\* Transactions and lock waits that can proceed do; children exit (the parent kills
\* the ones that stall, an orphan reads end of file); a batch is finite, so a body that
\* can end again and again, between one child and the next, does end.
FairMutationSpec ==
  /\ MutationSpec
  /\ \A p \in Procs : /\ WF_mutationVars(LockedStep(p))
                      /\ WF_mutationVars(ChildExit(p))
                      /\ SF_mutationVars(BodyEnd(p))

-----------------------------------------------------------------------------
(* Properties *)

\* The controller lock is always released again: the process that has it can wait for
\* drive fences that a body or an orphaned child holds, but those never wait for the
\* controller, and crashes or refusals on the way leave no descriptor behind.
ControllerReleased == []<>ControllerFree

\* The envelope keeps the promise of DriveEvidence, whatever crashes, orphans and
\* sessions do around it: bytes change only on drives without a clean anchor, and an
\* anchor is published only for bytes that were observed.
Evidence == INSTANCE DriveEvidence WITH
              clean  <- [d \in Drives |-> GenerationIsClean(d)],
              unseen <- unobserved

ImplementsEvidence == Evidence!EvidenceSpec

\* A clean anchor of the current generation accounts for every byte on the drive.
AnchorsAccountForBytes == Evidence!AnchorsAreTrue

\* Two parties never write one drive: an envelope's body and its own child count as
\* one party, an orphan of a killed process is another, and drive locks are keyed by
\* epoch, so a change of epoch must not let a second writer in.
OneWriterPerDrive ==
  \A d \in Drives : \A p, r \in Procs : Writes(p, d) /\ Writes(r, d) => p = r

\* Recovery never overlaps a worker, or a child of a dead worker, that may still
\* write: while a generation owned by a session is being written, the session is live
\* and has not been ended.
OwnerOutlivesWriters ==
  \A d \in Drives : (\E p \in Procs : Writes(p, d)) =>
    \A s \in DirtyOwners(d) : session[s].state \in LIVE_STATES

\* One writer per drive, whose session outlives it, through crashes, orphaned children,
\* recovery and a change of the identity epoch.
WritersExcluded == MutationTypeOK /\ OneWriterPerDrive /\ OwnerOutlivesWriters

\* A Fill worker that has reached its dirty transaction, every fence held and every drive
\* proven, is not excluded by its own session.
WorkerNotExcluded ==
  \A p \in Procs :
    /\ proc[p].pc = "work"
    /\ session[proc[p].sid].state \in LIVE_STATES
    /\ env[p].pc = "proven"
    => WriteAllowed(p)

=============================================================================

------------------------ MODULE DriveMutation_proofs ------------------------
(***************************************************************************)
(* Proofs about DriveMutation for any number of processes, sessions and    *)
(* drives: a clean anchor accounts for every byte, two parties never write *)
(* one drive, the session that owns a generation outlives its writers, and *)
(* the envelope implements DriveEvidence.                                  *)
(*                                                                         *)
(* All four rest on the drive locks.  Whoever writes, has observed or is   *)
(* about to publish a drive has, or has left to a child, the lock of the   *)
(* drive under its current epoch; two parties never have one lock; and the *)
(* epoch changes only under the locks of both epochs.                      *)
(***************************************************************************)
EXTENDS DriveMutation, ExecutionSession_proofs

\* The program points at which a process is the worker of a session.
WorkerPcs == FillPcs \cup {"start_unlock"}

\* A session has one worker at most, and an envelope with the session's token is run by
\* that worker, in the middle of its work.
WorkersOK ==
  /\ \A p, r \in Procs :
       /\ proc[p].pc \in WorkerPcs /\ proc[r].pc \in WorkerPcs
       /\ proc[p].sid = proc[r].sid
       => p = r
  /\ \A p \in Procs :
       /\ proc[p].pc = "idle" => proc[p] = Idle
       /\ env[p].pc = "idle" => env[p] = NoEnv
       /\ env[p].owner # None => proc[p].pc = "work" /\ proc[p].sid = env[p].owner

\* The lock keys p has, itself or through a child.
Locked(p) == held[p] \cup child[p]

\* Two parties never have one lock.
LocksExclusive == \A p, r \in Procs : p # r => Locked(p) \cap Locked(r) = {}

\* What an envelope or a reconciliation has while it relies on it, what its child has
\* inherited, and that an orphan's locks are not its reincarnated parent's.
FencesOK(p) ==
  /\ env[p].pc \in {"proven", "body", "observed", "reconcile_inventory"} =>
       env[p].keys \subseteq held[p]
  /\ env[p].pc \in {"body", "observed", "reconcile_inventory"} =>
       KeysOf(env[p].drives) \subseteq env[p].keys
  /\ env[p].pc = "body" => env[p].keys \subseteq KeysOf(env[p].drives)
  /\ env[p].pc \notin {"idle", "body"} => child[p] = {}
  /\ env[p].pc # "body" => held[p] \cap child[p] = {}
  /\ \A k \in child[p] : k[2] = drive[k[1]].epoch

FencesHeld == \A p \in Procs : FencesOK(p)

\* g is not a generation that its drive has still to reach.
Reached(g) ==
  /\ g.epoch <= drive[g.drive].epoch
  /\ g.epoch = drive[g.drive].epoch => g.gen <= drive[g.drive].gen

\* The rows of drive_clean_anchors and drive_dirty_generations are of generations that
\* were reached, and name sessions that exist.
GenerationsOK ==
  /\ \A g \in anchor : Reached(g)
  /\ \A g \in dirty : Reached(g)
  /\ \A g \in dirty : g.owner # None => session[g.owner].state # "absent"

\* A drive that is being written has no clean anchor.
WritersUncovered == \A p \in Procs, d \in Drives : Writes(p, d) => ~GenerationIsClean(d)

\* Between its observation and its transaction nothing is written to an observed drive.
ObservationsHold ==
  \A p \in Procs : env[p].pc \in {"observed", "reconcile_inventory"} =>
    \A d \in env[p].drives : ~unobserved[d]

\* The owner of a generation that is being written is live, and if it still has a worker
\* it is the one that writes.
OwnersWrite ==
  \A p \in Procs, d \in Drives : Writes(p, d) =>
    \A s \in DirtyOwners(d) :
      /\ session[s].state \in LIVE_STATES
      /\ \A r \in Procs : proc[r].pc \in WorkerPcs /\ proc[r].sid = s =>
           r = p /\ env[p].pc = "body"

\* The inductive invariant.
MutationInv ==
  /\ SessionInv
  /\ MutationTypeOK
  /\ WorkersOK
  /\ LocksExclusive
  /\ FencesHeld
  /\ GenerationsOK
  /\ WritersUncovered
  /\ ObservationsHold
  /\ AnchorsAccountForBytes
  /\ OwnersWrite

-----------------------------------------------------------------------------
(* The session invariant under the steps of envelopes *)

\* A commit of an envelope changes at most the bound revision of one live row.
SameRows ==
  \A t \in Sids :
    /\ session'[t].state = session[t].state
    /\ session'[t].prop = session[t].prop
    /\ session'[t].pred = session[t].pred
    /\ session'[t].token = session[t].token
    /\ session'[t].ended = session[t].ended
    /\ session[t].state = "absent" => session'[t] = session[t]

\* bump_revision, for the owner of the envelope or for nobody, is such a step.
LEMMA BumpFrame ==
  ASSUME CatalogTypeOK, NEW p \in Procs, env[p].owner \in Sids \cup {None}, BumpRevision(p)
  PROVE  /\ planner_revision' \in Nat
         /\ session' \in [Sids -> SessionRow]
         /\ SameRows
<1>1. CASE env[p].owner = None
  BY <1>1 DEF BumpRevision, SameRows, CatalogTypeOK
<1>2. CASE env[p].owner # None
  <2> DEFINE s == env[p].owner
             row == [session[s] EXCEPT !.bound = planner_revision + 1]
  <2>1. /\ s \in Sids
        /\ session[s].state \in LIVE_STATES
        /\ planner_revision' = planner_revision + 1
        /\ session' = [session EXCEPT ![s] = row]
    BY <1>2 DEF BumpRevision, WriteAsSession
  <2>2. planner_revision \in Nat /\ session[s] \in SessionRow /\ session \in [Sids -> SessionRow]
    BY <2>1 DEF CatalogTypeOK
  <2>3. /\ row \in SessionRow
        /\ row.state = session[s].state
        /\ row.prop = session[s].prop
        /\ row.pred = session[s].pred
        /\ row.token = session[s].token
        /\ row.ended = session[s].ended
    BY <2>2 DEF SessionRow
  <2>4. session[s].state # "absent"
    BY <2>1 DEF LIVE_STATES
  <2> HIDE DEF row, s
  <2> QED
    BY <2>1, <2>2, <2>3, <2>4 DEF SameRows
<1> QED
  BY <1>1, <1>2

\* A step that leaves identity, lineage, state and token of every row, and the workers,
\* keeps the session invariant.
LEMMA SessionInvKept ==
  ASSUME SessionInv, SessionTypeOK', SameRows,
         UNCHANGED <<next_fencing_token, active_approved, proposal, proc>>
  PROVE  SessionInv'
<1> USE DEF SessionInv
<1>1. Live' = Live
  BY DEF Live, SameRows
<1>2. LocalsOK'
  <2>1. ASSUME NEW p \in Procs PROVE LocalOK(p)'
    <3>1. LocalOK(p) /\ proc[p].pred \in Sids \cup {None}
      BY DEF LocalsOK, SessionTypeOK, ProcRow
    <3> QED
      BY <3>1 DEF LocalOK, SameRows
  <2> QED
    BY <2>1 DEF LocalsOK
<1>3. RowsOK' /\ Contiguous'
  BY DEF RowsOK, Contiguous, SameRows
<1>4. OneLive'
  BY <1>1 DEF OneLive
<1>5. TokensIncrease'
  BY DEF TokensIncrease, SameRows
<1>6. PinnedApproval'
  BY <1>1 DEF PinnedApproval, SameRows, Live
<1>7. ResumeLineage'
  BY DEF ResumeLineage, SameRows
<1> QED
  BY <1>2, <1>3, <1>4, <1>5, <1>6, <1>7

-----------------------------------------------------------------------------
(* Type correctness and the session invariant *)

\* The records that the envelope's steps store have their types.
LEMMA EnvRows ==
  ASSUME CatalogTypeOK, NEW D \in SUBSET Drives
  PROVE  /\ NoEnv \in EnvRow
         /\ FactsOf(D) \in SUBSET Generation
         /\ \A d \in D : CurrentGeneration(d) \in Generation
         /\ \A d \in D : Advanced(d) \in Generation
         /\ \A d \in D : Advanced(d) = [drive |-> d, epoch |-> drive[d].epoch, gen |-> drive[d].gen + 1]
<1>1. \A d \in D : drive[d].epoch \in Nat /\ drive[d].gen \in Nat
  BY DEF CatalogTypeOK
<1>2. \A d \in D : CurrentGeneration(d) \in Generation
  BY <1>1 DEF CurrentGeneration, Generation
<1>3. \A d \in D : Advanced(d) = [drive |-> d, epoch |-> drive[d].epoch, gen |-> drive[d].gen + 1]
  BY DEF Advanced, CurrentGeneration
<1>4. \A d \in D : Advanced(d) \in Generation
  BY <1>1, <1>3 DEF Generation
<1>5. NoEnv \in EnvRow
  BY DEF NoEnv, EnvRow
<1> QED
  BY <1>2, <1>3, <1>4, <1>5 DEF FactsOf

\* What the dirty transaction writes.
LEMMA DirtyType ==
  ASSUME MutationTypeOK, NEW p \in Procs, MutateDirty(p)
  PROVE  CatalogTypeOK'
<1> DEFINE D == env[p].drives
<1>1. D \in SUBSET Drives /\ env[p].owner \in Sids \cup {None} /\ CatalogTypeOK
  BY DEF MutationTypeOK, SessionTypeOK, EnvRow
<1>2. planner_revision' \in Nat /\ session' \in [Sids -> SessionRow]
  BY <1>1, BumpFrame DEF MutateDirty
<1>3. dirty' \subseteq DirtyRow
  BY <1>1 DEF MutateDirty, CatalogTypeOK, DirtyRow
<1>4. \A d \in D : [drive[d] EXCEPT !.gen = @ + 1] \in [epoch : Nat, gen : Nat]
  BY <1>1 DEF CatalogTypeOK
<1>5. drive' \in [Drives -> [epoch : Nat, gen : Nat]]
  BY <1>1, <1>4 DEF MutateDirty, CatalogTypeOK
<1> QED
  BY <1>1, <1>2, <1>3, <1>5 DEF MutateDirty, CatalogTypeOK

\* What publication writes.
LEMMA PublishType ==
  ASSUME MutationTypeOK, NEW p \in Procs, MutatePublish(p)
  PROVE  CatalogTypeOK'
<1>1. /\ env[p].owner \in Sids \cup {None}
      /\ env[p].cap \in SUBSET Generation
      /\ CatalogTypeOK
  BY DEF MutationTypeOK, SessionTypeOK, EnvRow
<1>2. planner_revision' \in Nat /\ session' \in [Sids -> SessionRow]
  BY <1>1, BumpFrame DEF MutatePublish
<1> QED
  BY <1>1, <1>2 DEF MutatePublish, CatalogTypeOK

\* The generation that reconciliation leaves clean.
LEMMA ReconciledType ==
  ASSUME CatalogTypeOK, NEW p \in Procs, NEW d \in Drives
  PROVE  /\ ReconciledGeneration(p, d) \in Generation
         /\ ReconciledGeneration(p, d).drive = d
<1>1. drive[d].epoch \in Nat /\ drive[d].gen \in Nat
  BY DEF CatalogTypeOK
<1>2. Advanced(d) \in Generation /\ Advanced(d).drive = d
  BY EnvRows
<1>3. CurrentGeneration(d) \in Generation /\ CurrentGeneration(d).drive = d
  BY <1>1 DEF CurrentGeneration, Generation
<1>4. /\ [drive |-> d, epoch |-> drive[d].epoch + 1, gen |-> 1] \in Generation
      /\ [drive |-> d, epoch |-> drive[d].epoch + 1, gen |-> 1].drive = d
  BY <1>1 DEF Generation
<1> QED
  BY <1>2, <1>3, <1>4 DEF ReconciledGeneration

\* What the commit of a reconciliation writes.
LEMMA ReconcileType ==
  ASSUME MutationTypeOK, NEW p \in Procs, ReconcileCommit(p)
  PROVE  CatalogTypeOK'
<1>1. env[p].drives \in SUBSET Drives /\ CatalogTypeOK
  BY DEF MutationTypeOK, SessionTypeOK, EnvRow
<1>2. PICK d \in env[p].drives :
        LET g == ReconciledGeneration(p, d)
        IN  /\ planner_revision' = planner_revision + 1
            /\ drive' = [drive EXCEPT ![d] = [epoch |-> g.epoch, gen |-> g.gen]]
            /\ dirty' = IF g = CurrentGeneration(d) THEN dirty
                        ELSE dirty \cup {[drive |-> d, epoch |-> g.epoch, gen |-> g.gen, owner |-> None]}
            /\ anchor' = anchor \cup {g}
            /\ UNCHANGED <<next_fencing_token, active_approved, facts, proposal, session>>
  BY DEF ReconcileCommit
<1> DEFINE g == ReconciledGeneration(p, d)
<1>3. g \in Generation /\ d \in Drives
  BY <1>1, <1>2, ReconciledType
<1>4. g.epoch \in Nat /\ g.gen \in Nat
  BY <1>3 DEF Generation
<1> HIDE DEF g
<1>5. [epoch |-> g.epoch, gen |-> g.gen] \in [epoch : Nat, gen : Nat]
  BY <1>4
<1>6. [drive |-> d, epoch |-> g.epoch, gen |-> g.gen, owner |-> None] \in DirtyRow
  BY <1>3, <1>4 DEF DirtyRow
<1> QED
  BY <1>1, <1>2, <1>3, <1>5, <1>6 DEF CatalogTypeOK, g

\* Every step keeps the types.
LEMMA MutationTypeStep ==
  ASSUME MutationInv, [MutationNext]_mutationVars
  PROVE  MutationTypeOK'
<1> USE DEF MutationInv
<1>0. /\ SessionTypeOK /\ CatalogTypeOK /\ FenceTypeOK
      /\ env \in [Procs -> EnvRow]
      /\ unobserved \in [Drives -> BOOLEAN]
      /\ NoEnv \in EnvRow
      /\ Idle \in ProcRow
  BY EnvRows DEF MutationTypeOK, SessionTypeOK, Idle, ProcRow
<1>1. ASSUME [SessionNext]_sessionVars, UNCHANGED <<env, unobserved>> PROVE MutationTypeOK'
  <2>1. SessionTypeOK'
    BY <1>1, TypeStep DEF SessionInv
  <2> QED
    BY <1>0, <1>1, <2>1 DEF MutationTypeOK
<1>2. ASSUME UNCHANGED sessionVars, env' \in [Procs -> EnvRow], unobserved' \in [Drives -> BOOLEAN]
      PROVE  MutationTypeOK'
  <2>1. SessionTypeOK'
    BY <1>0, <1>2, CatalogUnchangedType, FencesUnchangedType DEF SessionTypeOK, sessionVars
  <2> QED
    BY <1>2, <2>1 DEF MutationTypeOK
<1>3. ASSUME UNCHANGED <<catalogVars, proc>>, FenceTypeOK', env' \in [Procs -> EnvRow],
             unobserved' = unobserved
      PROVE  MutationTypeOK'
  <2>1. SessionTypeOK'
    BY <1>0, <1>3, CatalogUnchangedType DEF SessionTypeOK
  <2> QED
    BY <1>0, <1>3, <2>1 DEF MutationTypeOK
<1>4. ASSUME CatalogTypeOK', FenceTypeOK', UNCHANGED <<proc, unobserved>>,
             env' \in [Procs -> EnvRow]
      PROVE  MutationTypeOK'
  BY <1>0, <1>4 DEF MutationTypeOK, SessionTypeOK
<1>5. ASSUME NEW p \in Procs, NEW row \in EnvRow, env' = [env EXCEPT ![p] = row]
      PROVE  env' \in [Procs -> EnvRow]
  BY <1>0, <1>5
<1>6. ASSUME NEW p \in Procs, NEW d \in Drives, NEW map \in BOOLEAN, FillEnvelope(p, d, map)
      PROVE  MutationTypeOK'
  <2>1. proc[p].sid \in Sids \cup {None}
    BY <1>0 DEF SessionTypeOK, ProcRow
  <2>2. [NoEnv EXCEPT !.pc = "ctrl", !.drives = {d}, !.map = map, !.owner = proc[p].sid] \in EnvRow
    BY <2>1 DEF NoEnv, EnvRow
  <2> QED
    BY <1>0, <1>2, <1>5, <1>6, <2>2 DEF FillEnvelope
<1>7. ASSUME NEW p \in Procs, NEW source \in Drives, NEW target \in Drives,
             ReplicaEnvelope(p, source, target)
      PROVE  MutationTypeOK'
  <2>1. [NoEnv EXCEPT !.pc = "ctrl", !.drives = {source, target}, !.map = TRUE] \in EnvRow
    BY DEF NoEnv, EnvRow
  <2> QED
    BY <1>0, <1>2, <1>5, <1>7, <2>1 DEF ReplicaEnvelope
<1>8. ASSUME NEW p \in Procs, MutateController(p) PROVE MutationTypeOK'
  <2>1. env[p] \in EnvRow /\ env[p].drives \in SUBSET Drives
    BY <1>0 DEF EnvRow
  <2>2. FactsOf(env[p].drives) \in SUBSET Generation /\ KeysOf(env[p].drives) \in SUBSET Keys
    BY <1>0, <2>1, EnvRows, KeysOfType
  <2>3. [env[p] EXCEPT !.pc = "fence", !.cap = FactsOf(env[p].drives),
                       !.keys = KeysOf(env[p].drives)] \in EnvRow
    BY <2>1, <2>2 DEF EnvRow
  <2>4. FenceTypeOK'
    BY <1>0, <1>8, HoldControllerType DEF MutateController
  <2> QED
    BY <1>3, <1>5, <1>8, <2>3, <2>4 DEF MutateController
<1>9. ASSUME NEW p \in Procs, MutateHoldFence(p) PROVE MutationTypeOK'
  <2>1. FenceTypeOK'
    BY <1>0, <1>9 DEF MutateHoldFence, HoldNextDrive, FenceTypeOK, EnvRow
  <2> QED
    BY <1>0, <1>3, <1>9, <2>1 DEF MutateHoldFence
<1>10. ASSUME NEW p \in Procs, MutateProve(p) PROVE MutationTypeOK'
  <2>1. [env[p] EXCEPT !.pc = "proven"] \in EnvRow
    BY <1>0 DEF EnvRow
  <2> QED
    BY <1>0, <1>2, <1>5, <1>10, <2>1 DEF MutateProve
<1>11. ASSUME NEW p \in Procs, MutateDirty(p) PROVE MutationTypeOK'
  <2> DEFINE D == env[p].drives
  <2>1. env[p] \in EnvRow /\ D \in SUBSET Drives
    BY <1>0 DEF EnvRow
  <2>2. {Advanced(d) : d \in D} \in SUBSET Generation
    BY <1>0, <2>1, EnvRows
  <2>3. [env[p] EXCEPT !.pc = "body", !.cap = {Advanced(d) : d \in D}] \in EnvRow
    BY <2>1, <2>2 DEF EnvRow
  <2>4. env' \in [Procs -> EnvRow]
    BY <1>5, <1>11, <2>3 DEF MutateDirty
  <2>5. FenceTypeOK'
    BY <1>0, <1>11 DEF MutateDirty, FenceTypeOK
  <2> QED
    BY <1>4, <1>11, <2>4, <2>5, DirtyType DEF MutateDirty
<1>12. ASSUME NEW p \in Procs, SpawnChild(p) \/ ChildExit(p) PROVE MutationTypeOK'
  <2>1. FenceTypeOK'
    BY <1>0, <1>12 DEF SpawnChild, ChildExit, FenceTypeOK, EnvRow
  <2> QED
    BY <1>0, <1>3, <1>12, <2>1 DEF SpawnChild, ChildExit
<1>13. ASSUME NEW p \in Procs, MutateObserve(p) \/ ReconcileInventory(p) PROVE MutationTypeOK'
  <2>1. /\ [env[p] EXCEPT !.pc = "observed"] \in EnvRow
        /\ [env[p] EXCEPT !.pc = "reconcile_inventory"] \in EnvRow
    BY <1>0 DEF EnvRow
  <2>2. unobserved' \in [Drives -> BOOLEAN]
    BY <1>0, <1>13 DEF MutateObserve, ReconcileInventory
  <2> QED
    BY <1>2, <1>5, <1>13, <2>1, <2>2 DEF MutateObserve, ReconcileInventory
<1>14. ASSUME NEW p \in Procs, MutatePublish(p) PROVE MutationTypeOK'
  BY <1>0, <1>4, <1>5, <1>14, PublishType, CloseAllType DEF MutatePublish
<1>15. ASSUME NEW p \in Procs, MutateAbort(p) PROVE MutationTypeOK'
  BY <1>0, <1>3, <1>5, <1>15, CloseAllType DEF MutateAbort
<1>16. ASSUME NEW p \in Procs, NEW d \in Drives, ReconcileBegin(p, d) PROVE MutationTypeOK'
  <2>1. [NoEnv EXCEPT !.pc = "reconcile_ctrl", !.drives = {d}] \in EnvRow
    BY DEF NoEnv, EnvRow
  <2> QED
    BY <1>0, <1>2, <1>5, <1>16, <2>1 DEF ReconcileBegin
<1>17. ASSUME NEW p \in Procs, NEW transition \in BOOLEAN, ReconcileController(p, transition)
       PROVE  MutationTypeOK'
  <2>1. PICK d \in env[p].drives :
          env' = [env EXCEPT ![p] =
                    [@ EXCEPT !.pc = "reconcile_fence", !.cap = FactsOf({d}),
                              !.keys = KeysOf({d}) \cup
                                IF transition THEN {<<d, drive[d].epoch + 1>>} ELSE {}]]
    BY <1>17 DEF ReconcileController
  <2>2. env[p] \in EnvRow /\ d \in Drives
    BY <1>0, <2>1 DEF EnvRow
  <2>3. FactsOf({d}) \in SUBSET Generation /\ KeysOf({d}) \in SUBSET Keys
    BY <1>0, <2>2, EnvRows, KeysOfType
  <2>4. <<d, drive[d].epoch + 1>> \in Keys
    BY <1>0, <2>2 DEF CatalogTypeOK, Keys
  <2> DEFINE ks == KeysOf({d}) \cup IF transition THEN {<<d, drive[d].epoch + 1>>} ELSE {}
  <2>5. ks \in SUBSET Keys
    BY <2>3, <2>4
  <2> HIDE DEF ks
  <2>6. [env[p] EXCEPT !.pc = "reconcile_fence", !.cap = FactsOf({d}), !.keys = ks] \in EnvRow
    BY <2>2, <2>3, <2>5 DEF EnvRow
  <2>7. env' = [env EXCEPT ![p] = [env[p] EXCEPT !.pc = "reconcile_fence", !.cap = FactsOf({d}),
                                                 !.keys = ks]]
    BY <2>1 DEF ks
  <2>8. FenceTypeOK'
    BY <1>0, <1>17, HoldControllerType DEF ReconcileController
  <2> QED
    BY <1>3, <1>5, <1>17, <2>6, <2>7, <2>8 DEF ReconcileController
<1>18. ASSUME NEW p \in Procs, ReconcileCommit(p) PROVE MutationTypeOK'
  <2>1. CloseAll(p) /\ env' = [env EXCEPT ![p] = NoEnv] /\ UNCHANGED <<proc, unobserved>>
    BY <1>18 DEF ReconcileCommit
  <2> QED
    BY <1>0, <1>4, <1>5, <1>18, <2>1, ReconcileType, CloseAllType
<1>19. ASSUME NEW p \in Procs, MutationCrash(p) PROVE MutationTypeOK'
  <2>1. SessionTypeOK'
    BY <1>0, <1>19, CatalogUnchangedType, CloseAllType DEF MutationCrash, SessionTypeOK
  <2> QED
    BY <1>0, <1>5, <1>19, <2>1 DEF MutationCrash, MutationTypeOK
<1>20. ASSUME NEW d \in Drives, DriveWrite(d) PROVE MutationTypeOK'
  BY <1>0, <1>2, <1>20 DEF DriveWrite
<1>21. ASSUME NEW p \in Procs, BaseNext(p) PROVE MutationTypeOK'
  BY <1>1, <1>21 DEF BaseNext, SessionNext
<1>22. CASE (\E s \in Sids : Expire(s)) /\ UNCHANGED <<env, unobserved>>
  BY <1>1, <1>22 DEF SessionNext
<1>23. CASE OperatorNext /\ UNCHANGED <<env, unobserved>>
  BY <1>1, <1>23 DEF SessionNext
<1>24. CASE UNCHANGED mutationVars
  BY <1>0, <1>2, <1>24 DEF mutationVars
<1> QED
  BY <1>6, <1>7, <1>8, <1>9, <1>10, <1>11, <1>12, <1>13, <1>14, <1>15, <1>16, <1>17, <1>18,
     <1>19, <1>20, <1>21, <1>22, <1>23, <1>24
  DEF MutationNext, EnvelopeNext, ReconcileNext

\* Envelopes, reconciliations and crashes inside them do not disturb the sessions.
LEMMA MutationSessionStep ==
  ASSUME MutationInv, [MutationNext]_mutationVars
  PROVE  SessionInv'
<1> USE DEF MutationInv
<1>0. SessionTypeOK /\ CatalogTypeOK /\ SessionTypeOK'
  BY MutationTypeStep DEF MutationTypeOK, SessionTypeOK
<1>1. ASSUME [SessionNext]_sessionVars PROVE SessionInv'
  BY <1>1, SessionInvStep
<1>2. ASSUME SameRows, UNCHANGED <<next_fencing_token, active_approved, proposal, proc>>
      PROVE  SessionInv'
  BY <1>0, <1>2, SessionInvKept
<1>3. ASSUME UNCHANGED <<session, next_fencing_token, active_approved, proposal, proc>>
      PROVE  SessionInv'
  BY <1>2, <1>3 DEF SameRows
<1>4. ASSUME NEW p \in Procs, MutateDirty(p) \/ MutatePublish(p) PROVE SessionInv'
  <2>1. BumpRevision(p) /\ env[p].owner \in Sids \cup {None}
    BY <1>4 DEF MutateDirty, MutatePublish, MutationTypeOK, EnvRow
  <2> QED
    BY <1>0, <1>2, <1>4, <2>1, BumpFrame DEF MutateDirty, MutatePublish
<1>5. ASSUME NEW p \in Procs, ReconcileCommit(p) PROVE SessionInv'
  BY <1>3, <1>5 DEF ReconcileCommit
<1>6. ASSUME NEW p \in Procs, MutationCrash(p) PROVE SessionInv'
  <2>1. CASE proc[p].pc # "idle"
    BY <1>1, <1>6, <2>1 DEF MutationCrash, Crash, SessionNext
  <2>2. CASE proc[p].pc = "idle"
    <3>1. proc[p] = Idle /\ proc \in [Procs -> ProcRow]
      BY <1>0, <2>2 DEF WorkersOK, SessionTypeOK
    <3>2. UNCHANGED proc
      BY <1>6, <3>1 DEF MutationCrash
    <3> QED
      BY <1>3, <1>6, <3>2 DEF MutationCrash, catalogVars, plannerVars
  <2> QED
    BY <2>1, <2>2
<1>7. ASSUME NEW p \in Procs, BaseNext(p) PROVE SessionInv'
  BY <1>1, <1>7 DEF BaseNext, SessionNext
<1>8. ASSUME NEW p \in Procs, EnvelopeNext(p), ~MutateDirty(p), ~MutatePublish(p)
      PROVE  SessionInv'
  BY <1>3, <1>8
  DEF EnvelopeNext, FillEnvelope, ReplicaEnvelope, MutateController, MutateHoldFence, MutateProve,
      SpawnChild, ChildExit, MutateObserve, MutateAbort, sessionVars, catalogVars, plannerVars
<1>9. ASSUME NEW p \in Procs, ReconcileNext(p), ~ReconcileCommit(p) PROVE SessionInv'
  BY <1>3, <1>9
  DEF ReconcileNext, ReconcileBegin, ReconcileController, ReconcileInventory, sessionVars,
      catalogVars, plannerVars
<1>10. ASSUME NEW d \in Drives, DriveWrite(d) PROVE SessionInv'
  BY <1>3, <1>10 DEF DriveWrite, sessionVars, catalogVars, plannerVars
<1>11. CASE (\E s \in Sids : Expire(s)) \/ OperatorNext
  BY <1>1, <1>11 DEF SessionNext
<1>12. CASE UNCHANGED mutationVars
  BY <1>1, <1>12 DEF mutationVars
<1> QED
  BY <1>4, <1>5, <1>6, <1>7, <1>8, <1>9, <1>10, <1>11, <1>12 DEF MutationNext

-----------------------------------------------------------------------------
(* Locks *)

\* The steps of held[p] and of child[p]: handles are closed, a free lock is taken, a child
\* inherits what its parent holds or exits.
LockStep(p) ==
  \/ UNCHANGED <<held, child>>
  \/ held' = [held EXCEPT ![p] = {}] /\ child' = child
  \/ /\ \E k \in Keys : Free(k) /\ held' = [held EXCEPT ![p] = @ \cup {k}]
     /\ child' = child
  \/ /\ held' = held
     /\ \/ child' = [child EXCEPT ![p] = {}]
        \/ env[p].pc = "body" /\ child' = [child EXCEPT ![p] = env[p].keys]

\* What a session step of p does to the locks.
LEMMA BaseLocks ==
  ASSUME MutationInv, NEW p \in Procs, BaseNext(p)
  PROVE  LockStep(p) /\ UNCHANGED child /\ (env[p].pc # "idle" => UNCHANGED held)
<1>0. proc[p].keys \in SUBSET Keys
  BY DEF MutationInv, SessionInv, SessionTypeOK, ProcRow
<1>1. CASE SessionWrite(p)
  BY <1>1 DEF SessionWrite, fenceVars, LockStep
<1>2. CASE env[p].pc = "idle" /\ StartNext(p)
  <2>1. CASE HoldDriveFence(p)
    BY <1>0, <1>2, <2>1 DEF HoldDriveFence, HoldNextDrive, LockStep
  <2>2. CASE StartUnlock(p) \/ Refuse(p)
    BY <1>2, <2>2 DEF StartUnlock, Refuse, CloseAll, LockStep
  <2> QED
    BY <1>2, <2>1, <2>2 DEF StartNext, StartPreflight, StartController, StartAdmit,
       StartReadRevision, StartCommit, fenceVars, LockStep
<1>3. CASE env[p].pc = "idle" /\ FillNext(p)
  BY <1>3 DEF FillNext, ClaimRead, ClaimUpdate, Heartbeat, SessionWriteRefused, Terminalize,
     fenceVars, LockStep
<1>4. CASE env[p].pc = "idle" /\ RecoverNext(p)
  <2>1. CASE RecoverUnlock(p)
    BY <1>4, <2>1 DEF RecoverUnlock, CloseAll, LockStep
  <2> QED
    BY <1>4, <2>1 DEF RecoverNext, RecoverPrecheck, RecoverController, RecoverCommit,
       fenceVars, LockStep
<1> QED
  BY <1>1, <1>2, <1>3, <1>4 DEF BaseNext

\* Every step moves the locks of one process at most.
LEMMA MutationLocks ==
  ASSUME MutationInv, [MutationNext]_mutationVars
  PROVE  \/ UNCHANGED <<held, child>>
         \/ \E p \in Procs : LockStep(p)
<1>1. ASSUME NEW p \in Procs, BaseNext(p) PROVE LockStep(p)
  BY <1>1, BaseLocks
<1>2. ASSUME NEW p \in Procs, EnvelopeNext(p) PROVE LockStep(p)
  <2>1. CASE MutateHoldFence(p)
    <3>1. env[p].keys \in SUBSET Keys
      BY DEF MutationInv, MutationTypeOK, EnvRow
    <3> QED
      BY <2>1, <3>1 DEF MutateHoldFence, HoldNextDrive, LockStep
  <2>2. CASE SpawnChild(p) \/ ChildExit(p)
    BY <2>2 DEF SpawnChild, ChildExit, LockStep
  <2>3. CASE MutatePublish(p) \/ MutateAbort(p)
    BY <2>3 DEF MutatePublish, MutateAbort, CloseAll, LockStep
  <2> QED
    BY <1>2, <2>1, <2>2, <2>3 DEF EnvelopeNext, FillEnvelope, ReplicaEnvelope, MutateController,
       MutateProve, MutateDirty, MutateObserve, LockStep, sessionVars, fenceVars
<1>3. ASSUME NEW p \in Procs, ReconcileNext(p) PROVE LockStep(p)
  BY <1>3 DEF ReconcileNext, ReconcileBegin, ReconcileController, ReconcileInventory,
     ReconcileCommit, CloseAll, LockStep, sessionVars, fenceVars
<1>4. ASSUME NEW p \in Procs, MutationCrash(p) PROVE LockStep(p)
  BY <1>4 DEF MutationCrash, CloseAll, LockStep
<1>5. CASE UNCHANGED mutationVars
  BY <1>5 DEF mutationVars, sessionVars, fenceVars
<1>6. ASSUME NEW d \in Drives, DriveWrite(d) PROVE UNCHANGED <<held, child>>
  BY <1>6 DEF DriveWrite, sessionVars, fenceVars
<1>7. CASE (\E s \in Sids : Expire(s)) \/ OperatorNext
  BY <1>7 DEF Expire, OperatorNext, GraphWrite, InvalidateApproval, fenceVars
<1> QED
  BY <1>1, <1>2, <1>3, <1>4, <1>5, <1>6, <1>7 DEF MutationNext

\* Two parties never have one lock: only a free one is taken, and a child's are its parent's.
LEMMA ExclusiveStep ==
  ASSUME MutationInv, [MutationNext]_mutationVars
  PROVE  LocksExclusive'
<1> USE DEF MutationInv
<1>0. held \in [Procs -> SUBSET Keys] /\ child \in [Procs -> SUBSET Keys]
  BY DEF MutationTypeOK, SessionTypeOK, FenceTypeOK
<1>1. CASE UNCHANGED <<held, child>>
  BY <1>1 DEF LocksExclusive, Locked
<1>2. ASSUME NEW p \in Procs, LockStep(p) PROVE LocksExclusive'
  <2>1. ASSUME NEW r \in Procs, r # p PROVE Locked(r)' = Locked(r)
    BY <1>0, <1>2, <2>1 DEF LockStep, Locked
  <2>2. ASSUME NEW r \in Procs, r # p PROVE Locked(p)' \cap Locked(r) = {}
    <3>1. Locked(p) \cap Locked(r) = {}
      BY <2>2 DEF LocksExclusive
    <3>2. env[p].pc = "body" => env[p].keys \subseteq held[p]
      BY DEF FencesHeld, FencesOK
    <3>3. \A k : Free(k) => k \notin Locked(r)
      BY DEF Free, Locked
    <3> QED
      BY <1>0, <1>2, <3>1, <3>2, <3>3 DEF LockStep, Locked
  <2> QED
    BY <2>1, <2>2 DEF LocksExclusive
<1> QED
  BY <1>1, <1>2, MutationLocks

\* The lock of a drive an envelope relies on, under the drive's current epoch.
LEMMA RelyLocked ==
  ASSUME MutationInv, NEW p \in Procs, NEW d \in env[p].drives,
         env[p].pc \in {"body", "observed", "reconcile_inventory"}
  PROVE  <<d, drive[d].epoch>> \in held[p]
BY DEF MutationInv, FencesHeld, FencesOK, KeysOf

\* The locks of processes that do not move keep their meaning.
LEMMA FencesOther ==
  ASSUME MutationInv, NEW p \in Procs, UNCHANGED <<held, child>> \/ LockStep(p),
         NEW r \in Procs, r # p, env'[r] = env[r],
         \A d \in Drives : <<d, drive[d].epoch>> \in Locked(r) =>
           drive'[d].epoch = drive[d].epoch
  PROVE  FencesOK(r)'
<1> USE DEF MutationInv
<1>0. /\ held \in [Procs -> SUBSET Keys] /\ child \in [Procs -> SUBSET Keys]
      /\ env[r].drives \in SUBSET Drives
  BY DEF MutationTypeOK, SessionTypeOK, FenceTypeOK, EnvRow
<1>1. held'[r] = held[r] /\ child'[r] = child[r]
  BY <1>0 DEF LockStep
<1>2. FencesOK(r)
  BY DEF FencesHeld
<1>3. env[r].pc \in {"body", "observed", "reconcile_inventory"} =>
        KeysOf(env[r].drives)' = KeysOf(env[r].drives)
  <2> SUFFICES ASSUME env[r].pc \in {"body", "observed", "reconcile_inventory"}
               PROVE  KeysOf(env[r].drives)' = KeysOf(env[r].drives)
    OBVIOUS
  <2>1. \A d \in env[r].drives : drive'[d].epoch = drive[d].epoch
    BY <1>0, RelyLocked DEF Locked
  <2> QED
    BY <2>1 DEF KeysOf
<1>4. \A k \in child[r] : drive'[k[1]].epoch = drive[k[1]].epoch
  BY <1>0, <1>2 DEF FencesOK, Locked, Keys
<1> QED
  BY <1>1, <1>2, <1>3, <1>4 DEF FencesOK

\* A reconciliation that changes the epoch of its drive has the drive's lock.
LEMMA CommitLocked ==
  ASSUME MutationInv, NEW p \in Procs, ReconcileCommit(p)
  PROVE  \E d \in env[p].drives :
           /\ <<d, drive[d].epoch>> \in held[p]
           /\ \A c \in Drives \ {d} : drive'[c] = drive[c]
<1>1. env[p].drives \in SUBSET Drives /\ drive \in [Drives -> [epoch : Nat, gen : Nat]]
  BY DEF MutationInv, MutationTypeOK, SessionTypeOK, CatalogTypeOK, EnvRow
<1>2. PICK d \in env[p].drives :
        drive' = [drive EXCEPT ![d] = [epoch |-> ReconciledGeneration(p, d).epoch,
                                       gen |-> ReconciledGeneration(p, d).gen]]
  BY DEF ReconcileCommit
<1>3. env[p].pc = "reconcile_inventory"
  BY DEF ReconcileCommit
<1> QED
  BY <1>1, <1>2, <1>3, RelyLocked

\* A step that changes no epoch, and the locks and the envelope of one process at most.
LEMMA FencesMove ==
  ASSUME MutationInv, NEW p \in Procs, UNCHANGED <<held, child>> \/ LockStep(p),
         \A r \in Procs \ {p} : env'[r] = env[r],
         \A d \in Drives : drive'[d].epoch = drive[d].epoch,
         FencesOK(p)'
  PROVE  FencesHeld'
BY FencesOther DEF FencesHeld

\* Every step keeps what the locks mean.
LEMMA FencesStep ==
  ASSUME MutationInv, [MutationNext]_mutationVars
  PROVE  FencesHeld'
<1> USE DEF MutationInv
<1>0. /\ held \in [Procs -> SUBSET Keys] /\ child \in [Procs -> SUBSET Keys]
      /\ env \in [Procs -> EnvRow]
      /\ drive \in [Drives -> [epoch : Nat, gen : Nat]]
      /\ \A p \in Procs : FencesOK(p)
  BY DEF MutationTypeOK, SessionTypeOK, CatalogTypeOK, FenceTypeOK, FencesHeld
<1>1. ASSUME UNCHANGED <<held, child, env, drive>> PROVE FencesHeld'
  BY <1>1 DEF FencesHeld, FencesOK, KeysOf
\* p has given everything up; what its children still have is under current epochs.
<1>2. ASSUME NEW p \in Procs, env' = [env EXCEPT ![p] = NoEnv], UNCHANGED <<child, drive>>,
             held' = [held EXCEPT ![p] = {}]
      PROVE  FencesHeld'
  <2>1. env'[p].pc = "idle" /\ held'[p] = {}
    BY <1>0, <1>2 DEF NoEnv
  <2>2. \A k \in child[p] : k[2] = drive[k[1]].epoch
    BY <1>0 DEF FencesOK
  <2>3. FencesOK(p)'
    BY <1>2, <2>1, <2>2 DEF FencesOK
  <2> QED
    BY <1>0, <1>2, <2>3, FencesMove DEF LockStep
\* p has no child, and does not rely on its locks yet.
<1>3. ASSUME NEW p \in Procs, NEW row \in EnvRow, env' = [env EXCEPT ![p] = row],
             row.pc \in {"ctrl", "fence", "reconcile_ctrl", "reconcile_fence"},
             child[p] = {}, UNCHANGED <<held, child, drive>>
      PROVE  FencesHeld'
  <2>1. env'[p].pc \notin {"idle", "proven", "body", "observed", "reconcile_inventory"}
        /\ child'[p] = {}
    BY <1>0, <1>3 DEF EnvRow
  <2>2. FencesOK(p)'
    BY <2>1 DEF FencesOK
  <2> QED
    BY <1>0, <1>3, <2>2, FencesMove
<1>4. ASSUME NEW p \in Procs, BaseNext(p) PROVE FencesHeld'
  <2>1. UNCHANGED <<env, drive>>
    BY <1>4 DEF BaseNext, StartNext, FillNext, RecoverNext, SessionWrite, StartPreflight,
       StartController, HoldDriveFence, StartAdmit, StartReadRevision, StartCommit, StartUnlock,
       Refuse, ClaimRead, ClaimUpdate, Heartbeat, SessionWriteRefused, Terminalize,
       RecoverPrecheck, RecoverController, RecoverCommit, RecoverUnlock, catalogVars, driveVars
  <2>2. LockStep(p) /\ UNCHANGED child /\ (env[p].pc # "idle" => UNCHANGED held)
    BY <1>4, BaseLocks
  <2>3. CASE UNCHANGED held
    BY <1>1, <2>1, <2>2, <2>3
  <2>4. CASE env[p].pc = "idle"
    <3>1. held'[p] \cap child[p] = {}
      BY <1>0, <2>2, <2>4 DEF LockStep, FencesOK, Free
    <3>2. FencesOK(p)'
      BY <1>0, <2>1, <2>2, <2>4, <3>1 DEF FencesOK
    <3> QED
      BY <2>1, <2>2, <3>2, FencesMove
  <2> QED
    BY <2>2, <2>3, <2>4
<1>5. ASSUME NEW p \in Procs, NEW d \in Drives, NEW map \in BOOLEAN, FillEnvelope(p, d, map)
      PROVE  FencesHeld'
  <2>1. [NoEnv EXCEPT !.pc = "ctrl", !.drives = {d}, !.map = map, !.owner = proc[p].sid] \in EnvRow
    BY DEF NoEnv, EnvRow, MutationTypeOK, SessionTypeOK, ProcRow
  <2>2. [NoEnv EXCEPT !.pc = "ctrl", !.drives = {d}, !.map = map, !.owner = proc[p].sid].pc = "ctrl"
    BY DEF NoEnv
  <2> QED
    BY <1>3, <1>5, <2>1, <2>2 DEF FillEnvelope, sessionVars, catalogVars, driveVars, fenceVars
<1>6. ASSUME NEW p \in Procs, NEW source \in Drives, NEW target \in Drives,
             ReplicaEnvelope(p, source, target)
      PROVE  FencesHeld'
  <2>1. /\ [NoEnv EXCEPT !.pc = "ctrl", !.drives = {source, target}, !.map = TRUE] \in EnvRow
        /\ [NoEnv EXCEPT !.pc = "ctrl", !.drives = {source, target}, !.map = TRUE].pc = "ctrl"
    BY DEF NoEnv, EnvRow
  <2> QED
    BY <1>3, <1>6, <2>1 DEF ReplicaEnvelope, sessionVars, catalogVars, driveVars, fenceVars
<1>7. ASSUME NEW p \in Procs, NEW d \in Drives, ReconcileBegin(p, d) PROVE FencesHeld'
  <2>1. /\ [NoEnv EXCEPT !.pc = "reconcile_ctrl", !.drives = {d}] \in EnvRow
        /\ [NoEnv EXCEPT !.pc = "reconcile_ctrl", !.drives = {d}].pc = "reconcile_ctrl"
    BY DEF NoEnv, EnvRow
  <2> QED
    BY <1>3, <1>7, <2>1 DEF ReconcileBegin, sessionVars, catalogVars, driveVars, fenceVars
<1>8. ASSUME NEW p \in Procs,
             MutateController(p) \/ \E transition \in BOOLEAN : ReconcileController(p, transition)
      PROVE  FencesHeld'
  <2>1. /\ env[p].pc \in {"ctrl", "reconcile_ctrl"}
        /\ UNCHANGED <<held, child, drive>>
        /\ \A r \in Procs \ {p} : env'[r] = env[r]
        /\ env'[p].pc \in {"fence", "reconcile_fence"}
    <3>1. CASE MutateController(p)
      BY <1>0, <3>1 DEF MutateController, catalogVars, driveVars, EnvRow
    <3>2. CASE \E transition \in BOOLEAN : ReconcileController(p, transition)
      <4>1. PICK cap, ks :
              env' = [env EXCEPT ![p] = [@ EXCEPT !.pc = "reconcile_fence", !.cap = cap,
                                                  !.keys = ks]]
        BY <3>2, Zenon DEF ReconcileController
      <4>2. env[p].pc = "reconcile_ctrl" /\ UNCHANGED <<held, child, drive>>
        BY <3>2 DEF ReconcileController, catalogVars, driveVars
      <4> QED
        BY <1>0, <4>1, <4>2 DEF EnvRow
    <3> QED
      BY <1>8, <3>1, <3>2
  <2>2. child'[p] = {}
    BY <1>0, <2>1 DEF FencesOK
  <2>3. FencesOK(p)'
    BY <2>1, <2>2 DEF FencesOK
  <2> QED
    BY <2>1, <2>3, FencesMove
<1>9. ASSUME NEW p \in Procs, MutateHoldFence(p) PROVE FencesHeld'
  <2>1. /\ env[p].pc \in {"fence", "reconcile_fence"}
        /\ UNCHANGED <<child, drive, env>>
    BY <1>9 DEF MutateHoldFence, catalogVars, driveVars
  <2>2. child'[p] = {}
    BY <1>0, <2>1 DEF FencesOK
  <2>3. FencesOK(p)'
    BY <2>1, <2>2 DEF FencesOK
  <2>4. LockStep(p)
    BY <1>0, <1>9 DEF MutateHoldFence, HoldNextDrive, LockStep, EnvRow
  <2> QED
    BY <2>1, <2>3, <2>4, FencesMove
<1>10. ASSUME NEW p \in Procs, MutateProve(p) \/ ReconcileInventory(p) PROVE FencesHeld'
  <2>1. /\ env[p].pc \in {"fence", "reconcile_fence"}
        /\ env[p].keys \subseteq held[p]
        /\ KeysOf(env[p].drives) \subseteq env[p].keys
        /\ UNCHANGED <<held, child, drive>>
        /\ \A r \in Procs \ {p} : env'[r] = env[r]
        /\ env'[p].pc \in {"proven", "reconcile_inventory"}
        /\ env'[p].keys = env[p].keys /\ env'[p].drives = env[p].drives
    BY <1>0, <1>10 DEF MutateProve, ReconcileInventory, CapturedCurrent, sessionVars, catalogVars,
       driveVars, fenceVars, EnvRow
  <2>2. child'[p] = {}
    BY <1>0, <2>1 DEF FencesOK
  <2>3. KeysOf(env[p].drives)' = KeysOf(env[p].drives)
    BY <2>1 DEF KeysOf
  <2>4. FencesOK(p)'
    BY <2>1, <2>2, <2>3 DEF FencesOK
  <2> QED
    BY <2>1, <2>4, FencesMove
<1>11. ASSUME NEW p \in Procs, MutateDirty(p) PROVE FencesHeld'
  <2>1. /\ env[p].pc = "proven"
        /\ KeysOf(env[p].drives) = env[p].keys
        /\ UNCHANGED <<held, child>>
        /\ \A r \in Procs \ {p} : env'[r] = env[r]
        /\ env'[p].pc = "body"
        /\ env'[p].keys = env[p].keys /\ env'[p].drives = env[p].drives
        /\ \A d \in Drives : drive'[d].epoch = drive[d].epoch
    BY <1>0, <1>11 DEF MutateDirty, EnvRow
  <2>2. child'[p] = {} /\ env[p].keys \subseteq held[p]
    BY <1>0, <2>1 DEF FencesOK
  <2>3. env[p].drives \in SUBSET Drives
    BY <1>0 DEF EnvRow
  <2>4. KeysOf(env[p].drives)' = KeysOf(env[p].drives)
    BY <2>1, <2>3 DEF KeysOf
  <2>5. FencesOK(p)'
    BY <2>1, <2>2, <2>4 DEF FencesOK
  <2> QED
    BY <2>1, <2>5, FencesMove
<1>12. ASSUME NEW p \in Procs, SpawnChild(p) PROVE FencesHeld'
  <2>1. /\ env[p].pc = "body"
        /\ child'[p] = env[p].keys
        /\ LockStep(p)
        /\ UNCHANGED <<held, drive, env>>
    BY <1>0, <1>12 DEF SpawnChild, LockStep, catalogVars, driveVars
  <2>2. env[p].keys = KeysOf(env[p].drives)
    BY <1>0, <2>1 DEF FencesOK
  <2>3. \A k \in env[p].keys : k[2] = drive[k[1]].epoch
    BY <2>2 DEF KeysOf
  <2>4. FencesOK(p)'
    BY <1>0, <2>1, <2>3 DEF FencesOK, KeysOf
  <2> QED
    BY <2>1, <2>4, FencesMove
<1>13. ASSUME NEW p \in Procs, ChildExit(p) PROVE FencesHeld'
  <2>1. /\ child'[p] = {}
        /\ LockStep(p)
        /\ UNCHANGED <<held, drive, env>>
    BY <1>0, <1>13 DEF ChildExit, LockStep, catalogVars, driveVars
  <2>2. FencesOK(p)'
    BY <1>0, <2>1 DEF FencesOK, KeysOf
  <2> QED
    BY <2>1, <2>2, FencesMove
<1>14. ASSUME NEW p \in Procs, MutateObserve(p) PROVE FencesHeld'
  <2>1. /\ env[p].pc = "body"
        /\ child[p] = {}
        /\ UNCHANGED <<held, child, drive>>
        /\ \A r \in Procs \ {p} : env'[r] = env[r]
        /\ env'[p].pc = "observed"
        /\ env'[p].keys = env[p].keys /\ env'[p].drives = env[p].drives
    BY <1>0, <1>14 DEF MutateObserve, sessionVars, catalogVars, driveVars, fenceVars, EnvRow
  <2>2. KeysOf(env[p].drives)' = KeysOf(env[p].drives)
    BY <2>1 DEF KeysOf
  <2>3. FencesOK(p)'
    BY <1>0, <2>1, <2>2 DEF FencesOK
  <2> QED
    BY <2>1, <2>3, FencesMove
<1>15. ASSUME NEW p \in Procs, MutatePublish(p) PROVE FencesHeld'
  BY <1>2, <1>15 DEF MutatePublish, CloseAll
<1>16. ASSUME NEW p \in Procs, MutateAbort(p) \/ MutationCrash(p) PROVE FencesHeld'
  BY <1>2, <1>16 DEF MutateAbort, MutationCrash, CloseAll, catalogVars, driveVars
<1>17. ASSUME NEW p \in Procs, ReconcileCommit(p) PROVE FencesHeld'
  <2>1. /\ env' = [env EXCEPT ![p] = NoEnv] /\ UNCHANGED child
        /\ held' = [held EXCEPT ![p] = {}]
        /\ env[p].pc = "reconcile_inventory"
    BY <1>17 DEF ReconcileCommit, CloseAll
  <2>2. env'[p].pc = "idle" /\ held'[p] = {} /\ child'[p] = {}
    BY <1>0, <2>1 DEF NoEnv, FencesOK
  <2>3. FencesOK(p)'
    BY <2>2 DEF FencesOK
  <2>4. PICK d \in env[p].drives : /\ <<d, drive[d].epoch>> \in held[p]
                                   /\ \A c \in Drives \ {d} : drive'[c] = drive[c]
    BY <1>17, CommitLocked
  <2>5. ASSUME NEW r \in Procs, r # p PROVE FencesOK(r)'
    <3>1. <<d, drive[d].epoch>> \notin Locked(r)
      BY <2>4, <2>5 DEF LocksExclusive, Locked
    <3>2. LockStep(p) /\ env'[r] = env[r]
      BY <1>0, <2>1, <2>5 DEF LockStep
    <3> QED
      BY <2>4, <2>5, <3>1, <3>2, FencesOther
  <2> QED
    BY <2>3, <2>5 DEF FencesHeld
<1>18. ASSUME NEW d \in Drives, DriveWrite(d) PROVE FencesHeld'
  BY <1>1, <1>18 DEF DriveWrite, sessionVars, catalogVars, driveVars, fenceVars
<1>19. CASE ((\E s \in Sids : Expire(s)) \/ OperatorNext) /\ UNCHANGED <<env, unobserved>>
  BY <1>1, <1>19 DEF Expire, OperatorNext, GraphWrite, InvalidateApproval, driveVars, fenceVars
<1>20. CASE UNCHANGED mutationVars
  BY <1>1, <1>20 DEF mutationVars, sessionVars, catalogVars, driveVars, fenceVars
<1> QED
  BY <1>4, <1>5, <1>6, <1>7, <1>8, <1>9, <1>10, <1>11, <1>12, <1>13, <1>14, <1>15, <1>16, <1>17,
     <1>18, <1>19, <1>20
  DEF MutationNext, EnvelopeNext, ReconcileNext

-----------------------------------------------------------------------------
(* Workers *)

\* The steps of a process outside an envelope: it stays the worker of its session, stops
\* being one, or becomes the worker of a session that is new.
WorkerMove(p) ==
  \/ UNCHANGED proc
  \/ /\ env[p].pc = "idle"
     /\ \E row :
          /\ proc' = [proc EXCEPT ![p] = row]
          /\ row.pc = "idle" => row = Idle
          /\ row.pc \in WorkerPcs =>
               \/ proc[p].pc \in WorkerPcs /\ row.sid = proc[p].sid
               \/ row.sid \in Sids /\ session[row.sid].state = "absent"

\* Every session step is one of them: the session that start inserts is new.
LEMMA BaseMove ==
  ASSUME MutationInv, NEW p \in Procs, BaseNext(p)
  PROVE  WorkerMove(p)
<1> USE DEF MutationInv
<1> DEFINE Row(row) == /\ proc' = [proc EXCEPT ![p] = row]
                       /\ row.pc = "idle" => row = Idle
                       /\ row.pc \in WorkerPcs => proc[p].pc \in WorkerPcs /\ row.sid = proc[p].sid
<1>0. /\ proc \in [Procs -> ProcRow]
      /\ env' = env
  BY DEF SessionInv, SessionTypeOK, BaseNext
<1>1. ASSUME UNCHANGED proc PROVE WorkerMove(p)
  BY <1>1 DEF WorkerMove
<1>a. ASSUME env[p].pc = "idle", NEW row, Row(row) PROVE WorkerMove(p)
  BY <1>a DEF WorkerMove
<1> HIDE DEF Row
<1>2. CASE SessionWrite(p)
  BY <1>1, <1>2 DEF SessionWrite
<1>3. ASSUME env[p].pc = "idle", NEW pc, proc' = [proc EXCEPT ![p].pc = pc],
             pc # "idle", pc \in WorkerPcs => proc[p].pc \in WorkerPcs
      PROVE  WorkerMove(p)
  <2>1. /\ proc' = [proc EXCEPT ![p] = [proc[p] EXCEPT !.pc = pc]]
        /\ [proc[p] EXCEPT !.pc = pc].pc = pc
        /\ [proc[p] EXCEPT !.pc = pc].sid = proc[p].sid
    BY <1>0, <1>3 DEF ProcRow
  <2> QED
    BY <1>3, <1>a, <2>1 DEF Row
<1>4. ASSUME env[p].pc = "idle", proc' = [proc EXCEPT ![p] = Idle] PROVE WorkerMove(p)
  <2>1. Idle.pc \notin WorkerPcs
    BY DEF Idle, WorkerPcs, FillPcs
  <2> QED
    BY <1>4, <1>a, <2>1 DEF Row
<1>5. CASE env[p].pc = "idle" /\ StartNext(p)
  <2>1. ASSUME NEW req \in Proposals \cup {None}, NEW pred \in Sids \cup {None},
               StartPreflight(p, req, pred)
        PROVE  WorkerMove(p)
    <3>1. [Idle EXCEPT !.pc = "start_ctrl", !.req = req, !.pred = pred].pc = "start_ctrl"
      BY DEF Idle
    <3> QED
      BY <1>0, <1>5, <2>1, <3>1, <1>a DEF Row, StartPreflight, WorkerPcs, FillPcs
  <2>2. CASE StartController(p)
    <3>1. [proc[p] EXCEPT !.pc = "start_fence", !.prop = SelectedApproval(proc[p].req),
             !.req = None, !.keys = KeysOf(DrivesOf[SelectedApproval(proc[p].req)])].pc = "start_fence"
      BY <1>0 DEF ProcRow
    <3> QED
      BY <1>0, <1>5, <2>2, <3>1, <1>a DEF Row, StartController, WorkerPcs, FillPcs
  <2>3. CASE HoldDriveFence(p)
    BY <1>1, <2>3 DEF HoldDriveFence
  <2>4. CASE StartAdmit(p)
    BY <1>3, <1>5, <2>4 DEF StartAdmit, WorkerPcs, FillPcs
  <2>5. CASE StartReadRevision(p)
    <3>1. [proc[p] EXCEPT !.pc = "start_bound", !.rev = planner_revision].pc = "start_bound"
      BY <1>0 DEF ProcRow
    <3> QED
      BY <1>0, <1>5, <2>5, <3>1, <1>a DEF Row, StartReadRevision, WorkerPcs, FillPcs
  <2>6. CASE StartCommit(p)
    <3>1. PICK n \in Sids : /\ session[n] = NoSession
                            /\ proc' = [proc EXCEPT ![p] = [@ EXCEPT !.pc = "start_unlock", !.sid = n]]
      BY <2>6, InsertStep
    <3>2. /\ [proc[p] EXCEPT !.pc = "start_unlock", !.sid = n].pc = "start_unlock"
          /\ [proc[p] EXCEPT !.pc = "start_unlock", !.sid = n].sid = n
      BY <1>0 DEF ProcRow
    <3>3. session[n].state = "absent"
      BY <3>1 DEF NoSession
    <3> QED
      BY <1>5, <3>1, <3>2, <3>3 DEF WorkerMove
  <2>7. CASE StartUnlock(p)
    <3>1. /\ [Idle EXCEPT !.pc = "claim", !.sid = proc[p].sid].pc = "claim"
          /\ [Idle EXCEPT !.pc = "claim", !.sid = proc[p].sid].sid = proc[p].sid
      BY DEF Idle
    <3> QED
      BY <1>0, <1>5, <2>7, <3>1, <1>a DEF Row, StartUnlock, WorkerPcs
  <2>8. CASE Refuse(p)
    BY <1>4, <1>5, <2>8 DEF Refuse
  <2> QED
    BY <1>5, <2>1, <2>2, <2>3, <2>4, <2>5, <2>6, <2>7, <2>8 DEF StartNext
<1>6. CASE env[p].pc = "idle" /\ FillNext(p)
  <2>1. CASE ClaimRead(p) \/ ClaimUpdate(p) \/ Heartbeat(p) \/ SessionWriteRefused(p)
    <3>1. \/ UNCHANGED proc
          \/ \E pc \in FillPcs : proc' = [proc EXCEPT ![p].pc = pc]
      BY <2>1 DEF ClaimRead, ClaimUpdate, Heartbeat, SessionWriteRefused, FillPcs
    <3>2. proc[p].pc \in WorkerPcs /\ "idle" \notin FillPcs
      BY <2>1 DEF ClaimRead, ClaimUpdate, Heartbeat, SessionWriteRefused, WorkerPcs, FillPcs
    <3> QED
      BY <1>1, <1>3, <1>6, <3>1, <3>2
  <2>2. CASE \E state \in TERMINAL_STATES : Terminalize(p, state)
    BY <1>4, <1>6, <2>2 DEF Terminalize
  <2> QED
    BY <1>6, <2>1, <2>2 DEF FillNext
<1>7. CASE env[p].pc = "idle" /\ RecoverNext(p)
  <2>1. ASSUME NEW s \in Sids, RecoverPrecheck(p, s) PROVE WorkerMove(p)
    <3>1. [Idle EXCEPT !.pc = "recover_ctrl", !.sid = s].pc = "recover_ctrl"
      BY DEF Idle
    <3> QED
      BY <1>0, <1>7, <2>1, <3>1, <1>a DEF Row, RecoverPrecheck, WorkerPcs, FillPcs
  <2>2. CASE RecoverController(p)
    <3>1. [proc[p] EXCEPT !.pc = "recover_fence", !.keys = KeysOf(RecoveryDrives(proc[p].sid)),
                          !.owned = OwnedDirty(proc[p].sid)].pc = "recover_fence"
      BY <1>0 DEF ProcRow
    <3> QED
      BY <1>0, <1>7, <2>2, <3>1, <1>a DEF Row, RecoverController, WorkerPcs, FillPcs
  <2>3. CASE RecoverCommit(p)
    BY <1>3, <1>7, <2>3 DEF RecoverCommit, WorkerPcs, FillPcs
  <2>4. CASE RecoverUnlock(p)
    BY <1>4, <1>7, <2>4 DEF RecoverUnlock
  <2> QED
    BY <1>7, <2>1, <2>2, <2>3, <2>4 DEF RecoverNext
<1> QED
  BY <1>2, <1>5, <1>6, <1>7 DEF BaseNext

\* So a session keeps to one worker.
LEMMA BaseWorkers ==
  ASSUME MutationInv, NEW p \in Procs, BaseNext(p)
  PROVE  WorkersOK'
<1> USE DEF MutationInv
<1>0. /\ proc \in [Procs -> ProcRow]
      /\ env' = env
      /\ WorkerMove(p)
  BY BaseMove DEF SessionInv, SessionTypeOK, BaseNext
<1>1. CASE UNCHANGED proc
  BY <1>0, <1>1 DEF WorkersOK
<1>2. ASSUME env[p].pc = "idle", NEW row, proc' = [proc EXCEPT ![p] = row],
             row.pc = "idle" => row = Idle,
             row.pc \in WorkerPcs => \/ proc[p].pc \in WorkerPcs /\ row.sid = proc[p].sid
                                     \/ row.sid \in Sids /\ session[row.sid].state = "absent"
      PROVE  WorkersOK'
  <2>1. env[p].owner = None
    BY <1>2 DEF WorkersOK, NoEnv
  <2>2. \A r \in Procs : proc[r].pc \in WorkerPcs =>
          proc[r].sid \in Sids /\ session[proc[r].sid].state # "absent"
    BY DEF SessionInv, LocalsOK, LocalOK, WorkerPcs
  <2> QED
    BY <1>0, <1>2, <2>1, <2>2 DEF WorkersOK
<1> QED
  BY <1>0, <1>1, <1>2 DEF WorkerMove

\* Every step keeps a session to one worker and the owner of an envelope to its worker.
LEMMA WorkersStep ==
  ASSUME MutationInv, [MutationNext]_mutationVars
  PROVE  WorkersOK'
<1> USE DEF MutationInv
<1>0. proc \in [Procs -> ProcRow] /\ env \in [Procs -> EnvRow]
  BY DEF SessionInv, SessionTypeOK, MutationTypeOK
<1>1. ASSUME UNCHANGED <<proc, env>> PROVE WorkersOK'
  BY <1>1 DEF WorkersOK
<1>2. ASSUME UNCHANGED proc, NEW p \in Procs, NEW row, env' = [env EXCEPT ![p] = row],
             row.pc # "idle", row.owner = env[p].owner \/ row.owner = None
      PROVE  WorkersOK'
  BY <1>0, <1>2 DEF WorkersOK
<1>3. ASSUME UNCHANGED proc, NEW p \in Procs, env' = [env EXCEPT ![p] = NoEnv] PROVE WorkersOK'
  BY <1>0, <1>3 DEF WorkersOK, NoEnv
<1>4. ASSUME UNCHANGED proc, NEW p \in Procs, NEW pc, pc # "idle",
             env' = [env EXCEPT ![p].pc = pc]
      PROVE  WorkersOK'
  <2>1. /\ env' = [env EXCEPT ![p] = [env[p] EXCEPT !.pc = pc]]
        /\ [env[p] EXCEPT !.pc = pc].pc = pc
        /\ [env[p] EXCEPT !.pc = pc].owner = env[p].owner
    BY <1>0, <1>4 DEF EnvRow
  <2> QED
    BY <1>2, <1>4, <2>1
<1>5. ASSUME NEW p \in Procs, NEW d \in Drives, NEW map \in BOOLEAN, FillEnvelope(p, d, map)
      PROVE  WorkersOK'
  <2> DEFINE row == [NoEnv EXCEPT !.pc = "ctrl", !.drives = {d}, !.map = map, !.owner = proc[p].sid]
  <2>1. row.pc = "ctrl" /\ row.owner = proc[p].sid
    BY DEF NoEnv
  <2>2. proc[p].pc = "work" \/ proc[p].sid = None
    BY <1>5 DEF FillEnvelope, WorkersOK, Idle
  <2>3. UNCHANGED proc /\ env' = [env EXCEPT ![p] = row]
    BY <1>5 DEF FillEnvelope, sessionVars
  <2> HIDE DEF row
  <2> QED
    BY <1>0, <2>1, <2>2, <2>3 DEF WorkersOK
<1>6. ASSUME NEW p \in Procs, NEW source \in Drives, NEW target \in Drives,
             ReplicaEnvelope(p, source, target)
      PROVE  WorkersOK'
  <2>1. /\ [NoEnv EXCEPT !.pc = "ctrl", !.drives = {source, target}, !.map = TRUE].pc = "ctrl"
        /\ [NoEnv EXCEPT !.pc = "ctrl", !.drives = {source, target}, !.map = TRUE].owner = None
    BY DEF NoEnv
  <2> QED
    BY <1>2, <1>6, <2>1 DEF ReplicaEnvelope, sessionVars
<1>7. ASSUME NEW p \in Procs, NEW d \in Drives, ReconcileBegin(p, d) PROVE WorkersOK'
  <2>1. /\ [NoEnv EXCEPT !.pc = "reconcile_ctrl", !.drives = {d}].pc = "reconcile_ctrl"
        /\ [NoEnv EXCEPT !.pc = "reconcile_ctrl", !.drives = {d}].owner = None
    BY DEF NoEnv
  <2> QED
    BY <1>2, <1>7, <2>1 DEF ReconcileBegin, sessionVars
<1>8. ASSUME NEW p \in Procs, MutateController(p) \/ MutateDirty(p) PROVE WorkersOK'
  <2>1. ASSUME NEW pc \in {"fence", "body"}, NEW cap, NEW ks,
               env' = [env EXCEPT ![p] = [env[p] EXCEPT !.pc = pc, !.cap = cap, !.keys = ks]]
        PROVE  WorkersOK'
    <3>1. /\ [env[p] EXCEPT !.pc = pc, !.cap = cap, !.keys = ks].pc # "idle"
          /\ [env[p] EXCEPT !.pc = pc, !.cap = cap, !.keys = ks].owner = env[p].owner
      BY <1>0 DEF EnvRow
    <3>2. UNCHANGED proc
      BY <1>8 DEF MutateController, MutateDirty
    <3> QED
      BY <1>2, <2>1, <3>1, <3>2
  <2>2. CASE MutateController(p)
    <3>1. env' = [env EXCEPT ![p] = [env[p] EXCEPT !.pc = "fence", !.cap = FactsOf(env[p].drives),
                                                   !.keys = KeysOf(env[p].drives)]]
      BY <2>2 DEF MutateController
    <3> QED
      BY <2>1, <3>1
  <2>3. CASE MutateDirty(p)
    <3>1. PICK cap : env' = [env EXCEPT ![p] = [env[p] EXCEPT !.pc = "body", !.cap = cap]]
      BY <2>3, Zenon DEF MutateDirty
    <3>2. [env[p] EXCEPT !.pc = "body", !.cap = cap]
            = [env[p] EXCEPT !.pc = "body", !.cap = cap, !.keys = env[p].keys]
      BY <1>0 DEF EnvRow
    <3> QED
      BY <2>1, <3>1, <3>2
  <2> QED
    BY <1>8, <2>2, <2>3
<1>9. ASSUME NEW p \in Procs, NEW transition \in BOOLEAN, ReconcileController(p, transition)
      PROVE  WorkersOK'
  <2>1. PICK cap, ks :
          env' = [env EXCEPT ![p] = [env[p] EXCEPT !.pc = "reconcile_fence", !.cap = cap, !.keys = ks]]
    BY <1>9, Zenon DEF ReconcileController
  <2>2. /\ [env[p] EXCEPT !.pc = "reconcile_fence", !.cap = cap, !.keys = ks].pc # "idle"
        /\ [env[p] EXCEPT !.pc = "reconcile_fence", !.cap = cap, !.keys = ks].owner = env[p].owner
    BY <1>0 DEF EnvRow
  <2> QED
    BY <1>2, <1>9, <2>1, <2>2 DEF ReconcileController
<1>10. ASSUME NEW p \in Procs, MutateProve(p) \/ MutateObserve(p) \/ ReconcileInventory(p)
       PROVE  WorkersOK'
  BY <1>4, <1>10 DEF MutateProve, MutateObserve, ReconcileInventory, sessionVars
<1>11. ASSUME NEW p \in Procs, MutateHoldFence(p) \/ SpawnChild(p) \/ ChildExit(p) PROVE WorkersOK'
  BY <1>1, <1>11 DEF MutateHoldFence, SpawnChild, ChildExit
<1>12. ASSUME NEW p \in Procs, MutatePublish(p) \/ MutateAbort(p) \/ ReconcileCommit(p)
       PROVE  WorkersOK'
  BY <1>3, <1>12 DEF MutatePublish, MutateAbort, ReconcileCommit
<1>13. ASSUME NEW p \in Procs, MutationCrash(p) PROVE WorkersOK'
  <2>1. Idle.pc \notin WorkerPcs /\ NoEnv.owner = None
    BY DEF Idle, WorkerPcs, FillPcs, NoEnv
  <2> QED
    BY <1>0, <1>13, <2>1 DEF MutationCrash, WorkersOK
<1>14. ASSUME NEW d \in Drives, DriveWrite(d) PROVE WorkersOK'
  BY <1>1, <1>14 DEF DriveWrite, sessionVars
<1>15. CASE ((\E s \in Sids : Expire(s)) \/ OperatorNext) /\ UNCHANGED <<env, unobserved>>
  BY <1>1, <1>15 DEF Expire, OperatorNext, GraphWrite, InvalidateApproval
<1>16. CASE UNCHANGED mutationVars
  BY <1>1, <1>16 DEF mutationVars, sessionVars
<1> QED
  BY <1>5, <1>6, <1>7, <1>8, <1>9, <1>10, <1>11, <1>12, <1>13, <1>14, <1>15, <1>16, BaseWorkers
  DEF MutationNext, EnvelopeNext, ReconcileNext

-----------------------------------------------------------------------------
(* Generations *)

\* Session, clock and operator steps do not write the rows of drives.
LEMMA BaseFrame ==
  ASSUME \/ \E p \in Procs : BaseNext(p)
         \/ (\E s \in Sids : Expire(s)) /\ UNCHANGED <<env, unobserved>>
         \/ OperatorNext /\ UNCHANGED <<env, unobserved>>
  PROVE  UNCHANGED <<drive, dirty, anchor, env, unobserved>> /\ [SessionNext]_sessionVars
<1>1. ASSUME NEW p \in Procs, BaseNext(p)
      PROVE  UNCHANGED <<drive, dirty, anchor, env, unobserved>>
  BY <1>1 DEF BaseNext, StartNext, FillNext, RecoverNext, SessionWrite, StartPreflight,
     StartController, HoldDriveFence, StartAdmit, StartReadRevision, StartCommit, StartUnlock,
     Refuse, ClaimRead, ClaimUpdate, Heartbeat, SessionWriteRefused, Terminalize,
     RecoverPrecheck, RecoverController, RecoverCommit, RecoverUnlock, catalogVars, driveVars
<1>2. CASE ((\E s \in Sids : Expire(s)) \/ OperatorNext) /\ UNCHANGED <<env, unobserved>>
  BY <1>2 DEF Expire, OperatorNext, GraphWrite, InvalidateApproval, driveVars, SessionNext
<1>3. ASSUME NEW p \in Procs, BaseNext(p) PROVE SessionNext
  BY <1>3 DEF BaseNext, SessionNext
<1> QED
  BY <1>1, <1>2, <1>3 DEF SessionNext

\* A row of execution_sessions is never deleted.
LEMMA RowsStay ==
  ASSUME SessionInv, [SessionNext]_sessionVars
  PROVE  \A s \in Sids : session[s].state # "absent" => session'[s].state # "absent"
<1>0. session \in [Sids -> SessionRow]
  BY DEF SessionInv, SessionTypeOK, CatalogTypeOK
<1>1. ASSUME NEW p \in Procs, StartCommit(p)
      PROVE  \A s \in Sids : session[s].state # "absent" => session'[s].state # "absent"
  <2>1. PICK n \in Sids : /\ session[n] = NoSession
                          /\ session' = [session EXCEPT ![n] = NewSession(p)]
    BY <1>1, InsertStep
  <2> QED
    BY <1>0, <2>1 DEF NoSession
<1>2. CASE SessionFrame
  BY <1>2 DEF SessionFrame
<1> QED
  BY <1>1, <1>2, FrameStep DEF SessionInv

\* The generations of drives only move on: to the next one, or to a new epoch.
LEMMA DirtyGenerations ==
  ASSUME MutationInv, NEW p \in Procs, MutateDirty(p)
  PROVE  \A d \in Drives :
           /\ drive'[d].epoch = drive[d].epoch
           /\ drive'[d].gen = IF d \in env[p].drives THEN drive[d].gen + 1 ELSE drive[d].gen
BY DEF MutateDirty, MutationInv, MutationTypeOK, SessionTypeOK, CatalogTypeOK

\* What reconciliation leaves current is what it published.
LEMMA CommitGenerations ==
  ASSUME MutationInv, NEW p \in Procs, ReconcileCommit(p)
  PROVE  \E d \in env[p].drives :
           LET g == ReconciledGeneration(p, d)
           IN  /\ d \in Drives
               /\ g \in Generation /\ g.drive = d
               /\ drive'[d] = [epoch |-> g.epoch, gen |-> g.gen]
               /\ \A c \in Drives \ {d} : drive'[c] = drive[c]
               /\ \/ g.epoch > drive[d].epoch
                  \/ g.epoch = drive[d].epoch /\ g.gen >= drive[d].gen
               /\ CurrentGeneration(d)' = g
               /\ anchor' = anchor \cup {g}
               /\ dirty' \subseteq dirty \cup {[drive |-> d, epoch |-> g.epoch, gen |-> g.gen,
                                               owner |-> None]}
               /\ session' = session
<1>0. /\ drive \in [Drives -> [epoch : Nat, gen : Nat]] /\ env[p].drives \in SUBSET Drives
      /\ CatalogTypeOK
  BY DEF MutationInv, MutationTypeOK, SessionTypeOK, CatalogTypeOK, EnvRow
<1>1. PICK d \in env[p].drives :
        LET g == ReconciledGeneration(p, d)
        IN  /\ drive' = [drive EXCEPT ![d] = [epoch |-> g.epoch, gen |-> g.gen]]
            /\ dirty' = IF g = CurrentGeneration(d) THEN dirty
                        ELSE dirty \cup {[drive |-> d, epoch |-> g.epoch, gen |-> g.gen, owner |-> None]}
            /\ anchor' = anchor \cup {g}
            /\ session' = session
  BY DEF ReconcileCommit
<1> DEFINE g == ReconciledGeneration(p, d)
<1>2. d \in Drives /\ g \in Generation /\ g.drive = d
  BY <1>0, <1>1, ReconciledType
<1>3. drive[d].epoch \in Nat /\ drive[d].gen \in Nat
  BY <1>0, <1>2
<1>4. \/ g.epoch > drive[d].epoch
      \/ g.epoch = drive[d].epoch /\ g.gen >= drive[d].gen
  BY <1>3 DEF ReconciledGeneration, Advanced, CurrentGeneration
<1> HIDE DEF g
<1>5. g = [drive |-> d, epoch |-> g.epoch, gen |-> g.gen]
  BY <1>2 DEF Generation
<1>6. /\ drive'[d] = [epoch |-> g.epoch, gen |-> g.gen]
      /\ \A c \in Drives \ {d} : drive'[c] = drive[c]
  BY <1>0, <1>1, <1>2 DEF g
<1>7. CurrentGeneration(d)' = g
  BY <1>5, <1>6 DEF CurrentGeneration
<1> QED
  BY <1>1, <1>2, <1>4, <1>6, <1>7 DEF g

\* Anchors and dirty rows are of generations that were reached.
LEMMA GenerationsStep ==
  ASSUME MutationInv, [MutationNext]_mutationVars
  PROVE  GenerationsOK'
<1> USE DEF MutationInv
<1>0. /\ drive \in [Drives -> [epoch : Nat, gen : Nat]]
      /\ anchor \subseteq Generation /\ dirty \subseteq DirtyRow
      /\ env \in [Procs -> EnvRow]
      /\ \A g \in anchor : g.drive \in Drives /\ g.epoch \in Nat /\ g.gen \in Nat
      /\ \A g \in dirty : /\ g.drive \in Drives /\ g.epoch \in Nat /\ g.gen \in Nat
                          /\ g.owner \in Sids \cup {None}
  BY DEF MutationTypeOK, SessionTypeOK, CatalogTypeOK, Generation, DirtyRow
<1> DEFINE Grows == \A d \in Drives : /\ drive'[d].epoch \in Nat /\ drive'[d].gen \in Nat
                                      /\ \/ drive'[d].epoch > drive[d].epoch
                                         \/ /\ drive'[d].epoch = drive[d].epoch
                                            /\ drive'[d].gen >= drive[d].gen
           Stay == \A s \in Sids : session[s].state # "absent" => session'[s].state # "absent"
<1>1. ASSUME Grows PROVE \A g \in anchor \cup dirty : Reached(g) => Reached(g)'
  BY <1>0, <1>1 DEF Reached
<1>2. ASSUME UNCHANGED drive PROVE Grows
  BY <1>0, <1>2
<1>3. ASSUME Grows, Stay, UNCHANGED <<anchor, dirty>> PROVE GenerationsOK'
  BY <1>0, <1>1, <1>3 DEF GenerationsOK
<1>4. ASSUME UNCHANGED <<drive, dirty, anchor, session>> PROVE GenerationsOK'
  BY <1>2, <1>3, <1>4
<1>5. ASSUME NEW p \in Procs, MutateDirty(p) PROVE GenerationsOK'
  <2> DEFINE D == env[p].drives
  <2>1. D \in SUBSET Drives /\ env[p].owner \in Sids \cup {None}
    BY <1>0 DEF EnvRow
  <2>2. SameRows
    BY <1>5, <2>1, BumpFrame DEF MutateDirty, MutationTypeOK, SessionTypeOK
  <2>3. Grows
    BY <1>0, <1>5, DirtyGenerations
  <2>4. /\ dirty' = dirty \cup {[drive |-> d, epoch |-> drive[d].epoch, gen |-> drive[d].gen + 1,
                                 owner |-> env[p].owner] : d \in D}
        /\ UNCHANGED anchor
    BY <1>5 DEF MutateDirty
  <2>5. env[p].owner # None => session[env[p].owner].state # "absent"
    BY <1>5 DEF MutateDirty, WriteAllowed, LIVE_STATES
  <2>6. \A g \in dirty' : Reached(g)' /\ (g.owner # None => session'[g.owner].state # "absent")
    <3>1. ASSUME NEW g \in dirty PROVE Reached(g)' /\ (g.owner # None => session'[g.owner].state # "absent")
      BY <1>0, <1>1, <2>2, <2>3, <3>1 DEF GenerationsOK, SameRows
    <3>2. ASSUME NEW g, NEW d \in D,
                 g = [drive |-> d, epoch |-> drive[d].epoch, gen |-> drive[d].gen + 1,
                      owner |-> env[p].owner]
          PROVE  Reached(g)' /\ (g.owner # None => session'[g.owner].state # "absent")
      <4>1. /\ g.drive = d /\ g.epoch = drive[d].epoch /\ g.gen = drive[d].gen + 1
            /\ g.owner = env[p].owner
        BY <3>2
      <4>2. drive'[d].epoch = drive[d].epoch /\ drive'[d].gen = drive[d].gen + 1
        BY <1>5, <2>1, DirtyGenerations
      <4>3. drive[d].epoch \in Nat /\ drive[d].gen \in Nat
        BY <1>0, <2>1
      <4> QED
        BY <2>1, <2>2, <2>5, <4>1, <4>2, <4>3 DEF Reached, SameRows
    <3> QED
      BY <2>4, <3>1, <3>2
  <2>7. \A g \in anchor' : Reached(g)'
    BY <1>1, <2>3, <2>4 DEF GenerationsOK
  <2> QED
    BY <2>6, <2>7 DEF GenerationsOK
<1>6. ASSUME NEW p \in Procs, MutatePublish(p) PROVE GenerationsOK'
  <2>1. env[p].drives \in SUBSET Drives /\ env[p].owner \in Sids \cup {None}
    BY <1>0 DEF EnvRow
  <2>2. SameRows
    BY <1>6, <2>1, BumpFrame DEF MutatePublish, MutationTypeOK, SessionTypeOK
  <2>3. /\ anchor' = anchor \cup FactsOf(env[p].drives)
        /\ UNCHANGED <<drive, dirty>>
    BY <1>6 DEF MutatePublish, CapturedCurrent
  <2>4. \A g \in FactsOf(env[p].drives) : Reached(g)
    BY <1>0, <2>1 DEF FactsOf, CurrentGeneration, Reached
  <2>5. \A g \in anchor' : Reached(g)'
    BY <2>3, <2>4 DEF GenerationsOK, Reached
  <2>6. \A g \in dirty : g.owner # None => session'[g.owner].state # "absent"
    BY <1>0, <2>2 DEF GenerationsOK, SameRows
  <2> QED
    BY <2>3, <2>5, <2>6 DEF GenerationsOK, Reached
<1>7. ASSUME NEW p \in Procs, ReconcileCommit(p) PROVE GenerationsOK'
  <2>1. PICK d \in env[p].drives :
           LET g == ReconciledGeneration(p, d)
           IN  /\ d \in Drives
               /\ g \in Generation /\ g.drive = d
               /\ drive'[d] = [epoch |-> g.epoch, gen |-> g.gen]
               /\ \A c \in Drives \ {d} : drive'[c] = drive[c]
               /\ \/ g.epoch > drive[d].epoch
                  \/ g.epoch = drive[d].epoch /\ g.gen >= drive[d].gen
               /\ anchor' = anchor \cup {g}
               /\ dirty' \subseteq dirty \cup {[drive |-> d, epoch |-> g.epoch, gen |-> g.gen,
                                               owner |-> None]}
               /\ session' = session
    BY <1>7, CommitGenerations
  <2> DEFINE g == ReconciledGeneration(p, d)
             row == [drive |-> d, epoch |-> g.epoch, gen |-> g.gen, owner |-> None]
  <2>2. /\ d \in Drives /\ g.epoch \in Nat /\ g.gen \in Nat /\ g.drive = d
        /\ drive'[d].epoch = g.epoch /\ drive'[d].gen = g.gen
        /\ \A c \in Drives \ {d} : drive'[c] = drive[c]
        /\ \/ g.epoch > drive[d].epoch
           \/ g.epoch = drive[d].epoch /\ g.gen >= drive[d].gen
        /\ anchor' = anchor \cup {g}
        /\ dirty' \subseteq dirty \cup {row}
        /\ session' = session
        /\ row.drive = d /\ row.epoch = g.epoch /\ row.gen = g.gen /\ row.owner = None
    BY <2>1 DEF Generation
  <2> HIDE DEF g, row
  <2>3. Grows
    BY <1>0, <2>2
  <2>4. ASSUME NEW x, x = g \/ x = row PROVE Reached(x)'
    BY <2>2, <2>4 DEF Reached
  <2>5. ASSUME NEW x \in dirty' PROVE Reached(x)' /\ (x.owner # None => session'[x.owner].state # "absent")
    BY <1>1, <2>2, <2>3, <2>4, <2>5 DEF GenerationsOK
  <2>6. ASSUME NEW x \in anchor' PROVE Reached(x)'
    BY <1>1, <2>2, <2>3, <2>4, <2>6 DEF GenerationsOK
  <2> QED
    BY <2>5, <2>6 DEF GenerationsOK
<1>8. CASE \/ \E p \in Procs : BaseNext(p)
           \/ (\E s \in Sids : Expire(s)) /\ UNCHANGED <<env, unobserved>>
           \/ OperatorNext /\ UNCHANGED <<env, unobserved>>
  <2>1. UNCHANGED <<drive, dirty, anchor>> /\ [SessionNext]_sessionVars
    BY <1>8, BaseFrame
  <2>2. Stay
    BY <2>1, RowsStay
  <2> QED
    BY <1>2, <1>3, <2>1, <2>2
<1>9. ASSUME NEW p \in Procs, EnvelopeNext(p), ~MutateDirty(p), ~MutatePublish(p)
      PROVE  GenerationsOK'
  BY <1>4, <1>9
  DEF EnvelopeNext, FillEnvelope, ReplicaEnvelope, MutateController, MutateHoldFence, MutateProve,
      SpawnChild, ChildExit, MutateObserve, MutateAbort, sessionVars, catalogVars, driveVars
<1>10. ASSUME NEW p \in Procs, ReconcileNext(p), ~ReconcileCommit(p) PROVE GenerationsOK'
  BY <1>4, <1>10
  DEF ReconcileNext, ReconcileBegin, ReconcileController, ReconcileInventory, sessionVars,
      catalogVars, driveVars
<1>11. ASSUME NEW p \in Procs, MutationCrash(p) PROVE GenerationsOK'
  BY <1>4, <1>11 DEF MutationCrash, catalogVars, driveVars
<1>12. CASE (\E d \in Drives : DriveWrite(d)) \/ UNCHANGED mutationVars
  BY <1>4, <1>12 DEF DriveWrite, mutationVars, sessionVars, catalogVars, driveVars
<1> QED
  BY <1>5, <1>6, <1>7, <1>8, <1>9, <1>10, <1>11, <1>12 DEF MutationNext

-----------------------------------------------------------------------------
(* Writers *)

\* Whoever may be writing a drive has its lock under its current epoch.
LEMMA WriterLocked ==
  ASSUME MutationInv, NEW p \in Procs, NEW d \in Drives, Writes(p, d)
  PROVE  <<d, drive[d].epoch>> \in Locked(p)
<1>1. CASE env[p].pc = "body" /\ d \in env[p].drives
  BY <1>1, RelyLocked DEF Locked
<1>2. ASSUME NEW k \in child[p], k[1] = d PROVE <<d, drive[d].epoch>> \in child[p]
  <2>1. k \in Keys
    BY DEF MutationInv, MutationTypeOK, SessionTypeOK, FenceTypeOK
  <2>2. k[2] = drive[d].epoch
    BY <1>2 DEF MutationInv, FencesHeld, FencesOK
  <2> QED
    BY <1>2, <2>1, <2>2 DEF Keys
<1> QED
  BY <1>1, <1>2 DEF Writes, Locked

\* Nobody writes a drive whose lock a process outside a body has.
LEMMA NoWriter ==
  ASSUME MutationInv, NEW p \in Procs, NEW d \in Drives, <<d, drive[d].epoch>> \in held[p],
         env[p].pc # "body", NEW r \in Procs, Writes(r, d)
  PROVE  FALSE
<1>1. <<d, drive[d].epoch>> \in Locked(r)
  BY WriterLocked
<1>2. r = p
  BY <1>1 DEF MutationInv, LocksExclusive, Locked
<1>3. held[p] \cap child[p] = {}
  BY DEF MutationInv, FencesHeld, FencesOK
<1>4. \E k \in child[p] : k[1] = d /\ k[2] = drive[d].epoch /\ k \in Keys
  BY <1>2 DEF Writes, MutationInv, FencesHeld, FencesOK, MutationTypeOK, SessionTypeOK, FenceTypeOK
<1> QED
  BY <1>3, <1>4 DEF Keys

\* Nor a drive that was observed and is about to be published.
LEMMA ObservedUnwritten ==
  ASSUME MutationInv, NEW p \in Procs, env[p].pc \in {"observed", "reconcile_inventory"},
         NEW d \in env[p].drives, NEW r \in Procs, Writes(r, d)
  PROVE  FALSE
<1>1. d \in Drives
  BY DEF MutationInv, MutationTypeOK, EnvRow
<1> QED
  BY <1>1, RelyLocked, NoWriter

\* The dirty transaction withdraws the evidence of its drives and of no other.
LEMMA DirtyClean ==
  ASSUME MutationInv, NEW p \in Procs, MutateDirty(p), NEW d \in Drives
  PROVE  GenerationIsClean(d)' <=> GenerationIsClean(d) /\ d \notin env[p].drives
<1>0. drive[d].epoch \in Nat /\ drive[d].gen \in Nat
  BY DEF MutationInv, MutationTypeOK, SessionTypeOK, CatalogTypeOK
<1>1. anchor' = anchor
  BY DEF MutateDirty
<1>2. CASE d \in env[p].drives
  <2>1. CurrentGeneration(d)' = [drive |-> d, epoch |-> drive[d].epoch, gen |-> drive[d].gen + 1]
    BY <1>2, DirtyGenerations DEF CurrentGeneration
  <2>2. [drive |-> d, epoch |-> drive[d].epoch, gen |-> drive[d].gen + 1] \notin anchor
    BY <1>0 DEF MutationInv, GenerationsOK, Reached
  <2> QED
    BY <1>1, <1>2, <2>1, <2>2 DEF GenerationIsClean
<1>3. CASE d \notin env[p].drives
  BY <1>1, <1>3, DirtyGenerations DEF GenerationIsClean, CurrentGeneration
<1> QED
  BY <1>2, <1>3

\* Publication makes the drives of the envelope clean and no other.
LEMMA PublishClean ==
  ASSUME MutationInv, NEW p \in Procs, MutatePublish(p), NEW d \in Drives
  PROVE  GenerationIsClean(d)' <=> GenerationIsClean(d) \/ d \in env[p].drives
<1>1. anchor' = anchor \cup FactsOf(env[p].drives) /\ drive' = drive
  BY DEF MutatePublish, CapturedCurrent
<1>2. CurrentGeneration(d)' = CurrentGeneration(d)
  BY <1>1 DEF CurrentGeneration
<1>3. CurrentGeneration(d) \in FactsOf(env[p].drives) <=> d \in env[p].drives
  BY DEF FactsOf, CurrentGeneration
<1> QED
  BY <1>1, <1>2, <1>3 DEF GenerationIsClean

\* So does the commit of a reconciliation with its drive.
LEMMA CommitClean ==
  ASSUME MutationInv, NEW p \in Procs, ReconcileCommit(p)
  PROVE  \E c \in env[p].drives : \A d \in Drives :
           /\ GenerationIsClean(d)' <=> GenerationIsClean(d) \/ d = c
           /\ d # c => drive'[d] = drive[d]
           /\ \A x \in dirty' \ dirty : x.drive = c
<1>1. PICK c \in env[p].drives :
           LET g == ReconciledGeneration(p, c)
           IN  /\ g.drive = c
               /\ \A d \in Drives \ {c} : drive'[d] = drive[d]
               /\ CurrentGeneration(c)' = g
               /\ anchor' = anchor \cup {g}
               /\ dirty' \subseteq dirty \cup {[drive |-> c, epoch |-> g.epoch, gen |-> g.gen,
                                               owner |-> None]}
  BY CommitGenerations
<1> DEFINE g == ReconciledGeneration(p, c)
<1>2. /\ g.drive = c
      /\ \A d \in Drives \ {c} : drive'[d] = drive[d]
      /\ CurrentGeneration(c)' = g
      /\ anchor' = anchor \cup {g}
  BY <1>1
<1>3. \A x \in dirty' \ dirty : x.drive = c
  BY <1>1
<1> HIDE DEF g
<1>4. ASSUME NEW d \in Drives PROVE GenerationIsClean(d)' <=> GenerationIsClean(d) \/ d = c
  <2>1. CASE d = c
    BY <1>2, <2>1 DEF GenerationIsClean
  <2>2. CASE d # c
    <3>1. CurrentGeneration(d)' = CurrentGeneration(d) /\ CurrentGeneration(d).drive = d
      BY <1>2, <2>2 DEF CurrentGeneration
    <3> QED
      BY <1>2, <2>2, <3>1 DEF GenerationIsClean
  <2> QED
    BY <2>1, <2>2
<1> QED
  BY <1>2, <1>3, <1>4

\* No other step changes a generation or an anchor.
LEMMA CleanFrame ==
  ASSUME [MutationNext]_mutationVars,
         \A p \in Procs : ~MutateDirty(p) /\ ~MutatePublish(p) /\ ~ReconcileCommit(p)
  PROVE  UNCHANGED <<drive, dirty, anchor>>
<1>1. ASSUME NEW p \in Procs, EnvelopeNext(p) PROVE UNCHANGED <<drive, dirty, anchor>>
  BY <1>1
  DEF EnvelopeNext, FillEnvelope, ReplicaEnvelope, MutateController, MutateHoldFence, MutateProve,
      SpawnChild, ChildExit, MutateObserve, MutateAbort, sessionVars, catalogVars, driveVars
<1>2. ASSUME NEW p \in Procs, ReconcileNext(p) PROVE UNCHANGED <<drive, dirty, anchor>>
  BY <1>2
  DEF ReconcileNext, ReconcileBegin, ReconcileController, ReconcileInventory, sessionVars,
      catalogVars, driveVars
<1>3. ASSUME NEW p \in Procs, MutationCrash(p) PROVE UNCHANGED <<drive, dirty, anchor>>
  BY <1>3 DEF MutationCrash, catalogVars, driveVars
<1>4. CASE (\E d \in Drives : DriveWrite(d)) \/ UNCHANGED mutationVars
  BY <1>4 DEF DriveWrite, mutationVars, sessionVars, catalogVars, driveVars
<1> QED
  BY <1>1, <1>2, <1>3, <1>4, BaseFrame DEF MutationNext

\* A drive becomes clean only when it was observed and nobody writes it.
LEMMA NewlyClean ==
  ASSUME MutationInv, [MutationNext]_mutationVars, NEW d \in Drives, GenerationIsClean(d)'
  PROVE  \/ GenerationIsClean(d)
         \/ \E p \in Procs : /\ env[p].pc \in {"observed", "reconcile_inventory"}
                             /\ d \in env[p].drives
                             /\ UNCHANGED unobserved
<1>1. ASSUME NEW p \in Procs, MutateDirty(p) PROVE GenerationIsClean(d)
  BY <1>1, DirtyClean
<1>2. ASSUME NEW p \in Procs, MutatePublish(p), ~GenerationIsClean(d)
      PROVE  /\ env[p].pc = "observed" /\ d \in env[p].drives
             /\ UNCHANGED unobserved
  BY <1>2, PublishClean DEF MutatePublish
<1>3. ASSUME NEW p \in Procs, ReconcileCommit(p), ~GenerationIsClean(d)
      PROVE  /\ env[p].pc = "reconcile_inventory" /\ d \in env[p].drives
             /\ UNCHANGED unobserved
  <2>1. env[p].pc = "reconcile_inventory" /\ UNCHANGED unobserved
    BY <1>3 DEF ReconcileCommit
  <2> QED
    BY <1>3, <2>1, CommitClean
<1>4. CASE UNCHANGED <<drive, dirty, anchor>>
  BY <1>4 DEF GenerationIsClean, CurrentGeneration
<1> QED
  BY <1>1, <1>2, <1>3, <1>4, CleanFrame

\* A party starts to write a drive with the dirty transaction of its envelope; the child
\* writes what the body writes.
LEMMA NewWriter ==
  ASSUME MutationInv, [MutationNext]_mutationVars, NEW p \in Procs, NEW d \in Drives, Writes(p, d)'
  PROVE  Writes(p, d) \/ (MutateDirty(p) /\ d \in env[p].drives)
<1> USE DEF MutationInv
<1>0. env \in [Procs -> EnvRow] /\ child \in [Procs -> SUBSET Keys]
  BY DEF MutationTypeOK, SessionTypeOK, FenceTypeOK
<1>1. ASSUME env'[p].pc # "body" \/ (env'[p].pc = env[p].pc /\ env'[p].drives = env[p].drives),
             child'[p] \subseteq child[p]
      PROVE  Writes(p, d)
  BY <1>1 DEF Writes
<1>2. ASSUME UNCHANGED <<env, child>> PROVE Writes(p, d)
  BY <1>1, <1>2
<1>3. ASSUME NEW r \in Procs, NEW row, env' = [env EXCEPT ![r] = row], row.pc # "body",
             UNCHANGED child
      PROVE  Writes(p, d)
  BY <1>0, <1>1, <1>3
<1>4. NoEnv.pc # "body"
  BY DEF NoEnv
<1>5. ASSUME NEW r \in Procs, NEW c \in Drives, NEW map \in BOOLEAN, FillEnvelope(r, c, map)
      PROVE  Writes(p, d)
  <2>1. [NoEnv EXCEPT !.pc = "ctrl", !.drives = {c}, !.map = map, !.owner = proc[r].sid].pc # "body"
    BY DEF NoEnv
  <2> QED
    BY <1>3, <1>5, <2>1 DEF FillEnvelope, sessionVars, fenceVars
<1>6. ASSUME NEW r \in Procs, NEW source \in Drives, NEW target \in Drives,
             ReplicaEnvelope(r, source, target)
      PROVE  Writes(p, d)
  <2>1. [NoEnv EXCEPT !.pc = "ctrl", !.drives = {source, target}, !.map = TRUE].pc # "body"
    BY DEF NoEnv
  <2> QED
    BY <1>3, <1>6, <2>1 DEF ReplicaEnvelope, sessionVars, fenceVars
<1>7. ASSUME NEW r \in Procs, NEW c \in Drives, ReconcileBegin(r, c) PROVE Writes(p, d)
  <2>1. [NoEnv EXCEPT !.pc = "reconcile_ctrl", !.drives = {c}].pc # "body"
    BY DEF NoEnv
  <2> QED
    BY <1>3, <1>7, <2>1 DEF ReconcileBegin, sessionVars, fenceVars
<1>8. ASSUME NEW r \in Procs, MutateController(r) PROVE Writes(p, d)
  <2>1. [env[r] EXCEPT !.pc = "fence", !.cap = FactsOf(env[r].drives),
                       !.keys = KeysOf(env[r].drives)].pc # "body"
    BY <1>0 DEF EnvRow
  <2> QED
    BY <1>3, <1>8, <2>1 DEF MutateController
<1>9. ASSUME NEW r \in Procs, NEW transition \in BOOLEAN, ReconcileController(r, transition)
      PROVE  Writes(p, d)
  <2>1. PICK cap, ks :
          env' = [env EXCEPT ![r] = [env[r] EXCEPT !.pc = "reconcile_fence", !.cap = cap, !.keys = ks]]
    BY <1>9, Zenon DEF ReconcileController
  <2>2. [env[r] EXCEPT !.pc = "reconcile_fence", !.cap = cap, !.keys = ks].pc # "body"
    BY <1>0 DEF EnvRow
  <2> QED
    BY <1>3, <1>9, <2>1, <2>2 DEF ReconcileController
<1>10. ASSUME NEW r \in Procs, MutateProve(r) \/ MutateObserve(r) \/ ReconcileInventory(r)
       PROVE  Writes(p, d)
  <2>1. ASSUME NEW pc, pc # "body", env' = [env EXCEPT ![r].pc = pc], UNCHANGED child
        PROVE  Writes(p, d)
    <3>1. /\ env' = [env EXCEPT ![r] = [env[r] EXCEPT !.pc = pc]]
          /\ [env[r] EXCEPT !.pc = pc].pc = pc
      BY <1>0, <2>1 DEF EnvRow
    <3> QED
      BY <1>3, <2>1, <3>1
  <2> QED
    BY <1>10, <2>1 DEF MutateProve, MutateObserve, ReconcileInventory, sessionVars, fenceVars
<1>11. ASSUME NEW r \in Procs, MutateDirty(r) PROVE Writes(p, d) \/ (r = p /\ d \in env[p].drives)
  <2>1. /\ UNCHANGED child
        /\ \A q \in Procs \ {r} : env'[q] = env[q]
        /\ env'[r].drives = env[r].drives
    BY <1>0, <1>11 DEF MutateDirty, EnvRow
  <2> QED
    BY <2>1 DEF Writes
<1>12. ASSUME NEW r \in Procs, SpawnChild(r) PROVE Writes(p, d)
  <2>1. /\ UNCHANGED env
        /\ child' = [child EXCEPT ![r] = env[r].keys]
        /\ env[r].pc = "body"
    BY <1>12 DEF SpawnChild
  <2>2. \A k \in env[r].keys : k[1] \in env[r].drives
    BY <2>1 DEF FencesHeld, FencesOK, KeysOf
  <2> QED
    BY <1>0, <2>1, <2>2 DEF Writes
<1>13. ASSUME NEW r \in Procs, ChildExit(r) PROVE Writes(p, d)
  BY <1>0, <1>1, <1>13 DEF ChildExit
<1>14. ASSUME NEW r \in Procs,
              MutatePublish(r) \/ MutateAbort(r) \/ ReconcileCommit(r) \/ MutationCrash(r)
       PROVE  Writes(p, d)
  <2>1. env' = [env EXCEPT ![r] = NoEnv] /\ UNCHANGED child
    BY <1>14 DEF MutatePublish, MutateAbort, ReconcileCommit, MutationCrash, CloseAll
  <2> QED
    BY <1>3, <1>4, <2>1
<1>15. ASSUME NEW r \in Procs, BaseNext(r) PROVE Writes(p, d)
  <2>1. UNCHANGED env
    BY <1>15 DEF BaseNext
  <2> QED
    BY <1>2, <1>15, <2>1, BaseLocks
<1>16. CASE ((\E s \in Sids : Expire(s)) \/ OperatorNext) /\ UNCHANGED <<env, unobserved>>
  <2>1. UNCHANGED <<env, child>>
    BY <1>16 DEF Expire, OperatorNext, GraphWrite, InvalidateApproval, fenceVars
  <2> QED
    BY <1>2, <2>1
<1>17. CASE (\E c \in Drives : DriveWrite(c)) \/ (\E r \in Procs : MutateHoldFence(r))
            \/ UNCHANGED mutationVars
  <2>1. UNCHANGED <<env, child>>
    BY <1>17 DEF DriveWrite, MutateHoldFence, mutationVars, sessionVars, fenceVars
  <2> QED
    BY <1>2, <2>1
<1> QED
  BY <1>5, <1>6, <1>7, <1>8, <1>9, <1>10, <1>11, <1>12, <1>13, <1>14, <1>15, <1>16, <1>17
  DEF MutationNext, EnvelopeNext, ReconcileNext

\* An envelope gets to its transaction by observing its drives.
LEMMA NewObserver ==
  ASSUME MutationInv, [MutationNext]_mutationVars, NEW p \in Procs,
         env'[p].pc \in {"observed", "reconcile_inventory"}
  PROVE  env'[p] = env[p] \/ MutateObserve(p) \/ ReconcileInventory(p)
<1> USE DEF MutationInv
<1>0. env \in [Procs -> EnvRow]
  BY DEF MutationTypeOK
<1>1. ASSUME NEW r \in Procs, NEW row, env' = [env EXCEPT ![r] = row],
             row.pc \notin {"observed", "reconcile_inventory"}
      PROVE  env'[p] = env[p]
  BY <1>0, <1>1
<1>2. NoEnv.pc \notin {"observed", "reconcile_inventory"}
  BY DEF NoEnv
<1>3. ASSUME NEW r \in Procs, NEW c \in Drives, NEW map \in BOOLEAN, FillEnvelope(r, c, map)
      PROVE  env'[p] = env[p]
  <2>1. [NoEnv EXCEPT !.pc = "ctrl", !.drives = {c}, !.map = map, !.owner = proc[r].sid].pc = "ctrl"
    BY DEF NoEnv
  <2> QED
    BY <1>1, <1>3, <2>1 DEF FillEnvelope
<1>4. ASSUME NEW r \in Procs, NEW source \in Drives, NEW target \in Drives,
             ReplicaEnvelope(r, source, target)
      PROVE  env'[p] = env[p]
  <2>1. [NoEnv EXCEPT !.pc = "ctrl", !.drives = {source, target}, !.map = TRUE].pc = "ctrl"
    BY DEF NoEnv
  <2> QED
    BY <1>1, <1>4, <2>1 DEF ReplicaEnvelope
<1>5. ASSUME NEW r \in Procs, NEW c \in Drives, ReconcileBegin(r, c) PROVE env'[p] = env[p]
  <2>1. [NoEnv EXCEPT !.pc = "reconcile_ctrl", !.drives = {c}].pc = "reconcile_ctrl"
    BY DEF NoEnv
  <2> QED
    BY <1>1, <1>5, <2>1 DEF ReconcileBegin
<1>6. ASSUME NEW r \in Procs, MutateController(r) PROVE env'[p] = env[p]
  <2>1. [env[r] EXCEPT !.pc = "fence", !.cap = FactsOf(env[r].drives),
                       !.keys = KeysOf(env[r].drives)].pc = "fence"
    BY <1>0 DEF EnvRow
  <2> QED
    BY <1>1, <1>6, <2>1 DEF MutateController
<1>7. ASSUME NEW r \in Procs, NEW transition \in BOOLEAN, ReconcileController(r, transition)
      PROVE  env'[p] = env[p]
  <2>1. PICK cap, ks :
          env' = [env EXCEPT ![r] = [env[r] EXCEPT !.pc = "reconcile_fence", !.cap = cap, !.keys = ks]]
    BY <1>7, Zenon DEF ReconcileController
  <2>2. [env[r] EXCEPT !.pc = "reconcile_fence", !.cap = cap, !.keys = ks].pc = "reconcile_fence"
    BY <1>0 DEF EnvRow
  <2> QED
    BY <1>1, <2>1, <2>2
<1>8. ASSUME NEW r \in Procs, MutateDirty(r) PROVE env'[p] = env[p]
  <2>1. PICK cap : env' = [env EXCEPT ![r] = [env[r] EXCEPT !.pc = "body", !.cap = cap]]
    BY <1>8, Zenon DEF MutateDirty
  <2>2. [env[r] EXCEPT !.pc = "body", !.cap = cap].pc = "body"
    BY <1>0 DEF EnvRow
  <2> QED
    BY <1>1, <2>1, <2>2
<1>9. ASSUME NEW r \in Procs, MutateProve(r) PROVE env'[p] = env[p]
  <2>1. env' = [env EXCEPT ![r] = [env[r] EXCEPT !.pc = "proven"]]
    BY <1>9 DEF MutateProve
  <2>2. [env[r] EXCEPT !.pc = "proven"].pc = "proven"
    BY <1>0 DEF EnvRow
  <2> QED
    BY <1>1, <2>1, <2>2
<1>10. ASSUME NEW r \in Procs, MutateObserve(r) \/ ReconcileInventory(r), r # p
       PROVE  env'[p] = env[p]
  BY <1>0, <1>10 DEF MutateObserve, ReconcileInventory
<1>11. ASSUME NEW r \in Procs,
              MutatePublish(r) \/ MutateAbort(r) \/ ReconcileCommit(r) \/ MutationCrash(r)
       PROVE  env'[p] = env[p]
  <2>1. env' = [env EXCEPT ![r] = NoEnv]
    BY <1>11 DEF MutatePublish, MutateAbort, ReconcileCommit, MutationCrash
  <2> QED
    BY <1>1, <1>2, <2>1
<1>12. ASSUME NEW r \in Procs,
              BaseNext(r) \/ MutateHoldFence(r) \/ SpawnChild(r) \/ ChildExit(r)
       PROVE  env'[p] = env[p]
  BY <1>12 DEF BaseNext, MutateHoldFence, SpawnChild, ChildExit
<1>13. CASE \/ UNCHANGED <<env, unobserved>>
            \/ (\E c \in Drives : DriveWrite(c)) \/ UNCHANGED mutationVars
  BY <1>13 DEF DriveWrite, mutationVars
<1> QED
  BY <1>3, <1>4, <1>5, <1>6, <1>7, <1>8, <1>9, <1>10, <1>11, <1>12, <1>13
  DEF MutationNext, EnvelopeNext, ReconcileNext

\* Bytes change on a drive by a write only.
LEMMA NewlyWritten ==
  ASSUME MutationInv, [MutationNext]_mutationVars, NEW d \in Drives, unobserved'[d], ~unobserved[d]
  PROVE  (\E p \in Procs : Writes(p, d)) /\ UNCHANGED <<sessionVars, env>>
<1>0. unobserved \in [Drives -> BOOLEAN]
  BY DEF MutationInv, MutationTypeOK
<1>1. CASE UNCHANGED unobserved
  BY <1>1
<1>2. ASSUME NEW c \in Drives, DriveWrite(c)
      PROVE  (\E p \in Procs : Writes(p, d)) /\ UNCHANGED <<sessionVars, env>>
  BY <1>0, <1>2 DEF DriveWrite
<1>3. ASSUME NEW p \in Procs, MutateObserve(p) \/ ReconcileInventory(p) PROVE FALSE
  BY <1>0, <1>3 DEF MutateObserve, ReconcileInventory
<1>4. ASSUME NEW p \in Procs, BaseNext(p) \/ EnvelopeNext(p) \/ ReconcileNext(p) \/ MutationCrash(p)
      PROVE  UNCHANGED unobserved
  BY <1>3, <1>4 DEF BaseNext, EnvelopeNext, ReconcileNext, MutationCrash, FillEnvelope, ReplicaEnvelope,
     MutateController, MutateHoldFence, MutateProve, MutateDirty, SpawnChild, ChildExit,
     MutatePublish, MutateAbort, ReconcileBegin, ReconcileController, ReconcileCommit
<1> QED
  BY <1>1, <1>2, <1>4 DEF MutationNext, mutationVars

\* What is being written has no clean anchor: the dirty transaction withdraws it first, and
\* no other party publishes one meanwhile.
LEMMA UncoveredStep ==
  ASSUME MutationInv, [MutationNext]_mutationVars
  PROVE  WritersUncovered'
<1> SUFFICES ASSUME NEW p \in Procs, NEW d \in Drives, Writes(p, d)', GenerationIsClean(d)'
             PROVE  FALSE
  BY DEF WritersUncovered
<1>1. CASE MutateDirty(p) /\ d \in env[p].drives
  BY <1>1, DirtyClean
<1>2. CASE Writes(p, d)
  <2>1. ~GenerationIsClean(d)
    BY <1>2 DEF MutationInv, WritersUncovered
  <2>2. PICK r \in Procs : env[r].pc \in {"observed", "reconcile_inventory"} /\ d \in env[r].drives
    BY <2>1, NewlyClean
  <2> QED
    BY <1>2, <2>2, ObservedUnwritten
<1> QED
  BY <1>1, <1>2, NewWriter

\* Nobody writes an observed drive before its anchor is published.
LEMMA ObservationsStep ==
  ASSUME MutationInv, [MutationNext]_mutationVars
  PROVE  ObservationsHold'
<1> SUFFICES ASSUME NEW p \in Procs, env'[p].pc \in {"observed", "reconcile_inventory"},
                    NEW d \in env'[p].drives, unobserved'[d]
             PROVE  FALSE
  BY DEF ObservationsHold
<1>0. /\ env \in [Procs -> EnvRow] /\ unobserved \in [Drives -> BOOLEAN]
      /\ env[p].drives \in SUBSET Drives
  BY DEF MutationInv, MutationTypeOK, EnvRow
<1>1. CASE env'[p] = env[p]
  <2>1. d \in Drives /\ ~unobserved[d]
    BY <1>0, <1>1 DEF MutationInv, ObservationsHold
  <2>2. PICK r \in Procs : Writes(r, d)
    BY <2>1, NewlyWritten
  <2> QED
    BY <1>1, <2>2, ObservedUnwritten
<1>2. CASE MutateObserve(p) \/ ReconcileInventory(p)
  <2>1. \E pc : env' = [env EXCEPT ![p].pc = pc]
    BY <1>2 DEF MutateObserve, ReconcileInventory
  <2>2. env'[p].drives = env[p].drives
    BY <1>0, <2>1 DEF EnvRow
  <2>3. unobserved' = [c \in Drives |-> unobserved[c] /\ c \notin env[p].drives]
    BY <1>2 DEF MutateObserve, ReconcileInventory
  <2> QED
    BY <1>0, <2>2, <2>3
<1> QED
  BY <1>1, <1>2, NewObserver

\* A clean anchor goes on accounting for every byte.
LEMMA AnchorsStep ==
  ASSUME MutationInv, [MutationNext]_mutationVars
  PROVE  AnchorsAccountForBytes'
<1> SUFFICES ASSUME NEW d \in Drives, GenerationIsClean(d)', unobserved'[d]
             PROVE  FALSE
  BY DEF AnchorsAccountForBytes, Evidence!AnchorsAreTrue
<1>1. CASE GenerationIsClean(d)
  <2>1. ~unobserved[d]
    BY <1>1 DEF MutationInv, AnchorsAccountForBytes, Evidence!AnchorsAreTrue
  <2>2. PICK p \in Procs : Writes(p, d)
    BY <2>1, NewlyWritten
  <2> QED
    BY <1>1, <2>2 DEF MutationInv, WritersUncovered
<1>2. ASSUME NEW p \in Procs, env[p].pc \in {"observed", "reconcile_inventory"},
             d \in env[p].drives, UNCHANGED unobserved
      PROVE  FALSE
  BY <1>2 DEF MutationInv, ObservationsHold
<1> QED
  BY <1>1, <1>2, NewlyClean

-----------------------------------------------------------------------------
(* The owner of a generation that is being written *)

\* The dirty transaction makes its session the one owner of the generations it opens.
LEMMA DirtyOwner ==
  ASSUME MutationInv, NEW p \in Procs, MutateDirty(p), NEW d \in Drives, d \in env[p].drives,
         NEW s \in DirtyOwners(d)'
  PROVE  s = env[p].owner /\ s # None
<1>0. /\ drive[d].epoch \in Nat /\ drive[d].gen \in Nat
      /\ \A x \in dirty : x.drive \in Drives /\ x.epoch \in Nat /\ x.gen \in Nat
  BY DEF MutationInv, MutationTypeOK, SessionTypeOK, CatalogTypeOK, DirtyRow
<1>1. drive'[d].epoch = drive[d].epoch /\ drive'[d].gen = drive[d].gen + 1
  BY DirtyGenerations
<1>2. PICK x \in dirty' : /\ x.drive = d /\ x.epoch = drive'[d].epoch /\ x.gen = drive'[d].gen
                          /\ s = x.owner /\ s # None
  BY DEF DirtyOwners
<1>3. x \notin dirty
  BY <1>0, <1>1, <1>2 DEF MutationInv, GenerationsOK, Reached
<1>4. \E c \in env[p].drives : x = [drive |-> c, epoch |-> drive[c].epoch, gen |-> drive[c].gen + 1,
                                    owner |-> env[p].owner]
  BY <1>2, <1>3 DEF MutateDirty
<1> QED
  BY <1>2, <1>4

\* No other step changes the owner of a generation that is being written.
LEMMA OwnersStay ==
  ASSUME MutationInv, [MutationNext]_mutationVars, NEW p \in Procs, NEW d \in Drives,
         Writes(p, d), ~(MutateDirty(p) /\ d \in env[p].drives)
  PROVE  DirtyOwners(d)' \subseteq DirtyOwners(d)
<1>0. ~GenerationIsClean(d)
  BY DEF MutationInv, WritersUncovered
<1>1. ASSUME drive'[d] = drive[d], \A x \in dirty' \ dirty : x.drive # d
      PROVE  DirtyOwners(d)' \subseteq DirtyOwners(d)
  BY <1>0, <1>1 DEF DirtyOwners
<1>2. ASSUME NEW r \in Procs, MutateDirty(r) PROVE DirtyOwners(d)' \subseteq DirtyOwners(d)
  <2>1. d \notin env[r].drives
    <3>1. SUFFICES ASSUME d \in env[r].drives PROVE FALSE
      OBVIOUS
    <3>2. env[r].pc = "proven" /\ <<d, drive[d].epoch>> \in env[r].keys
      BY <1>2, <3>1 DEF MutateDirty, KeysOf
    <3>3. <<d, drive[d].epoch>> \in held[r]
      BY <3>2 DEF MutationInv, FencesHeld, FencesOK
    <3> QED
      BY <3>2, <3>3, NoWriter
  <2>2. drive'[d] = drive[d]
    BY <1>2, <2>1 DEF MutateDirty
  <2>3. \A x \in dirty' \ dirty : x.drive \in env[r].drives
    BY <1>2 DEF MutateDirty
  <2> QED
    BY <1>1, <2>1, <2>2, <2>3
<1>3. ASSUME NEW r \in Procs, MutatePublish(r) PROVE DirtyOwners(d)' \subseteq DirtyOwners(d)
  BY <1>1, <1>3 DEF MutatePublish
<1>4. ASSUME NEW r \in Procs, ReconcileCommit(r) PROVE DirtyOwners(d)' \subseteq DirtyOwners(d)
  <2>1. PICK c \in env[r].drives :
           /\ d # c => drive'[d] = drive[d]
           /\ \A x \in dirty' \ dirty : x.drive = c
    BY <1>4, CommitClean
  <2>2. env[r].pc = "reconcile_inventory"
    BY <1>4 DEF ReconcileCommit
  <2>3. d # c
    BY <2>1, <2>2, ObservedUnwritten
  <2> QED
    BY <1>1, <2>1, <2>3
<1>5. CASE UNCHANGED <<drive, dirty, anchor>>
  BY <1>1, <1>5
<1> QED
  BY <1>2, <1>3, <1>4, <1>5, CleanFrame

\* Who ends a session: its worker, outside an envelope, or recovery, which has the fences
\* of every drive the session left dirty.
LEMMA SessionEnds ==
  ASSUME MutationInv, [MutationNext]_mutationVars, NEW s \in Sids,
         session[s].state \in LIVE_STATES, session'[s].state \notin LIVE_STATES
  PROVE  \E r \in Procs :
           /\ env[r].pc = "idle"
           /\ \/ proc[r].pc \in WorkerPcs /\ proc[r].sid = s
              \/ proc[r].sid = s /\ RecoverCommit(r)
<1> USE DEF MutationInv
<1>0. session \in [Sids -> SessionRow] /\ CatalogTypeOK
  BY DEF MutationTypeOK, SessionTypeOK, CatalogTypeOK
<1>1. ASSUME session' = session \/ SameRows PROVE FALSE
  BY <1>1 DEF SameRows
<1>2. ASSUME NEW t \in Sids, NEW row, session' = [session EXCEPT ![t] = row],
             row.state = session[t].state \/ row.state = "running"
      PROVE  FALSE
  BY <1>0, <1>2 DEF LIVE_STATES
<1>3. ASSUME NEW r \in Procs, BaseNext(r)
      PROVE  /\ env[r].pc = "idle"
             /\ \/ proc[r].pc \in WorkerPcs /\ proc[r].sid = s
                \/ proc[r].sid = s /\ RecoverCommit(r)
  <2>1. CASE SessionWrite(r)
    <3>1. env[r].owner \in Sids \cup {None} /\ proc[r].sid \in Sids
      BY <2>1 DEF SessionWrite, SessionInv, LocalsOK, LocalOK, FillPcs, MutationTypeOK, EnvRow
    <3>2. [session[proc[r].sid] EXCEPT !.bound = planner_revision + 1].state
            = session[proc[r].sid].state
      BY <1>0, <3>1 DEF SessionRow
    <3> QED
      BY <1>2, <2>1, <3>1, <3>2 DEF SessionWrite, WriteAsSession
  <2>2. CASE env[r].pc = "idle" /\ StartNext(r)
    <3>1. CASE StartCommit(r)
      <4>1. PICK n \in Sids : /\ session[n] = NoSession
                              /\ session' = [session EXCEPT ![n] = NewSession(r)]
        BY <3>1, InsertStep
      <4>2. NoSession.state \notin LIVE_STATES
        BY DEF NoSession, LIVE_STATES
      <4> QED
        BY <1>0, <4>1, <4>2
    <3> QED
      BY <1>1, <2>2, <3>1 DEF StartNext, StartPreflight, StartController, HoldDriveFence, StartAdmit,
         StartReadRevision, StartUnlock, Refuse, catalogVars
  <2>3. CASE env[r].pc = "idle" /\ FillNext(r)
    <3>0. ASSUME proc[r].pc \in FillPcs PROVE proc[r].sid \in Sids /\ proc[r].pc \in WorkerPcs
      BY <3>0 DEF SessionInv, LocalsOK, LocalOK, WorkerPcs
    <3>1. CASE ClaimUpdate(r)
      <4>1. proc[r].sid \in Sids
        BY <3>0, <3>1 DEF ClaimUpdate, FillPcs
      <4>2. [session[proc[r].sid] EXCEPT !.state = "running", !.worker = r].state = "running"
        BY <1>0, <4>1 DEF SessionRow
      <4> QED
        BY <1>1, <1>2, <3>1, <4>1, <4>2 DEF ClaimUpdate
    <3>2. CASE Heartbeat(r)
      <4>1. proc[r].sid \in Sids
        BY <3>0, <3>2 DEF Heartbeat, FillPcs
      <4>2. [session[proc[r].sid] EXCEPT !.lease = "held"].state = session[proc[r].sid].state
        BY <1>0, <4>1 DEF SessionRow
      <4> QED
        BY <1>1, <1>2, <3>2, <4>1, <4>2 DEF Heartbeat
    <3>3. CASE \E state \in TERMINAL_STATES : Terminalize(r, state)
      <4>1. proc[r].sid \in Sids /\ proc[r].pc \in WorkerPcs
        BY <3>0, <3>3 DEF Terminalize, FillPcs
      <4>2. proc[r].sid = s
        BY <1>0, <3>3, <4>1 DEF Terminalize
      <4> QED
        BY <2>3, <4>1, <4>2
    <3> QED
      BY <1>1, <2>3, <3>1, <3>2, <3>3 DEF FillNext, ClaimRead, SessionWriteRefused, catalogVars
  <2>4. CASE env[r].pc = "idle" /\ RecoverNext(r)
    <3>1. CASE RecoverCommit(r)
      <4>1. proc[r].sid = s
        BY <1>0, <3>1 DEF RecoverCommit
      <4> QED
        BY <2>4, <3>1, <4>1
    <3> QED
      BY <1>1, <2>4, <3>1 DEF RecoverNext, RecoverPrecheck, RecoverController, RecoverUnlock,
         catalogVars
  <2> QED
    BY <1>3, <2>1, <2>2, <2>3, <2>4 DEF BaseNext
<1>4. ASSUME NEW r \in Procs, MutateDirty(r) \/ MutatePublish(r) PROVE FALSE
  <2>1. env[r].owner \in Sids \cup {None}
    BY DEF MutationTypeOK, EnvRow
  <2> QED
    BY <1>0, <1>1, <1>4, <2>1, BumpFrame DEF MutateDirty, MutatePublish
<1>5. ASSUME NEW r \in Procs, EnvelopeNext(r) PROVE FALSE
  BY <1>1, <1>4, <1>5
  DEF EnvelopeNext, FillEnvelope, ReplicaEnvelope, MutateController, MutateHoldFence, MutateProve,
      SpawnChild, ChildExit, MutateObserve, MutateAbort, sessionVars, catalogVars
<1>6. ASSUME NEW r \in Procs, ReconcileNext(r) \/ MutationCrash(r) PROVE FALSE
  BY <1>1, <1>6
  DEF ReconcileNext, ReconcileBegin, ReconcileController, ReconcileInventory, ReconcileCommit,
      MutationCrash, sessionVars, catalogVars
<1>7. ASSUME NEW t \in Sids, Expire(t) PROVE FALSE
  <2>1. [session[t] EXCEPT !.lease = "expired"].state = session[t].state
    BY <1>0 DEF SessionRow
  <2> QED
    BY <1>2, <1>7, <2>1 DEF Expire
<1>8. CASE OperatorNext \/ (\E c \in Drives : DriveWrite(c)) \/ UNCHANGED mutationVars
  BY <1>1, <1>8 DEF OperatorNext, GraphWrite, InvalidateApproval, DriveWrite, mutationVars,
     sessionVars, catalogVars
<1> QED
  BY <1>3, <1>5, <1>6, <1>7, <1>8 DEF MutationNext

\* Only start makes a process the worker of a session, and that session is new.
LEMMA WorkerStays ==
  ASSUME MutationInv, [MutationNext]_mutationVars, NEW r \in Procs,
         proc'[r].pc \in WorkerPcs, session[proc'[r].sid].state # "absent"
  PROVE  proc[r].pc \in WorkerPcs /\ proc[r].sid = proc'[r].sid
<1>0. proc \in [Procs -> ProcRow]
  BY DEF MutationInv, MutationTypeOK, SessionTypeOK
<1>1. CASE UNCHANGED proc
  BY <1>1
<1>2. ASSUME NEW p \in Procs, BaseNext(p)
      PROVE  proc[r].pc \in WorkerPcs /\ proc[r].sid = proc'[r].sid
  <2>1. WorkerMove(p)
    BY <1>2, BaseMove
  <2> QED
    BY <1>0, <1>1, <2>1 DEF WorkerMove
<1>3. ASSUME NEW p \in Procs, MutationCrash(p)
      PROVE  proc[r].pc \in WorkerPcs /\ proc[r].sid = proc'[r].sid
  <2>1. Idle.pc \notin WorkerPcs
    BY DEF Idle, WorkerPcs, FillPcs
  <2> QED
    BY <1>0, <1>3, <2>1 DEF MutationCrash
<1>4. ASSUME NEW p \in Procs, EnvelopeNext(p) PROVE UNCHANGED proc
  BY <1>4
  DEF EnvelopeNext, FillEnvelope, ReplicaEnvelope, MutateController, MutateHoldFence, MutateProve,
      MutateDirty, SpawnChild, ChildExit, MutateObserve, MutatePublish, MutateAbort, sessionVars
<1>5. ASSUME NEW p \in Procs, ReconcileNext(p) PROVE UNCHANGED proc
  BY <1>5
  DEF ReconcileNext, ReconcileBegin, ReconcileController, ReconcileInventory, ReconcileCommit,
      sessionVars
<1>6. CASE \/ (\E s \in Sids : Expire(s)) \/ OperatorNext
           \/ (\E d \in Drives : DriveWrite(d)) \/ UNCHANGED mutationVars
  <2>1. UNCHANGED proc
    BY <1>6 DEF Expire, OperatorNext, GraphWrite, InvalidateApproval, DriveWrite, mutationVars,
       sessionVars
  <2> QED
    BY <1>1, <2>1
<1> QED
  BY <1>1, <1>2, <1>3, <1>4, <1>5, <1>6 DEF MutationNext

\* The body ends with its children waited for, or with its process.
LEMMA BodyEnds ==
  ASSUME MutationInv, [MutationNext]_mutationVars, NEW p \in Procs, env[p].pc = "body",
         NEW d \in Drives, Writes(p, d)', proc'[p].pc \in WorkerPcs
  PROVE  env'[p].pc = "body"
<1>0. proc \in [Procs -> ProcRow] /\ env \in [Procs -> EnvRow]
  BY DEF MutationInv, MutationTypeOK, SessionTypeOK
<1>1. CASE env'[p] = env[p]
  BY <1>1
<1>2. CASE MutateObserve(p) \/ MutateAbort(p)
  <2>1. child'[p] = {}
    BY <1>2 DEF MutateObserve, MutateAbort, CloseAll, sessionVars, fenceVars
  <2> QED
    BY <2>1 DEF Writes
<1>3. CASE MutationCrash(p)
  <2>1. Idle.pc \notin WorkerPcs
    BY DEF Idle, WorkerPcs, FillPcs
  <2> QED
    BY <1>0, <1>3, <2>1 DEF MutationCrash
<1>4. ASSUME NEW r \in Procs, EnvelopeNext(r) PROVE env'[p].pc = "body"
  BY <1>0, <1>1, <1>2, <1>4
  DEF EnvelopeNext, FillEnvelope, ReplicaEnvelope, MutateController, MutateHoldFence, MutateProve,
      MutateDirty, SpawnChild, ChildExit, MutateObserve, MutatePublish, MutateAbort
<1>5. ASSUME NEW r \in Procs, ReconcileNext(r) PROVE env'[p].pc = "body"
  BY <1>0, <1>1, <1>5
  DEF ReconcileNext, ReconcileBegin, ReconcileController, ReconcileInventory, ReconcileCommit
<1>6. ASSUME NEW r \in Procs, MutationCrash(r) PROVE env'[p].pc = "body"
  BY <1>0, <1>1, <1>3, <1>6 DEF MutationCrash
<1>7. CASE (\E c \in Drives : DriveWrite(c)) \/ UNCHANGED <<env, unobserved>> \/ UNCHANGED mutationVars
  BY <1>1, <1>7 DEF DriveWrite, mutationVars
<1> QED
  BY <1>4, <1>5, <1>6, <1>7 DEF MutationNext, BaseNext

\* The owner of a generation that is being written stays live, and its worker, if it has
\* one, is the writer.
LEMMA OwnersStep ==
  ASSUME MutationInv, [MutationNext]_mutationVars
  PROVE  OwnersWrite'
<1> USE DEF MutationInv
<1> SUFFICES ASSUME NEW p \in Procs, NEW d \in Drives, Writes(p, d)', NEW s \in DirtyOwners(d)'
             PROVE  /\ session'[s].state \in LIVE_STATES
                    /\ \A r \in Procs : proc'[r].pc \in WorkerPcs /\ proc'[r].sid = s =>
                         r = p /\ env'[p].pc = "body"
  BY DEF OwnersWrite
<1>0. env \in [Procs -> EnvRow] /\ CatalogTypeOK
  BY DEF MutationTypeOK, SessionTypeOK
<1>1. CASE MutateDirty(p) /\ d \in env[p].drives
  <2>1. s = env[p].owner /\ s # None /\ s \in Sids
    <3>1. s = env[p].owner /\ s # None
      BY <1>1, DirtyOwner
    <3> QED
      BY <1>0, <3>1 DEF EnvRow
  <2>2. session[s].state \in LIVE_STATES
    BY <1>1, <2>1 DEF MutateDirty, WriteAllowed
  <2>3. session'[s].state = session[s].state
    BY <1>0, <1>1, <2>1, BumpFrame DEF MutateDirty, SameRows
  <2>4. UNCHANGED proc
    BY <1>1 DEF MutateDirty
  <2>5. env'[p].pc = "body"
    BY <1>0, <1>1 DEF MutateDirty, EnvRow
  <2>6. proc[p].pc \in WorkerPcs /\ proc[p].sid = s
    BY <2>1 DEF WorkersOK, WorkerPcs, FillPcs
  <2> QED
    BY <2>2, <2>3, <2>4, <2>5, <2>6 DEF WorkersOK
<1>2. CASE Writes(p, d) /\ ~(MutateDirty(p) /\ d \in env[p].drives)
  <2>1. s \in DirtyOwners(d)
    BY <1>2, OwnersStay
  <2>2. /\ session[s].state \in LIVE_STATES
        /\ \A r \in Procs : proc[r].pc \in WorkerPcs /\ proc[r].sid = s => r = p /\ env[p].pc = "body"
    BY <1>2, <2>1 DEF OwnersWrite
  <2>3. PICK x \in dirty : x.drive = d /\ s = x.owner /\ s # None
    BY <2>1 DEF DirtyOwners
  <2>4. s \in Sids
    BY <1>0, <2>3 DEF CatalogTypeOK, DirtyRow
  <2>5. session'[s].state \in LIVE_STATES
    <3> SUFFICES ASSUME session'[s].state \notin LIVE_STATES PROVE FALSE
      OBVIOUS
    <3>1. PICK r \in Procs :
             /\ env[r].pc = "idle"
             /\ \/ proc[r].pc \in WorkerPcs /\ proc[r].sid = s
                \/ proc[r].sid = s /\ RecoverCommit(r)
      BY <2>2, <2>4, SessionEnds
    <3>2. CASE proc[r].pc \in WorkerPcs /\ proc[r].sid = s
      BY <2>2, <3>1, <3>2
    <3>3. CASE proc[r].sid = s /\ RecoverCommit(r)
      <4>1. d \in RecoveryDrives(s)
        BY <2>3 DEF RecoveryDrives, OwnedDirty
      <4>2. <<d, drive[d].epoch>> \in proc[r].keys
        BY <3>3, <4>1 DEF RecoverCommit, RecoverAuthority, BindingCurrent, KeysOf
      <4>3. <<d, drive[d].epoch>> \in held[r]
        BY <3>3, <4>2 DEF RecoverCommit
      <4> QED
        BY <1>2, <3>1, <4>3, NoWriter
    <3> QED
      BY <3>1, <3>2, <3>3
  <2>6. ASSUME NEW r \in Procs, proc'[r].pc \in WorkerPcs, proc'[r].sid = s
        PROVE  r = p /\ env'[p].pc = "body"
    <3>1. session[s].state # "absent"
      BY <2>2 DEF LIVE_STATES
    <3>2. r = p /\ env[p].pc = "body"
      BY <2>2, <2>6, <3>1, WorkerStays
    <3> QED
      BY <2>6, <3>2, BodyEnds
  <2> QED
    BY <2>5, <2>6
<1> QED
  BY <1>1, <1>2, NewWriter

-----------------------------------------------------------------------------
(* The invariant and what follows from it *)

\* No envelope is running, nothing is locked and nothing is written at first.
LEMMA MutationInvInit == MutationInit => MutationInv
<1> SUFFICES ASSUME MutationInit PROVE MutationInv
  OBVIOUS
<1> USE DEF MutationInit
<1>1. SessionInv /\ SessionTypeOK
  BY SessionInvInit DEF SessionInv
<1>2. NoEnv \in EnvRow /\ NoEnv.pc = "idle" /\ NoEnv.owner = None
  BY DEF NoEnv, EnvRow
<1>3. /\ \A p \in Procs : proc[p] = Idle /\ held[p] = {} /\ child[p] = {} /\ env[p] = NoEnv
      /\ anchor = {} /\ dirty = {}
  BY DEF SessionInit, FenceInit
<1>4. Idle.pc \notin WorkerPcs
  BY DEF Idle, WorkerPcs, FillPcs
<1>5. MutationTypeOK
  BY <1>1, <1>2 DEF MutationTypeOK
<1>6. WorkersOK
  BY <1>2, <1>3, <1>4 DEF WorkersOK
<1>7. LocksExclusive /\ FencesHeld
  BY <1>2, <1>3 DEF LocksExclusive, Locked, FencesHeld, FencesOK
<1>8. GenerationsOK
  BY <1>3 DEF GenerationsOK
<1>9. \A p \in Procs, d \in Drives : ~Writes(p, d)
  BY <1>2, <1>3 DEF Writes
<1>10. WritersUncovered /\ OwnersWrite
  BY <1>9 DEF WritersUncovered, OwnersWrite
<1>11. ObservationsHold
  BY <1>2, <1>3 DEF ObservationsHold
<1>12. AnchorsAccountForBytes
  BY <1>3 DEF AnchorsAccountForBytes, Evidence!AnchorsAreTrue, GenerationIsClean
<1> QED
  BY <1>1, <1>5, <1>6, <1>7, <1>8, <1>10, <1>11, <1>12 DEF MutationInv

\* Every step keeps the invariant.
LEMMA MutationInvStep == MutationInv /\ [MutationNext]_mutationVars => MutationInv'
<1> SUFFICES ASSUME MutationInv, [MutationNext]_mutationVars PROVE MutationInv'
  OBVIOUS
<1> QED
  BY MutationSessionStep, MutationTypeStep, WorkersStep, ExclusiveStep, FencesStep, GenerationsStep,
     UncoveredStep, ObservationsStep, AnchorsStep, OwnersStep
  DEF MutationInv

\* The invariant holds through envelopes, orphaned children, reconciliations, recovery and
\* crashes in any order.
THEOREM MutationInvariant == MutationSpec => []MutationInv
BY MutationInvInit, MutationInvStep, PTL DEF MutationSpec

\* Every reachable state is well typed.
THEOREM MutationTypeCorrect == MutationSpec => []MutationTypeOK
<1>1. MutationInv => MutationTypeOK
  BY DEF MutationInv
<1> QED
  BY <1>1, MutationInvariant, PTL

\* A clean anchor of the current generation accounts for every byte on the drive, whatever
\* crashes, orphaned children, recoveries and reconciliations come between.
THEOREM AnchorsAccount == MutationSpec => []AnchorsAccountForBytes
<1>1. MutationInv => AnchorsAccountForBytes
  BY DEF MutationInv
<1> QED
  BY <1>1, MutationInvariant, PTL

\* One writer per drive, whose session outlives it.
THEOREM ExclusiveWriters == MutationSpec => []WritersExcluded
<1>1. MutationInv => WritersExcluded
  <2> SUFFICES ASSUME MutationInv PROVE WritersExcluded
    OBVIOUS
  <2>1. OneWriterPerDrive
    <3>1. ASSUME NEW d \in Drives, NEW p \in Procs, NEW r \in Procs, Writes(p, d), Writes(r, d)
          PROVE  p = r
      <4>1. <<d, drive[d].epoch>> \in Locked(p) \cap Locked(r)
        BY <3>1, WriterLocked
      <4> QED
        BY <4>1 DEF MutationInv, LocksExclusive
    <3> QED
      BY <3>1 DEF OneWriterPerDrive
  <2>2. OwnerOutlivesWriters
    BY DEF MutationInv, OwnersWrite, OwnerOutlivesWriters
  <2> QED
    BY <2>1, <2>2 DEF WritersExcluded, MutationInv
<1> QED
  BY <1>1, MutationInvariant, PTL

\* One live session, attempts in order and the pinned approval hold with the envelopes'
\* commits among the sessions' own steps, as they do without them.
THEOREM SessionsUnderMutation == MutationSpec => [](OneLive /\ AttemptsOrdered /\ PinnedApproval)
<1>1. MutationInv => OneLive /\ AttemptsOrdered /\ PinnedApproval
  BY DEF MutationInv, SessionInv, AttemptsOrdered
<1> QED
  BY <1>1, MutationInvariant, PTL

-----------------------------------------------------------------------------
(* The envelope implements DriveEvidence *)

\* Which drives have a clean anchor now: the abstract variable clean.
CleanMap == [d \in Drives |-> GenerationIsClean(d)]

\* No drive is covered at first.
LEMMA EvidenceInitially == MutationInit => Evidence!EvidenceInit
<1> SUFFICES ASSUME MutationInit PROVE Evidence!EvidenceInit
  OBVIOUS
<1>1. anchor = {} /\ unobserved = [d \in Drives |-> TRUE]
  BY DEF MutationInit, SessionInit
<1>2. CleanMap = [d \in Drives |-> FALSE]
  <2>1. \A d \in Drives : GenerationIsClean(d) = FALSE
    BY <1>1 DEF GenerationIsClean
  <2> QED
    BY <2>1, Zenon DEF CleanMap
<1> QED
  BY <1>1, <1>2 DEF Evidence!EvidenceInit, CleanMap

\* Every step of the envelope is a step of DriveEvidence, or leaves both of its variables.
LEMMA EvidenceStep ==
  MutationInv /\ [MutationNext]_mutationVars => [Evidence!EvidenceNext]_(Evidence!evidenceVars)
<1> SUFFICES ASSUME MutationInv, [MutationNext]_mutationVars
             PROVE  [Evidence!EvidenceNext]_(Evidence!evidenceVars)
  OBVIOUS
<1>0. /\ \A p \in Procs : env[p].drives \in SUBSET Drives
      /\ unobserved \in [Drives -> BOOLEAN]
  BY DEF MutationInv, MutationTypeOK, EnvRow
<1>a. \A d \in Drives : CleanMap[d] = GenerationIsClean(d)
  BY Zenon DEF CleanMap
<1>b. \A d \in Drives : GenerationIsClean(d) \in BOOLEAN /\ GenerationIsClean(d)' \in BOOLEAN
  BY DEF GenerationIsClean
<1>1. ASSUME UNCHANGED <<drive, anchor, unobserved>> PROVE UNCHANGED Evidence!evidenceVars
  BY <1>1 DEF Evidence!evidenceVars, GenerationIsClean, CurrentGeneration
<1>2. ASSUME NEW p \in Procs, MutateDirty(p) PROVE Evidence!Open(env[p].drives)
  <2>1. CleanMap' = [d \in Drives |-> CleanMap[d] /\ d \notin env[p].drives]
    <3>1. \A d \in Drives : GenerationIsClean(d)' = (CleanMap[d] /\ d \notin env[p].drives)
      <4>1. \A d \in Drives : GenerationIsClean(d)' <=> GenerationIsClean(d) /\ d \notin env[p].drives
        BY <1>2, DirtyClean
      <4> QED
        BY <1>a, <1>b, <4>1
    <3> QED
      BY <3>1, Zenon DEF CleanMap
  <2>2. UNCHANGED unobserved
    BY <1>2 DEF MutateDirty
  <2> QED
    BY <2>1, <2>2 DEF Evidence!Open, CleanMap
<1>3. ASSUME NEW p \in Procs, MutatePublish(p) PROVE Evidence!Publish(env[p].drives)
  <2>1. CleanMap' = [d \in Drives |-> CleanMap[d] \/ d \in env[p].drives]
    <3>1. \A d \in Drives : GenerationIsClean(d)' = (CleanMap[d] \/ d \in env[p].drives)
      <4>1. \A d \in Drives : GenerationIsClean(d)' <=> GenerationIsClean(d) \/ d \in env[p].drives
        BY <1>3, PublishClean
      <4> QED
        BY <1>a, <1>b, <4>1
    <3> QED
      BY <3>1, Zenon DEF CleanMap
  <2>2. UNCHANGED unobserved /\ env[p].pc = "observed"
    BY <1>3 DEF MutatePublish
  <2>3. \A d \in env[p].drives : ~unobserved[d]
    BY <2>2 DEF MutationInv, ObservationsHold
  <2> QED
    BY <2>1, <2>2, <2>3 DEF Evidence!Publish, CleanMap
<1>4. ASSUME NEW p \in Procs, ReconcileCommit(p)
      PROVE  \E D \in SUBSET Drives : Evidence!Publish(D)
  <2>1. PICK c \in env[p].drives :
           \A d \in Drives : GenerationIsClean(d)' <=> GenerationIsClean(d) \/ d = c
    BY <1>4, CommitClean
  <2>2. CleanMap' = [d \in Drives |-> CleanMap[d] \/ d \in {c}]
    <3>1. \A d \in Drives : GenerationIsClean(d)' = (CleanMap[d] \/ d \in {c})
      <4>1. \A d \in Drives : GenerationIsClean(d)' <=> GenerationIsClean(d) \/ d \in {c}
        BY <2>1
      <4> QED
        BY <1>a, <1>b, <4>1
    <3> QED
      BY <3>1, Zenon DEF CleanMap
  <2>3. UNCHANGED unobserved /\ env[p].pc = "reconcile_inventory"
    BY <1>4 DEF ReconcileCommit
  <2>4. \A d \in {c} : ~unobserved[d]
    BY <2>3 DEF MutationInv, ObservationsHold
  <2>5. Evidence!Publish({c})
    BY <2>2, <2>3, <2>4 DEF Evidence!Publish, CleanMap
  <2> QED
    BY <1>0, <2>5
<1>5. ASSUME NEW p \in Procs, MutateObserve(p) \/ ReconcileInventory(p)
      PROVE  Evidence!Observe(env[p].drives)
  <2>1. /\ UNCHANGED sessionVars
        /\ unobserved' = [d \in Drives |-> unobserved[d] /\ d \notin env[p].drives]
    BY <1>5 DEF MutateObserve, ReconcileInventory
  <2>2. CleanMap' = CleanMap
    BY <2>1 DEF CleanMap, GenerationIsClean, CurrentGeneration, sessionVars, catalogVars, driveVars
  <2> QED
    BY <2>1, <2>2 DEF Evidence!Observe, CleanMap
<1>6. ASSUME NEW d \in Drives, DriveWrite(d) PROVE Evidence!Write(d)
  <2>1. ~CleanMap[d]
    BY <1>6 DEF DriveWrite, MutationInv, WritersUncovered, CleanMap
  <2>2. CleanMap' = CleanMap
    BY <1>6 DEF DriveWrite, CleanMap, GenerationIsClean, CurrentGeneration, sessionVars,
       catalogVars, driveVars
  <2>3. unobserved' = [unobserved EXCEPT ![d] = TRUE]
    BY <1>6 DEF DriveWrite
  <2> QED
    BY <2>1, <2>2, <2>3 DEF Evidence!Write, CleanMap
<1>7. ASSUME UNCHANGED unobserved,
             \A p \in Procs : ~MutateDirty(p) /\ ~MutatePublish(p) /\ ~ReconcileCommit(p)
      PROVE  UNCHANGED Evidence!evidenceVars
  BY <1>1, <1>7, CleanFrame
<1>8. \/ UNCHANGED unobserved
      \/ \E p \in Procs : MutateObserve(p) \/ ReconcileInventory(p)
      \/ \E d \in Drives : DriveWrite(d)
  BY DEF MutationNext, mutationVars, BaseNext, EnvelopeNext, ReconcileNext, MutationCrash,
     FillEnvelope, ReplicaEnvelope, MutateController, MutateHoldFence, MutateProve, MutateDirty,
     SpawnChild, ChildExit, MutatePublish, MutateAbort, ReconcileBegin, ReconcileController,
     ReconcileCommit
<1> QED
  BY <1>0, <1>2, <1>3, <1>4, <1>5, <1>6, <1>7, <1>8 DEF Evidence!EvidenceNext

\* What an anchor promises, on which offline admission rests, is kept by the envelope and by
\* reconciliation.
THEOREM EnvelopeImplementsEvidence == MutationSpec => ImplementsEvidence
BY EvidenceInitially, EvidenceStep, MutationInvariant, PTL
DEF MutationSpec, ImplementsEvidence, Evidence!EvidenceSpec

=============================================================================

--------------------------- MODULE DriveIdentity ---------------------------
(***************************************************************************)
(* What ModelArk may believe about one registered drive: reconcile_drive   *)
(* (bootstrap, refresh, recovery, capacity epoch), repair_serial_identity  *)
(* over catalogs of earlier versions, and declare_lost, while the disk is  *)
(* unplugged, moved behind a USB bridge or resized and a Fill writes.      *)
(*                                                                         *)
(* A serial is "s", its ASCII-hex spelling "hex" by a bridge, or "none".   *)
(* A fingerprint is what it hashes: the serial and the capacity (0: NULL); *)
(* the UUIDs are those of the drive, or the disk counts as not in place.   *)
(***************************************************************************)
EXTENDS Naturals, FiniteSets

CONSTANT DvWorlds  \* saved catalog, disk and bounds to start with

VARIABLES
  dvRow,      \* the drives row
  dvDirty,    \* drive_dirty_generations
  dvAnchors,  \* drive_clean_anchors
  dvDisk,     \* the disk: in place, serial readout, capacity, claims provable
  dvBound,    \* an approved proposal names the drive
  dvFill,     \* the owner of a session: "none", "live", "ended"; "child": a child outlives it
  dvRun,      \* reconcile, repair and the loss dialog
  dvFresh,    \* the loss preview's revision is current
  dvCtrl,     \* holder of the controller lock
  dvKeys,     \* drive lock keys each holds
  dvLeft      \* bounds

Evidence == <<dvRow, dvDirty, dvAnchors, dvBound, dvFresh>>
Locks == <<dvCtrl, dvKeys>>
dvVars == <<Evidence, dvDisk, dvFill, dvRun, Locks, dvLeft>>

NoPrint == <<"none", 0>>
Serials == {"none", "s", "hex"}
Operations == {"bootstrap", "epoch", "reconcile", "fill", "serial_identity_repair"}

\* A catalog this program or an earlier version saved: the fingerprint was written with the
\* authority (drive_bootstrap.py:897), anchors and generations never ran ahead of the row.
Saved(w) ==
  /\ w.row \in [serial : Serials, print : Serials \X (0..2), cap : 0..2, epoch : Nat, gen : Nat,
                auth : BOOLEAN, life : {"active", "lost"}]
  /\ w.row.print = NoPrint \/ (w.row.auth /\ w.row.print[2] = w.row.cap)
  /\ \A g \in w.dirty : g.op \in Operations
  /\ \A a \in w.anchors :
       /\ a.epoch \in 0..w.row.epoch /\ a.gen \in Nat /\ (a.epoch = w.row.epoch => a.gen <= w.row.gen)
       /\ a.print = <<a.proof, a.cap>>
       /\ a.epoch = w.row.epoch /\ a.gen = w.row.gen =>
            a.print = w.row.print /\ a.cap = w.row.cap /\ a.auth = w.row.auth
  /\ \A a, b \in w.anchors : a.epoch = b.epoch /\ a.gen = b.gen => a = b
  /\ w.disk \in [in : BOOLEAN, serial : Serials, cap : 0..2, whole : BOOLEAN] /\ w.fill \in {"none", "ended"}

ASSUME DvWorldsAssumption == \A w \in DvWorlds : Saved(w)

Still == [pc |-> "idle", saw |-> {}, print |-> NoPrint, seen |-> "none"]
Operators == {"reconcile", "repair"}

DvTypeOK ==
  /\ dvRow.cap \in 0..2 /\ dvRow.life \in {"active", "lost"} /\ dvRow.auth \in BOOLEAN
  /\ \A g \in dvDirty : g.op \in Operations
  /\ dvFill \in {"none", "live", "ended", "child"}
  /\ dvCtrl \in Operators \cup {"fill", "none"}

DvInit ==
  \E w \in DvWorlds :
    /\ dvRow = w.row /\ dvDirty = w.dirty /\ dvAnchors = w.anchors
    /\ dvDisk = w.disk /\ dvLeft = w.left
    /\ dvBound = TRUE /\ dvFill = w.fill /\ dvFresh = FALSE
    /\ dvRun = [a \in Operators |-> Still]
    /\ dvCtrl = "none" /\ dvKeys = [a \in Operators \cup {"fill"} |-> {}]

-----------------------------------------------------------------------------
(* What the catalog says                                                   *)

AnchorsOf(g) == {a \in dvAnchors : a.epoch = dvRow.epoch /\ a.gen = g}

\* _generation_is_clean: the generation's anchor still equals the row.
Matches(a) == a.print = dvRow.print /\ a.cap = dvRow.cap /\ a.auth = dvRow.auth
Clean == \E a \in AnchorsOf(dvRow.gen) : Matches(a)

Opened(g) == {d \in dvDirty : d.epoch = dvRow.epoch /\ d.gen = g}
\* _dirty_owner, _capture_recovery_owner: an owner must have ended, with no child left.
Owned == ~Clean /\ \E d \in Opened(dvRow.gen) : d.owned
OwnerProven == Owned => dvFill = "ended"
NoLiveSession == dvFill # "live"

\* FenceIdentity.lock_keys: with and without the serial; nothing if the print is neither.
LockPrints(serial, cap) == {<<"none", cap>>, <<serial, cap>>}
LockKeys(serial, cap, epoch) == LockPrints(serial, cap) \X {epoch}
Fenceable == dvRow.cap > 0 /\ dvRow.print \in LockPrints(dvRow.serial, dvRow.cap)
RowKeys == LockKeys(dvRow.serial, dvRow.cap, dvRow.epoch)
KeysFree(K) == \A a \in DOMAIN dvKeys : dvKeys[a] \cap K = {}

Repairs == {d \in dvDirty : d.epoch = dvRow.epoch /\ d.op = "serial_identity_repair"}

\* load_bridge_binding: the one repair of this epoch turned the encoded serial into "s".
BridgeBound ==
  /\ dvRow.auth /\ dvRow.life = "active" /\ dvRow.print = <<dvRow.serial, dvRow.cap>>
  /\ Cardinality(Repairs) = 1
  /\ \E d \in Repairs, old, new \in dvAnchors :
       /\ old \in AnchorsOf(d.gen - 1) /\ new \in AnchorsOf(d.gen) /\ d.gen > 1
       /\ old.print = <<"hex", dvRow.cap>> /\ old.proof = "hex" /\ old.seen = "hex"
       /\ new.print = dvRow.print /\ new.proof = dvRow.serial /\ new.seen = "hex"

-----------------------------------------------------------------------------
(* What the disk says                                                      *)

\* serial_for_identity, bridge_serial_for_observation: a saved serial must be met.
IdentitySerial ==
  IF dvRow.serial = "none" THEN "none"
  ELSE IF dvDisk.serial = "hex" /\ BridgeBound /\ dvDisk.cap = dvRow.cap THEN dvRow.serial
  ELSE dvDisk.serial
\* _live_evidence and _stable_identity_matches.
Proven == dvDisk.in /\ IdentitySerial = dvRow.serial
LivePrint == <<IdentitySerial, dvDisk.cap>>
Canonical == <<dvRow.serial, dvRow.cap>>

\* _live_drive_evidence: a medium that can be observed, or nothing.
Observable == dvDisk.in
\* _observe_drive: why a Fill may not go by what it sees; a serial that is not met, or a print
\* made before the serial was hashed.
FillRefusal ==
  CASE ~Observable -> "DRIVE_IDENTITY_UNPROVEN"
    [] Observable /\ IdentitySerial # dvRow.serial -> "DRIVE_IDENTITY_MISMATCH"
    [] Observable /\ IdentitySerial = dvRow.serial /\ dvRow.serial # "none"
         /\ dvRow.print = <<"none", dvRow.cap>> /\ LivePrint = Canonical -> "DRIVE_SERIAL_REPAIR_REQUIRED"
    [] OTHER -> "none"
FillSees == FillRefusal = "none" /\ LivePrint = dvRow.print

\* Inventory.complete: every archived row is proven on the disk.
InventoryComplete == dvDisk.whole

\* _LiveEvidence.observation of a readout, as an anchor of a generation.
Anchor(epoch, gen, print, seen) ==
  [epoch |-> epoch, gen |-> gen, print |-> print, cap |-> print[2], auth |-> TRUE,
   proof |-> print[1], seen |-> seen]

-----------------------------------------------------------------------------
(* inspect_serial_identity                                                 *)

Earlier ==
  LET known == {a.gen : a \in {b \in dvAnchors : b.epoch = dvRow.epoch /\ b.gen < dvRow.gen /\ Matches(b)}}
  IN {a \in dvAnchors : /\ a.epoch = dvRow.epoch /\ Matches(a)
                        /\ a.gen \in known /\ \A g \in known : g <= a.gen}
\* _serial_repair_state: the current anchor, else the last one of the same identity.
Proof == IF Clean THEN AnchorsOf(dvRow.gen) ELSE Earlier

\* Mutant: only a dirty generation is recognised, not the one a repair left half way.
IsLegacy_DirtyOnly(a) == ~Clean /\ dvRow.print = <<"none", dvRow.cap>> /\ a.proof = "none"
\* recognize_legacy_anchor: the serial is saved, and was not hashed.
IsLegacy(a) == dvRow.print = <<"none", dvRow.cap>> /\ a.proof = "none"
\* recognize_bridge_anchor: a clean anchor of the encoded serial.
IsBridge(a) == Clean /\ dvRow.print = <<"hex", dvRow.cap>> /\ a.proof = "hex" /\ a.seen = "hex"
\* serialless_anchor_serial: no serial is saved, and one was hashed.
IsObserved(a) ==
  /\ Clean /\ dvRow.print = <<a.proof, dvRow.cap>>
  /\ a.proof # "none" => a.seen = a.proof

Status ==
  IF ~(dvRow.auth /\ dvRow.life = "active" /\ Opened(dvRow.gen) # {} /\ Proof # {})
    \/ (AnchorsOf(dvRow.gen) # {} /\ ~Clean) THEN "unproven"
  ELSE LET a == CHOOSE x \in Proof : TRUE IN
    CASE dvRow.serial = "none" ->
           IF ~IsObserved(a) THEN "unproven"
           ELSE IF a.proof = "none" THEN "already_correct" ELSE "observed_serial_clean"
      [] dvRow.serial # "none" /\ dvRow.print = Canonical ->
           IF Clean THEN "already_correct" ELSE "correct_identity_dirty"
      [] dvRow.serial # "none" /\ dvRow.print # Canonical ->
           IF IsLegacy(a) THEN IF Clean THEN "legacy_clean" ELSE "legacy_dirty"
           ELSE IF IsBridge(a) /\ Repairs = {} THEN "bridge_encoded_clean" ELSE "unproven"

Repairable == Status \in {"legacy_clean", "legacy_dirty", "observed_serial_clean", "bridge_encoded_clean"}

RepairKeys ==
  CASE Status = "observed_serial_clean" ->
         LockKeys((CHOOSE a \in Proof : TRUE).proof, dvRow.cap, dvRow.epoch)
    [] Status = "bridge_encoded_clean" -> LockKeys("hex", dvRow.cap, dvRow.epoch) \cup RowKeys
    [] OTHER -> RowKeys

\* _serial_live: the very medium and readout the repair is about.
RepairLive ==
  /\ dvDisk.in /\ dvDisk.cap = dvRow.cap
  /\ CASE Status = "bridge_encoded_clean" -> dvDisk.serial = "hex"
       [] Status = "observed_serial_clean" -> dvDisk.serial = (CHOOSE a \in Proof : TRUE).proof
       [] OTHER -> Proven

-----------------------------------------------------------------------------
DvAt(a, pc) == dvRun[a].pc = pc
To(a, pc) == dvRun' = [dvRun EXCEPT ![a].pc = pc]
CtrlTaken(a) == dvCtrl = "none" /\ dvCtrl' = a
Fenced(a, K) == KeysFree(K) /\ dvKeys' = [dvKeys EXCEPT ![a] = K]
\* Every lock of a is closed.
LetGo(a) ==
  /\ dvCtrl' = IF dvCtrl = a THEN "none" ELSE dvCtrl
  /\ dvKeys' = [dvKeys EXCEPT ![a] = {}]
Ends(a) == dvRun' = [dvRun EXCEPT ![a] = Still] /\ LetGo(a)

\* The disk is found as the operation first saw it.
Unchanged(a) == Proven /\ LivePrint = dvRun[a].print /\ dvDisk.serial = dvRun[a].seen

(* reconcile_drive                                                         *)

\* The first checks, then again under the controller; what they saw is kept.
ReconcileCapture ==
  /\ DvAt("reconcile", "idle")
  /\ Clean => dvLeft.refreshes > 0     \* bound
  /\ NoLiveSession /\ dvRow.life = "active" /\ OwnerProven
  /\ CtrlTaken("reconcile")
  /\ Status # "bridge_encoded_clean" /\ Proven
  /\ ~(dvRow.print = <<"none", dvRow.cap>> /\ LivePrint = Canonical /\ dvRow.serial # "none")
  /\ Owned => dvRow.gen > 0 /\ dvRow.print = LivePrint /\ dvRow.auth
  /\ dvRun' = [dvRun EXCEPT !["reconcile"] = 
       [pc |-> "fence", saw |-> {dvRow}, print |-> LivePrint, seen |-> dvDisk.serial]]
  /\ dvLeft' = IF Clean THEN [dvLeft EXCEPT !.refreshes = @ - 1] ELSE dvLeft
  /\ UNCHANGED <<Evidence, dvDisk, dvFill, dvKeys>>

\* The fences of the identity the disk has and of the one the row has.
ReconcileFence ==
  LET run == dvRun["reconcile"]
      epoch == IF dvRow.print # NoPrint /\ run.print[2] # dvRow.cap THEN dvRow.epoch + 1 ELSE dvRow.epoch
  IN /\ DvAt("reconcile", "fence") /\ NoLiveSession /\ dvRow \in run.saw /\ OwnerProven
     /\ dvRow.print # NoPrint => Fenceable
     /\ Fenced("reconcile", LockKeys(dvRow.serial, run.print[2], epoch)
          \cup (IF dvRow.print = NoPrint THEN {} ELSE RowKeys))
     /\ To("reconcile", "inventory")
     /\ UNCHANGED <<Evidence, dvDisk, dvFill, dvCtrl, dvLeft>>

\* _require_complete_inventory, then _final_observation.
ReconcileInventory ==
  /\ DvAt("reconcile", "inventory") /\ InventoryComplete /\ Unchanged("reconcile")
  /\ To("reconcile", "commit")
  /\ UNCHANGED <<Evidence, dvDisk, dvFill, Locks, dvLeft>>

\* Mutant: the lifecycle is not compared again inside the transaction.
ReconcileChecked_NoMetadata(run) ==
  NoLiveSession /\ OwnerProven /\ [dvRow EXCEPT !.life = "active"] \in run.saw
ReconcileChecked(run) == NoLiveSession /\ OwnerProven /\ dvRow \in run.saw

\* _advance_one and _publish_anchor_locked: the anchor is of the final observation, not of now.
PublishNew(row, op, seen) ==
  /\ dvRow' = [row EXCEPT !.gen = @ + 1]
  /\ dvDirty' = dvDirty \cup {[epoch |-> row.epoch, gen |-> row.gen + 1, op |-> op, owned |-> FALSE]}
  /\ dvAnchors' = dvAnchors \cup {Anchor(row.epoch, row.gen + 1, row.print, seen)}
PublishCurrent(seen) ==
  /\ dvAnchors' = dvAnchors \cup {Anchor(dvRow.epoch, dvRow.gen, dvRow.print, seen)}
  /\ UNCHANGED <<dvRow, dvDirty>>

\* _decide_and_commit and _recover_owned_generation, one transaction.
ReconcileCommit ==
  LET run == dvRun["reconcile"]
      row == [dvRow EXCEPT !.cap = run.print[2], !.print = run.print]
  IN /\ DvAt("reconcile", "commit") /\ ReconcileChecked(run)
     /\ IF dvRow.print = NoPrint THEN PublishNew([row EXCEPT !.auth = TRUE], "bootstrap", run.seen)
        ELSE IF run.print[2] # dvRow.cap
          THEN PublishNew([row EXCEPT !.epoch = @ + 1, !.gen = 0], "epoch", run.seen)
        ELSE /\ row = dvRow /\ dvRow.auth                       \* _require_identity
             /\ IF dvRow.gen = 0 \/ Clean THEN PublishNew(dvRow, "reconcile", run.seen)
                ELSE PublishCurrent(run.seen)
     /\ dvFresh' = FALSE /\ Ends("reconcile")
     /\ UNCHANGED <<dvBound, dvDisk, dvFill, dvLeft>>

\* Any later refusal closes the locks and leaves the catalog as it was.
ReconcileRefuse ==
  LET run == dvRun["reconcile"] IN
  /\ \/ DvAt("reconcile", "fence") /\ (ReconcileChecked(run) => dvRow.print # NoPrint /\ ~Fenceable)
     \/ DvAt("reconcile", "inventory") /\ (InventoryComplete => ~Unchanged("reconcile"))
     \/ DvAt("reconcile", "inventory") /\ Clean /\ run.print = dvRow.print   \* DRIVE_FREE_DRIFT
     \/ DvAt("reconcile", "commit") /\ ~ReconcileChecked(run)
  /\ Ends("reconcile")
  /\ UNCHANGED <<Evidence, dvDisk, dvFill, dvLeft>>

-----------------------------------------------------------------------------
(* repair_serial_identity                                                  *)

\* _serial_binding: everything the operator read in the inspection.
Binding == <<dvRow, dvDirty, dvAnchors, Status>>
GuardHolds == NoLiveSession /\ Binding \in dvRun["repair"].saw

InspectSerial ==
  /\ DvAt("repair", "idle") /\ Repairable
  /\ dvRun' = [dvRun EXCEPT !["repair"] = [pc |-> "asked", saw |-> {Binding}, print |-> NoPrint, seen |-> "none"]]
  /\ UNCHANGED <<Evidence, dvDisk, dvFill, Locks, dvLeft>>

RepairHold ==
  /\ DvAt("repair", "asked") /\ CtrlTaken("repair") /\ GuardHolds
  /\ To("repair", "fence")
  /\ UNCHANGED <<Evidence, dvDisk, dvFill, dvKeys, dvLeft>>

RepairFence ==
  /\ DvAt("repair", "fence") /\ GuardHolds /\ Fenced("repair", RepairKeys)
  /\ RepairLive /\ OwnerProven
  /\ To("repair", "inventory")
  /\ UNCHANGED <<Evidence, dvDisk, dvFill, dvCtrl, dvLeft>>

\* The inventory, the second look at the disk and the rehearsal on a copy of the catalog.
RepairInventory ==
  /\ DvAt("repair", "inventory") /\ InventoryComplete /\ RepairLive /\ GuardHolds
  /\ To("repair", IF Status = "legacy_dirty" THEN "recover" ELSE "enrich")
  /\ UNCHANGED <<Evidence, dvDisk, dvFill, Locks, dvLeft>>

\* _serial_recover_locked: the dirty generation ends under its old identity.
SerialRecover ==
  /\ DvAt("repair", "recover") /\ GuardHolds /\ RepairLive /\ OwnerProven
  /\ PublishCurrent(dvDisk.serial)
  /\ dvRun' = [dvRun EXCEPT !["repair"] = [pc |-> "enrich",
        saw |-> {<<dvRow, dvDirty, dvAnchors', "legacy_clean">>}, print |-> NoPrint, seen |-> "none"]]
  /\ dvFresh' = FALSE
  /\ UNCHANGED <<dvBound, dvDisk, dvFill, Locks, dvLeft>>

\* supersede_serial_repair_approvals
SupersedeApprovals == dvBound' = FALSE

\* _serial_enrich_locked: generation, identity, anchor and approvals in one transaction.
SerialEnrich ==
  /\ DvAt("repair", "enrich") /\ GuardHolds /\ RepairLive
  /\ PublishNew([dvRow EXCEPT !.print = Canonical], "serial_identity_repair", dvDisk.serial)
  /\ SupersedeApprovals /\ dvFresh' = FALSE /\ Ends("repair")
  /\ UNCHANGED <<dvDisk, dvFill, dvLeft>>

RepairRefuse ==
  LET pc == dvRun["repair"].pc IN
  /\ \/ pc = "asked" /\ (dvCtrl # "none" \/ ~GuardHolds)         \* the locks are not waited for
     \/ pc = "fence" /\ ~(GuardHolds /\ KeysFree(RepairKeys) /\ RepairLive /\ OwnerProven)
     \/ pc = "inventory" /\ ~(GuardHolds /\ InventoryComplete /\ RepairLive)
     \/ pc \in {"recover", "enrich"} /\ ~(GuardHolds /\ RepairLive)
  /\ Ends("repair")
  /\ UNCHANGED <<Evidence, dvDisk, dvFill, dvLeft>>

-----------------------------------------------------------------------------
(* declare_lost                                                            *)

LossPreview ==
  /\ dvRow.life = "active" /\ ~dvFresh /\ dvLeft.losses > 0
  /\ dvFresh' = TRUE /\ dvLeft' = [dvLeft EXCEPT !.losses = @ - 1]
  /\ UNCHANGED <<dvRow, dvDirty, dvAnchors, dvBound, dvDisk, dvFill, dvRun, Locks>>

\* _never_bootstrapped_for_loss: no fence could be taken, and no read admitted.
NeverBootstrapped ==
  /\ dvRow.epoch = 1 /\ dvRow.gen = 0 /\ dvRow.cap = 0 /\ dvRow.print = NoPrint /\ ~dvRow.auth
  /\ dvDirty = {} /\ dvAnchors = {}

\* One graph write; the fences are tried, not waited for (DRIVE_BUSY), and held to its end.
DeclareLost ==
  /\ dvFresh /\ dvRow.life = "active" /\ NoLiveSession
  /\ ~NeverBootstrapped => Fenceable /\ KeysFree(RowKeys)
  /\ dvRow' = [dvRow EXCEPT !.life = "lost"]
  /\ dvBound' = FALSE /\ dvFresh' = FALSE
  /\ UNCHANGED <<dvDirty, dvAnchors, dvDisk, dvFill, dvRun, Locks, dvLeft>>

-----------------------------------------------------------------------------
(* The Fill, the disk and the operator's hands                             *)

\* An admitted Fill opens a generation under the controller and the drive's fences.
FillOpens ==
  /\ dvFill = "none" /\ dvLeft.fills > 0
  /\ dvBound /\ dvRow.life = "active" /\ dvRow.auth /\ Fenceable
  /\ Clean /\ FillSees
  /\ CtrlTaken("fill") /\ Fenced("fill", RowKeys)
  /\ dvFill' = "live" /\ dvLeft' = [dvLeft EXCEPT !.fills = @ - 1]
  /\ dvRow' = [dvRow EXCEPT !.gen = @ + 1]
  /\ dvDirty' = dvDirty \cup {[epoch |-> dvRow.epoch, gen |-> dvRow.gen + 1, op |-> "fill", owned |-> TRUE]}
  /\ dvFresh' = FALSE
  /\ UNCHANGED <<dvAnchors, dvBound, dvDisk, dvRun>>

FillAnchors ==
  /\ dvFill = "live" /\ FillSees
  /\ PublishCurrent(dvDisk.serial)
  /\ dvFill' = "ended" /\ LetGo("fill") /\ dvFresh' = FALSE
  /\ UNCHANGED <<dvBound, dvDisk, dvRun, dvLeft>>

\* The session ends with the generation dirty; its child may live on with the locks.
FillDies ==
  /\ dvFill = "live"
  /\ \/ dvFill' = "ended" /\ LetGo("fill")
     \/ dvFill' = "child" /\ UNCHANGED Locks
  /\ UNCHANGED <<Evidence, dvDisk, dvRun, dvLeft>>

ChildExits ==
  /\ dvFill = "child" /\ dvFill' = "ended" /\ LetGo("fill")
  /\ UNCHANGED <<Evidence, dvDisk, dvRun, dvLeft>>

\* The disk is pulled, put back directly or behind a bridge, resized, or loses files.
DiskChanges ==
  /\ dvLeft.moves > 0 /\ dvLeft' = [dvLeft EXCEPT !.moves = @ - 1]
  /\ \/ dvDisk' = [dvDisk EXCEPT !.in = ~@]
     \/ \E serial \in {"s", "hex"} \ {dvDisk.serial} : dvDisk' = [dvDisk EXCEPT !.in = TRUE, !.serial = serial]
     \/ dvDisk' = [dvDisk EXCEPT !.cap = 2]
     \/ dvDisk' = [dvDisk EXCEPT !.whole = ~@]
  /\ UNCHANGED <<Evidence, dvFill, dvRun, Locks>>

\* The process of an operation dies; SQLite and the kernel undo the rest.
DvCrash(a) ==
  /\ dvLeft.crashes > 0 /\ dvRun[a].pc \notin {"idle", "asked"}
  /\ dvLeft' = [dvLeft EXCEPT !.crashes = @ - 1]
  /\ Ends(a)
  /\ UNCHANGED <<Evidence, dvDisk, dvFill>>

ReconcileStep ==
  ReconcileCapture \/ ReconcileFence \/ ReconcileInventory \/ ReconcileCommit \/ ReconcileRefuse
RepairStep ==
  \/ InspectSerial \/ RepairHold \/ RepairFence \/ RepairInventory
  \/ SerialRecover \/ SerialEnrich \/ RepairRefuse

DvNext ==
  \/ ReconcileStep \/ RepairStep
  \/ LossPreview \/ DeclareLost
  \/ FillOpens \/ FillAnchors \/ FillDies \/ ChildExits
  \/ DiskChanges
  \/ \E a \in Operators : DvCrash(a)

DvSpec == DvInit /\ [][DvNext]_dvVars

\* The operator goes on reconciling and repairing; a child that lost its parent exits.
FairDvSpec ==
  /\ DvSpec
  /\ WF_dvVars(ReconcileStep) /\ WF_dvVars(RepairStep)
  /\ WF_dvVars(FillAnchors \/ FillDies) /\ WF_dvVars(ChildExits)

-----------------------------------------------------------------------------
(* Properties                                                              *)

\* A current anchor never contradicts the row, and every anchor proves what it fingerprints:
\* no order of reconcile, repair, resize and loss leaves "contradictory anchor" behind.
AnchorsConsistent ==
  /\ AnchorsOf(dvRow.gen) # {} => Clean
  /\ \A a \in dvAnchors : a.print = <<a.proof, a.cap>>
  /\ \A a, b \in dvAnchors : a.epoch = b.epoch /\ a.gen = b.gen => a = b

\* Nobody inspects or writes a drive that another operation or the Fill has fenced.
OneWorkerPerIdentity ==
  Cardinality({a \in DOMAIN dvKeys : dvKeys[a] # {}}) <= 1

\* Evidence is published for an active drive only, and a generation somebody else opened is
\* closed only when its session and its child are gone.
EvidenceEarned ==
  dvAnchors' # dvAnchors =>
    /\ dvRow.life = "active"
    /\ Owned => dvFill = "ended" \/ (dvFill = "live" /\ dvFill' = "ended")
\* A lost drive keeps its identity and history.
LostIsFinal == dvRow.life = "lost" => UNCHANGED <<dvRow, dvDirty, dvAnchors>>
\* A new fingerprint comes with the anchor that proves it, and in the same epoch no approval
\* given for the old one survives it.
IdentityMovesWhole ==
  dvRow'.print # dvRow.print =>
    /\ Clean'
    /\ dvRow.print # NoPrint /\ dvRow'.epoch = dvRow.epoch => ~dvBound'

IdentityKept ==
  /\ [](DvTypeOK /\ AnchorsConsistent /\ OneWorkerPerIdentity)
  /\ [][EvidenceEarned /\ LostIsFinal /\ IdentityMovesWhole]_dvVars

\* What reconcile and repair cannot settle: the disk is not there as it was registered, rows
\* are not proven on it, or an old catalog left a fingerprint that is neither fenceable nor
\* the one of a clean anchor.
DvStuck ==
  \/ ~dvDisk.in \/ ~dvDisk.whole
  \/ ~Proven /\ ~RepairLive
  \/ ~Fenceable /\ ~Repairable /\ dvRow.print # NoPrint
  \/ Repairable /\ ~RepairLive
  \/ Owned /\ LivePrint # dvRow.print
DvSettled == dvRow.life = "lost" \/ (Clean /\ dvRow.print = Canonical)

\* Once somebody reconciles or repairs, the identity is settled in the end, or one of these
\* keeps it back (a crash between SerialRecover and SerialEnrich does not).
IdentityTried == \E a \in Operators : dvRun[a].pc # "idle"
IdentitySettled == DvSettled \/ DvStuck \/ dvFill \in {"live", "child"}
=============================================================================

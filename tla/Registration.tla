---------------------------- MODULE Registration ----------------------------
(***************************************************************************)
(* Registering a drive: the portal's request (drive_lifecycle), the        *)
(* command line's (register), and the journal that replaces the controller *)
(* lock in a version-nine catalog (registration_setup).                    *)
(*                                                                         *)
(* A disk is its filesystem, its serial and the archive on it; the map is  *)
(* the central annex.  The operator's tab outlives the portal's process.   *)
(* Left out: what SMART and block probes say beyond pass or fail, the wire *)
(* form of previews, live execution sessions (every entry refuses them),   *)
(* the approvals a row withdraws (Proposal), register_nas.  hold looks for *)
(* a leftover and takes the locks in one step.                             *)
(***************************************************************************)
EXTENDS Integers, FiniteSets, FiniteSetsExt

CONSTANTS
  RgDisks,   \* names of disks
  RgWorlds,  \* [v9, cli: labels the command line uses, trees: what is on the disks,
             \*  left: bounds on crashes, writes, fails and runs (of the command line)]
  RgLabels   \* numbers of drive labels, from 1

ASSUME RgLabelsAssumption == RgLabels \subseteq Nat \ {0}
ASSUME RgWorldsAssumption ==
  \A w \in RgWorlds : w.v9 \in BOOLEAN /\ w.trees \in [RgDisks -> [has : {"none", "clone", "annex", "receipt"}, label : Nat]]

VARIABLES
  rgWorld,
  rgRow,     \* drives: the disk of a label
  rgStale,   \* who remembers a planner_revision other than the current one
  rgOp,      \* the one registration operation that is PREPARED
  rgTree,    \* [stage, archive] of a disk
  rgRemote,  \* the map's remotes
  rgSynced,  \* disks whose location log the map has
  rgTab,     \* the binding of the preview the operator looks at
  rgRun,     \* what the portal and the command line are doing
  rgLock,    \* the controller lock, and in version nine the map lock with it
  rgLeft

rgVars == <<rgWorld, rgRow, rgStale, rgOp, rgTree, rgRemote, rgSynced, rgTab, rgRun, rgLock, rgLeft>>

Nil == "none"
Actors == {"portal", "cli"}
\* Who remembers a revision: the operation, the tab, and the base each caller read under the lock.
Holders == {"op", "tab"} \cup Actors
NoTree == [has |-> Nil, label |-> 0]
NoSetup == [kind |-> Nil, label |-> 0, pair |-> Nil, proof |-> Nil, phase |-> Nil]
NoPreview == [disk |-> Nil, label |-> 0, found |-> Nil]
Idle == [pc |-> "idle", kind |-> Nil, disk |-> Nil, label |-> 0]

\* The phases of the journal, in order; "closed" is NoSetup again.
SetupPhases == <<"op", "PREPARED", "LOCAL_VERIFIED", "TREE_VERIFIED", "CATALOG_PUBLISHED", "PROPAGATED">>
Cataloged == rgOp.phase \in {"CATALOG_PUBLISHED", "PROPAGATED"}

RgInit ==
  /\ rgWorld \in RgWorlds
  /\ rgRow = [l \in RgLabels |-> Nil] /\ rgStale = {} /\ rgOp = NoSetup
  /\ rgTree = [d \in RgDisks |-> [stage |-> NoTree, archive |-> rgWorld.trees[d]]]
  /\ rgRemote = [l \in RgLabels |-> Nil] /\ rgSynced = {}
  /\ rgTab = NoPreview /\ rgRun = [a \in Actors |-> Idle] /\ rgLock = Nil
  /\ rgLeft = rgWorld.left

RgTypeOK ==
  /\ rgRow \in [RgLabels -> RgDisks \cup {Nil}] /\ rgRemote \in [RgLabels -> RgDisks \cup {Nil}]
  /\ rgOp.phase \in {Nil} \cup {SetupPhases[i] : i \in DOMAIN SetupPhases}
  /\ rgStale \in SUBSET Holders /\ (rgOp = NoSetup \/ rgWorld.v9)
  /\ \A d \in RgDisks : rgTree[d].stage.has \in {Nil, "clone", "receipt"}
  /\ rgLock = Nil \/ rgRun[rgLock].pc # "idle"

Used(d) == {l \in RgLabels : rgRow[l] = d}
NextLabel == 1 + Max({0} \cup {l \in RgLabels : rgRow[l] # Nil})
\* Mutant: any receipt will do.
Exact_AnyReceipt(tree, l) == tree.has = "receipt"
Exact(tree, l) == tree = [has |-> "receipt", label |-> l]

RgAt(a, pc) == rgRun[a].pc = pc
DiskOf(a) == rgRun[a].disk
LabelOf(a) == rgRun[a].label
GoTo(a, pc) == rgRun' = [rgRun EXCEPT ![a].pc = pc]
Stop(a) == rgRun' = [rgRun EXCEPT ![a] = Idle]
RgFree(a) == rgLock' = IF rgLock = a THEN Nil ELSE rgLock
Catalog == <<rgRow, rgStale, rgOp>>

\* planner_revision advances; those who write it know the new one.
Bump(writers) == rgStale' = Holders \ writers
RgCurrent(h) == h \notin rgStale
Physical == <<rgTree, rgRemote, rgSynced>>

-----------------------------------------------------------------------------
(* The portal: preview, and the request that carries its binding           *)

\* What the passive probe says of the archive's name on a disk.
Observed(d) == rgTree[d].archive

\* onboarding_preview without blockers: no row has the disk, the namespace is free or holds
\* exactly the receipt of the label to come.
PreviewReady(d) ==
  /\ Used(d) = {} /\ NextLabel \in RgLabels
  /\ Observed(d).has = Nil \/ Exact(Observed(d), NextLabel)

RgPreview(d) ==
  /\ RgAt("portal", "idle") /\ rgTab = NoPreview /\ PreviewReady(d)
  /\ rgTab' = [disk |-> d, label |-> NextLabel, found |-> Observed(d).has]
  /\ rgStale' = rgStale \ {"tab"}
  /\ UNCHANGED <<rgWorld, rgRow, rgOp, Physical, rgRun, rgLock, rgLeft>>

Same(kind, l) == rgOp.kind = kind /\ rgOp.label = l
Replayable == Same("portal", rgTab.label) /\ Cataloged /\ rgRow[rgTab.label] = rgTab.disk
StillReady ==
  /\ PreviewReady(rgTab.disk) /\ rgTab.label = NextLabel /\ RgCurrent("tab")
  /\ rgTab.found = Observed(rgTab.disk).has

\* register_new_identity: finish a cataloged operation, or go on if the preview still holds.
RgRequest ==
  /\ RgAt("portal", "idle") /\ rgTab # NoPreview
  /\ Replayable \/ (rgRow[rgTab.label] = Nil /\ StillReady)
  /\ rgRun' = [rgRun EXCEPT !["portal"] =
       [pc |-> IF Replayable THEN "replay" ELSE "hold", kind |-> "portal",
        disk |-> rgTab.disk, label |-> rgTab.label]]
  /\ UNCHANGED <<rgWorld, Catalog, Physical, rgTab, rgLock, rgLeft>>

\* The exact replay of a registration that is done (_exact_existing_registration), a collision,
\* or DRIVE_REGISTRATION_PREVIEW_STALE: nothing changes and the tab is of no more use.
RgAnswered ==
  /\ RgAt("portal", "idle") /\ rgTab # NoPreview /\ ~Replayable
  /\ rgRow[rgTab.label] # Nil \/ ~StillReady
  /\ rgTab' = NoPreview
  /\ UNCHANGED <<rgWorld, Catalog, Physical, rgRun, rgLock, rgLeft>>

-----------------------------------------------------------------------------
(* The command line: _register_drive up to the archive                     *)

\* register_drive: before version nine the controller is held from here to the end.
CliStart(d, l) ==
  /\ RgAt("cli", "idle") /\ l \in rgWorld.cli /\ rgLeft.runs > 0
  /\ rgLeft' = [rgLeft EXCEPT !.runs = @ - 1]
  /\ rgRun' = [rgRun EXCEPT !["cli"] = [pc |-> IF rgWorld.v9 THEN "guard" ELSE "hold",
                                          kind |-> "cli", disk |-> d, label |-> l]]
  /\ UNCHANGED <<rgWorld, Catalog, Physical, rgTab, rgLock>>

\* ensure_library goes first, with an operation of its own.
EnsureLibrary(run) == [run EXCEPT !.pc = "hold", !.kind = "library"]

\* A cataloged leftover of the same label and disk is finished, a label with a row refused.
CliGuard ==
  LET l == LabelOf("cli")
      again == Same("cli", l) /\ Cataloged /\ rgRow[l] = DiskOf("cli")
      run == rgRun["cli"]
  IN /\ RgAt("cli", "guard") /\ (again \/ rgRow[l] = Nil)
     /\ rgRun' = [rgRun EXCEPT !["cli"] =
          IF again THEN [run EXCEPT !.pc = "replay"]
          ELSE IF rgWorld.v9 THEN EnsureLibrary(run) ELSE [run EXCEPT !.pc = "tree"]]
     /\ UNCHANGED <<rgWorld, Catalog, Physical, rgTab, rgLock, rgLeft>>

\* smart_baseline rejects the disk, _validate_format_target or the mount fails.
CliUnfit ==
  /\ RgAt("cli", "guard") /\ rgLeft.fails > 0
  /\ rgLeft' = [rgLeft EXCEPT !.fails = @ - 1] /\ Stop("cli") /\ RgFree("cli")
  /\ UNCHANGED <<rgWorld, Catalog, Physical, rgTab>>

-----------------------------------------------------------------------------
(* Exclusion and the operation                                             *)

\* registration_publication.controller waits for the lock.
HoldController(a) ==
  /\ ~rgWorld.v9 /\ RgAt(a, "hold") /\ rgLock = Nil
  /\ rgLock' = a /\ GoTo(a, IF a = "cli" THEN "guard" ELSE "check")
  /\ UNCHANGED <<rgWorld, Catalog, Physical, rgTab, rgLeft>>

\* registration_setup.hold: an operation of the same intent is taken up, else one is prepared;
\* the revision after that is the base of the catalog check.
HoldSetup(a) ==
  LET kind == rgRun[a].kind
      mine == Same(kind, LabelOf(a)) \/ (kind = "library" /\ rgOp.kind = "library")
  IN /\ rgWorld.v9 /\ rgRun[a].pc \in {"hold", "replay"} /\ rgLock = Nil
     /\ rgOp = NoSetup \/ mine
     /\ rgLock' = a
     /\ IF mine THEN rgStale' = rgStale \ {a} /\ UNCHANGED rgOp
        ELSE /\ Bump({"op", a})
             /\ rgOp' = [NoSetup EXCEPT !.kind = kind, !.label = LabelOf(a), !.phase = "op"]
     /\ GoTo(a, CASE RgAt(a, "replay") \/ kind = "library" -> "publish"
                      [] kind = "portal" -> "check" [] OTHER -> "tree")
     /\ UNCHANGED <<rgWorld, rgRow, Physical, rgTab, rgLeft>>

\* check_catalog before anything physical.
Bound(a) == /\ LabelOf(a) = NextLabel /\ Used(DiskOf(a)) = {}
            /\ RgCurrent("tab") \/ (rgWorld.v9 /\ RgCurrent(a))
CheckCatalog ==
  /\ RgAt("portal", "check") /\ Bound("portal") /\ GoTo("portal", "tree")
  /\ UNCHANGED <<rgWorld, Catalog, Physical, rgTab, rgLock, rgLeft>>

-----------------------------------------------------------------------------
(* The archive on the disk and the remote of the map                       *)

SetTree(d, stage, archive) == rgTree' = [rgTree EXCEPT ![d] = [stage |-> stage, archive |-> archive]]
UnchangedByTree == UNCHANGED <<rgWorld, Catalog, rgRemote, rgSynced, rgTab, rgLock, rgLeft>>

\* What is already there is resumed by its exact receipt only.
ReceiptFound ==
  LET t == rgTree[DiskOf("portal")] IN
  /\ RgAt("portal", "tree")
  /\ \/ Exact(t.archive, LabelOf("portal")) /\ GoTo("portal", "remote")
     \/ t.archive = NoTree /\ Exact(t.stage, LabelOf("portal")) /\ GoTo("portal", "promote")
  /\ UNCHANGED rgTree /\ UnchangedByTree
CloneStage ==
  /\ RgAt("portal", "tree") /\ rgTree[DiskOf("portal")] = [stage |-> NoTree, archive |-> NoTree]
  /\ SetTree(DiskOf("portal"), [has |-> "clone", label |-> LabelOf("portal")], NoTree)
  /\ GoTo("portal", "receipt") /\ UnchangedByTree
\* annex init and the keys of the receipt, the state last.
WriteReceipt ==
  /\ RgAt("portal", "receipt")
  /\ SetTree(DiskOf("portal"), [has |-> "receipt", label |-> LabelOf("portal")], NoTree)
  /\ GoTo("portal", "promote") /\ UnchangedByTree
Promote ==
  /\ RgAt("portal", "promote")
  /\ SetTree(DiskOf("portal"), NoTree, rgTree[DiskOf("portal")].stage)
  /\ GoTo("portal", "remote") /\ UnchangedByTree

\* _register_drive_archive clones in place, and takes any annex that is there.
CliClone ==
  /\ RgAt("cli", "tree")
  /\ IF rgTree[DiskOf("cli")].archive = NoTree
     THEN /\ SetTree(DiskOf("cli"), rgTree[DiskOf("cli")].stage, [has |-> "clone", label |-> LabelOf("cli")])
          /\ GoTo("cli", "init")
     ELSE UNCHANGED rgTree /\ GoTo("cli", "remote")
  /\ UnchangedByTree
CliInit ==
  /\ RgAt("cli", "init")
  /\ rgTree' = [rgTree EXCEPT ![DiskOf("cli")].archive.has = "annex"]
  /\ GoTo("cli", "remote") /\ UnchangedByTree

\* The portal refuses a remote that points elsewhere, the command line sets it.
MayPoint(l, d) == rgRemote[l] \in {Nil, d}
PointRemote(a) ==
  /\ RgAt(a, "remote") /\ (a = "portal" => MayPoint(LabelOf(a), DiskOf(a)))
  /\ rgRemote' = [rgRemote EXCEPT ![LabelOf(a)] = DiskOf(a)] /\ GoTo(a, "sync")
  /\ UNCHANGED <<rgWorld, Catalog, rgTree, rgSynced, rgTab, rgLock, rgLeft>>
AnnexSync(a) ==
  /\ RgAt(a, "sync") /\ rgSynced' = rgSynced \cup {DiskOf(a)}
  /\ GoTo(a, IF rgWorld.v9 THEN "publish" ELSE "commit")
  /\ UNCHANGED <<rgWorld, Catalog, rgTree, rgRemote, rgTab, rgLock, rgLeft>>

-----------------------------------------------------------------------------
(* The catalog                                                             *)

\* op: the portal compares label, plan, serial, filesystem and annex with every row; the
\* command line compares the label.
Admits(a) == IF a = "portal" THEN LabelOf(a) = NextLabel /\ Used(DiskOf(a)) = {} ELSE rgRow[LabelOf(a)] = Nil
InsertRow(a) == rgRow' = [rgRow EXCEPT ![LabelOf(a)] = DiskOf(a)]

GraphCommit(a) ==
  /\ RgAt(a, "commit") /\ Admits(a) /\ (a = "portal" => RgCurrent("tab"))
  /\ InsertRow(a) /\ Bump({}) /\ Stop(a) /\ RgFree(a)
  /\ rgTab' = IF a = "portal" THEN NoPreview ELSE rgTab
  /\ UNCHANGED <<rgWorld, rgOp, Physical, rgLeft>>

Advance(phase) == Bump({"op"}) /\ rgOp' = [rgOp EXCEPT !.phase = phase]
Publishing(a, phase) == RgAt(a, "publish") /\ rgOp.phase = phase /\ RgCurrent("op")
UnchangedByPublish == UNCHANGED <<rgWorld, Physical, rgTab, rgLeft>>

PrepareRow(a) ==
  /\ Publishing(a, "op") /\ Bump({"op"})
  /\ rgOp' = [rgOp EXCEPT !.phase = "PREPARED", !.pair = DiskOf(a)]
  /\ UNCHANGED <<rgRow, rgRun, rgLock>> /\ UnchangedByPublish
LocalVerified(a) ==
  /\ Publishing(a, "PREPARED") /\ Bump({"op"})
  /\ rgOp' = [rgOp EXCEPT !.phase = "LOCAL_VERIFIED", !.proof = DiskOf(a)]
  /\ UNCHANGED <<rgRow, rgRun, rgLock>> /\ UnchangedByPublish
TreeVerified(a) ==
  /\ Publishing(a, "LOCAL_VERIFIED") /\ Advance("TREE_VERIFIED")
  /\ UNCHANGED <<rgRow, rgRun, rgLock>> /\ UnchangedByPublish
\* The row and the phase in one transaction; the library has no row.
CatalogPublished(a) ==
  /\ Publishing(a, "TREE_VERIFIED") /\ Advance("CATALOG_PUBLISHED")
  /\ IF rgRun[a].kind = "library" THEN UNCHANGED rgRow ELSE Admits(a) /\ InsertRow(a)
  /\ UNCHANGED <<rgRun, rgLock>> /\ UnchangedByPublish
Propagated(a) ==
  /\ Publishing(a, "CATALOG_PUBLISHED") /\ Advance("PROPAGATED")
  /\ UNCHANGED <<rgRow, rgRun, rgLock>> /\ UnchangedByPublish
CloseSetup(a) ==
  /\ Publishing(a, "PROPAGATED") /\ Bump({}) /\ rgOp' = NoSetup /\ RgFree(a)
  /\ IF rgRun[a].kind = "library"
     THEN rgRun' = [rgRun EXCEPT ![a].pc = "hold", ![a].kind = "cli"]
     ELSE Stop(a)
  /\ rgTab' = IF a = "portal" THEN NoPreview ELSE rgTab
  /\ UNCHANGED <<rgWorld, rgRow, Physical, rgLeft>>

-----------------------------------------------------------------------------
(* Refusals, failures, crashes                                             *)

\* Mutant: the operation is left where the failure found it.
Abort_None(a) == UNCHANGED <<rgOp, rgStale>>
\* _abort_unfinished drops an operation that has published no row; a cataloged one stays.
Abort(a) ==
  IF rgLock = a /\ rgOp # NoSetup /\ ~Cataloged
  THEN rgOp' = NoSetup /\ Bump({}) ELSE UNCHANGED <<rgOp, rgStale>>

Foreign(a) ==
  LET t == rgTree[DiskOf(a)] IN
  a = "portal" /\ ~Exact(t.archive, LabelOf(a))
  /\ (t.archive # NoTree \/ (t.stage # NoTree /\ ~Exact(t.stage, LabelOf(a))))
RgRefused(a) ==
  CASE RgAt(a, "guard") -> rgRow[LabelOf(a)] # Nil /\ ~(Same("cli", LabelOf(a)) /\ Cataloged /\ rgRow[LabelOf(a)] = DiskOf(a))
    [] rgRun[a].pc \in {"hold", "replay"} ->
         rgWorld.v9 /\ (rgLock # Nil \/ ~(rgOp = NoSetup \/ Same(rgRun[a].kind, LabelOf(a))
                                           \/ (rgRun[a].kind = "library" /\ rgOp.kind = "library")))
    [] RgAt(a, "check") -> ~Bound(a)
    [] RgAt(a, "tree") -> Foreign(a)
    [] RgAt(a, "remote") -> a = "portal" /\ ~MayPoint(LabelOf(a), DiskOf(a))
    [] RgAt(a, "commit") -> ~Admits(a) \/ (a = "portal" /\ ~RgCurrent("tab"))
    [] RgAt(a, "publish") -> \/ ~RgCurrent("op")
                             \/ /\ rgOp.phase = "TREE_VERIFIED" /\ rgRun[a].kind # "library"
                                /\ ~Admits(a)
    [] OTHER -> FALSE
RgRefuse(a) ==
  /\ RgRefused(a) /\ Abort(a) /\ Stop(a) /\ RgFree(a)
  /\ rgTab' = IF a = "portal" /\ ~RgAt(a, "replay") THEN NoPreview ELSE rgTab
  /\ UNCHANGED <<rgWorld, rgRow, Physical, rgLeft>>

\* _prepare_new_identity_archive looks at the medium once more, then calls git and git-annex.
Preparing(a) == rgRun[a].pc \in {"tree", "receipt", "init", "remote", "sync"}
\* It is not the medium of the preview, or a tool fails: DRIVE_REGISTRATION_PREPARATION_INCOMPLETE.
ToolFails(a) ==
  /\ Preparing(a) /\ rgLeft.fails > 0
  /\ rgLeft' = [rgLeft EXCEPT !.fails = @ - 1]
  /\ Abort(a) /\ Stop(a) /\ RgFree(a) /\ rgTab' = IF a = "portal" THEN NoPreview ELSE rgTab
  /\ UNCHANGED <<rgWorld, rgRow, Physical>>

RgCrash(a) ==
  /\ ~RgAt(a, "idle") /\ rgLeft.crashes > 0
  /\ rgLeft' = [rgLeft EXCEPT !.crashes = @ - 1] /\ Stop(a) /\ RgFree(a)
  /\ UNCHANGED <<rgWorld, Catalog, Physical, rgTab>>

\* A graph write of somebody else takes no controller lock.
OtherWrite ==
  /\ rgLeft.writes > 0 /\ rgLeft' = [rgLeft EXCEPT !.writes = @ - 1]
  /\ Bump({})
  /\ UNCHANGED <<rgWorld, rgRow, rgOp, Physical, rgTab, rgRun, rgLock>>

-----------------------------------------------------------------------------
RgStep(a) ==
  \/ HoldController(a) \/ HoldSetup(a) \/ PointRemote(a) \/ AnnexSync(a) \/ GraphCommit(a)
  \/ PrepareRow(a) \/ LocalVerified(a) \/ TreeVerified(a) \/ CatalogPublished(a)
  \/ Propagated(a) \/ CloseSetup(a) \/ RgRefuse(a)
  \/ a = "portal" /\ (CheckCatalog \/ ReceiptFound \/ CloneStage \/ WriteReceipt \/ Promote)
  \/ a = "cli" /\ (CliGuard \/ CliClone \/ CliInit)

RgNext ==
  \/ \E d \in RgDisks : RgPreview(d) \/ \E l \in RgLabels : CliStart(d, l)
  \/ RgRequest \/ RgAnswered \/ CliUnfit \/ OtherWrite
  \/ \E a \in Actors : RgStep(a) \/ ToolFails(a) \/ RgCrash(a)

RgSpec == RgInit /\ [][RgNext]_rgVars

\* Processes go on, and the operator tries every disk again in the portal.
FairRgSpec ==
  /\ RgSpec
  /\ \A a \in Actors : WF_rgVars(RgStep(a))
  /\ WF_rgVars(RgRequest \/ RgAnswered) /\ \A d \in RgDisks : SF_rgVars(RgPreview(d))

-----------------------------------------------------------------------------
(* Properties                                                              *)

\* Two labels never name one disk, unless the command line, which compares labels only, wrote
\* one of them (check_catalog and the annex check of register_new_identity).
OneLabelPerDisk ==
  \A l, m \in RgLabels : rgRow[l] # Nil /\ rgRow[l] = rgRow[m] => l = m \/ {l, m} \cap rgWorld.cli # {}

\* A row of the portal names a disk whose archive this registration, and no other, prepared.
NothingAdopted ==
  \A l \in RgLabels \ rgWorld.cli : rgRow[l] # Nil => rgTree[rgRow[l]].archive.label = l

\* A registered drive is the remote of the map under its label, and the map knows it.
RemoteIsRow ==
  \A l \in RgLabels : rgRow[l] # Nil => rgRemote[l] = rgRow[l] /\ rgRow[l] \in rgSynced

\* Registration writes what it found, however it was interrupted.
FleetSound == RgTypeOK /\ OneLabelPerDisk /\ NothingAdopted /\ RemoteIsRow

\* What registration does not get past, for disk d, without the operator's hand:
RgStuck(d) ==
  LET t == rgTree[d] IN
  \/ t.stage # NoTree /\ ~Exact(t.stage, NextLabel)            \* no receipt, or of a label since taken
  \/ t.archive # NoTree /\ ~Exact(t.archive, NextLabel)
  \/ NextLabel \notin RgLabels
  \/ NextLabel \in RgLabels /\ ~MayPoint(NextLabel, d)         \* the remote of a failed attempt
  \/ Cataloged /\ (~RgCurrent("op") \/ rgOp.kind # "portal" \/ rgTab.label # rgOp.label)
  \/ rgOp # NoSetup /\ ~Same("portal", NextLabel)              \* a crash left it behind
       /\ rgLeft.crashes < rgWorld.left.crashes

\* Once the operator tries, every disk is registered in the end, or kept back by one of these.
RegistrationTried == rgTab # NoPreview
RegistrationSettled == \A d \in RgDisks : Used(d) # {} \/ RgStuck(d)
=============================================================================

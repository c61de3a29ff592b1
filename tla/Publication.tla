---------------------------- MODULE Publication ----------------------------
(***************************************************************************)
(* Publication of files into an archive drive (catalog schema 9): the      *)
(* operation of archive_publisher.ArchivePublisher, its journal of actions *)
(* (publication_actions: PREPARED before an effect, VERIFIED after it), the *)
(* phases of each file (publication_file_resume), the batch on the map     *)
(* (publication_map_stage, publication_map) and the closure that publishes *)
(* the clean anchors.  The process may die between any two steps; a later  *)
(* one reopens the operation and goes on from what it finds on the disks.  *)
(*                                                                         *)
(* Each caller publishes to one target (fill_requests, replica_tasks), so  *)
(* an operation has one batch; a staging directory stands for the chain of *)
(* them.  Git and git-annex are external: a native command has its effect, *)
(* fails, or (annex add) leaves half of it.  An interrupted read-tree      *)
(* leaves part of the checkout.                                            *)
(***************************************************************************)
EXTENDS Integers, Sequences, FiniteSets, FiniteSetsExt

CONSTANTS
  PubPlans,     \* the requests an operation may be opened for
  PubBounds     \* bounds, by kind: crashes, native failures and foreign acts of a behaviour

\* An operation is opened for at least one file; files are numbered in the order of the requests.
ASSUME PublicationPlans == \A plan \in PubPlans : plan.files \in SUBSET Nat /\ plan.files # {}

VARIABLES
  pubPlan,   \* kind, files, packed (stored compressed), target and source drive
  pubOp,     \* the operation's row, and the drives it keeps dirty
  pubSetup,  \* policy setup of the repositories in turn, then the staging directory
  pubFile,   \* rows, journal and disk state of each file
  pubMap,    \* the batch: its phase and its journal
  pubRun,    \* the process
  pubLeft    \* what is left of PubBounds

pubVars == <<pubPlan, pubOp, pubSetup, pubFile, pubMap, pubRun, pubLeft>>

Fill == pubPlan.kind = "fill"
PubFiles == pubPlan.files
Participants == IF Fill THEN {pubPlan.target} ELSE {pubPlan.target, pubPlan.source}

Phases == {"absent", "PREPARED", "LOCAL_VERIFIED", "TREE_VERIFIED", "CATALOG_PUBLISHED"}
ActionSteps == IF Fill THEN {"install", "add", "commit", "metadata", "release"}
               ELSE {"install", "setkey", "pointer", "stage", "commit", "metadata"}
Status == {"none", "PREPARED", "VERIFIED"}

\* The map's journal, in order: scratch repository first, then the map itself.
MapSteps == <<"quarantine", "admit", "native-merge", "candidate",
              "file-objects", "annex-objects", "refs", "checkout">>
RefsStep == 7

\* A file no operation has touched.  The source copy of a replica needs no acquisition.
NewFile ==
  [phase |-> "absent", row |-> FALSE, staged |-> IF Fill THEN "none" ELSE "held",
   path |-> "none", temp |-> FALSE, obj |-> FALSE, index |-> FALSE, head |-> FALSE,
   log |-> FALSE, base |-> {}, act |-> [s \in ActionSteps |-> "none"], adds |-> 0]

PubInit ==
  /\ pubPlan \in PubPlans
  /\ pubOp = [state |-> "none", owner |-> "cli", fresh |-> TRUE, dirty |-> {}]
  /\ pubSetup = [policies |-> 0, act |-> "none", file |-> "before", dir |-> "none", made |-> FALSE]
  /\ pubFile = [f \in PubFiles |-> NewFile]
  /\ pubMap = [phase |-> "none", step |-> 1, act |-> "none", eff |-> "no"]
  /\ pubRun = [pc |-> "down", cur |-> 0, mine |-> "none"]
  /\ pubLeft = PubBounds[pubPlan.kind]

PubTypeOK ==
  /\ pubPlan \in PubPlans
  /\ pubOp.state \in {"none", "PREPARED", "CLOSED"} /\ pubOp.owner \in {"cli", "session"}
  /\ pubOp.fresh \in BOOLEAN /\ pubOp.dirty \in {{}, Participants}
  /\ pubSetup.policies \in 0..3 /\ {pubSetup.act, pubSetup.dir} \subseteq Status
  /\ pubSetup.file \in {"before", "part", "temp", "after"} /\ pubSetup.made \in BOOLEAN
  /\ \A f \in PubFiles :
       /\ pubFile[f].phase \in Phases /\ pubFile[f].staged \in {"none", "held", "other"}
       /\ pubFile[f].path \in {"none", "bytes", "pointer", "foreign"}
       /\ pubFile[f].base \subseteq PubFiles \ {f} /\ pubFile[f].act \in [ActionSteps -> Status]
  /\ pubMap.step \in 1..Len(MapSteps) + 1 /\ pubMap.eff \in {"no", "partial", "yes"}
  /\ pubMap.phase \in {"none", "PREPARED", "PROPAGATED"} /\ pubMap.act \in Status
  /\ pubRun.pc \in {"down", "enter", "setup", "dir", "acquire", "publish", "release", "finish",
                   "map", "closed"}
  /\ pubRun.cur \in PubFiles \cup {0}

-----------------------------------------------------------------------------
(* Opening and reopening the operation.                                    *)

Disk == <<pubSetup, pubFile, pubMap>>

\* _load_bound_operation, on every write and before every IO: planner_revision is the one
\* this operation left behind.
Owned == pubOp.state = "PREPARED" /\ pubOp.fresh

At(pc) == pubRun.pc = pc
Go(pc) == pubRun' = [pubRun EXCEPT !.pc = pc]

\* __enter__: fences, attachments and profiles, the revision before them.
PubEnter(owner) ==
  /\ At("down") /\ pubOp.state = "none"
  /\ pubOp' = [pubOp EXCEPT !.owner = owner, !.fresh = TRUE]
  /\ Go("enter")
  /\ UNCHANGED <<pubPlan, Disk, pubLeft>>

\* One transaction makes every participant dirty and records the operation and its batch.
PrepareOperation ==
  /\ At("enter") /\ pubOp.fresh
  /\ pubOp' = [pubOp EXCEPT !.state = "PREPARED", !.dirty = Participants]
  /\ pubMap' = [pubMap EXCEPT !.phase = "PREPARED"]
  /\ Go("setup")
  /\ UNCHANGED <<pubPlan, pubSetup, pubFile, pubLeft>>

\* _pending and resume: the same owner.  A session that ended is never the owner again.
PubResume ==
  /\ At("down") /\ Owned /\ pubOp.owner = "cli"
  /\ Go("setup")
  /\ UNCHANGED <<pubPlan, pubOp, Disk, pubLeft>>

-----------------------------------------------------------------------------
(* publication_policy_setup.apply for the target, @map and @stage, then    *)
(* the private staging directory of a Fill (publication_staging._mkdir).   *)

Setup(s, mine) ==
  /\ pubSetup' = s /\ pubRun' = [pubRun EXCEPT !.mine = mine]
  /\ UNCHANGED <<pubPlan, pubOp, pubFile, pubMap, pubLeft>>

PolicyPrepare ==
  /\ At("setup") /\ Owned /\ pubSetup.policies < 3 /\ pubSetup.act = "none"
  /\ Setup([pubSetup EXCEPT !.act = "PREPARED"], "none")

\* The temporary is created exclusively and written; a partial one is refused later.
PolicyCreate ==
  /\ At("setup") /\ pubSetup.act = "PREPARED" /\ pubSetup.file = "before"
  /\ Setup([pubSetup EXCEPT !.file = "part"], "policy")

PolicyWrite ==
  /\ At("setup") /\ pubSetup.file = "part" /\ pubRun.mine = "policy"
  /\ Setup([pubSetup EXCEPT !.file = "temp"], "none")

PolicyRename ==
  /\ At("setup") /\ pubSetup.file = "temp"
  /\ Setup([pubSetup EXCEPT !.file = "after"], "none")

PolicyVerify ==
  /\ At("setup") /\ Owned /\ pubSetup.file = "after"
  /\ Setup([pubSetup EXCEPT !.policies = @ + 1, !.act = "none", !.file = "before"], "none")

FirstFile == [pubRun EXCEPT !.pc = IF Fill THEN "acquire" ELSE "publish", !.cur = Min(PubFiles)]

SetupDone ==
  /\ At("setup") /\ pubSetup.policies = 3
  /\ pubRun' = IF Fill /\ pubSetup.dir # "VERIFIED" THEN [pubRun EXCEPT !.pc = "dir"] ELSE FirstFile
  /\ UNCHANGED <<pubPlan, pubOp, Disk, pubLeft>>

DirPrepare ==
  /\ At("dir") /\ Owned /\ pubSetup.dir = "none"
  /\ Setup([pubSetup EXCEPT !.dir = "PREPARED"], "none")

DirMake ==
  /\ At("dir") /\ pubSetup.dir = "PREPARED" /\ ~pubSetup.made
  /\ Setup([pubSetup EXCEPT !.made = TRUE], "dir")

\* Only the process that created the directory knows that it is its own.
DirVerify ==
  /\ At("dir") /\ Owned /\ pubSetup.made /\ pubRun.mine = "dir"
  /\ pubSetup' = [pubSetup EXCEPT !.dir = "VERIFIED"]
  /\ pubRun' = [FirstFile EXCEPT !.mine = "none"]
  /\ UNCHANGED <<pubPlan, pubOp, pubFile, pubMap, pubLeft>>

-----------------------------------------------------------------------------
(* One file after the other: acquisition, publication, release.            *)

F == pubFile[pubRun.cur]
Act(s) == F.act[s]
Heads == {g \in PubFiles : pubFile[g].head}
Indexed == {g \in PubFiles : pubFile[g].index}

\* trees.capture observes a tree only where the index equals HEAD.
CleanTree == Indexed = Heads
BytesProven == F.path = "pointer" /\ F.obj

\* A step on the current file; run is what the process knows and does next.
File(f, run) ==
  /\ pubFile' = [pubFile EXCEPT ![pubRun.cur] = f] /\ pubRun' = run
  /\ UNCHANGED <<pubPlan, pubOp, pubSetup, pubMap, pubLeft>>

Known == [pubRun EXCEPT !.mine = "none"]
Prepared(s) == [F EXCEPT !.act[s] = "PREPARED"]
Verified(s) == [F EXCEPT !.act[s] = "VERIFIED"]

\* PubNext: the loop over the requests; then finish.
AfterFile ==
  LET rest == {g \in PubFiles : g > pubRun.cur} IN
  IF rest = {} THEN [pubRun EXCEPT !.pc = "finish"]
  ELSE [pubRun EXCEPT !.pc = IF Fill THEN "acquire" ELSE "publish", !.cur = Min(rest)]

\* Download, digest, compression.  A raw download finds the staged file of the last run
\* again; the compressor writes a new one, whose identity nobody has sealed.
Acquire ==
  /\ At("acquire") /\ F.phase # "CATALOG_PUBLISHED"
  /\ File([F EXCEPT !.staged = IF F.phase = "absent" \/ pubRun.cur \notin pubPlan.packed
                                THEN "held" ELSE "other"],
          [pubRun EXCEPT !.pc = "publish"])

\* The download fails: its repository is given up and the next one is taken.
AcquireFails ==
  /\ At("acquire") /\ F.phase # "CATALOG_PUBLISHED" /\ pubLeft.fails > 0
  /\ pubLeft' = [pubLeft EXCEPT !.fails = @ - 1] /\ pubRun' = AfterFile
  /\ UNCHANGED <<pubPlan, pubOp, Disk>>

\* resume_file: a published file is not acquired again; its staging duplicate is released.
ResumeFile ==
  /\ At("acquire") /\ F.phase = "CATALOG_PUBLISHED"
  /\ IF Act("release") = "VERIFIED"
     THEN CleanTree /\ BytesProven /\ File(F, AfterFile)
     ELSE File(F, [pubRun EXCEPT !.pc = "release"])

\* The whole intent is sealed: absent target, HEAD, intended rows, staged identity.
PrepareFile ==
  /\ At("publish") /\ Owned /\ F.phase = "absent" /\ F.path = "none" /\ CleanTree
  /\ File([F EXCEPT !.phase = "PREPARED", !.base = Heads], pubRun)

InstallPrepare ==
  /\ At("publish") /\ Owned /\ F.phase = "PREPARED" /\ Act("install") = "none"
  /\ File(Prepared("install"), pubRun)

Installing == At("publish") /\ Act("install") = "PREPARED" /\ F.staged = "held"

\* A temporary that is an exact prefix of the staged file is completed.
InstallCopy ==
  /\ Installing /\ F.path = "none" /\ ~F.temp
  /\ File([F EXCEPT !.temp = TRUE], pubRun)

\* rename_noreplace.
InstallRename ==
  /\ Installing /\ F.path = "none" /\ F.temp
  /\ File([F EXCEPT !.path = "bytes", !.temp = FALSE], pubRun)

\* Exact bytes at the target are this action's own, also after a crash.
InstallVerify ==
  /\ Installing /\ Owned /\ F.path = "bytes"
  /\ File(Verified("install"), pubRun)

-----------------------------------------------------------------------------
(* PREPARED: git annex add of a Fill, setkey, symlink and git add of a     *)
(* replica.  A native action is run by the process that prepared it and by *)
(* no other: what a prepared one did is only observed.                     *)

Installed == At("publish") /\ F.phase = "PREPARED" /\ Act("install") = "VERIFIED"

AddPrepare ==
  /\ Installed /\ Fill /\ Owned /\ Act("add") = "none"
  /\ File(Prepared("add"), [pubRun EXCEPT !.mine = "add"])

AddRun ==
  /\ Installed /\ Fill /\ pubRun.mine = "add"
  /\ File([F EXCEPT !.path = "pointer", !.obj = TRUE, !.index = TRUE, !.adds = @ + 1], Known)

\* It fails before it has added the path to the index, or before anything.
AddFails ==
  /\ Installed /\ Fill /\ pubRun.mine = "add" /\ pubLeft.fails > 0
  /\ \E done \in BOOLEAN :
       pubFile' = [pubFile EXCEPT ![pubRun.cur] =
                     IF done THEN [F EXCEPT !.path = "pointer", !.obj = TRUE, !.adds = @ + 1] ELSE F]
  /\ pubRun' = Known /\ pubLeft' = [pubLeft EXCEPT !.fails = @ - 1]
  /\ UNCHANGED <<pubPlan, pubOp, pubSetup, pubMap>>

ReplicaPrepare(s, after) ==
  /\ Installed /\ ~Fill /\ Owned /\ Act(s) = "none" /\ Act(after) = "VERIFIED"

SetkeyPrepare ==
  /\ ReplicaPrepare("setkey", "install") /\ F.path = "bytes" /\ Indexed = F.base
  /\ File(Prepared("setkey"), [pubRun EXCEPT !.mine = "setkey"])

SetkeyRun ==
  /\ Installed /\ ~Fill /\ pubRun.mine = "setkey"
  /\ File([F EXCEPT !.path = "none", !.obj = TRUE, !.adds = @ + 1], Known)

SetkeyVerify ==
  /\ Installed /\ ~Fill /\ Owned /\ Act("setkey") = "PREPARED" /\ F.path = "none" /\ F.obj
  /\ File(Verified("setkey"), Known)

PointerPrepare ==
  /\ ReplicaPrepare("pointer", "setkey") /\ F.path = "none"
  /\ File(Prepared("pointer"), pubRun)

PointerLink ==
  /\ Installed /\ ~Fill /\ Act("pointer") = "PREPARED" /\ F.path = "none"
  /\ File([F EXCEPT !.path = "pointer"], pubRun)

PointerVerify ==
  /\ Installed /\ ~Fill /\ Owned /\ Act("pointer") = "PREPARED" /\ BytesProven
  /\ File(Verified("pointer"), pubRun)

StagePrepare ==
  /\ ReplicaPrepare("stage", "pointer") /\ Indexed = F.base
  /\ File(Prepared("stage"), [pubRun EXCEPT !.mine = "stage"])

StageRun ==
  /\ Installed /\ ~Fill /\ pubRun.mine = "stage"
  /\ File([F EXCEPT !.index = TRUE], Known)

StageVerify ==
  /\ Installed /\ ~Fill /\ Owned /\ Act("stage") = "PREPARED" /\ F.index /\ BytesProven
  /\ File(Verified("stage"), Known)

ToAdd == IF Fill THEN "add" ELSE "stage"
ToAddDone == IF Fill THEN Act("add") # "none" /\ pubRun.mine # "add" ELSE Act("stage") = "VERIFIED"

\* Pointer, object bytes and the exact index; receipt and phase in one transaction.
LocalVerify ==
  /\ Installed /\ Owned /\ ToAddDone /\ BytesProven
  /\ Indexed = F.base \cup {pubRun.cur}
  /\ File([Verified(ToAdd) EXCEPT !.phase = "LOCAL_VERIFIED"], pubRun)

-----------------------------------------------------------------------------
(* LOCAL_VERIFIED, TREE_VERIFIED: the commit and the location log.  Their  *)
(* effects can be told from HEAD and from the annex branch, so a prepared  *)
(* action whose effect is missing is run.                                  *)

Committing == At("publish") /\ F.phase = "LOCAL_VERIFIED" /\ Indexed = F.base \cup {pubRun.cur}

CommitPrepare ==
  /\ Committing /\ Owned /\ Act("commit") = "none"
  /\ File(Prepared("commit"), pubRun)

CommitRun ==
  /\ Committing /\ Act("commit") = "PREPARED" /\ Heads = F.base
  /\ File([F EXCEPT !.head = TRUE], pubRun)

TreeVerify ==
  /\ Committing /\ Owned /\ Act("commit") = "PREPARED"
  /\ Heads = F.base \cup {pubRun.cur} /\ BytesProven
  /\ File([Verified("commit") EXCEPT !.phase = "TREE_VERIFIED"], pubRun)

Cataloguing == At("publish") /\ F.phase = "TREE_VERIFIED" /\ CleanTree /\ Heads = F.base \cup {pubRun.cur}

MetadataPrepare ==
  /\ Cataloguing /\ Owned /\ Act("metadata") = "none"
  /\ File(Prepared("metadata"), pubRun)

MetadataRun ==
  /\ Cataloguing /\ Act("metadata") = "PREPARED" /\ ~F.log
  /\ File([F EXCEPT !.log = TRUE], pubRun)

\* Mutant: the row is written before git-annex has said where the bytes are.
CatalogPublish_Early ==
  /\ Cataloguing /\ Owned /\ Act("metadata") = "PREPARED"
  /\ File([Verified("metadata") EXCEPT !.phase = "CATALOG_PUBLISHED", !.row = TRUE], pubRun)

\* The rows by compare and swap, the receipt and the phase in one transaction.
CatalogPublish ==
  /\ Cataloguing /\ Owned /\ Act("metadata") = "PREPARED" /\ F.log /\ BytesProven
  /\ File([Verified("metadata") EXCEPT !.phase = "CATALOG_PUBLISHED", !.row = TRUE], pubRun)

\* Mutant: the bytes are committed, that is taken for archived.
Published_Early ==
  /\ At("publish") /\ F.phase \in {"TREE_VERIFIED", "CATALOG_PUBLISHED"} /\ CleanTree /\ BytesProven
  /\ File(F, IF Fill THEN [pubRun EXCEPT !.pc = "release"] ELSE AfterFile)

\* The end of publish: bytes, committed entry and rows once more.
Published ==
  /\ At("publish") /\ F.phase = "CATALOG_PUBLISHED" /\ CleanTree /\ BytesProven
  /\ File(F, IF Fill THEN [pubRun EXCEPT !.pc = "release"] ELSE AfterFile)

Releasing == At("release") /\ CleanTree /\ BytesProven

\* Absence without a journal is nobody's; another identity is not the sealed input.
ReleasePrepare ==
  /\ Releasing /\ Owned /\ Act("release") = "none" /\ F.staged = "held"
  /\ File(Prepared("release"), pubRun)

ReleaseUnlink ==
  /\ Releasing /\ Act("release") = "PREPARED" /\ F.staged = "held"
  /\ File([F EXCEPT !.staged = "none"], pubRun)

ReleaseVerify ==
  /\ Releasing /\ Owned /\ Act("release") = "PREPARED" /\ F.staged = "none"
  /\ File(Verified("release"), AfterFile)

-----------------------------------------------------------------------------
(* finish: the batch on the map, then closure.                             *)

Batch(m, run) ==
  /\ pubMap' = m /\ pubRun' = run
  /\ UNCHANGED <<pubPlan, pubOp, pubSetup, pubFile, pubLeft>>

Complete == \A f \in PubFiles : pubFile[f].phase = "CATALOG_PUBLISHED"

\* Mutant: the map receives the files that are there.
Finish_Partial ==
  /\ At("finish")
  /\ Batch(pubMap, [pubRun EXCEPT !.pc = "map"])

\* _batch_rows: no map ref moves before every file of the batch is published.
Finish ==
  /\ At("finish") /\ Complete
  /\ Batch(pubMap, [pubRun EXCEPT !.pc = "map"])

MapPrepare ==
  /\ At("map") /\ Owned /\ pubMap.step <= Len(MapSteps) /\ pubMap.act = "none"
  /\ Batch([pubMap EXCEPT !.act = "PREPARED"], pubRun)

\* Mutant: a checkout that was torn is not taken up again.
MapRun_Whole ==
  /\ At("map") /\ pubMap.act = "PREPARED" /\ pubMap.eff = "no"
  /\ Batch([pubMap EXCEPT !.eff = "yes"], pubRun)

\* An effect that is there is acknowledged, a missing one is produced from the old state;
\* both refs of the map move in one transaction.
MapRun ==
  /\ At("map") /\ pubMap.act = "PREPARED" /\ pubMap.eff # "yes"
  /\ Batch([pubMap EXCEPT !.eff = "yes"], pubRun)

\* read-tree dies with part of the worktree written.
CheckoutTorn ==
  /\ At("map") /\ pubMap.act = "PREPARED" /\ pubMap.step = Len(MapSteps) /\ pubMap.eff = "no"
  /\ pubLeft.crashes > 0 /\ pubLeft' = [pubLeft EXCEPT !.crashes = @ - 1]
  /\ pubMap' = [pubMap EXCEPT !.eff = "partial"]
  /\ pubRun' = [pubRun EXCEPT !.pc = "down", !.mine = "none"]
  /\ UNCHANGED <<pubPlan, pubOp, pubSetup, pubFile>>

MapVerify ==
  /\ At("map") /\ Owned /\ pubMap.act = "PREPARED" /\ pubMap.eff = "yes"
  /\ Batch([pubMap EXCEPT !.step = @ + 1, !.act = "none", !.eff = "no"], pubRun)

PropagateBatch ==
  /\ At("map") /\ Owned /\ Complete
  /\ pubMap.step > Len(MapSteps) /\ pubMap.phase = "PREPARED"
  /\ Batch([pubMap EXCEPT !.phase = "PROPAGATED"], pubRun)

\* Inventory of the drives, every action VERIFIED; all clean anchors and the end of the
\* operation in one transaction.
CloseOperation ==
  /\ At("map") /\ Owned /\ pubMap.phase = "PROPAGATED" /\ CleanTree
  /\ \A f \in PubFiles : /\ pubFile[f].path = "pointer" /\ pubFile[f].obj
                          /\ \A s \in ActionSteps : pubFile[f].act[s] # "PREPARED"
  /\ pubOp' = [pubOp EXCEPT !.state = "CLOSED", !.dirty = {}]
  /\ Go("closed")
  /\ UNCHANGED <<pubPlan, Disk, pubLeft>>

-----------------------------------------------------------------------------
(* The end of a process that did not close, and the world around it.       *)

\* A native add that is journalled as prepared and is not seen to be done: the code only
\* observes it.  (Setkey consumes the installed file, the others end in the index.)
NativeUndone(f) ==
  \/ Fill /\ pubFile[f].act["add"] = "PREPARED" /\ ~pubFile[f].index
  \/ ~Fill /\ pubFile[f].act["setkey"] = "PREPARED" /\ pubFile[f].path # "none"
  \/ ~Fill /\ pubFile[f].act["stage"] = "PREPARED" /\ ~pubFile[f].index

\* The interrupted file was given up for another repository, whose entry came before it.
Overtaken(f) == pubFile[f].phase \notin {"absent", "CATALOG_PUBLISHED"}
                /\ Indexed \ (pubFile[f].base \cup {f}) # {}

\* Where the code refuses to go on; the operation stays.
RefusedSetup ==
  \/ At("setup") /\ pubSetup.file = "part" /\ pubRun.mine # "policy"
  \/ At("dir") /\ pubSetup.dir = "PREPARED" /\ pubSetup.made /\ pubRun.mine # "dir"

RefusedFile ==
  \/ F.path = "foreign" \/ (F.phase = "absent" /\ F.path # "none")
  \/ F.staged # "held" /\ Act("install") = "PREPARED"
  \/ pubRun.mine = "none" /\ NativeUndone(pubRun.cur)
  \/ Overtaken(pubRun.cur) /\ (F.phase = "PREPARED" => Installed /\ ToAddDone)

RefusedRelease == F.staged = "other" \/ (F.staged = "none" /\ Act("release") = "none")

Refused ==
  \/ ~pubOp.fresh
  \/ RefusedSetup
  \/ pubRun.pc \in {"acquire", "publish", "release"} /\ ~CleanTree /\ F.phase = "CATALOG_PUBLISHED"
  \/ At("publish") /\ (RefusedFile \/ (~CleanTree /\ F.phase = "absent"))
  \/ At("release") /\ RefusedRelease
  \/ At("finish") /\ ~Complete

Down == pubRun' = [pubRun EXCEPT !.pc = "down", !.mine = "none"]

Refuse ==
  /\ pubRun.pc \notin {"down", "closed"} /\ Refused
  /\ Down
  /\ UNCHANGED <<pubPlan, pubOp, Disk, pubLeft>>

\* A crash, an operator's Stop, an error of the system.
PubCrash ==
  /\ pubRun.pc \notin {"down", "closed"} /\ pubLeft.crashes > 0
  /\ pubLeft' = [pubLeft EXCEPT !.crashes = @ - 1] /\ Down
  /\ UNCHANGED <<pubPlan, pubOp, Disk>>

\* Any other write to the planning graph: a selection, another drive's Fill.  A live
\* session keeps them out.
ForeignWrite ==
  /\ pubLeft.writes > 0 /\ ~(pubOp.owner = "session" /\ pubRun.pc # "down")
  /\ pubOp.fresh /\ (pubOp.state = "PREPARED" \/ At("enter"))
  /\ pubOp' = [pubOp EXCEPT !.fresh = FALSE]
  /\ pubLeft' = [pubLeft EXCEPT !.writes = @ - 1]
  /\ UNCHANGED <<pubPlan, Disk, pubRun>>

\* Somebody else's file at the path of a file.
ForeignPath(f) ==
  /\ pubLeft.paths > 0 /\ pubOp.state # "CLOSED" /\ pubFile[f].path = "none"
  /\ pubFile' = [pubFile EXCEPT ![f].path = "foreign"]
  /\ pubLeft' = [pubLeft EXCEPT !.paths = @ - 1]
  /\ UNCHANGED <<pubPlan, pubOp, pubSetup, pubMap, pubRun>>

PubStep ==
  \/ PrepareOperation
  \/ PolicyPrepare \/ PolicyCreate \/ PolicyWrite \/ PolicyRename \/ PolicyVerify
  \/ SetupDone \/ DirPrepare \/ DirMake \/ DirVerify
  \/ Acquire \/ ResumeFile \/ PrepareFile
  \/ InstallPrepare \/ InstallCopy \/ InstallRename \/ InstallVerify
  \/ AddPrepare \/ AddRun
  \/ SetkeyPrepare \/ SetkeyRun \/ SetkeyVerify
  \/ PointerPrepare \/ PointerLink \/ PointerVerify \/ StagePrepare \/ StageRun \/ StageVerify
  \/ LocalVerify \/ CommitPrepare \/ CommitRun \/ TreeVerify
  \/ MetadataPrepare \/ MetadataRun \/ CatalogPublish \/ Published
  \/ ReleasePrepare \/ ReleaseUnlink \/ ReleaseVerify
  \/ Finish \/ MapPrepare \/ MapRun \/ MapVerify \/ PropagateBatch \/ CloseOperation
  \/ Refuse

PubNext ==
  \/ PubStep
  \/ \E owner \in {"cli", "session"} : PubEnter(owner)
  \/ PubResume
  \/ AcquireFails \/ AddFails \/ CheckoutTorn
  \/ PubCrash \/ ForeignWrite
  \/ \E f \in PubFiles : ForeignPath(f)

PubSpec == PubInit /\ [][PubNext]_pubVars

\* A process runs, and somebody starts the command again after each interruption.
FairPubSpec == PubSpec /\ WF_pubVars(PubStep) /\ WF_pubVars(PubResume)

-----------------------------------------------------------------------------
(* Properties.                                                             *)

\* A row of the archive (archived and replicas, by compare_and_swap) stands for bytes that
\* are on the drive under their key, committed under their path and known to git-annex,
\* however often the publication was interrupted.
RowIsProven ==
  \A f \in PubFiles : LET p == pubFile[f] IN
    p.row => p.path = "pointer" /\ p.obj /\ p.index /\ p.head /\ p.log

\* Until close_operation every participant is dirty.  A closed operation left nothing out:
\* every row, both refs and the checkout of the map, every journalled action, and no
\* download in the staging directory.
ClosedIsWhole ==
  /\ pubOp.state = "PREPARED" => pubOp.dirty = Participants
  /\ pubOp.state = "CLOSED" =>
       /\ pubOp.dirty = {} /\ pubMap.phase = "PROPAGATED" /\ pubMap.step > Len(MapSteps)
       /\ \A f \in PubFiles : /\ pubFile[f].row /\ (Fill => pubFile[f].staged = "none")
                               /\ \A s \in ActionSteps : pubFile[f].act[s] = "VERIFIED"

\* git annex add and setkey consume their input: they run at most once for a file
\* ("observation-only", publication_file_resume.py:122).
NativeAddOnce == \A f \in PubFiles : pubFile[f].adds <= 1

\* Catalog, worktree, git-annex and map agree at every step of a publication, interrupted and
\* resumed however often.
CatalogIsArchive == PubTypeOK /\ RowIsProven /\ ClosedIsWhole /\ NativeAddOnce

\* No step of a publication replaces what somebody else put at a path (rename_noreplace).
ForeignKept ==
  [][\A f \in PubFiles : pubFile[f].path = "foreign" => pubFile'[f].path = "foreign"]_pubVars

\* The staged download is the only other copy: it goes after the row, and while the archive
\* has the bytes (publication_staging._release).
StagedUntilArchived ==
  [][\A f \in PubFiles : pubFile[f].staged # "none" /\ pubFile'[f].staged = "none" =>
       pubFile[f].row /\ pubFile[f].obj]_pubVars

\* A publication destroys nothing: neither what others put there nor its own only copy.
NothingLost == ForeignKept /\ StagedUntilArchived

\* A file staged in the index and not yet committed, and before it on the drive one that is
\* published or not begun: capturing the tree for that one refuses, and this one is never
\* reached.
Shadowed(f) == pubFile[f].index /\ ~pubFile[f].head
               /\ \E g \in PubFiles : g < f /\ pubFile[g].phase \in {"absent", "CATALOG_PUBLISHED"}

\* What no resume gets past.
Stuck ==
  \/ ~pubOp.fresh \/ pubOp.owner = "session"
  \/ pubSetup.file = "part" \/ (pubSetup.dir = "PREPARED" /\ pubSetup.made)
  \/ \E f \in PubFiles :
       \/ pubFile[f].path = "foreign" \/ pubFile[f].staged = "other"
       \/ NativeUndone(f) \/ Shadowed(f) \/ Overtaken(f)

\* Every interrupted operation is closed in the end by resuming it, but for what Stuck
\* names; nothing else leaves a drive dirty for good.
ClosesOrStuck == <>[](pubOp.state = "PREPARED" => Stuck)

\* The promise to a reader of catalog and map: see ArchivePromise.
Promise == INSTANCE ArchivePromise WITH
  files <- PubFiles,
  published <- {f \in PubFiles : pubFile[f].row},
  mapped <- pubMap.step > RefsStep \/ (pubMap.step = RefsStep /\ pubMap.eff = "yes"),
  clean <- pubOp.dirty = {},
  state <- pubOp.state

\* The publication implements it, through every interruption.
ImplementsPromise == Promise!PromiseSpec
=============================================================================

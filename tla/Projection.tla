----------------------------- MODULE Projection -----------------------------
(***************************************************************************)
(* An approved proposal is executed as a projection: what is left of it,   *)
(* computed anew from the catalog at every start and at every boundary of  *)
(* a batch (execution_projection.project_pure over the facts of            *)
(* execution_session._catalog_projection_bundle), or a refusal.  The       *)
(* projection has to refuse whatever makes the approval a different one,   *)
(* and must not take the progress of its own Fill, nor its own approval,   *)
(* for such a change.                                                      *)
(*                                                                         *)
(* Contents of a copy: "good" resolves to the approved digest, "moved"     *)
(* too, under another annex key, "other" to a different digest, "bare" to  *)
(* none.  Hashes, versions and certificates are compared by what they are  *)
(* taken over.  Checks of the shape of a proposal (missing file authority, *)
(* budgets, an overrun by a factor of a thousand) are left out.            *)
(***************************************************************************)
EXTENDS Naturals, FiniteSets

CONSTANTS
  PjWorlds,     \* approvals: their mutation, tasks, files, the rows they were made from, and a
                \* bound on the changes by others
  PjDrives,
  PjStarts      \* bound on the starts of one approval

PjContents == {"none", "good", "moved", "other", "bare"}

\* content_satisfies: equal to the approved digest, or any digest where none was approved.
PjAccepted(w, f) == {"good", "moved"} \cup IF f \in w.hashed THEN {} ELSE {"other"}
PjHolds(w, t, d) == \A f \in w.files[w.tasks[t].repo] : w.row[f][d] \in PjAccepted(w, f)

\* What _build_assignment has put into an approval: a baseline row is a copy proven complete, and
\* a second copy is made from a drive that has one, or from the target of the first copy.
ASSUME ProjectionPlans ==
  /\ "none" \notin PjDrives /\ PjStarts \in Nat
  /\ \A w \in PjWorlds :
       /\ w.successor \in BOOLEAN
       /\ w.row \in [DOMAIN w.row -> [PjDrives -> PjContents]]
       /\ w.files \in [DOMAIN w.files -> SUBSET DOMAIN w.row]
       /\ w.tasks \in [DOMAIN w.tasks ->
                         [repo : DOMAIN w.files, kind : {"executable", "baseline"},
                          target : PjDrives, source : PjDrives \cup {"none"}]]
       /\ \A t \in DOMAIN w.tasks :
            /\ w.tasks[t].kind = "baseline" => PjHolds(w, t, w.tasks[t].target)
            /\ w.tasks[t].kind = "executable" /\ w.tasks[t].source # "none" =>
                 \/ PjHolds(w, t, w.tasks[t].source)
                 \/ \E p \in DOMAIN w.tasks :
                      /\ w.tasks[p].kind = "executable" /\ w.tasks[p].source = "none"
                      /\ w.tasks[p].repo = w.tasks[t].repo /\ w.tasks[p].target = w.tasks[t].source

VARIABLES
  pjWorld,
  pjCat,        \* the catalog
  pjConf,       \* the operator's graph-affecting configuration, 0 when approved
  pjRun,        \* the Fill, its projection and how the last one ended
  pjSince       \* history: what others changed since the approval

pjVars == <<pjWorld, pjCat, pjConf, pjRun, pjSince>>

PjFiles == DOMAIN pjWorld.row
PjTasks == DOMAIN pjWorld.tasks
Todo == {t \in PjTasks : pjWorld.tasks[t].kind = "executable"}
FilesOf(t) == pjWorld.files[pjWorld.tasks[t].repo]
TargetOf(t) == pjWorld.tasks[t].target
SourceOf(t) == pjWorld.tasks[t].source
InFill == {"drain", "batch", "boundary"}

PjInit ==
  /\ pjWorld \in PjWorlds
  /\ pjCat = [row |-> pjWorld.row, manifest |-> [r \in DOMAIN pjWorld.files |-> 0], extra |-> FALSE,
              models |-> 0, epoch |-> [d \in PjDrives |-> 1], clean |-> [d \in PjDrives |-> TRUE],
              old |-> "away", lane |-> 1, pointer |-> "baseline", approved |-> FALSE]
  /\ pjConf = 0 /\ pjSince = {}
  /\ pjRun = [pc |-> "draft", left |-> {}, ready |-> {}, drive |-> "none", frozen |-> 0,
              semantic |-> <<>>, starts |-> 0, end |-> "none"]

\* The catalog with another row of a copy, or another word on what is known of a drive.
PjRow(f, d, c) == [pjCat EXCEPT !.row = [pjCat.row EXCEPT ![f] = [pjCat.row[f] EXCEPT ![d] = c]]]
PjSeen(d, seen) == [pjCat EXCEPT !.clean = [pjCat.clean EXCEPT ![d] = seen]]

-----------------------------------------------------------------------------
(* What a projection compares. *)

\* The lane a successor plan reserves for its predecessor's load.  At review the baseline must
\* be the active approval and the predecessor out of service; an approved successor has itself
\* replaced its baseline, and is asked again without the two (_semantic_input_hash).  No lane:
\* the predecessor's capacity is unknown, or it left the plan.
SuccessorRefused_Review(review) ==  \* Mutant: the same questions at every start.
  /\ pjWorld.successor
  /\ pjCat.pointer # "baseline" \/ pjCat.old = "placeable" \/ pjCat.lane = 0
SuccessorRefused(review) ==
  /\ pjWorld.successor
  /\ (review /\ (pjCat.pointer # "baseline" \/ pjCat.old = "placeable")) \/ pjCat.lane = 0

\* _semantic_input_hash: selection, models, drives of the plan, the successor's lane.
Semantic ==
  <<pjCat.extra, pjCat.models, pjCat.epoch, pjCat.old, IF pjWorld.successor THEN pjCat.lane ELSE 0>>

PjSatisfied(f, d) == pjCat.row[f][d] \in PjAccepted(pjWorld, f)
AllSatisfied_Row(t, d) == d # "none" /\ \A f \in FilesOf(t) : pjCat.row[f][d] # "none"  \* Mutant: a row is enough.
AllSatisfied_Some(t, d) == d # "none" /\ \E f \in FilesOf(t) : PjSatisfied(f, d)  \* Mutant: one file is enough.
AllSatisfied(t, d) == d # "none" /\ \A f \in FilesOf(t) : PjSatisfied(f, d)

Unfinished == {t \in Todo : ~AllSatisfied(t, TargetOf(t))}
PrimaryUnfinished(t) ==
  \E p \in Unfinished : SourceOf(p) = "none" /\ pjWorld.tasks[p].repo = pjWorld.tasks[t].repo
Unsourced_Never(t) == FALSE  \* Mutant: every task is ready.
Unsourced(t) == SourceOf(t) # "none" /\ ~AllSatisfied(t, SourceOf(t))

\* The certificate of a copy that was there at approval is over every row of its repository there.
CertificateKept_Any(t) == \E f \in FilesOf(t) : pjCat.row[f][TargetOf(t)] # "none"  \* Mutant: some row is enough.
CertificateKept(t) == \A f \in FilesOf(t) : pjCat.row[f][TargetOf(t)] = pjWorld.row[f][TargetOf(t)]

\* requirement_set_hash: a model was selected that the approval does not place.
Expanded == pjCat.extra

InputChanged_Selection ==  \* Mutant: files may change.
  Expanded \/ SuccessorRefused(FALSE) \/ Semantic # pjRun.semantic
InputChanged ==
  \/ Expanded
  \/ SuccessorRefused(FALSE) \/ Semantic # pjRun.semantic
  \/ \E t \in PjTasks : pjCat.manifest[pjWorld.tasks[t].repo] # 0

IdentityChanged == \E t \in PjTasks : pjCat.epoch[TargetOf(t)] # 1

\* A source that is not there is expected only while the first copy is still to be made.
SourceLost_Always == \E t \in Unfinished : Unsourced(t)  \* Mutant: it is always expected to be there.
SourceLost == \E t \in Unfinished : Unsourced(t) /\ ~PrimaryUnfinished(t)

\* Only the targets of what is left need evidence of free space.
EvidenceUnknown == \E t \in Unfinished : ~pjCat.clean[TargetOf(t)]

\* project_pure: the first refusal, or "none".
Refusal ==
  CASE ~pjCat.approved -> "missing"
    [] InputChanged -> "input"
    [] IdentityChanged -> "identity"
    [] (\E t \in PjTasks \ Todo : ~CertificateKept(t)) \/ SourceLost -> "violation"
    [] EvidenceUnknown -> "unknown"
    [] OTHER -> "none"

Projected == [pjRun EXCEPT !.pc = "drain", !.left = Unfinished, !.ready = {t \in Unfinished : ~Unsourced(t)},
                           !.drive = "none"]
Ended(why) == [pjRun EXCEPT !.pc = "none", !.drive = "none", !.end = why]

-----------------------------------------------------------------------------
(* The Fill. *)

\* approve: the pointer moves to this proposal, its baseline is superseded.
PjApprove ==
  /\ pjRun.pc = "draft" /\ ~SuccessorRefused(TRUE)
  /\ pjCat' = [pjCat EXCEPT !.pointer = "this", !.approved = TRUE]
  /\ pjRun' = [pjRun EXCEPT !.pc = "none", !.semantic = Semantic]
  /\ UNCHANGED <<pjWorld, pjConf, pjSince>>

\* start_session compares the configuration with the hash of the approval and freezes it.
PjBegin ==
  LET why == IF pjCat.approved /\ pjConf # 0 THEN "input" ELSE Refusal IN
  /\ pjRun.pc = "none" /\ pjRun.starts < PjStarts
  /\ pjRun' = [(IF why = "none" THEN Projected ELSE Ended(why)) EXCEPT !.starts = @ + 1, !.frozen = pjConf]
  /\ UNCHANGED <<pjWorld, pjCat, pjConf, pjSince>>

\* A batch of the ready tasks of one drive, in its envelope.
PjBatch(d) ==
  /\ pjRun.pc = "drain" /\ \E t \in pjRun.ready : TargetOf(t) = d
  /\ pjRun' = [pjRun EXCEPT !.pc = "batch", !.drive = d]
  /\ pjCat' = PjSeen(d, FALSE)
  /\ UNCHANGED <<pjWorld, pjConf, pjSince>>

\* A file is fetched or copied; the copy of a replica whose row has no digest is healed.
PjRecord(f) ==
  LET d == pjRun.drive IN
  /\ pjRun.pc = "batch"
  /\ \E t \in pjRun.ready :
       /\ TargetOf(t) = d /\ f \in FilesOf(t)
       /\ pjCat.row[f][d] \in {"none"} \cup IF SourceOf(t) # "none" THEN {"bare"} ELSE {}
  /\ pjCat' = PjRow(f, d, "good")
  /\ UNCHANGED <<pjWorld, pjConf, pjRun, pjSince>>

\* The envelope closes; the drive may have gone.
PjClose ==
  /\ pjRun.pc = "batch"
  /\ \E seen \in BOOLEAN : pjCat' = PjSeen(pjRun.drive, seen)
  /\ pjRun' = [pjRun EXCEPT !.pc = "boundary"]
  /\ UNCHANGED <<pjWorld, pjConf, pjSince>>

\* assert_frozen_unchanged, before anything else of a refresh.
ConfigChanged_Echo == FALSE  \* Mutant: the frozen configuration is compared with itself.
ConfigChanged == pjConf # pjRun.frozen

\* _refresh_projection at the boundary of a batch.
PjRefresh ==
  LET why == IF ConfigChanged THEN "input" ELSE Refusal IN
  /\ pjRun.pc = "boundary"
  /\ pjRun' = IF why = "none" THEN Projected ELSE Ended(why)
  /\ UNCHANGED <<pjWorld, pjCat, pjConf, pjSince>>

\* The drain ends: with nothing left, or because it is stopped or parks what is left.
PjEnd ==
  /\ pjRun.pc = "drain"
  /\ pjRun' = Ended(IF pjRun.left = {} THEN "satisfied" ELSE "paused")
  /\ UNCHANGED <<pjWorld, pjCat, pjConf, pjSince>>

PjCrash ==
  /\ pjRun.pc \in InFill
  /\ pjRun' = Ended("crashed")
  /\ UNCHANGED <<pjWorld, pjCat, pjConf, pjSince>>

-----------------------------------------------------------------------------
(* The others.  While a session lives, graph_write keeps them out; the     *)
(* configuration is a file.                                                *)

PjReconcile(d) ==
  /\ pjRun.pc = "none" /\ ~pjCat.clean[d]
  /\ pjCat' = PjSeen(d, TRUE)
  /\ UNCHANGED <<pjWorld, pjConf, pjRun, pjSince>>

Others(what, cat) ==
  /\ pjRun.pc = "none" /\ what \notin pjSince /\ Cardinality(pjSince \ {"config"}) < pjWorld.others
  /\ pjCat' = cat /\ pjSince' = pjSince \cup {what}
  /\ UNCHANGED <<pjWorld, pjConf, pjRun>>

\* persist_info: another model is discovered, or this repository's planned files are refreshed.
Discover == Others("models", [pjCat EXCEPT !.models = 1])
Rediscover(r) == Others("files", [pjCat EXCEPT !.manifest = [pjCat.manifest EXCEPT ![r] = 1]])
SelectMore == Others("selection", [pjCat EXCEPT !.extra = TRUE])
Reidentify(d) == Others("epoch", [pjCat EXCEPT !.epoch = [pjCat.epoch EXCEPT ![d] = 2]])
\* The predecessor of a successor plan comes back, or its capacity is corrected.
Returns == Others("old", [pjCat EXCEPT !.old = "placeable"])
Resize(n) == Others("lane", [pjCat EXCEPT !.lane = n])
\* repair_hashes proves a digest; a conversion moves a copy to another key; a copy is dropped.
Rewrite(f, d) ==
  \E c \in {"good", "moved", "none"} :
    /\ pjCat.row[f][d] \in CASE c = "good" -> {"bare"} [] c = "moved" -> {"good"} [] OTHER -> {"good", "bare"}
    /\ Others("rows", PjRow(f, d, c))
\* declare_lost withdraws the approval.
PjWithdraw == Others("approval", [pjCat EXCEPT !.approved = FALSE])

EditConfig ==
  /\ pjRun.pc # "draft" /\ "config" \notin pjSince
  /\ pjConf' = 1 /\ pjSince' = pjSince \cup {"config"}
  /\ UNCHANGED <<pjWorld, pjCat, pjRun>>

PjNext ==
  \/ PjApprove \/ PjBegin \/ PjClose \/ PjRefresh \/ PjEnd \/ PjCrash
  \/ \E d \in PjDrives : PjBatch(d) \/ PjReconcile(d) \/ Reidentify(d)
  \/ \E f \in PjFiles : PjRecord(f)
  \/ \E f \in PjFiles, d \in PjDrives : Rewrite(f, d)
  \/ \E r \in DOMAIN pjWorld.files : Rediscover(r)
  \/ \E n \in {0, 2} : Resize(n)
  \/ Discover \/ SelectMore \/ Returns \/ PjWithdraw \/ EditConfig

PjSpec == PjInit /\ [][PjNext]_pjVars

-----------------------------------------------------------------------------
PjTypeOK ==
  /\ pjRun.pc \in {"draft", "none"} \cup InFill /\ pjRun.left \subseteq Todo /\ pjRun.ready \subseteq pjRun.left
  /\ pjRun.end \in {"none", "missing", "input", "identity", "violation", "unknown", "satisfied", "paused", "crashed"}
  /\ \A f \in PjFiles, d \in PjDrives : pjCat.row[f][d] \in PjContents

\* project_pure does not refuse a Fill because of its approval or of what it did itself, in this
\* session or in one that crashed: only a drive that was not seen again has to be reconciled first.
OwnWorkAdmitted ==
  pjSince = {} => pjRun.end \notin {"missing", "input", "identity", "violation"}

\* A session that goes on after a projection has the files, drives, configuration and earlier
\* copies of its approval, and a drive with unexplained bytes is not filled.
ApprovalStands ==
  pjRun.pc = "drain" =>
    /\ pjRun.frozen = 0
    /\ \A t \in PjTasks : pjCat.manifest[pjWorld.tasks[t].repo] = 0 /\ pjCat.epoch[TargetOf(t)] = 1
    /\ \A t \in PjTasks \ Todo : \A f \in FilesOf(t) : pjCat.row[f][TargetOf(t)] = pjWorld.row[f][TargetOf(t)]
    /\ \A t \in pjRun.left : pjCat.clean[TargetOf(t)]

\* A replica that is ready has every approved file at its source, by digest.
ReadyHasSource ==
  pjRun.pc \in InFill =>
    \A t \in pjRun.ready : SourceOf(t) # "none" => \A f \in FilesOf(t) : PjSatisfied(f, SourceOf(t))

\* A Fill that reports PLAN_SATISFIED left every approved file where the approval puts it.
SatisfiedIsThere ==
  pjRun.end = "satisfied" /\ "rows" \notin pjSince =>
    \A t \in PjTasks : \A f \in FilesOf(t) : PjSatisfied(f, TargetOf(t))

ProjectionSound == PjTypeOK /\ OwnWorkAdmitted /\ ApprovalStands /\ ReadyHasSource /\ SatisfiedIsThere

\* Past a boundary the projection has only shrunk (no batch brings back work that was done), and
\* the operator's configuration is still the approved one.
BoundariesKept ==
  [][pjRun.pc = "boundary" /\ pjRun'.pc = "drain" => pjRun'.left \subseteq pjRun.left /\ pjConf = 0]_pjVars

(***************************************************************************)
(* What a projection admits is what was approved and is still to be done,  *)
(* its Fill is not refused for its own work, and no boundary undoes        *)
(* progress (project_pure, _refresh_projection).                           *)
(***************************************************************************)
ProjectionKept == []ProjectionSound /\ BoundariesKept
=============================================================================

----------------------------- MODULE Placement -----------------------------
(***************************************************************************)
(* From a preview to the bytes: the evidence of one snapshot, the Gate-B   *)
(* ladder and its bounded depth-first searches (placement._search), the    *)
(* exact check at approval, and the files written under the approved plan  *)
(* with one fresh guard each.  No reservation is held in between: what     *)
(* makes the arithmetic of the preview still true at the last byte is      *)
(* only that the later checks ask for no less.                             *)
(*                                                                         *)
(* A preview reads one SQLite snapshot, so nothing changes under a search. *)
(* The shadow report reads the graph, the evidence and the drives one      *)
(* after the other, and its plan is shown, never approved.                 *)
(* The order in which Fill takes its tasks is FillDrain's; any ready task  *)
(* may go next here.  A successor's preference is not modelled.            *)
(***************************************************************************)
EXTENDS Planner

CONSTANTS
  PlWorlds,  \* fleets, selections and policies
  PlBounds   \* previews, changes of a drive

ASSUME PlBoundsAssumption == PlBounds.previews \in Nat /\ PlBounds.changes \in Nat

VARIABLES
  plStage,
  plSet,      \* the preview's CandidateSet: what is satisfied, blocked, and the candidates of the rest
  plEvidence, \* what the preview, or the approval, knows of every drive
  plSearch,   \* the running search
  plVerdict,  \* gate code, tasks and how they were derived
  plWriting,  \* the file being written
  plLeft

plVars == <<plWorld, plDrives, plRows, plStage, plSet, plEvidence, plSearch, plVerdict, plWriting, plLeft>>
plCatalog == <<plWorld, plDrives, plRows>>

NoVerdict == [code |-> "none", plan |-> {}, how |-> "none"]
NoSet == [snapshot |-> FALSE, eligible |-> <<>>, satisfied |-> <<>>, blocked |-> {}, candidates |-> <<>>]
NoSearch == [kind |-> "none", free |-> <<>>, stack |-> <<>>, path |-> <<>>, visited |-> 0,
             first |-> <<>>, best |-> {}, found |-> FALSE, cut |-> FALSE]
NotWriting == [on |-> FALSE]

PlInit ==
  /\ plWorld \in PlWorlds
  /\ plDrives = plWorld.init
  /\ plRows = [k \in {<<r, f, d>> : r \in Repos, f \in UNION {FilesOf(q) : q \in Repos}, d \in Labels} |->
                 IF k \in DOMAIN plWorld.rows THEN plWorld.rows[k] ELSE NoRow]
  /\ plStage = "idle" /\ plSet = NoSet /\ plEvidence = Preview({}) /\ plSearch = NoSearch
  /\ plVerdict = NoVerdict /\ plWriting = NotWriting /\ plLeft = PlBounds

PlTypeOK ==
  /\ plStage \in {"idle", "shadow", "gate", "search", "ended", "judged", "approved", "refused", "stopped", "done"}
  /\ plVerdict.how \in {"none", "optimized", "state_truncated"}
  /\ \A t \in plVerdict.plan : t.req \in {Primary, Home, Replica} \X Repos /\ t.target \in Labels
  \* a search, and only a search, holds a stack; only an approved plan writes
  /\ plStage = "search" => Len(plSearch.path) < Len(plSearch.stack)
  /\ plWriting.on => plStage = "approved" /\ plWriting.task \in plVerdict.plan
  /\ plVerdict.plan # {} => plVerdict.code \in {"FEASIBLE", "MANIFEST_POLICY"}
  /\ \A d \in Labels : plDrives[d].free <= Facts(d).cap

-----------------------------------------------------------------------------
(* Assignments: sequences of candidates.                                   *)

LexLess(a, b) == \E i \in DOMAIN a : a[i] < b[i] /\ \A j \in 1..(i - 1) : a[j] = b[j]
Ordered(S, Key(_)) ==
  LET place == [x \in S |-> 1 + Cardinality({y \in S : LexLess(Key(y), Key(x))})]
  IN [i \in 1..Cardinality(S) |-> CHOOSE x \in S : place[x] = i]

Want == DOMAIN plSet.candidates
CandidatesOf(req) == ToSet(plSet.candidates[req])
CandidateTargets == {c.target : c \in UNION {CandidatesOf(req) : req \in Want}}

Assigned(A) == {c.req : c \in A}
On(A, d) == {c \in A : c.target = d}
Load(A, d) == Total(On(A, d), Durable) + Peak(On(A, d), Work)
HomeTarget(A, req) ==
  IF HomeOf(req) \in Assigned(A) THEN (CHOOSE c \in A : c.req = HomeOf(req)).target ELSE Pending
Resolved(c, A) == IF c.source = Pending THEN HomeTarget(A, c.req) ELSE c.source

Fits(c, A, free) == Load(A \cup {c}, c.target) <= free[c.target]
\* _domain_ok: a replica is compared with the home it copies from.
DomainOk(c, A) == c.req[1] = Replica /\ Resolved(c, A) # Pending => ~SameDomain(Resolved(c, A), c.target)
Ready(A) ==
  {req \in Want \ Assigned(A) : req[1] = Replica => HomeOf(req) \in Assigned(A) \cup DOMAIN plSet.satisfied}
\* The requirement with the fewest targets that could hold it alone, the largest first.
Needs(c) == Durable(c) + Work(c)
OrderKey(req, free) ==
  <<Cardinality({c \in CandidatesOf(req) : Needs(c) <= free[c.target]}), -Peak(CandidatesOf(req), Needs),
    req[1], req[2]>>
Children(A, free) ==
  IF Ready(A) = {} THEN <<>>
  ELSE LET next == Head(Ordered(Ready(A), LAMBDA req : OrderKey(req, free)))
       IN SelectSeq(plSet.candidates[next], LAMBDA c : Fits(c, A, free) /\ DomainOk(c, A))

\* _score_key: least movement, then the fullest free space, fewest idle drives, canonical order.
ScoreKey(A, free) ==
  LET byReq == Ordered(A, LAMBDA c : c.req)
      remaining == [d \in CandidateTargets |-> Load(A, d) - free[d]]
      targets == Ordered(CandidateTargets, LAMBDA d : <<remaining[d], d>>)
  IN <<Total(A, LAMBDA c : c.budget.gd)>> \o [i \in DOMAIN targets |-> remaining[targets[i]]]
       \o <<Cardinality({d \in CandidateTargets : On(A, d) = {}})>>
       \o [i \in DOMAIN byReq |-> byReq[i].target] \o [i \in DOMAIN byReq |-> Resolved(byReq[i], A)]

Task(c, A) ==
  [req |-> c.req, target |-> c.target, source |-> Resolved(c, A), missing |-> c.missing,
   budget |-> c.budget, estimated |-> c.source = Pending]
ToPlan(A) == {Task(c, A) : c \in A}

-----------------------------------------------------------------------------
(* Gate B                                                                  *)

Free == [d \in Labels |-> plEvidence[d].free]
RelevantUnknown == {d \in CandidateTargets : ~plEvidence[d].executable}
UnknownMax == {d \in CandidateTargets : plEvidence[d].most = -1}

DomainsCollide(req) ==
  LET homes == IF HomeOf(req) \in DOMAIN plSet.satisfied THEN plSet.satisfied[HomeOf(req)] ELSE plSet.eligible[Home]
  IN homes # {} /\ \A h \in homes, c \in CandidatesOf(req) : SameDomain(h, c.target)
ExceedsMax(req) ==
  \A c \in CandidatesOf(req) : plEvidence[c.target].most # -1 /\ Needs(c) > plEvidence[c.target].most
FirstBlocked == CHOOSE req \in plSet.blocked : \A other \in plSet.blocked \ {req} : Before(req, other)
StructuralCode ==
  IF plSet.blocked # {} THEN
    IF plSet.eligible[FirstBlocked[1]] = {} THEN "TARGET_TIER_MISSING" ELSE "UNPROVEN_PROVENANCE"
  ELSE IF \E req \in Want : req[1] = Replica /\ DomainsCollide(req) THEN "FAILURE_DOMAIN_UNSATISFIABLE"
  ELSE IF \E req \in Want : ExceedsMax(req) THEN "REQUIREMENT_EXCEEDS_USABLE_MAX"
  ELSE "none"

\* PlanningResult.root_code: a repository the policy refuses makes the plan a refusal.
Judge(code, plan, how) ==
  /\ plStage' = "judged"
  /\ plVerdict' = [code |-> IF \E r \in Repos : PolicyRefuses(r) THEN "MANIFEST_POLICY" ELSE code,
                   plan |-> plan, how |-> how]
  /\ plSearch' = NoSearch
  /\ UNCHANGED <<plSet, plEvidence, plWriting, plLeft>> /\ UNCHANGED plCatalog

Limit(kind) == IF kind = "improve" THEN plWorld.opt ELSE plWorld.feas
\* _search up to its loop; with nothing wanted it has found the empty assignment.
Search(kind, free, first) ==
  /\ plStage' = IF Want = {} \/ Limit(kind) = 0 THEN "ended" ELSE "search"
  /\ plSearch' = [kind |-> kind, free |-> free, path |-> <<>>, first |-> first, best |-> {},
                  stack |-> <<Children({}, free)>>,
                  visited |-> 1, found |-> Want = {}, cut |-> Want # {} /\ Limit(kind) = 0]
  /\ UNCHANGED <<plSet, plEvidence, plVerdict, plWriting, plLeft>> /\ UNCHANGED plCatalog

\* reconcile_plan: the requirements and their candidates, as one read of the catalog shows them.
PlanRead(snapshot) ==
  /\ plStage = "idle" /\ plLeft.previews > 0
  /\ plSet' = [snapshot |-> snapshot, eligible |-> [kind \in {Primary, Home, Replica} |-> Eligible(kind)],
               satisfied |-> [req \in Satisfied |-> SatisfiedBy(req)], blocked |-> Blocked,
               candidates |-> [req \in Wanted |->
                 Ordered(Candidates(req), LAMBDA c : <<c.target, c.budget.gd, c.source>>)]]
  /\ plLeft' = [plLeft EXCEPT !.previews = @ - 1]
  /\ UNCHANGED <<plSearch, plVerdict, plWriting>> /\ UNCHANGED plCatalog
PreviewPlan(held) == PlanRead(TRUE) /\ plStage' = "gate" /\ plEvidence' = Preview(held)
ShadowRead == PlanRead(FALSE) /\ plStage' = "shadow" /\ UNCHANGED plEvidence
ShadowEvidence(held) ==
  /\ plStage = "shadow" /\ plStage' = "gate" /\ plEvidence' = Preview(held)
  /\ UNCHANGED <<plSet, plSearch, plVerdict, plWriting, plLeft>> /\ UNCHANGED plCatalog

\* Mutant: a requirement is stale only when every target it had is gone.
StaleTargetsAll == {req \in Want : \A c \in CandidatesOf(req) : ~Placeable(c.target)}
\* _stale_target_failures: one captured target that no longer takes files is enough.
StaleTargets == {req \in Want : \E c \in CandidatesOf(req) : ~Placeable(c.target)}
TargetChanged == plStage = "gate" /\ StaleTargets # {} /\ Judge("TARGET_DRIVE_CHANGED", {}, "none")
StillPlaceable == plStage = "gate" /\ StaleTargets = {}
Structural == StillPlaceable /\ StructuralCode # "none" /\ Judge(StructuralCode, {}, "none")
SearchKnown == StillPlaceable /\ StructuralCode = "none" /\ Search("known", Free, {})

-----------------------------------------------------------------------------
(* One turn of the search loop                                             *)

Top == Last(plSearch.stack)
Rest == Append(Front(plSearch.stack), Tail(Top))
Path == ToSet(plSearch.path) \cup {Head(Top)}
WholePath == Assigned(Path) = Want
Turn(search) ==
  /\ plStage = "search"
  /\ plSearch' = search
  /\ UNCHANGED <<plSet, plEvidence, plVerdict, plWriting, plLeft>> /\ UNCHANGED plCatalog

Backtrack ==
  /\ plStage = "search" /\ Top = <<>>
  /\ plStage' = IF Len(plSearch.stack) = 1 THEN "ended" ELSE "search"
  /\ Turn([plSearch EXCEPT !.stack = Front(@), !.path = IF @ = <<>> THEN @ ELSE Front(@)])

OutOfStates ==
  /\ plStage = "search" /\ Top # <<>> /\ plSearch.visited >= Limit(plSearch.kind)
  /\ plStage' = "ended"
  /\ Turn([plSearch EXCEPT !.cut = TRUE])

Enterable == plStage = "search" /\ Top # <<>> /\ plSearch.visited < Limit(plSearch.kind)

\* Mutant: an improvement search keeps the last assignment it completes, not the best.
RecordLast ==
  /\ Enterable /\ WholePath
  /\ plStage' = IF plSearch.kind = "improve" THEN "search" ELSE "ended"
  /\ Turn([plSearch EXCEPT !.visited = @ + 1, !.stack = Rest, !.found = TRUE, !.best = Path])
\* record_complete: a search for feasibility stops at the first.
RecordWhole ==
  /\ Enterable /\ WholePath
  /\ plStage' = IF plSearch.kind = "improve" THEN "search" ELSE "ended"
  /\ Turn([plSearch EXCEPT !.visited = @ + 1, !.stack = Rest, !.found = TRUE,
             !.best = IF ~plSearch.found \/ LexLess(ScoreKey(Path, plSearch.free), ScoreKey(@, plSearch.free))
                      THEN Path ELSE @])

Descend ==
  /\ Enterable /\ ~WholePath
  /\ plStage' = "search"
  /\ LET children == Children(Path, plSearch.free)
         deeper == children # <<>>
     IN Turn([plSearch EXCEPT !.visited = @ + 1,
                !.stack = IF deeper THEN Append(Rest, children) ELSE Rest,
                !.path = IF deeper THEN Append(@, Head(Top)) ELSE @])

-----------------------------------------------------------------------------
(* What a search that ended says                                           *)

Ended(kind) == plStage = "ended" /\ plSearch.kind = kind
Exhausted == ~plSearch.found /\ ~plSearch.cut

Improve == Ended("known") /\ plSearch.found /\ Search("improve", Free, plSearch.best)
\* Mutant: off by one against the state limit.
KnownTruncatedLate == Ended("known") /\ ~plSearch.found /\ plSearch.visited > plWorld.feas /\ Judge("PACKING_INCONCLUSIVE", {}, "none")
KnownTruncated == Ended("known") /\ ~plSearch.found /\ plSearch.cut /\ Judge("PACKING_INCONCLUSIVE", {}, "none")
KnownInfeasible ==
  /\ Ended("known") /\ Exhausted
  /\ RelevantUnknown \cup UnknownMax = {}
  /\ Judge("INFEASIBLE_UNDER_ADMISSION_BUDGET", {}, "none")
UnknownMayHelp ==
  /\ Ended("known") /\ Exhausted /\ UnknownMax # {}
  /\ Judge("CAPACITY_EVIDENCE_UNKNOWN", {}, "none")
SearchOptimistic ==
  /\ Ended("known") /\ Exhausted /\ UnknownMax = {} /\ RelevantUnknown # {}
  /\ Search("optimistic", [d \in Labels |-> IF d \in RelevantUnknown THEN plEvidence[d].most ELSE Free[d]], {})
JudgeOptimistic ==
  /\ Ended("optimistic")
  /\ Judge(CASE plSearch.found -> "CAPACITY_EVIDENCE_UNKNOWN"
             [] Exhausted -> "INFEASIBLE_WITH_UNKNOWN_AT_USABLE_MAX"
             [] OTHER -> "PACKING_INCONCLUSIVE", {}, "none")
JudgeImproved ==
  /\ Ended("improve")
  /\ Judge("FEASIBLE", ToPlan(IF plSearch.found THEN plSearch.best ELSE plSearch.first),
           IF plSearch.cut THEN "state_truncated" ELSE "optimized")

-----------------------------------------------------------------------------
(* Approval: proposal.validate_exact_assignment on evidence of its own.    *)

\* execution_rank: what was begun first, then the bulk (above 250 GB), homes, other files,
\* and replicas last; among equals the largest first.
Rank(t) ==
  LET files == Manifest(t.req[2])
      raw == Total(files, LAMBDA f : Entry(t.req[2], f).size)
  IN <<CASE t.req[1] = Replica -> 4
         [] t.req[1] # Replica /\ t.missing # files -> 0
         [] t.req[1] # Replica /\ t.missing = files /\ raw > plWorld.bulk -> 1
         [] t.req[1] = Home /\ t.missing = files /\ raw <= plWorld.bulk -> 2
         [] OTHER -> 3,
       -raw, t.req[2], t.req[1]>>
\* Mutant: the approval charges no codec workspace.
RepoWorkspaceForgotten(r) == 0
\* _repo_workspace_peak: every safetensors file of the repository counts.
RepoWorkspace(r) ==
  Peak({f \in FilesOf(r) : Entry(r, f).fmt = "safetensors"}, LAMBDA f : CodecCap(Entry(r, f).size))
JointlyFits(plan, free) ==
  LET order == Ordered(plan, Rank) IN
  \A i \in DOMAIN order :
    LET earlier == {order[j] : j \in {k \in 1..(i - 1) : order[k].target = order[i].target}}
    IN Total(earlier, LAMBDA t : t.budget.gd) + order[i].budget.gd + RepoWorkspace(order[i].req[2])
         <= free[order[i].target]
\* reconcile._rank_satisfying_drive: the copy that stands for a satisfied requirement.
Match(req) ==
  Head(Ordered(plSet.satisfied[req], LAMBDA d :
    IF req[1] = Replica THEN <<Facts(d).cap, d>> ELSE <<IF Facts(d).raid THEN 0 ELSE 1, -Facts(d).cap, d>>))
DistinctMedia(plan) ==
  LET media == {<<t.req, t.target>> : t \in plan} \cup {<<req, Match(req)>> : req \in DOMAIN plSet.satisfied}
  IN \A m, n \in media : m # n /\ m[1][2] = n[1][2] => m[2] # n[2]
Accepts(plan, evidence) ==
  /\ DistinctMedia(plan)
  /\ \A t \in plan : evidence[t.target].executable
  /\ JointlyFits(plan, [d \in Labels |-> evidence[d].free])

AtFences == [d \in Labels |-> Evidence(d)]
Approvable == plStage = "judged" /\ plSet.snapshot /\ plVerdict.code = "FEASIBLE"
Approve ==
  /\ Approvable
  /\ plStage' = IF Accepts(plVerdict.plan, AtFences) THEN "approved" ELSE "refused"
  /\ plEvidence' = AtFences /\ plSet' = NoSet
  /\ UNCHANGED <<plSearch, plVerdict, plWriting, plLeft>> /\ UNCHANGED plCatalog

-----------------------------------------------------------------------------
(* The approved plan is written file by file.                              *)

Satisfies(r, f, d) == Row(r, f, d) # NoRow /\ ContentSatisfies(Entry(r, f).sha, Row(r, f, d))
FileLeft(t, f) == f \in t.missing /\ ~Satisfies(t.req[2], f, t.target)
TaskReady(t) == t.source # FromHub => \A f \in t.missing : Satisfies(t.req[2], f, t.source)
NextFile(t, f) ==
  /\ plStage = "approved" /\ ~plWriting.on
  /\ t \in plVerdict.plan /\ FileLeft(t, f) /\ TaskReady(t)
  /\ plDrives[t.target].mounted /\ (t.source # FromHub => plDrives[t.source].mounted)
\* _file_guard: the projection's budget of a file is its size, without room for the encoder.
GuardPasses(t, f) == Entry(t.req[2], f).size <= Evidence(t.target).free

Store(d, bytes, clean) ==
  plDrives' = [plDrives EXCEPT ![d].free = @ - bytes, ![d].clean = clean,
                               ![d].anchor = IF clean THEN plDrives[d].free - bytes ELSE @]
PutRow(t, f, row) == plRows' = [plRows EXCEPT ![<<t.req[2], f, t.target>>] = row]

Download(t, f) ==
  /\ t.source = FromHub /\ NextFile(t, f) /\ GuardPasses(t, f)
  /\ Store(t.target, Entry(t.req[2], f).size, FALSE)
  /\ plWriting' = [on |-> TRUE, task |-> t, file |-> f, raw |-> TRUE, out |-> 0]
  /\ UNCHANGED <<plWorld, plRows, plStage, plSet, plEvidence, plSearch, plVerdict, plLeft>>

CapacityStop(t, f) ==
  /\ t.source = FromHub /\ NextFile(t, f) /\ ~GuardPasses(t, f)
  /\ plStage' = "stopped"
  /\ UNCHANGED <<plSet, plEvidence, plSearch, plVerdict, plWriting, plLeft>> /\ UNCHANGED plCatalog

WRepo == plWriting.task.req[2]
WTarget == plWriting.task.target
WFile == plWriting.file
\* The encoder's output stands beside the original until the canary has read it back.
Encode(out) ==
  /\ plWriting.on /\ plWriting.raw /\ plWriting.out = 0 /\ Workspace(WRepo, WFile) > 0
  /\ out \in 1..CodecCap(Entry(WRepo, WFile).size)
  /\ Store(WTarget, out, FALSE)
  /\ plWriting' = [plWriting EXCEPT !.out = out]
  /\ UNCHANGED <<plWorld, plRows, plStage, plSet, plEvidence, plSearch, plVerdict, plLeft>>

Digest(r, f) == IF Entry(r, f).sha = "none" THEN "A" ELSE Entry(r, f).sha
EncodeSome == plWriting.on /\ \E out \in {1, Entry(WRepo, WFile).size} : Encode(out)
\* Raw when nothing was encoded: a format that is not, or an encoder that crashed, hung or refused.
PublishRaw ==
  /\ plWriting.on /\ plWriting.out = 0
  /\ LET size == Entry(WRepo, WFile).size sha == Digest(WRepo, WFile) IN
       PutRow(plWriting.task, WFile, [stored |-> size, orig |-> size, sha |-> sha, annex |-> sha, comp |-> FALSE])
  /\ Store(WTarget, 0, TRUE)
  /\ plWriting' = NotWriting
  /\ UNCHANGED <<plWorld, plStage, plSet, plEvidence, plSearch, plVerdict, plLeft>>
PublishEncoded ==
  /\ plWriting.on /\ plWriting.out > 0
  /\ LET size == Entry(WRepo, WFile).size IN
       /\ PutRow(plWriting.task, WFile,
            [stored |-> plWriting.out, orig |-> size, sha |-> Digest(WRepo, WFile), annex |-> "none", comp |-> TRUE])
       /\ Store(WTarget, -size, TRUE)
  /\ plWriting' = NotWriting
  /\ UNCHANGED <<plWorld, plStage, plSet, plEvidence, plSearch, plVerdict, plLeft>>

\* A replica is copied without a guard of its own.
CopyReplica(t, f) ==
  /\ t.source # FromHub /\ NextFile(t, f)
  /\ PutRow(t, f, Row(t.req[2], f, t.source))
  /\ Store(t.target, Row(t.req[2], f, t.source).stored, TRUE)
  /\ UNCHANGED <<plWorld, plStage, plSet, plEvidence, plSearch, plVerdict, plWriting, plLeft>>

PlanDone ==
  /\ plStage = "approved" /\ ~plWriting.on
  /\ \A t \in plVerdict.plan : \A f \in t.missing : ~FileLeft(t, f)
  /\ plStage' = "done"
  /\ UNCHANGED <<plSet, plEvidence, plSearch, plVerdict, plWriting, plLeft>> /\ UNCHANGED plCatalog

-----------------------------------------------------------------------------
(* The operator                                                            *)

PreviewAgain ==
  /\ plStage \in {"judged", "refused", "stopped", "done"} /\ plLeft.previews > 0
  /\ plStage' = "idle" /\ plSet' = NoSet /\ plVerdict' = NoVerdict
  /\ UNCHANGED <<plEvidence, plSearch, plWriting, plLeft>> /\ UNCHANGED plCatalog

Changed(d, state) ==
  /\ plLeft.changes > 0
  /\ state # plDrives[d]
  /\ plDrives' = [plDrives EXCEPT ![d] = state]
  /\ plLeft' = [plLeft EXCEPT !.changes = @ - 1]
  /\ UNCHANGED <<plWorld, plRows, plEvidence, plSearch, plWriting>>
\* The planner revision moves: the proposal is stale.  A report under way goes on with what it read.
Reclassify(d) ==
  /\ plStage \in {"idle", "shadow", "judged"}
  /\ \E life \in {"active", "lost"}, elig \in {"enabled", "excluded"} :
       Changed(d, [plDrives[d] EXCEPT !.life = life, !.elig = elig])
  /\ IF plStage = "shadow" THEN UNCHANGED <<plStage, plSet, plVerdict>>
     ELSE plStage' = "idle" /\ plSet' = NoSet /\ plVerdict' = NoVerdict
Mount(d) ==
  /\ plStage \in {"idle", "judged", "approved"} /\ ~plWriting.on
  /\ Changed(d, [plDrives[d] EXCEPT !.mounted = ~@])
  /\ UNCHANGED <<plStage, plSet, plVerdict>>

PlStep ==
  \/ TargetChanged \/ Structural \/ SearchKnown \/ Backtrack \/ OutOfStates \/ RecordWhole \/ Descend
  \/ Improve \/ KnownTruncated \/ KnownInfeasible \/ UnknownMayHelp \/ SearchOptimistic
  \/ JudgeOptimistic \/ JudgeImproved
  \/ \E t \in plVerdict.plan : \E f \in t.missing : Download(t, f) \/ CapacityStop(t, f) \/ CopyReplica(t, f)
  \/ EncodeSome
  \/ PublishRaw \/ PublishEncoded \/ PlanDone

PlNext ==
  \/ PlStep \/ PreviewAgain \/ Approve \/ ShadowRead
  \/ \E held \in plWorld.contended : PreviewPlan(held) \/ ShadowEvidence(held)
  \/ \E d \in Labels : Reclassify(d) \/ Mount(d)

FairPlSpec == PlInit /\ [][PlNext]_plVars /\ WF_plVars(PlStep)

-----------------------------------------------------------------------------
(* Properties                                                              *)

\* Reference: any choice of a candidate for every requirement that is wanted.
Selections ==
  LET most == Max({0} \cup {Len(plSet.candidates[req]) : req \in Want}) IN
  {{plSet.candidates[req][g[req]] : req \in Want} :
     g \in {h \in [Want -> 1..most] : \A req \in Want : h[req] <= Len(plSet.candidates[req])}}
Sound(plan, free) ==
  /\ {t.req : t \in plan} = Want /\ Cardinality(plan) = Cardinality(Want)
  /\ \A t \in plan :
       /\ Placeable(t.target) /\ ~Unproven(t.req[2], t.target) /\ t.missing = Missing(t.req[2], t.target)
       /\ t.req[1] = Replica =>
            /\ ~SameDomain(t.source, t.target)
            /\ HeldWhole(t.req[2], t.source) \/ \E h \in plan : h.req = HomeOf(t.req) /\ h.target = t.source
  /\ \A d \in {t.target : t \in plan} : Load(plan, d) <= free[d]
Packs(free) == \E g \in Selections : Sound(ToPlan(g), free)
AtMost == [d \in Labels |-> IF plEvidence[d].executable THEN plEvidence[d].free ELSE plEvidence[d].most]
Unlimited == [d \in Labels |-> IF plEvidence[d].most = -1 THEN Total(Labels, LAMBDA e : Facts(e).cap) ELSE plEvidence[d].most]

\* A verdict of Gate B is a fact about all assignments, not about the order in which the search
\* tried some (placement.gate_b, _structural, _search): a feasible plan is one the rules allow, and
\* a plan is called infeasible, or hopeless without a drive, only when no choice of targets packs.
VerdictsAreProofs ==
  plStage = "judged" =>
    CASE plVerdict.code = "FEASIBLE" -> Sound(plVerdict.plan, Free)
      [] plVerdict.code = "INFEASIBLE_UNDER_ADMISSION_BUDGET" -> ~Packs(Free)
      [] plVerdict.code = "CAPACITY_EVIDENCE_UNKNOWN" -> ~Packs(Free) /\ (UnknownMax = {} => Packs(AtMost))
      [] plVerdict.code = "INFEASIBLE_WITH_UNKNOWN_AT_USABLE_MAX" -> ~Packs(AtMost)
      [] plVerdict.code \in {"FAILURE_DOMAIN_UNSATISFIABLE", "REQUIREMENT_EXCEEDS_USABLE_MAX"} -> ~Packs(Unlimited)
      [] OTHER -> TRUE

\* "optimized" means that no allowed assignment scores better (placement.improve, _score_key).
ImprovedIsBest ==
  plStage = "judged" /\ plVerdict.how = "optimized" /\ plVerdict.code = "FEASIBLE" /\ Want # {} =>
    \E g \in Selections :
      /\ ToPlan(g) = plVerdict.plan
      /\ \A h \in Selections : Sound(ToPlan(h), Free) =>
           ~LexLess(ScoreKey(h, Free), ScoreKey(g, Free))

\* When an approved plan is done, every selected repository has its copies on drives that count,
\* none having dropped out of a feasible plan (reconcile.reconcile_plan, CapacityPlan.feasible).
DoneIsCopied ==
  plStage = "done" =>
    \A r \in Repos :
      plWorld.repos[r].copies <= Cardinality({d \in Labels : Active(d) /\ Manifest(r) # {} /\ HeldWhole(r, d)})

Estimated == \E t \in plVerdict.plan : t.estimated
\* What the frames of a streamed encoding add beyond the original, which no budget counts.
Framing(d) == Total({k \in DOMAIN plRows : k[3] = d}, LAMBDA k : Max({0, plRows[k].stored - plRows[k].orig}))
\* No write of an approved plan takes a drive below its safety floor, the encoder's output beside
\* the original included, although the guard of a file (fill._file_guard) asks for no room for it:
\* the joint check at approval has.  The exceptions are the framing, and a replica whose budget
\* was estimated before its home existed.
FloorNeverCrossed ==
  plStage = "approved" /\ ~Estimated =>
    \A t \in plVerdict.plan : plDrives[t.target].free + Framing(t.target) >= Facts(t.target).floor

\* A plan that was approved is not stopped for want of space by its own execution: what each file
\* really took never exceeds what the approval counted for it (proposal.joint_capacity_shortfall).
\* Only a drive that, once mounted, is not the one the anchor was taken from stops it.
KeepsItsWord ==
  plStage = "stopped" => Estimated \/ \E t \in plVerdict.plan : ~Evidence(t.target).executable

\* An approved plan can be carried out as it was approved, and is done when it says so.
ExecutionSafe == DoneIsCopied /\ FloorNeverCrossed /\ KeepsItsWord

\* A row that is there is never written over, proven or not: bytes whose provenance does not bind
\* are left for the operator (candidates.candidates, fill._file_guard).
OnlyMissingWritten == [][\A k \in DOMAIN plRows : plRows[k] # NoRow => plRows'[k] = plRows[k]]_plVars

AwaitsDrive == \E t \in plVerdict.plan :
  ~plDrives[t.target].mounted \/ (t.source # FromHub /\ ~plDrives[t.source].mounted)
\* Every preview ends with a verdict, and an approved plan ends unless it waits for a drive.
PlSettles ==
  /\ plStage \in {"gate", "search", "ended"} ~> plStage = "judged"
  /\ plStage = "approved" ~> (plStage # "approved" \/ AwaitsDrive)

\* proposal._repo_workspace_peak is documented as "aligned with execution budgets", of "the same
\* seam as budgets.file_budget": a plan the preview found feasible would then be approved on the
\* evidence it was made from.
FeasibleIsApprovable ==
  Approvable /\ AtFences = plEvidence => Accepts(plVerdict.plan, AtFences)
=============================================================================

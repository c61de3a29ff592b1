------------------------- MODULE Publication_proofs -------------------------
(***************************************************************************)
(* Proofs about Publication, for every set of plans that satisfies         *)
(* PublicationPlans and every bound: catalog, worktree, git-annex and map  *)
(* agree through every interruption (CatalogIsArchive), nothing of others  *)
(* and no only copy is lost (NothingLost), and the publication implements  *)
(* ArchivePromise, step by step.                                           *)
(*                                                                         *)
(* What a row of the journal promises is said of one file at a time        *)
(* (FileOK); what the process knows is said of the current file (MineOK);  *)
(* BehindOK says that the loop leaves no download behind it.               *)
(***************************************************************************)
EXTENDS Publication, WellFoundedInduction, TLAPS

-----------------------------------------------------------------------------
(* The invariant                                                           *)

PubPcs == {"down", "enter", "setup", "dir", "acquire", "publish", "release", "finish", "map", "closed"}
Natives == {"add", "setkey", "stage"}
OnFile == {"acquire", "publish", "release"}
Working == OnFile \cup {"setup", "dir", "finish", "map"}

OpRow == [state : {"none", "PREPARED", "CLOSED"}, owner : {"cli", "session"}, fresh : BOOLEAN,
          dirty : {{}, Participants}]
SetupRow == [policies : 0..3, act : {"none", "PREPARED"}, file : {"before", "part", "temp", "after"},
             dir : Status, made : BOOLEAN]
FileRow == [phase : Phases, row : BOOLEAN, staged : {"none", "held", "other"},
            path : {"none", "bytes", "pointer", "foreign"}, temp : BOOLEAN, obj : BOOLEAN, index : BOOLEAN,
            head : BOOLEAN, log : BOOLEAN, base : SUBSET PubFiles, act : [ActionSteps -> Status], adds : Nat]
MapRow == [phase : {"none", "PREPARED", "PROPAGATED"}, step : 1..9, act : {"none", "PREPARED"},
           eff : {"no", "partial", "yes"}]
RunRow == [pc : PubPcs, cur : PubFiles \cup {0}, mine : Natives \cup {"none", "policy", "dir"}]

Typed ==
  /\ pubPlan \in PubPlans
  /\ pubOp \in OpRow
  /\ pubSetup \in SetupRow
  /\ pubFile \in [PubFiles -> FileRow]
  /\ pubMap \in MapRow
  /\ pubRun \in RunRow

\* The journal of a file f whose record is p: what an action recorded as VERIFIED, and a
\* phase that was reached, say of the disk and of the actions before.
FileOK(f, p) ==
  /\ f \notin p.base
  /\ p.head => p.phase \in {"LOCAL_VERIFIED", "TREE_VERIFIED", "CATALOG_PUBLISHED"}
  /\ p.row <=> p.phase = "CATALOG_PUBLISHED"
  /\ p.row => p.path = "pointer" /\ p.obj /\ p.index /\ p.head /\ p.log
  /\ p.phase \in {"LOCAL_VERIFIED", "TREE_VERIFIED", "CATALOG_PUBLISHED"} =>
       /\ p.act["install"] = "VERIFIED"
       /\ Fill => p.act["add"] = "VERIFIED"
       /\ ~Fill => p.act["setkey"] = "VERIFIED" /\ p.act["pointer"] = "VERIFIED" /\ p.act["stage"] = "VERIFIED"
  /\ p.phase \in {"TREE_VERIFIED", "CATALOG_PUBLISHED"} => p.act["commit"] = "VERIFIED"
  /\ p.phase = "CATALOG_PUBLISHED" => p.act["metadata"] = "VERIFIED"
  /\ Fill /\ p.act["release"] = "VERIFIED" => p.phase = "CATALOG_PUBLISHED" /\ p.staged = "none"
  /\ ~Fill /\ p.act["pointer"] # "none" => p.act["setkey"] = "VERIFIED"
  /\ ~Fill /\ p.act["stage"] # "none" => p.act["pointer"] = "VERIFIED"
  /\ Fill /\ p.act["install"] = "VERIFIED" => p.path \in {"bytes", "pointer"}
  /\ p.adds <= 1
  /\ Fill /\ p.act["add"] = "none" => p.adds = 0
  /\ ~Fill /\ p.act["setkey"] = "none" => p.adds = 0

FilesOK == \A f \in PubFiles : FileOK(f, pubFile[f])

\* A native action that this process prepared and has not run: m on a file whose record is p.
MineFits(m, p) ==
  /\ p.phase = "PREPARED"
  /\ m = "add" => Fill /\ p.act["add"] = "PREPARED" /\ p.adds = 0
  /\ m = "setkey" => ~Fill /\ p.act["setkey"] = "PREPARED" /\ p.adds = 0 /\ p.path = "bytes"
  /\ m = "stage" => ~Fill /\ p.act["stage"] = "PREPARED"

MineOK == pubRun.mine \in Natives => At("publish") /\ MineFits(pubRun.mine, F)

\* Where the process is.
PlaceOK ==
  /\ pubRun.pc \in OnFile => pubRun.cur \in PubFiles
  /\ pubRun.pc \in {"dir", "acquire", "release"} => Fill
  /\ At("release") => F.phase = "CATALOG_PUBLISHED"
  /\ At("map") => Complete
  /\ At("enter") => pubOp.state = "none"
  /\ pubRun.pc \in Working => pubOp.state = "PREPARED"
  /\ At("closed") <=> pubOp.state = "CLOSED"

\* The files the loop has gone past.
Behind ==
  {g \in PubFiles : (pubRun.pc \in OnFile /\ g < pubRun.cur) \/ pubRun.pc \in {"finish", "map"}}
BehindOK ==
  Fill => \A g \in Behind : pubFile[g].phase = "CATALOG_PUBLISHED" => pubFile[g].act["release"] = "VERIFIED"

SetupOK ==
  /\ pubSetup.act = "PREPARED" => pubSetup.policies < 3
  /\ pubSetup.file # "before" => pubSetup.act = "PREPARED"

MapOK ==
  /\ pubMap.act = "PREPARED" => pubMap.step < 9
  /\ pubMap.phase = "PROPAGATED" => pubMap.step = 9

DirtyOK ==
  /\ pubOp.state = "none" => pubOp.dirty = {}
  /\ pubOp.state = "PREPARED" => pubOp.dirty = Participants

PubInv ==
  /\ Typed
  /\ FilesOK
  /\ MineOK
  /\ PlaceOK
  /\ BehindOK
  /\ SetupOK
  /\ MapOK
  /\ DirtyOK
  /\ ClosedIsWhole

-----------------------------------------------------------------------------
(* Helpers                                                                 *)

\* The first of a set of files (the loop over the sorted requests).
LEMMA MinIsLeast ==
  ASSUME Typed, NEW S \in SUBSET PubFiles, S # {}
  PROVE  Min(S) \in S /\ \A f \in S : Min(S) <= f
<1>1. S \subseteq Nat
  BY PublicationPlans DEF Typed, PubFiles
<1>2. \E m \in S : \A f \in S : ~ (<<f, m>> \in OpToRel(<, Nat))
  BY <1>1, NatLessThanWellFounded, WFMin
<1>3. PICK m \in S : \A f \in S : ~ (<<f, m>> \in OpToRel(<, Nat))
  BY <1>2
<1>4. \A f \in S : m <= f
  <2>1. SUFFICES ASSUME NEW f \in S PROVE m <= f
    OBVIOUS
  <2>2. f \in Nat /\ m \in Nat
    BY <1>1
  <2>3. f < m => <<f, m>> \in OpToRel(<, Nat)
    BY <2>2 DEF OpToRel
  <2>4. ~ (f < m)
    BY <1>3, <2>3, Zenon
  <2> QED BY <2>2, <2>4
<1> QED BY <1>4 DEF Min

\* The plan never changes, nor what is made of it.
LEMMA SamePlan ==
  ASSUME pubPlan' = pubPlan
  PROVE  /\ Fill' = Fill /\ PubFiles' = PubFiles /\ Participants' = Participants /\ ActionSteps' = ActionSteps
         /\ OpRow' = OpRow /\ FileRow' = FileRow /\ RunRow' = RunRow
         /\ \A f, p : FileOK(f, p)' = FileOK(f, p)
         /\ \A m, p : MineFits(m, p)' = MineFits(m, p)
BY DEF Fill, PubFiles, Participants, ActionSteps, OpRow, FileRow, RunRow, FileOK, MineFits

\* A step at the current file: row is its record afterwards, run what the process does next.
FileStep(row, run) ==
  /\ pubFile' = [pubFile EXCEPT ![pubRun.cur] = row] /\ pubRun' = run
  /\ pubPlan' = pubPlan /\ pubOp' = pubOp /\ pubSetup' = pubSetup /\ pubMap' = pubMap

\* The process stays at the file, or turns to the next one leaving no download behind.
StaysAt(row, run) ==
  /\ run.cur = pubRun.cur /\ run.pc \in {"publish", "release"}
  /\ run.pc = "release" => Fill /\ row.phase = "CATALOG_PUBLISHED"
  /\ run.mine \in Natives => run.pc = "publish" /\ MineFits(run.mine, row)

GoesOn(row, run) ==
  /\ run = AfterFile /\ pubRun.mine \notin Natives
  /\ Fill /\ row.phase = "CATALOG_PUBLISHED" => row.act["release"] = "VERIFIED"

\* Where AfterFile leads.
LEMMA AfterFileLeads ==
  ASSUME Typed, pubRun.cur \in PubFiles
  PROVE  /\ AfterFile \in RunRow /\ AfterFile.mine = pubRun.mine
         /\ \/ /\ AfterFile.pc = "finish" /\ \A g \in PubFiles : ~(pubRun.cur < g)
            \/ /\ AfterFile.pc = (IF Fill THEN "acquire" ELSE "publish")
               /\ AfterFile.cur \in PubFiles
               /\ \A g \in PubFiles : g < AfterFile.cur => ~(pubRun.cur < g)
<1> DEFINE rest == {g \in PubFiles : g > pubRun.cur}
<1>1. PubFiles \subseteq Nat /\ pubRun \in RunRow
  BY PublicationPlans DEF Typed, PubFiles
<1>2. CASE rest = {}
  <2>1. AfterFile = [pubRun EXCEPT !.pc = "finish"]
    BY <1>2 DEF AfterFile
  <2>2. AfterFile \in RunRow /\ AfterFile.mine = pubRun.mine /\ AfterFile.pc = "finish"
    BY <1>1, <2>1 DEF RunRow, PubPcs
  <2>3. \A g \in PubFiles : ~(pubRun.cur < g)
    BY <1>1, <1>2
  <2> QED BY <2>2, <2>3
<1>3. CASE rest # {}
  <2>1. rest \in SUBSET PubFiles
    OBVIOUS
  <2>2. AfterFile = [pubRun EXCEPT !.pc = IF Fill THEN "acquire" ELSE "publish", !.cur = Min(rest)]
    BY <1>3 DEF AfterFile
  <2> HIDE DEF rest
  <2>3. Min(rest) \in rest /\ \A g \in rest : Min(rest) <= g
    BY <1>3, <2>1, MinIsLeast
  <2>4. Min(rest) \in PubFiles
    BY <2>1, <2>3
  <2>5. AfterFile \in RunRow /\ AfterFile.mine = pubRun.mine /\ AfterFile.cur = Min(rest)
        /\ AfterFile.pc = (IF Fill THEN "acquire" ELSE "publish")
    BY <1>1, <2>2, <2>4 DEF RunRow, PubPcs
  <2>6. ASSUME NEW g \in PubFiles, g < Min(rest)
        PROVE  ~(pubRun.cur < g)
    <3> DEFINE m == Min(rest)
    <3>1. m \in Nat /\ g \in Nat /\ pubRun.cur \in Nat /\ g < m
      BY <1>1, <2>4, <2>6
    <3>2. g \in rest => m <= g
      BY <2>3
    <3> HIDE DEF m
    <3>3. g \notin rest
      BY <3>1, <3>2
    <3> QED BY <3>1, <3>3 DEF rest
  <2> QED BY <2>4, <2>5, <2>6
<1> QED BY <1>2, <1>3

\* A step at the current file that keeps its record right, and its publication, keeps the
\* invariant.
LEMMA FileKeeps ==
  ASSUME PubInv, pubRun.pc \in OnFile, NEW row, NEW run, FileStep(row, run), row \in FileRow, run \in RunRow,
         FileOK(pubRun.cur, row), StaysAt(row, run) \/ GoesOn(row, run)
  PROVE  PubInv'
<1> USE DEF PubInv
<1> DEFINE c == pubRun.cur
<1>1. c \in PubFiles /\ pubOp.state = "PREPARED" /\ pubRun.pc # "closed"
  BY DEF PlaceOK, OnFile, Working
<1>2. /\ pubFile' \in [PubFiles -> FileRow] /\ pubFile'[c] = row /\ \A g \in PubFiles \ {c} : pubFile'[g] = pubFile[g]
      /\ pubRun' = run /\ pubPlan' = pubPlan /\ pubOp' = pubOp /\ pubSetup' = pubSetup /\ pubMap' = pubMap
  BY <1>1 DEF FileStep, Typed
<1>3. /\ Fill' = Fill /\ PubFiles' = PubFiles /\ OpRow' = OpRow /\ FileRow' = FileRow /\ RunRow' = RunRow
      /\ Participants' = Participants
      /\ \A f, p : FileOK(f, p)' = FileOK(f, p)
      /\ \A m, p : MineFits(m, p)' = MineFits(m, p)
  BY <1>2, SamePlan
<1>4. Typed'
  BY <1>2, <1>3 DEF Typed
<1>5. FilesOK'
  BY <1>1, <1>2, <1>3 DEF FilesOK
<1>6. SetupOK' /\ MapOK' /\ DirtyOK'
  BY <1>2, <1>3 DEF SetupOK, MapOK, DirtyOK
<1>7. ClosedIsWhole'
  BY <1>1, <1>2, <1>3 DEF ClosedIsWhole, DirtyOK
<1>8. c \in Nat /\ \A g \in PubFiles : g \in Nat
  BY <1>1, PublicationPlans DEF Typed, PubFiles
<1>9. CASE StaysAt(row, run)
  <2>1. run.cur = c /\ run.pc \in {"publish", "release"} /\ pubFile'[run.cur] = row
    BY <1>2, <1>9 DEF StaysAt
  <2>2. MineOK'
    <3>1. ASSUME run.mine \in Natives
          PROVE  run.pc = "publish" /\ MineFits(run.mine, row)'
      BY <1>3, <1>9, <3>1 DEF StaysAt
    <3> QED BY <1>2, <2>1, <3>1 DEF MineOK, At, F, MineFits, Fill
  <2>3. PlaceOK'
    BY <1>1, <1>2, <1>3, <1>9, <2>1 DEF PlaceOK, At, F, StaysAt, OnFile, Working
  <2>4. Behind' = Behind
    BY <1>2, <1>3, <2>1 DEF Behind, OnFile
  <2>5. c \notin Behind
    BY <1>1, <1>8 DEF Behind, OnFile
  <2>6. BehindOK'
    BY <1>2, <1>3, <2>4, <2>5 DEF BehindOK, Behind
  <2> QED BY <1>4, <1>5, <1>6, <1>7, <2>2, <2>3, <2>6
<1>10. CASE GoesOn(row, run)
  <2>1. /\ run = AfterFile /\ pubRun.mine \notin Natives
        /\ Fill /\ row.phase = "CATALOG_PUBLISHED" => row.act["release"] = "VERIFIED"
    BY <1>10 DEF GoesOn
  <2>2. /\ run.mine = pubRun.mine
        /\ \/ run.pc = "finish" /\ \A g \in PubFiles : ~(c < g)
           \/ /\ run.pc = (IF Fill THEN "acquire" ELSE "publish") /\ run.cur \in PubFiles
              /\ \A g \in PubFiles : g < run.cur => ~(c < g)
    BY <1>1, <2>1, AfterFileLeads
  <2>3. MineOK'
    BY <1>2, <2>1, <2>2 DEF MineOK
  <2>4. PlaceOK'
    BY <1>1, <1>2, <1>3, <2>2 DEF PlaceOK, At, OnFile, Working
  <2>5. \A g \in Behind' : g \in PubFiles /\ (g = c \/ g < c)
    <3>1. Behind' = {g \in PubFiles : (run.pc \in OnFile /\ g < run.cur) \/ run.pc \in {"finish", "map"}}
      BY <1>2, <1>3 DEF Behind, OnFile
    <3>2. \A g \in Behind' : g \in PubFiles /\ ~(c < g)
      BY <2>2, <3>1 DEF OnFile
    <3> QED BY <1>8, <3>2
  <2>6. \A g \in PubFiles : g < c => g \in Behind
    BY DEF Behind
  <2>7. BehindOK'
    <3>1. SUFFICES ASSUME Fill, NEW g \in Behind', pubFile'[g].phase = "CATALOG_PUBLISHED"
                   PROVE  pubFile'[g].act["release"] = "VERIFIED"
      BY <1>3 DEF BehindOK
    <3>2. CASE g = c
      BY <1>2, <2>1, <3>1, <3>2
    <3>3. CASE g # c
      BY <1>2, <2>5, <2>6, <3>1, <3>3 DEF BehindOK
    <3> QED BY <3>2, <3>3
  <2> QED BY <1>4, <1>5, <1>6, <1>7, <2>3, <2>4, <2>7
<1> QED BY <1>9, <1>10

-----------------------------------------------------------------------------
(* The journal of a file                                                   *)

\* The steps of the journal of a Fill, and of a replica.
LEMMA StepsOf ==
  /\ "install" \in ActionSteps /\ "commit" \in ActionSteps /\ "metadata" \in ActionSteps
  /\ Fill => "add" \in ActionSteps /\ "release" \in ActionSteps
  /\ ~Fill => "setkey" \in ActionSteps /\ "pointer" \in ActionSteps /\ "stage" \in ActionSteps
BY DEF ActionSteps

\* What of a record p is still the same in q.
SameDisk(p, q) ==
  /\ q.phase = p.phase /\ q.row = p.row /\ q.staged = p.staged /\ q.path = p.path /\ q.obj = p.obj
  /\ q.index = p.index /\ q.head = p.head /\ q.log = p.log /\ q.base = p.base /\ q.adds = p.adds

\* q is p with the status of an action written.
Wrote(p, s, v, q) == q = [p EXCEPT !.act[s] = v]

\* Nothing else changes.
LEMMA ActPut ==
  ASSUME NEW p \in FileRow, NEW s \in ActionSteps, NEW v \in Status, NEW q, Wrote(p, s, v, q)
  PROVE  /\ q \in FileRow /\ SameDisk(p, q) /\ q.act[s] = v
         /\ \A t \in ActionSteps : t # s => q.act[t] = p.act[t]
<1>1. p.act \in [ActionSteps -> Status]
  BY DEF FileRow
<1>2. [p.act EXCEPT ![s] = v] \in [ActionSteps -> Status]
  BY <1>1
<1>3. q = [p EXCEPT !.act = [p.act EXCEPT ![s] = v]]
  BY Zenon DEF Wrote
<1> DEFINE a == [p.act EXCEPT ![s] = v]
<1>4. a[s] = v /\ \A t \in ActionSteps : t # s => a[t] = p.act[t]
  BY <1>1
<1>5. a \in [ActionSteps -> Status] /\ q = [p EXCEPT !.act = a]
  BY <1>2, <1>3
<1> HIDE DEF a
<1> QED BY <1>4, <1>5 DEF FileRow, SameDisk

\* Recording the intent of an action whose predecessors are verified keeps the record right.
LEMMA IntentKeeps ==
  ASSUME NEW f, NEW p \in FileRow, FileOK(f, p), NEW s \in ActionSteps, p.act[s] = "none",
         ~Fill /\ s = "pointer" => p.act["setkey"] = "VERIFIED",
         ~Fill /\ s = "stage" => p.act["pointer"] = "VERIFIED",
         NEW q, Wrote(p, s, "PREPARED", q)
  PROVE  /\ q \in FileRow /\ FileOK(f, q) /\ SameDisk(p, q) /\ q.act[s] = "PREPARED"
         /\ \A t \in ActionSteps : t # s => q.act[t] = p.act[t]
<1>1. "PREPARED" \in Status
  BY DEF Status
<1>2. /\ q \in FileRow /\ SameDisk(p, q) /\ q.act[s] = "PREPARED"
      /\ \A t \in ActionSteps : t # s => q.act[t] = p.act[t]
  BY <1>1, ActPut
<1>3. \A t \in ActionSteps : q.act[t] = IF t = s THEN "PREPARED" ELSE p.act[t]
  BY <1>2
<1>4. FileOK(f, q)
  <2>1. CASE Fill
    BY <1>2, <1>3, <2>1, StepsOf DEF FileOK, SameDisk
  <2>2. CASE ~Fill
    BY <1>2, <1>3, <2>2, StepsOf DEF FileOK, SameDisk
  <2> QED BY <2>1, <2>2
<1> QED BY <1>2, <1>4

\* So does its receipt, when what it promises is there.
LEMMA ReceiptKeeps ==
  ASSUME NEW f, NEW p \in FileRow, FileOK(f, p), NEW s \in ActionSteps, p.act[s] = "PREPARED",
         Fill /\ s = "release" => p.phase = "CATALOG_PUBLISHED" /\ p.staged = "none",
         Fill /\ s = "install" => p.path \in {"bytes", "pointer"},
         NEW q, Wrote(p, s, "VERIFIED", q)
  PROVE  /\ q \in FileRow /\ FileOK(f, q) /\ SameDisk(p, q) /\ q.act[s] = "VERIFIED"
         /\ \A t \in ActionSteps : t # s => q.act[t] = p.act[t]
<1>1. "VERIFIED" \in Status
  BY DEF Status
<1>2. /\ q \in FileRow /\ SameDisk(p, q) /\ q.act[s] = "VERIFIED"
      /\ \A t \in ActionSteps : t # s => q.act[t] = p.act[t]
  BY <1>1, ActPut
<1>3. \A t \in ActionSteps : q.act[t] = IF t = s THEN "VERIFIED" ELSE p.act[t]
  BY <1>2
<1>4. FileOK(f, q)
  <2>1. CASE Fill
    BY <1>2, <1>3, <2>1, StepsOf DEF FileOK, SameDisk
  <2>2. CASE ~Fill
    BY <1>2, <1>3, <2>2, StepsOf DEF FileOK, SameDisk
  <2> QED BY <2>1, <2>2
<1> QED BY <1>2, <1>4

\* The process at a file.
LEMMA AtFile ==
  ASSUME PubInv, pubRun.pc \in OnFile
  PROVE  /\ pubRun.cur \in PubFiles /\ F \in FileRow /\ FileOK(pubRun.cur, F) /\ pubRun \in RunRow
         /\ pubFile = [pubFile EXCEPT ![pubRun.cur] = F]
         /\ pubRun.mine \in Natives => pubRun.pc = "publish" /\ MineFits(pubRun.mine, F)
         /\ pubRun.pc \in {"acquire", "release"} => Fill
         /\ pubRun.pc = "release" => F.phase = "CATALOG_PUBLISHED"
         /\ F.act \in [ActionSteps -> Status]
<1>1. pubRun.cur \in PubFiles /\ pubRun \in RunRow /\ pubFile \in [PubFiles -> FileRow]
  BY DEF PubInv, PlaceOK, Typed
<1>2. F \in FileRow /\ FileOK(pubRun.cur, F) /\ pubFile = [pubFile EXCEPT ![pubRun.cur] = F]
  BY <1>1 DEF PubInv, FilesOK, F
<1>3. pubRun.mine \in Natives => pubRun.pc = "publish" /\ MineFits(pubRun.mine, F)
  BY DEF PubInv, MineOK, At
<1>4. (pubRun.pc \in {"acquire", "release"} => Fill) /\ (pubRun.pc = "release" => F.phase = "CATALOG_PUBLISHED")
  BY DEF PubInv, PlaceOK, At
<1>5. F.act \in [ActionSteps -> Status]
  BY <1>2 DEF FileRow
<1> QED BY <1>1, <1>2, <1>3, <1>4, <1>5


-----------------------------------------------------------------------------
(* One lemma for each action at a file: it keeps the invariant.            *)

\* The process' row: Known, and with a native action of its own.
LEMMA RunRows ==
  ASSUME pubRun \in RunRow
  PROVE  /\ Known \in RunRow /\ Known.pc = pubRun.pc /\ Known.cur = pubRun.cur /\ Known.mine = "none"
         /\ "none" \notin Natives
         /\ \A s \in Natives : LET r == [pubRun EXCEPT !.mine = s] IN
              r \in RunRow /\ r.pc = pubRun.pc /\ r.cur = pubRun.cur /\ r.mine = s
         /\ \A pc \in PubPcs : LET r == [pubRun EXCEPT !.pc = pc] IN
              r \in RunRow /\ r.pc = pc /\ r.cur = pubRun.cur /\ r.mine = pubRun.mine
BY DEF RunRow, Known, Natives

\* An intent is recorded (InstallPrepare, AddPrepare, SetkeyPrepare, PointerPrepare, StagePrepare,
\* CommitPrepare, MetadataPrepare, ReleasePrepare).  A native one is then this process' own.
LEMMA IntentStep ==
  ASSUME PubInv, pubRun.pc \in {"publish", "release"}, NEW s \in ActionSteps, F.act[s] = "none",
         ~Fill /\ s = "pointer" => F.act["setkey"] = "VERIFIED",
         ~Fill /\ s = "stage" => F.act["pointer"] = "VERIFIED",
         NEW run, File(Prepared(s), run),
         \/ run = pubRun
         \/ /\ s \in Natives /\ run = [pubRun EXCEPT !.mine = s] /\ pubRun.pc = "publish" /\ F.phase = "PREPARED"
            /\ s = "setkey" => F.path = "bytes"
  PROVE  PubInv'
<1>1. pubRun.pc \in OnFile
  BY DEF OnFile
<1>2. /\ F \in FileRow /\ FileOK(pubRun.cur, F) /\ pubRun \in RunRow
      /\ pubRun.mine \in Natives => pubRun.pc = "publish" /\ MineFits(pubRun.mine, F)
      /\ pubRun.pc = "release" => Fill /\ F.phase = "CATALOG_PUBLISHED"
  BY <1>1, AtFile
<1> DEFINE q == Prepared(s)
<1>3. Wrote(F, s, "PREPARED", q)
  BY Zenon DEF Wrote, Prepared
<1>4. FileStep(q, run)
  BY DEF File, FileStep
<1> HIDE DEF q
<1>5. /\ q \in FileRow /\ FileOK(pubRun.cur, q) /\ SameDisk(F, q) /\ q.act[s] = "PREPARED"
      /\ \A t \in ActionSteps : t # s => q.act[t] = F.act[t]
  BY <1>2, <1>3, IntentKeeps
<1>6. run \in RunRow /\ run.pc = pubRun.pc /\ run.cur = pubRun.cur
  BY <1>2, RunRows
<1>7. run.mine \in Natives => run.pc = "publish" /\ MineFits(run.mine, q)
  <2>1. CASE run = pubRun
    BY <1>2, <1>5, <2>1, StepsOf DEF MineFits, SameDisk
  <2>2. CASE /\ s \in Natives /\ run = [pubRun EXCEPT !.mine = s] /\ pubRun.pc = "publish" /\ F.phase = "PREPARED"
             /\ s = "setkey" => F.path = "bytes"
    <3>1. run.mine = s
      BY <1>2, <2>2, RunRows
    <3>2. s = "add" => Fill /\ F.adds = 0
      BY <1>2 DEF FileOK, ActionSteps
    <3>3. s = "setkey" => ~Fill /\ F.adds = 0
      BY <1>2 DEF FileOK, ActionSteps
    <3>4. s = "stage" => ~Fill
      BY DEF ActionSteps
    <3> QED BY <1>5, <1>6, <2>2, <3>1, <3>2, <3>3, <3>4 DEF MineFits, SameDisk
  <2> QED BY <2>1, <2>2
<1>8. StaysAt(q, run)
  BY <1>2, <1>5, <1>6, <1>7 DEF StaysAt, SameDisk
<1> QED BY <1>1, <1>4, <1>5, <1>6, <1>8, FileKeeps


\* A receipt is recorded and the process stays at the file (InstallVerify, SetkeyVerify,
\* PointerVerify, StageVerify).
LEMMA ReceiptStep ==
  ASSUME PubInv, pubRun.pc = "publish", NEW s \in ActionSteps, F.act[s] = "PREPARED", s # "release",
         s = "install" => F.path = "bytes",
         NEW run, File(Verified(s), run),
         run = Known \/ (run = pubRun /\ pubRun.mine # s)
  PROVE  PubInv'
<1>1. pubRun.pc \in OnFile
  BY DEF OnFile
<1>2. /\ F \in FileRow /\ FileOK(pubRun.cur, F) /\ pubRun \in RunRow
      /\ pubRun.mine \in Natives => MineFits(pubRun.mine, F)
  BY <1>1, AtFile
<1> DEFINE q == Verified(s)
<1>3. Wrote(F, s, "VERIFIED", q)
  BY Zenon DEF Wrote, Verified
<1>4. FileStep(q, run)
  BY DEF File, FileStep
<1> HIDE DEF q
<1>5. /\ q \in FileRow /\ FileOK(pubRun.cur, q) /\ SameDisk(F, q)
      /\ \A t \in ActionSteps : t # s => q.act[t] = F.act[t]
  BY <1>2, <1>3, ReceiptKeeps
<1>6. run \in RunRow /\ run.pc = "publish" /\ run.cur = pubRun.cur
  BY <1>2, RunRows
<1>7. run.mine \in Natives => MineFits(run.mine, q)
  <2>1. run = Known => run.mine \notin Natives
    BY <1>2, RunRows
  <2>2. run = pubRun /\ pubRun.mine # s /\ pubRun.mine \in Natives => MineFits(pubRun.mine, q)
    BY <1>2, <1>5, StepsOf DEF MineFits, SameDisk
  <2> QED BY <2>1, <2>2
<1>8. StaysAt(q, run)
  BY <1>6, <1>7 DEF StaysAt
<1> QED BY <1>1, <1>4, <1>5, <1>6, <1>8, FileKeeps

\* Only the disk changes, at a file whose actions the journal still describes: q is the
\* record after it.
LEMMA DiskStep ==
  ASSUME PubInv, pubRun.pc \in {"publish", "release"}, NEW q \in FileRow, NEW run \in {pubRun, Known},
         FileStep(q, run), FileOK(pubRun.cur, q), q.phase = F.phase,
         run.mine \in Natives => /\ q.act = F.act /\ q.adds = F.adds
                                 /\ run.mine = "setkey" => q.path = "bytes"
  PROVE  PubInv'
<1>1. pubRun.pc \in OnFile
  BY DEF OnFile
<1>2. /\ F \in FileRow /\ pubRun \in RunRow
      /\ pubRun.mine \in Natives => pubRun.pc = "publish" /\ MineFits(pubRun.mine, F)
      /\ pubRun.pc = "release" => Fill /\ F.phase = "CATALOG_PUBLISHED"
  BY <1>1, AtFile
<1>3. run \in RunRow /\ run.pc = pubRun.pc /\ run.cur = pubRun.cur /\ (run.mine = pubRun.mine \/ run.mine \notin Natives)
  BY <1>2, RunRows
<1>4. run.mine \in Natives => run.pc = "publish" /\ MineFits(run.mine, q)
  BY <1>2, <1>3 DEF MineFits
<1>5. StaysAt(q, run)
  BY <1>2, <1>3, <1>4 DEF StaysAt
<1> QED BY <1>1, <1>3, <1>5, FileKeeps


\* The intents.
LEMMA IntentsKeep ==
  ASSUME PubInv,
         \/ InstallPrepare \/ AddPrepare \/ SetkeyPrepare \/ PointerPrepare \/ StagePrepare
         \/ CommitPrepare \/ MetadataPrepare \/ ReleasePrepare
  PROVE  PubInv'
<1>1. CASE InstallPrepare
  BY <1>1, StepsOf, IntentStep DEF InstallPrepare, At, Act
<1>2. CASE AddPrepare
  <2>1. /\ "add" \in ActionSteps /\ "add" \in Natives /\ pubRun.pc = "publish" /\ F.phase = "PREPARED"
        /\ F.act["add"] = "none" /\ File(Prepared("add"), [pubRun EXCEPT !.mine = "add"])
    BY <1>2, StepsOf DEF AddPrepare, Installed, At, Act, Natives
  <2> QED BY <2>1, IntentStep
<1>3. CASE SetkeyPrepare
  <2>1. /\ "setkey" \in ActionSteps /\ "setkey" \in Natives /\ pubRun.pc = "publish" /\ F.phase = "PREPARED"
        /\ F.act["setkey"] = "none" /\ F.path = "bytes"
        /\ File(Prepared("setkey"), [pubRun EXCEPT !.mine = "setkey"])
    BY <1>3, StepsOf DEF SetkeyPrepare, ReplicaPrepare, Installed, At, Act, Natives
  <2> QED BY <2>1, IntentStep
<1>4. CASE PointerPrepare
  <2>1. /\ "pointer" \in ActionSteps /\ pubRun.pc = "publish" /\ F.act["setkey"] = "VERIFIED"
        /\ F.act["pointer"] = "none" /\ File(Prepared("pointer"), pubRun)
    BY <1>4, StepsOf DEF PointerPrepare, ReplicaPrepare, Installed, At, Act
  <2> QED BY <2>1, IntentStep
<1>5. CASE StagePrepare
  <2>1. /\ "stage" \in ActionSteps /\ "stage" \in Natives /\ pubRun.pc = "publish" /\ F.phase = "PREPARED"
        /\ F.act["stage"] = "none" /\ F.act["pointer"] = "VERIFIED"
        /\ File(Prepared("stage"), [pubRun EXCEPT !.mine = "stage"])
    BY <1>5, StepsOf DEF StagePrepare, ReplicaPrepare, Installed, At, Act, Natives
  <2> QED BY <2>1, IntentStep
<1>6. CASE CommitPrepare
  BY <1>6, StepsOf, IntentStep DEF CommitPrepare, Committing, At, Act
<1>7. CASE MetadataPrepare
  BY <1>7, StepsOf, IntentStep DEF MetadataPrepare, Cataloguing, At, Act
<1>8. CASE ReleasePrepare
  <2>1. Fill /\ pubRun.pc = "release" /\ F.act["release"] = "none" /\ File(Prepared("release"), pubRun)
    BY <1>8 DEF ReleasePrepare, Releasing, At, Act, PubInv, PlaceOK
  <2> QED BY <2>1, StepsOf, IntentStep
<1> QED BY <1>1, <1>2, <1>3, <1>4, <1>5, <1>6, <1>7, <1>8

\* The receipts after which the process stays at the file.
LEMMA ReceiptsKeep ==
  ASSUME PubInv, InstallVerify \/ SetkeyVerify \/ PointerVerify \/ StageVerify
  PROVE  PubInv'
<1>1. CASE InstallVerify
  <2>1. /\ pubRun.pc = "publish" /\ F.act["install"] = "PREPARED" /\ F.path = "bytes"
        /\ File(Verified("install"), pubRun)
    BY <1>1 DEF InstallVerify, Installing, At, Act
  <2>2. pubRun.mine # "install"
    BY DEF PubInv, Typed, RunRow, Natives
  <2> QED BY <2>1, <2>2, StepsOf, ReceiptStep
<1>2. CASE SetkeyVerify
  BY <1>2, StepsOf, ReceiptStep DEF SetkeyVerify, Installed, At, Act
<1>3. CASE PointerVerify
  <2>1. ~Fill /\ pubRun.pc = "publish" /\ F.act["pointer"] = "PREPARED" /\ File(Verified("pointer"), pubRun)
    BY <1>3 DEF PointerVerify, Installed, At, Act
  <2>2. pubRun.mine # "pointer"
    BY DEF PubInv, Typed, RunRow, Natives
  <2> QED BY <2>1, <2>2, StepsOf, ReceiptStep
<1>4. CASE StageVerify
  BY <1>4, StepsOf, ReceiptStep DEF StageVerify, Installed, At, Act
<1> QED BY <1>1, <1>2, <1>3, <1>4

\* Effects on the disk: the copy and its name, the link, HEAD, the location log and the
\* unlinked download.
LEMMA EffectsKeep ==
  ASSUME PubInv,
         \/ InstallCopy \/ InstallRename \/ PointerLink \/ CommitRun \/ MetadataRun \/ ReleaseUnlink
  PROVE  PubInv'
<1>1. /\ pubRun.pc \in {"publish", "release"} /\ pubRun.pc \in OnFile
  BY DEF InstallCopy, InstallRename, Installing, PointerLink, Installed, CommitRun, Committing, MetadataRun,
         Cataloguing, ReleaseUnlink, Releasing, At, OnFile
<1>2. /\ F \in FileRow /\ FileOK(pubRun.cur, F)
      /\ pubRun.mine \in Natives => MineFits(pubRun.mine, F)
  BY <1>1, AtFile
<1>3. CASE InstallCopy
  <2> DEFINE q == [F EXCEPT !.temp = TRUE]
  <2>1. FileStep(q, pubRun) /\ q \in FileRow /\ FileOK(pubRun.cur, q)
    BY <1>2, <1>3 DEF InstallCopy, File, FileStep, FileRow, FileOK
  <2>2. q.phase = F.phase /\ q.act = F.act /\ q.adds = F.adds /\ q.path = F.path
    BY <1>2 DEF FileRow
  <2> HIDE DEF q
  <2> QED BY <1>1, <1>2, <2>1, <2>2, DiskStep DEF MineFits
<1>4. CASE InstallRename
  <2> DEFINE q == [F EXCEPT !.path = "bytes", !.temp = FALSE]
  <2>1. F.path = "none" /\ F.act["install"] = "PREPARED" /\ FileStep(q, pubRun)
    BY <1>4 DEF InstallRename, Installing, Act, File, FileStep
  <2>2. q \in FileRow /\ FileOK(pubRun.cur, q)
    BY <1>2, <2>1 DEF FileRow, FileOK
  <2>3. q.phase = F.phase /\ q.act = F.act /\ q.adds = F.adds /\ q.path = "bytes"
    BY <1>2 DEF FileRow
  <2> HIDE DEF q
  <2> QED BY <1>1, <2>1, <2>2, <2>3, DiskStep
<1>5. CASE PointerLink
  <2> DEFINE q == [F EXCEPT !.path = "pointer"]
  <2>1. ~Fill /\ F.path = "none" /\ F.act["pointer"] = "PREPARED" /\ F.phase = "PREPARED" /\ FileStep(q, pubRun)
    BY <1>5 DEF PointerLink, Installed, Act, File, FileStep
  <2>2. q \in FileRow /\ FileOK(pubRun.cur, q)
    BY <1>2, <2>1 DEF FileRow, FileOK
  <2>3. q.phase = F.phase /\ q.act = F.act /\ q.adds = F.adds
    BY <1>2 DEF FileRow
  <2>4. pubRun.mine # "setkey"
    BY <1>2, <2>1 DEF MineFits, Natives
  <2> HIDE DEF q
  <2> QED BY <1>1, <2>1, <2>2, <2>3, <2>4, DiskStep
<1>6. CASE CommitRun
  <2> DEFINE q == [F EXCEPT !.head = TRUE]
  <2>1. F.phase = "LOCAL_VERIFIED" /\ FileStep(q, pubRun)
    BY <1>6 DEF CommitRun, Committing, File, FileStep
  <2>2. q \in FileRow /\ FileOK(pubRun.cur, q)
    BY <1>2, <2>1 DEF FileRow, FileOK
  <2>3. q.phase = F.phase
    BY <1>2 DEF FileRow
  <2>4. pubRun.mine \notin Natives
    BY <1>2, <2>1 DEF MineFits
  <2> HIDE DEF q
  <2> QED BY <1>1, <2>1, <2>2, <2>3, <2>4, DiskStep
<1>7. CASE MetadataRun
  <2> DEFINE q == [F EXCEPT !.log = TRUE]
  <2>1. F.phase = "TREE_VERIFIED" /\ FileStep(q, pubRun)
    BY <1>7 DEF MetadataRun, Cataloguing, File, FileStep
  <2>2. q \in FileRow /\ FileOK(pubRun.cur, q)
    BY <1>2, <2>1 DEF FileRow, FileOK
  <2>3. q.phase = F.phase
    BY <1>2 DEF FileRow
  <2>4. pubRun.mine \notin Natives
    BY <1>2, <2>1 DEF MineFits
  <2> HIDE DEF q
  <2> QED BY <1>1, <2>1, <2>2, <2>3, <2>4, DiskStep
<1>8. CASE ReleaseUnlink
  <2> DEFINE q == [F EXCEPT !.staged = "none"]
  <2>1. pubRun.pc = "release" /\ F.act["release"] = "PREPARED" /\ FileStep(q, pubRun)
    BY <1>8 DEF ReleaseUnlink, Releasing, At, Act, File, FileStep
  <2>2. F.phase = "CATALOG_PUBLISHED"
    BY <1>1, <2>1, AtFile
  <2>3. q \in FileRow /\ FileOK(pubRun.cur, q)
    BY <1>2, <2>1, <2>2 DEF FileRow, FileOK
  <2>4. q.phase = F.phase
    BY <1>2 DEF FileRow
  <2>5. pubRun.mine \notin Natives
    BY <1>2, <2>2 DEF MineFits
  <2> HIDE DEF q
  <2> QED BY <1>1, <2>1, <2>3, <2>4, <2>5, DiskStep
<1> QED BY <1>3, <1>4, <1>5, <1>6, <1>7, <1>8


\* The native actions, by the process that prepared them: git annex add (also one that
\* fails half done), setkey, git add.
LEMMA NativesKeep ==
  ASSUME PubInv, AddRun \/ AddFails \/ SetkeyRun \/ StageRun
  PROVE  PubInv'
<1>1. pubRun.pc = "publish" /\ pubRun.pc \in OnFile /\ F.phase = "PREPARED" /\ F.act["install"] = "VERIFIED"
  BY DEF AddRun, AddFails, SetkeyRun, StageRun, Installed, At, Act, OnFile
<1>2. /\ F \in FileRow /\ FileOK(pubRun.cur, F) /\ Known.mine \notin Natives /\ Known \in {pubRun, Known}
      /\ pubRun.mine \in Natives => MineFits(pubRun.mine, F)
      /\ pubFile = [pubFile EXCEPT ![pubRun.cur] = F]
  BY <1>1, AtFile, RunRows
<1>3. CASE AddRun
  <2> DEFINE q == [F EXCEPT !.path = "pointer", !.obj = TRUE, !.index = TRUE, !.adds = @ + 1]
  <2>1. Fill /\ pubRun.mine = "add" /\ FileStep(q, Known)
    BY <1>3 DEF AddRun, File, FileStep
  <2>2. F.act["add"] = "PREPARED" /\ F.adds = 0
    BY <1>2, <2>1 DEF MineFits, Natives
  <2>4. /\ q.phase = F.phase /\ q.row = F.row /\ q.staged = F.staged /\ q.path = "pointer" /\ q.obj = TRUE /\ q.index = TRUE
        /\ q.head = F.head /\ q.log = F.log /\ q.base = F.base /\ q.act = F.act /\ q.adds = F.adds + 1
    BY <1>2 DEF FileRow
  <2>5. q \in FileRow
    <3>1. F.adds + 1 \in Nat
      BY <2>2
    <3> QED BY <1>2, <3>1 DEF FileRow
  <2> HIDE DEF q
  <2>3. FileOK(pubRun.cur, q)
    BY <1>1, <1>2, <2>1, <2>2, <2>4 DEF FileOK
  <2> QED BY <1>1, <1>2, <2>1, <2>3, <2>4, <2>5, DiskStep
<1>4. CASE AddFails
  <2> DEFINE q == [F EXCEPT !.path = "pointer", !.obj = TRUE, !.adds = @ + 1]
  <2>1. Fill /\ pubRun.mine = "add" /\ (FileStep(q, Known) \/ FileStep(F, Known))
    BY <1>4 DEF AddFails, FileStep
  <2>2. F.act["add"] = "PREPARED" /\ F.adds = 0
    BY <1>2, <2>1 DEF MineFits, Natives
  <2>4. /\ q.phase = F.phase /\ q.row = F.row /\ q.staged = F.staged /\ q.path = "pointer" /\ q.obj = TRUE /\ q.index = F.index
        /\ q.head = F.head /\ q.log = F.log /\ q.base = F.base /\ q.act = F.act /\ q.adds = F.adds + 1
    BY <1>2 DEF FileRow
  <2>5. q \in FileRow
    <3>1. F.adds + 1 \in Nat
      BY <2>2
    <3> QED BY <1>2, <3>1 DEF FileRow
  <2> HIDE DEF q
  <2>3. FileOK(pubRun.cur, q)
    BY <1>1, <1>2, <2>1, <2>2, <2>4 DEF FileOK
  <2>6. CASE FileStep(q, Known)
    BY <1>1, <1>2, <2>3, <2>4, <2>5, <2>6, DiskStep
  <2>7. CASE FileStep(F, Known)
    BY <1>1, <1>2, <2>7, DiskStep
  <2> QED BY <2>1, <2>6, <2>7
<1>5. CASE SetkeyRun
  <2> DEFINE q == [F EXCEPT !.path = "none", !.obj = TRUE, !.adds = @ + 1]
  <2>1. ~Fill /\ pubRun.mine = "setkey" /\ FileStep(q, Known)
    BY <1>5 DEF SetkeyRun, File, FileStep
  <2>2. F.act["setkey"] = "PREPARED" /\ F.adds = 0
    BY <1>2, <2>1 DEF MineFits, Natives
  <2>4. /\ q.phase = F.phase /\ q.row = F.row /\ q.staged = F.staged /\ q.path = "none" /\ q.obj = TRUE /\ q.index = F.index
        /\ q.head = F.head /\ q.log = F.log /\ q.base = F.base /\ q.act = F.act /\ q.adds = F.adds + 1
    BY <1>2 DEF FileRow
  <2>5. q \in FileRow
    <3>1. F.adds + 1 \in Nat
      BY <2>2
    <3> QED BY <1>2, <3>1 DEF FileRow
  <2> HIDE DEF q
  <2>3. FileOK(pubRun.cur, q)
    BY <1>1, <1>2, <2>1, <2>2, <2>4 DEF FileOK
  <2> QED BY <1>1, <1>2, <2>1, <2>3, <2>4, <2>5, DiskStep
<1>6. CASE StageRun
  <2> DEFINE q == [F EXCEPT !.index = TRUE]
  <2>1. FileStep(q, Known)
    BY <1>6 DEF StageRun, File, FileStep
  <2>2. q \in FileRow /\ FileOK(pubRun.cur, q)
    BY <1>1, <1>2 DEF FileRow, FileOK
  <2>3. q.phase = F.phase
    BY <1>2 DEF FileRow
  <2> HIDE DEF q
  <2> QED BY <1>1, <1>2, <2>1, <2>2, <2>3, DiskStep
<1> QED BY <1>3, <1>4, <1>5, <1>6

\* The phases: sealed, local bytes, committed tree, catalog.
LEMMA PhasesKeep ==
  ASSUME PubInv, PrepareFile \/ LocalVerify \/ TreeVerify \/ CatalogPublish
  PROVE  PubInv'
<1>1. pubRun.pc = "publish" /\ pubRun.pc \in OnFile
  BY DEF PrepareFile, LocalVerify, Installed, TreeVerify, Committing, CatalogPublish, Cataloguing, At, OnFile
<1>2. /\ F \in FileRow /\ FileOK(pubRun.cur, F) /\ pubRun \in RunRow /\ pubRun.cur \in PubFiles
      /\ pubRun.mine \in Natives => MineFits(pubRun.mine, F)
  BY <1>1, AtFile
<1>3. ASSUME NEW q \in FileRow, FileStep(q, pubRun), FileOK(pubRun.cur, q), pubRun.mine \notin Natives
      PROVE  PubInv'
  <2>1. StaysAt(q, pubRun)
    BY <1>1, <1>3 DEF StaysAt
  <2> QED BY <1>1, <1>2, <1>3, <2>1, FileKeeps
<1>4. CASE PrepareFile
  <2> DEFINE q == [F EXCEPT !.phase = "PREPARED", !.base = Heads]
  <2>1. F.phase = "absent" /\ FileStep(q, pubRun)
    BY <1>4 DEF PrepareFile, File, FileStep
  <2>2. Heads \in SUBSET PubFiles /\ pubRun.cur \notin Heads
    BY <1>2, <2>1 DEF Heads, FileOK, F
  <2> HIDE DEF Heads
  <2>3. q \in FileRow /\ FileOK(pubRun.cur, q)
    BY <1>2, <2>1, <2>2 DEF FileRow, FileOK, Phases
  <2>4. pubRun.mine \notin Natives
    BY <1>2, <2>1 DEF MineFits
  <2> HIDE DEF q
  <2> QED BY <1>3, <2>1, <2>3, <2>4
<1>5. CASE LocalVerify
  <2> DEFINE p == Verified(ToAdd)
             q == [p EXCEPT !.phase = "LOCAL_VERIFIED"]
  <2>1. /\ FileStep(q, pubRun) /\ F.phase = "PREPARED" /\ F.act["install"] = "VERIFIED" /\ ToAddDone
        /\ F.path = "pointer"
    BY <1>5 DEF LocalVerify, Installed, Act, BytesProven, File, FileStep
  <2>2. Wrote(F, ToAdd, "VERIFIED", p)
    BY Zenon DEF Wrote, Verified
  <2>3. ToAdd \in ActionSteps /\ "VERIFIED" \in Status
    BY StepsOf DEF ToAdd, Status
  <2> HIDE DEF p
  <2>4. /\ p \in FileRow /\ SameDisk(F, p) /\ p.act[ToAdd] = "VERIFIED"
        /\ \A t \in ActionSteps : t # ToAdd => p.act[t] = F.act[t]
    BY <1>2, <2>2, <2>3, ActPut
  <2>5. q \in FileRow /\ q.act = p.act /\ q.phase = "LOCAL_VERIFIED" /\ q.row = F.row /\ q.path = "pointer"
        /\ q.base = F.base /\ q.head = F.head /\ q.adds = F.adds /\ q.staged = F.staged
    BY <2>1, <2>4 DEF FileRow, SameDisk, Phases
  <2>6. CASE Fill
    <3>1. pubRun.mine \notin Natives
      BY <1>2, <2>1, <2>6 DEF MineFits, Natives, ToAddDone
    <3>2. ToAdd = "add" /\ F.act["add"] # "none"
      BY <2>1, <2>6 DEF ToAdd, ToAddDone, Act
    <3>3. FileOK(pubRun.cur, q)
      BY <1>2, <2>1, <2>4, <2>5, <2>6, <3>2, StepsOf DEF FileOK
    <3> HIDE DEF q
    <3> QED BY <1>3, <2>1, <2>5, <3>1, <3>3
  <2>7. CASE ~Fill
    <3>1. ToAdd = "stage" /\ F.act["stage"] = "VERIFIED"
      BY <2>1, <2>7 DEF ToAdd, ToAddDone, Act
    <3>2. F.act["pointer"] = "VERIFIED" /\ F.act["setkey"] = "VERIFIED"
      BY <1>2, <2>7, <3>1 DEF FileOK
    <3>3. pubRun.mine \notin Natives
      BY <1>2, <2>7, <3>1, <3>2 DEF MineFits, Natives
    <3>4. FileOK(pubRun.cur, q)
      BY <1>2, <2>1, <2>4, <2>5, <2>7, <3>1, <3>2, StepsOf DEF FileOK
    <3> HIDE DEF q
    <3> QED BY <1>3, <2>1, <2>5, <3>3, <3>4
  <2> QED BY <2>6, <2>7
<1>6. CASE TreeVerify
  <2> DEFINE p == Verified("commit")
             q == [p EXCEPT !.phase = "TREE_VERIFIED"]
  <2>1. FileStep(q, pubRun) /\ F.phase = "LOCAL_VERIFIED" /\ F.act["commit"] = "PREPARED"
    BY <1>6 DEF TreeVerify, Committing, Act, File, FileStep
  <2>2. Wrote(F, "commit", "VERIFIED", p) /\ "VERIFIED" \in Status
    BY Zenon DEF Wrote, Verified, Status
  <2> HIDE DEF p
  <2>3. /\ p \in FileRow /\ SameDisk(F, p) /\ p.act["commit"] = "VERIFIED"
        /\ \A t \in ActionSteps : t # "commit" => p.act[t] = F.act[t]
    BY <1>2, <2>2, StepsOf, ActPut
  <2>4. q \in FileRow /\ q.act = p.act /\ q.phase = "TREE_VERIFIED" /\ q.row = F.row /\ q.path = F.path
        /\ q.base = F.base /\ q.head = F.head /\ q.adds = F.adds /\ q.staged = F.staged
    BY <2>3 DEF FileRow, SameDisk, Phases
  <2>5. pubRun.mine \notin Natives
    BY <1>2, <2>1 DEF MineFits
  <2>6. FileOK(pubRun.cur, q)
    BY <1>2, <2>1, <2>3, <2>4, StepsOf DEF FileOK
  <2> HIDE DEF q
  <2> QED BY <1>3, <2>1, <2>4, <2>5, <2>6
<1>7. CASE CatalogPublish
  <2> DEFINE p == Verified("metadata")
             q == [p EXCEPT !.phase = "CATALOG_PUBLISHED", !.row = TRUE]
  <2>1. /\ FileStep(q, pubRun) /\ F.phase = "TREE_VERIFIED" /\ F.act["metadata"] = "PREPARED"
        /\ F.log /\ F.path = "pointer" /\ F.obj /\ CleanTree /\ Heads = F.base \cup {pubRun.cur}
    BY <1>7 DEF CatalogPublish, Cataloguing, Act, BytesProven, File, FileStep
  <2>2. Wrote(F, "metadata", "VERIFIED", p) /\ "VERIFIED" \in Status
    BY Zenon DEF Wrote, Verified, Status
  <2> HIDE DEF p
  <2>3. F.head /\ F.index
    BY <1>2, <2>1 DEF CleanTree, Heads, Indexed, F
  <2>4. /\ p \in FileRow /\ SameDisk(F, p) /\ p.act["metadata"] = "VERIFIED"
        /\ \A t \in ActionSteps : t # "metadata" => p.act[t] = F.act[t]
    BY <1>2, <2>2, StepsOf, ActPut
  <2>5. /\ q \in FileRow /\ q.act = p.act /\ q.phase = "CATALOG_PUBLISHED" /\ q.row = TRUE /\ q.path = F.path
        /\ q.base = F.base /\ q.head = F.head /\ q.adds = F.adds /\ q.staged = F.staged
        /\ q.obj = F.obj /\ q.index = F.index /\ q.log = F.log
    BY <2>4 DEF FileRow, SameDisk, Phases
  <2>6. pubRun.mine \notin Natives
    BY <1>2, <2>1 DEF MineFits
  <2>7. FileOK(pubRun.cur, q)
    <3>1. \A t \in ActionSteps : q.act[t] = IF t = "metadata" THEN "VERIFIED" ELSE F.act[t]
      BY <2>4, <2>5
    <3>2. q.path = "pointer" /\ q.obj /\ q.index /\ q.head /\ q.log
      BY <2>1, <2>3, <2>5
    <3>3. CASE Fill
      BY <1>2, <2>1, <2>5, <3>1, <3>2, <3>3, StepsOf DEF FileOK
    <3>4. CASE ~Fill
      BY <1>2, <2>1, <2>5, <3>1, <3>2, <3>4, StepsOf DEF FileOK
    <3> QED BY <3>3, <3>4
  <2> HIDE DEF q
  <2> QED BY <1>3, <2>1, <2>5, <2>6, <2>7
<1> QED BY <1>4, <1>5, <1>6, <1>7


\* The loop over the requests: acquisition and its failure, a file that is published already,
\* the end of publish, the end of the release.
LEMMA LoopKeeps ==
  ASSUME PubInv, Acquire \/ AcquireFails \/ ResumeFile \/ Published \/ ReleaseVerify
  PROVE  PubInv'
<1>1. pubRun.pc \in OnFile
  BY DEF Acquire, AcquireFails, ResumeFile, Published, ReleaseVerify, Releasing, At, OnFile
<1>2. /\ F \in FileRow /\ FileOK(pubRun.cur, F) /\ pubRun \in RunRow /\ pubRun.cur \in PubFiles
      /\ pubRun.mine \in Natives => pubRun.pc = "publish" /\ MineFits(pubRun.mine, F)
      /\ pubRun.pc \in {"acquire", "release"} => Fill
      /\ pubRun.pc = "release" => F.phase = "CATALOG_PUBLISHED"
      /\ pubFile = [pubFile EXCEPT ![pubRun.cur] = F]
  BY <1>1, AtFile
<1>3. AfterFile \in RunRow
  BY <1>2, AfterFileLeads DEF PubInv
<1>4. pubRun.pc \in {"acquire", "release"} \/ F.phase # "PREPARED" => pubRun.mine \notin Natives
  BY <1>2 DEF MineFits
<1>5. ASSUME NEW q \in FileRow, FileStep(q, AfterFile), FileOK(pubRun.cur, q), pubRun.mine \notin Natives,
             Fill /\ q.phase = "CATALOG_PUBLISHED" => q.act["release"] = "VERIFIED"
      PROVE  PubInv'
  BY <1>1, <1>3, <1>5, FileKeeps DEF GoesOn
<1>6. ASSUME NEW pc \in {"publish", "release"}, pc = "release" => Fill, NEW q \in FileRow,
             FileStep(q, [pubRun EXCEPT !.pc = pc]), FileOK(pubRun.cur, q), pubRun.mine \notin Natives,
             pc = "release" => q.phase = "CATALOG_PUBLISHED"
      PROVE  PubInv'
  <2> DEFINE run == [pubRun EXCEPT !.pc = pc]
  <2>1. run \in RunRow /\ run.pc = pc /\ run.cur = pubRun.cur /\ run.mine = pubRun.mine
    BY <1>2, RunRows DEF PubPcs
  <2>2. FileStep(q, run)
    BY <1>6
  <2> HIDE DEF run
  <2>3. StaysAt(q, run)
    BY <1>6, <2>1 DEF StaysAt
  <2> QED BY <1>1, <1>6, <2>1, <2>2, <2>3, FileKeeps
<1>7. CASE Acquire
  <2> DEFINE st == IF F.phase = "absent" \/ pubRun.cur \notin pubPlan.packed THEN "held" ELSE "other"
             q == [F EXCEPT !.staged = st]
  <2>1. pubRun.pc = "acquire" /\ F.phase # "CATALOG_PUBLISHED" /\ FileStep(q, [pubRun EXCEPT !.pc = "publish"])
    BY <1>7 DEF Acquire, At, File, FileStep
  <2>2. st \in {"held", "other"}
    OBVIOUS
  <2> HIDE DEF st
  <2>3. q \in FileRow /\ FileOK(pubRun.cur, q)
    BY <1>2, <2>1, <2>2 DEF FileRow, FileOK
  <2> HIDE DEF q
  <2> QED BY <1>4, <1>6, <2>1, <2>3
<1>8. CASE AcquireFails
  <2>1. pubRun.pc = "acquire" /\ F.phase # "CATALOG_PUBLISHED" /\ FileStep(F, AfterFile)
    BY <1>2, <1>8 DEF AcquireFails, At, FileStep, Disk
  <2> QED BY <1>2, <1>4, <1>5, <2>1
<1>9. CASE ResumeFile
  <2>1. /\ pubRun.pc = "acquire" /\ F.phase = "CATALOG_PUBLISHED"
        /\ \/ F.act["release"] = "VERIFIED" /\ FileStep(F, AfterFile)
           \/ FileStep(F, [pubRun EXCEPT !.pc = "release"])
    BY <1>9 DEF ResumeFile, At, Act, File, FileStep
  <2>2. CASE F.act["release"] = "VERIFIED" /\ FileStep(F, AfterFile)
    BY <1>2, <1>4, <1>5, <2>1, <2>2
  <2>3. CASE FileStep(F, [pubRun EXCEPT !.pc = "release"])
    BY <1>2, <1>4, <1>6, <2>1, <2>3
  <2> QED BY <2>1, <2>2, <2>3
<1>10. CASE Published
  <2>1. /\ F.phase = "CATALOG_PUBLISHED"
        /\ \/ Fill /\ FileStep(F, [pubRun EXCEPT !.pc = "release"])
           \/ ~Fill /\ FileStep(F, AfterFile)
    BY <1>10 DEF Published, File, FileStep
  <2>2. CASE Fill /\ FileStep(F, [pubRun EXCEPT !.pc = "release"])
    BY <1>2, <1>4, <1>6, <2>1, <2>2
  <2>3. CASE ~Fill /\ FileStep(F, AfterFile)
    BY <1>2, <1>4, <1>5, <2>1, <2>3
  <2> QED BY <2>1, <2>2, <2>3
<1>11. CASE ReleaseVerify
  <2> DEFINE q == Verified("release")
  <2>1. /\ pubRun.pc = "release" /\ F.act["release"] = "PREPARED" /\ F.staged = "none"
        /\ FileStep(q, AfterFile)
    BY <1>11 DEF ReleaseVerify, Releasing, At, Act, File, FileStep
  <2>2. Wrote(F, "release", "VERIFIED", q)
    BY Zenon DEF Wrote, Verified
  <2>3. Fill /\ F.phase = "CATALOG_PUBLISHED" /\ "release" \in ActionSteps
    BY <1>2, <2>1, StepsOf
  <2> HIDE DEF q
  <2>4. q \in FileRow /\ FileOK(pubRun.cur, q) /\ q.act["release"] = "VERIFIED"
    BY <1>2, <2>1, <2>2, <2>3, ReceiptKeeps
  <2> QED BY <1>4, <1>5, <2>1, <2>3, <2>4
<1> QED BY <1>7, <1>8, <1>9, <1>10, <1>11

-----------------------------------------------------------------------------
(* The steps that touch no file.                                           *)

\* No file changes, and what the process does next is not about a file: what was there of
\* the files stays right.
LEMMA ElsewhereKeeps ==
  ASSUME PubInv, pubPlan' = pubPlan, pubFile' = pubFile, pubOp' \in OpRow, pubSetup' \in SetupRow, pubMap' \in MapRow,
         pubRun' \in RunRow, pubRun'.mine \notin Natives, pubRun'.pc \notin OnFile \cup {"finish", "map"}
  PROVE  Typed' /\ FilesOK' /\ MineOK' /\ BehindOK'
<1>1. /\ Fill' = Fill /\ PubFiles' = PubFiles /\ OpRow' = OpRow /\ FileRow' = FileRow /\ RunRow' = RunRow
      /\ \A f, p : FileOK(f, p)' = FileOK(f, p)
  BY SamePlan
<1>2. SetupRow' = SetupRow /\ MapRow' = MapRow
  BY DEF SetupRow, MapRow
<1>3. Typed'
  BY <1>1, <1>2 DEF PubInv, Typed
<1>4. FilesOK'
  BY <1>1 DEF PubInv, FilesOK
<1>5. MineOK'
  BY DEF MineOK
<1>6. Behind' = {}
  BY DEF Behind
<1>7. BehindOK'
  BY <1>6 DEF BehindOK
<1> QED BY <1>3, <1>4, <1>5, <1>7


\* publication_policy_setup and the making of the staging directory.
LEMMA SetupStep ==
  ASSUME PubInv, pubRun.pc \in {"setup", "dir"}, NEW s \in SetupRow, NEW mine \in {"none", "policy", "dir"},
         Setup(s, mine), s.act = "PREPARED" => s.policies < 3, s.file # "before" => s.act = "PREPARED"
  PROVE  PubInv'
<1>1. /\ pubPlan' = pubPlan /\ pubFile' = pubFile /\ pubOp' = pubOp /\ pubSetup' = s /\ pubMap' = pubMap
      /\ pubRun' = [pubRun EXCEPT !.mine = mine]
  BY DEF Setup
<1>2. pubRun \in RunRow /\ pubOp \in OpRow /\ pubMap \in MapRow
  BY DEF PubInv, Typed
<1>3. pubRun' \in RunRow /\ pubRun'.pc = pubRun.pc /\ pubRun'.mine \notin Natives
  BY <1>1, <1>2 DEF RunRow, Natives
<1>4. Typed' /\ FilesOK' /\ MineOK' /\ BehindOK'
  BY <1>1, <1>2, <1>3, ElsewhereKeeps DEF OnFile
<1>5. Fill' = Fill /\ Participants' = Participants /\ ActionSteps' = ActionSteps /\ PubFiles' = PubFiles
  BY <1>1, SamePlan
<1>6. PlaceOK'
  BY <1>1, <1>3, <1>5 DEF PubInv, PlaceOK, At, OnFile, Working
<1>7. SetupOK' /\ MapOK' /\ DirtyOK'
  BY <1>1, <1>5 DEF PubInv, SetupOK, MapOK, DirtyOK
<1>8. ClosedIsWhole'
  BY <1>1, <1>2, <1>5 DEF PubInv, PlaceOK, Working, DirtyOK, ClosedIsWhole, At
<1> QED BY <1>4, <1>6, <1>7, <1>8 DEF PubInv

\* Intent, temporary, rename and receipt of each policy; intent and making of the directory.
LEMMA SetupKeeps ==
  ASSUME PubInv,
         \/ PolicyPrepare \/ PolicyCreate \/ PolicyWrite \/ PolicyRename \/ PolicyVerify
         \/ DirPrepare \/ DirMake
  PROVE  PubInv'
<1>1. pubSetup \in SetupRow /\ SetupOK
  BY DEF PubInv, Typed
<1>2. CASE PolicyPrepare
  BY <1>1, <1>2, SetupStep DEF PolicyPrepare, At, SetupRow, SetupOK
<1>3. CASE PolicyCreate
  BY <1>1, <1>3, SetupStep DEF PolicyCreate, At, SetupRow, SetupOK
<1>4. CASE PolicyWrite
  BY <1>1, <1>4, SetupStep DEF PolicyWrite, At, SetupRow, SetupOK
<1>5. CASE PolicyRename
  BY <1>1, <1>5, SetupStep DEF PolicyRename, At, SetupRow, SetupOK
<1>6. CASE PolicyVerify
  <2> DEFINE s == [pubSetup EXCEPT !.policies = @ + 1, !.act = "none", !.file = "before"]
  <2>1. pubRun.pc \in {"setup", "dir"} /\ Setup(s, "none") /\ pubSetup.policies < 3 /\ pubSetup.policies \in 0..3
    BY <1>1, <1>6 DEF PolicyVerify, At, SetupRow, SetupOK
  <2>2. pubSetup.policies + 1 \in 0..3
    BY <2>1
  <2>3. s \in SetupRow /\ s.act = "none" /\ s.file = "before"
    BY <1>1, <2>2 DEF SetupRow
  <2> HIDE DEF s
  <2> QED BY <2>1, <2>3, SetupStep
<1>7. CASE DirPrepare
  BY <1>1, <1>7, SetupStep DEF DirPrepare, At, SetupRow, SetupOK, Status
<1>8. CASE DirMake
  BY <1>1, <1>8, SetupStep DEF DirMake, At, SetupRow, SetupOK
<1> QED BY <1>2, <1>3, <1>4, <1>5, <1>6, <1>7, <1>8

\* The loop begins at the first file: nothing lies behind it.
LEMMA LoopBegins ==
  ASSUME PubInv, pubRun.pc \in {"setup", "dir"}, pubPlan' = pubPlan, pubFile' = pubFile, pubOp' = pubOp,
         pubSetup' \in SetupRow, SetupOK', pubMap' = pubMap,
         NEW r \in RunRow, r.pc = (IF Fill THEN "acquire" ELSE "publish"), r.cur = Min(PubFiles),
         r.mine \notin Natives, pubRun' = r
  PROVE  PubInv'
<1>1. pubOp \in OpRow /\ pubMap \in MapRow /\ pubPlan \in PubPlans
  BY DEF PubInv, Typed
<1>2. PubFiles # {} /\ \A g \in PubFiles : g \in Nat
  BY <1>1, PublicationPlans DEF PubFiles
<1>3. r.cur \in PubFiles /\ \A g \in PubFiles : r.cur <= g
  BY <1>2, MinIsLeast DEF PubInv
<1>4. /\ Fill' = Fill /\ PubFiles' = PubFiles /\ OpRow' = OpRow /\ FileRow' = FileRow /\ RunRow' = RunRow
      /\ Participants' = Participants /\ ActionSteps' = ActionSteps
      /\ \A f, p : FileOK(f, p)' = FileOK(f, p)
  BY SamePlan
<1>5. SetupRow' = SetupRow /\ MapRow' = MapRow
  BY DEF SetupRow, MapRow
<1>6. Typed'
  BY <1>1, <1>4, <1>5 DEF PubInv, Typed
<1>7. FilesOK'
  BY <1>4 DEF PubInv, FilesOK
<1>8. MineOK'
  BY DEF MineOK
<1>9. pubOp.state = "PREPARED"
  BY DEF PubInv, PlaceOK, Working
<1>10. PlaceOK'
  BY <1>3, <1>4, <1>9 DEF PlaceOK, At, OnFile, Working
<1>11. BehindOK'
  <2>1. Behind' = {g \in PubFiles : (r.pc \in OnFile /\ g < r.cur) \/ r.pc \in {"finish", "map"}}
    BY <1>4 DEF Behind
  <2>2. \A g \in PubFiles : ~(g < r.cur)
    BY <1>2, <1>3
  <2>3. Behind' = {}
    BY <2>1, <2>2
  <2> QED BY <2>3 DEF BehindOK
<1>12. MapOK' /\ DirtyOK'
  BY <1>4 DEF PubInv, MapOK, DirtyOK
<1>13. ClosedIsWhole'
  BY <1>4, <1>9 DEF PubInv, ClosedIsWhole, DirtyOK
<1> QED BY <1>6, <1>7, <1>8, <1>10, <1>11, <1>12, <1>13 DEF PubInv

\* The end of the setup, and the receipt of the staging directory, lead to the first file.
LEMMA BeginningsKeep ==
  ASSUME PubInv, SetupDone \/ DirVerify
  PROVE  PubInv'
<1>1. pubRun \in RunRow /\ pubSetup \in SetupRow /\ SetupOK /\ pubPlan \in PubPlans
  BY DEF PubInv, Typed
<1>2. pubRun.pc \in {"setup", "dir"} /\ pubRun.mine \notin Natives /\ pubOp.state = "PREPARED"
  BY DEF SetupDone, DirVerify, At, PubInv, MineOK, PlaceOK, Working
<1>3. PubFiles # {} /\ Min(PubFiles) \in PubFiles
  BY <1>1, PublicationPlans, MinIsLeast DEF PubFiles, PubInv
<1>4. /\ FirstFile \in RunRow /\ FirstFile.pc = (IF Fill THEN "acquire" ELSE "publish")
      /\ FirstFile.cur = Min(PubFiles) /\ FirstFile.mine = pubRun.mine
  BY <1>1, <1>3 DEF FirstFile, RunRow, PubPcs
<1>5. CASE SetupDone
  <2>1. /\ pubRun' = FirstFile \/ (Fill /\ pubRun' = [pubRun EXCEPT !.pc = "dir"])
        /\ pubPlan' = pubPlan /\ pubOp' = pubOp /\ pubSetup' = pubSetup /\ pubFile' = pubFile /\ pubMap' = pubMap
    BY <1>5 DEF SetupDone, Disk
  <2>2. SetupOK'
    BY <1>1, <2>1 DEF SetupOK
  <2>3. CASE pubRun' = FirstFile
    BY <1>1, <1>2, <1>4, <2>1, <2>2, <2>3, LoopBegins
  <2>4. CASE Fill /\ pubRun' = [pubRun EXCEPT !.pc = "dir"]
    <3>1. pubRun' \in RunRow /\ pubRun'.pc = "dir" /\ pubRun'.mine \notin Natives
      BY <1>1, <1>2, <2>4 DEF RunRow, PubPcs
    <3>2. pubOp \in OpRow /\ pubMap \in MapRow
      BY DEF PubInv, Typed
    <3>3. Typed' /\ FilesOK' /\ MineOK' /\ BehindOK'
      BY <1>1, <2>1, <3>1, <3>2, ElsewhereKeeps DEF OnFile
    <3>4. Fill' = Fill /\ Participants' = Participants /\ ActionSteps' = ActionSteps /\ PubFiles' = PubFiles
      BY <2>1, SamePlan
    <3>5. PlaceOK'
      BY <1>2, <2>1, <2>4, <3>1, <3>4 DEF PlaceOK, At, OnFile, Working
    <3>6. MapOK' /\ DirtyOK' /\ ClosedIsWhole'
      BY <1>2, <2>1, <3>4 DEF PubInv, MapOK, DirtyOK, ClosedIsWhole
    <3> QED BY <2>2, <3>3, <3>5, <3>6 DEF PubInv
  <2> QED BY <2>1, <2>3, <2>4
<1>6. CASE DirVerify
  <2> DEFINE r == [FirstFile EXCEPT !.mine = "none"]
  <2>1. /\ pubRun' = r /\ pubSetup' = [pubSetup EXCEPT !.dir = "VERIFIED"]
        /\ pubPlan' = pubPlan /\ pubOp' = pubOp /\ pubFile' = pubFile /\ pubMap' = pubMap
    BY <1>6 DEF DirVerify
  <2>2. pubSetup' \in SetupRow /\ SetupOK'
    BY <1>1, <2>1 DEF SetupRow, SetupOK, Status
  <2>3. /\ r \in RunRow /\ r.pc = (IF Fill THEN "acquire" ELSE "publish") /\ r.cur = Min(PubFiles)
        /\ r.mine \notin Natives
    BY <1>4 DEF RunRow, Natives
  <2> HIDE DEF r
  <2> QED BY <1>2, <2>1, <2>2, <2>3, LoopBegins
<1> QED BY <1>5, <1>6


\* The batch on the map: Finish, MapPrepare, MapRun, MapVerify and PropagateBatch.
LEMMA MapStep ==
  ASSUME PubInv, pubRun.pc \in {"finish", "map"}, Complete, NEW m \in MapRow, Batch(m, [pubRun EXCEPT !.pc = "map"]),
         m.act = "PREPARED" => m.step < 9, m.phase = "PROPAGATED" => m.step = 9
  PROVE  PubInv'
<1>1. /\ pubPlan' = pubPlan /\ pubFile' = pubFile /\ pubOp' = pubOp /\ pubSetup' = pubSetup /\ pubMap' = m
      /\ pubRun' = [pubRun EXCEPT !.pc = "map"]
  BY DEF Batch
<1>2. /\ pubRun \in RunRow /\ pubOp \in OpRow /\ pubSetup \in SetupRow /\ pubOp.state = "PREPARED"
      /\ pubRun.mine \notin Natives
  BY DEF PubInv, Typed, PlaceOK, Working, MineOK, At
<1>3. pubRun' \in RunRow /\ pubRun'.pc = "map" /\ pubRun'.mine \notin Natives
  BY <1>1, <1>2 DEF RunRow, PubPcs
<1>4. /\ Fill' = Fill /\ PubFiles' = PubFiles /\ OpRow' = OpRow /\ FileRow' = FileRow /\ RunRow' = RunRow
      /\ Participants' = Participants /\ ActionSteps' = ActionSteps
      /\ \A f, p : FileOK(f, p)' = FileOK(f, p)
  BY <1>1, SamePlan
<1>5. Typed'
  BY <1>1, <1>3, <1>4 DEF PubInv, Typed, SetupRow, MapRow
<1>6. FilesOK' /\ MineOK'
  BY <1>1, <1>3, <1>4 DEF PubInv, FilesOK, MineOK
<1>7. PlaceOK'
  BY <1>1, <1>2, <1>3, <1>4 DEF PlaceOK, At, OnFile, Working, Complete
<1>8. BehindOK'
  <2>1. Behind = PubFiles
    BY DEF Behind
  <2> QED BY <1>1, <1>4, <2>1 DEF PubInv, BehindOK, Behind
<1>9. SetupOK' /\ MapOK' /\ DirtyOK'
  BY <1>1, <1>4 DEF PubInv, SetupOK, MapOK, DirtyOK
<1>10. ClosedIsWhole'
  BY <1>1, <1>2, <1>4 DEF PubInv, ClosedIsWhole
<1> QED BY <1>5, <1>6, <1>7, <1>8, <1>9, <1>10 DEF PubInv

\* The steps of the batch; none begins before every file is published (_batch_rows).
LEMMA MapKeeps ==
  ASSUME PubInv, Finish \/ MapPrepare \/ MapRun \/ MapVerify \/ PropagateBatch
  PROVE  PubInv'
<1>1. pubRun \in RunRow /\ pubMap \in MapRow /\ MapOK /\ Len(MapSteps) = 8
  BY DEF PubInv, Typed, MapSteps
<1>2. pubRun.pc \in {"finish", "map"} /\ Complete
  BY DEF PubInv, PlaceOK, At, Finish, MapPrepare, MapRun, MapVerify, PropagateBatch
<1>3. pubRun.pc = "map" => pubRun = [pubRun EXCEPT !.pc = "map"]
  BY <1>1 DEF RunRow
<1>4. CASE Finish
  BY <1>1, <1>2, <1>4, MapStep DEF Finish, MapOK
<1>5. CASE MapPrepare
  <2> DEFINE m == [pubMap EXCEPT !.act = "PREPARED"]
  <2>1. Batch(m, [pubRun EXCEPT !.pc = "map"]) /\ pubMap.step <= 8
    BY <1>1, <1>3, <1>5 DEF MapPrepare, At
  <2>2. m \in MapRow /\ m.step = pubMap.step /\ m.phase = pubMap.phase /\ pubMap.step \in 1..9
    BY <1>1 DEF MapRow
  <2>3. m.step < 9 /\ (m.phase = "PROPAGATED" => m.step = 9)
    BY <1>1, <2>1, <2>2 DEF MapOK
  <2> HIDE DEF m
  <2> QED BY <1>2, <2>1, <2>2, <2>3, MapStep
<1>6. CASE MapRun
  <2> DEFINE m == [pubMap EXCEPT !.eff = "yes"]
  <2>1. Batch(m, [pubRun EXCEPT !.pc = "map"])
    BY <1>3, <1>6 DEF MapRun, At
  <2>2. m \in MapRow /\ m.step = pubMap.step /\ m.phase = pubMap.phase /\ m.act = pubMap.act
    BY <1>1 DEF MapRow
  <2> HIDE DEF m
  <2> QED BY <1>1, <1>2, <2>1, <2>2, MapStep DEF MapOK
<1>7. CASE MapVerify
  <2> DEFINE m == [pubMap EXCEPT !.step = @ + 1, !.act = "none", !.eff = "no"]
  <2>1. Batch(m, [pubRun EXCEPT !.pc = "map"]) /\ pubMap.act = "PREPARED"
    BY <1>3, <1>7 DEF MapVerify, At
  <2>2. pubMap.step \in 1..8 /\ pubMap.phase # "PROPAGATED"
    BY <1>1, <2>1 DEF MapOK, MapRow
  <2>3. pubMap.step + 1 \in 1..9
    BY <2>2
  <2>4. m \in MapRow /\ m.phase = pubMap.phase /\ m.act = "none"
    BY <1>1, <2>3 DEF MapRow
  <2> HIDE DEF m
  <2> QED BY <1>2, <2>1, <2>2, <2>4, MapStep
<1>8. CASE PropagateBatch
  <2> DEFINE m == [pubMap EXCEPT !.phase = "PROPAGATED"]
  <2>1. Batch(m, [pubRun EXCEPT !.pc = "map"]) /\ pubMap.step > 8
    BY <1>1, <1>3, <1>8 DEF PropagateBatch, At
  <2>2. m \in MapRow /\ m.step = pubMap.step /\ m.act = pubMap.act /\ pubMap.step \in 1..9
    BY <1>1 DEF MapRow
  <2>3. pubMap.step = 9
    BY <2>1, <2>2
  <2> HIDE DEF m
  <2> QED BY <1>1, <1>2, <2>1, <2>2, <2>3, MapStep DEF MapOK
<1> QED BY <1>4, <1>5, <1>6, <1>7, <1>8

\* The process ends: a refusal, a crash, a torn checkout.
LEMMA DownKeeps ==
  ASSUME PubInv, pubRun.pc \notin {"down", "closed"}, pubPlan' = pubPlan, pubFile' = pubFile, pubOp' = pubOp,
         pubSetup' = pubSetup, pubMap' \in MapRow, pubMap'.act = pubMap.act, pubMap'.phase = pubMap.phase,
         pubMap'.step = pubMap.step, Down
  PROVE  PubInv'
<1>1. pubRun \in RunRow /\ pubOp \in OpRow /\ pubSetup \in SetupRow /\ pubOp.state # "CLOSED"
  BY DEF PubInv, Typed, PlaceOK, At
<1>2. pubRun' \in RunRow /\ pubRun'.pc = "down" /\ pubRun'.mine \notin Natives
  BY <1>1 DEF Down, RunRow, PubPcs, Natives
<1>3. Typed' /\ FilesOK' /\ MineOK' /\ BehindOK'
  BY <1>1, <1>2, ElsewhereKeeps DEF OnFile
<1>4. Fill' = Fill /\ Participants' = Participants /\ ActionSteps' = ActionSteps /\ PubFiles' = PubFiles
  BY SamePlan
<1>5. PlaceOK'
  BY <1>1, <1>2 DEF PlaceOK, At, OnFile, Working
<1>6. SetupOK' /\ MapOK' /\ DirtyOK' /\ ClosedIsWhole'
  BY <1>1, <1>4 DEF PubInv, SetupOK, MapOK, DirtyOK, ClosedIsWhole
<1> QED BY <1>3, <1>5, <1>6 DEF PubInv

\* A refused resume, a crash or Stop, and a read-tree that dies.
LEMMA EndsKeep ==
  ASSUME PubInv, Refuse \/ PubCrash \/ CheckoutTorn
  PROVE  PubInv'
<1>1. pubMap \in MapRow
  BY DEF PubInv, Typed
<1>2. CASE Refuse
  BY <1>1, <1>2, DownKeeps DEF Refuse, Disk
<1>3. CASE PubCrash
  BY <1>1, <1>3, DownKeeps DEF PubCrash, Disk
<1>4. CASE CheckoutTorn
  <2>1. /\ pubMap' \in MapRow /\ pubMap'.act = pubMap.act /\ pubMap'.phase = pubMap.phase /\ pubMap'.step = pubMap.step
        /\ pubRun.pc = "map" /\ Down /\ pubPlan' = pubPlan /\ pubFile' = pubFile /\ pubOp' = pubOp /\ pubSetup' = pubSetup
    BY <1>1, <1>4 DEF CheckoutTorn, MapRow, At, Down
  <2> QED BY <2>1, DownKeeps
<1> QED BY <1>2, <1>3, <1>4


\* The operation's row: opened, prepared, taken up again, closed; and the world around it.
LEMMA OperationsKeep ==
  ASSUME PubInv, PrepareOperation \/ PubResume \/ \E owner \in {"cli", "session"} : PubEnter(owner)
  PROVE  PubInv'
<1>1. /\ pubRun \in RunRow /\ pubOp \in OpRow /\ pubSetup \in SetupRow /\ pubMap \in MapRow
      /\ pubRun.pc \in {"enter", "down"}
  BY DEF PubInv, Typed, PrepareOperation, PubResume, PubEnter, At
<1>2. pubRun.mine \notin Natives
  BY <1>1 DEF PubInv, MineOK, At
<1>3. pubPlan' = pubPlan /\ pubFile' = pubFile /\ pubSetup' = pubSetup
  BY DEF PrepareOperation, PubResume, PubEnter, Disk
<1>4. Fill' = Fill /\ Participants' = Participants /\ ActionSteps' = ActionSteps /\ PubFiles' = PubFiles
  BY <1>3, SamePlan
<1>5. SetupOK'
  BY <1>3 DEF PubInv, SetupOK
<1>6. CASE PrepareOperation
  <2>1. /\ pubOp' = [pubOp EXCEPT !.state = "PREPARED", !.dirty = Participants]
        /\ pubMap' = [pubMap EXCEPT !.phase = "PREPARED"] /\ pubRun' = [pubRun EXCEPT !.pc = "setup"]
    BY <1>6 DEF PrepareOperation, Go
  <2>2. pubOp' \in OpRow /\ pubOp'.state = "PREPARED" /\ pubOp'.dirty = Participants
    BY <1>1, <2>1 DEF OpRow
  <2>3. pubMap' \in MapRow /\ MapOK'
    BY <1>1, <2>1 DEF PubInv, MapRow, MapOK
  <2>4. pubRun' \in RunRow /\ pubRun'.pc = "setup" /\ pubRun'.mine \notin Natives
    BY <1>1, <1>2, <2>1 DEF RunRow, PubPcs
  <2>5. Typed' /\ FilesOK' /\ MineOK' /\ BehindOK'
    BY <1>1, <1>3, <2>2, <2>3, <2>4, ElsewhereKeeps DEF OnFile
  <2>6. PlaceOK'
    BY <2>2, <2>4 DEF PlaceOK, At, OnFile, Working
  <2>7. DirtyOK' /\ ClosedIsWhole'
    BY <1>4, <2>2 DEF DirtyOK, ClosedIsWhole
  <2> QED BY <1>5, <2>3, <2>5, <2>6, <2>7 DEF PubInv
<1>7. CASE PubResume
  <2>1. pubOp.state = "PREPARED" /\ pubOp' = pubOp /\ pubMap' = pubMap /\ pubRun' = [pubRun EXCEPT !.pc = "setup"]
    BY <1>7 DEF PubResume, Owned, Go, Disk
  <2>2. pubRun' \in RunRow /\ pubRun'.pc = "setup" /\ pubRun'.mine \notin Natives
    BY <1>1, <1>2, <2>1 DEF RunRow, PubPcs
  <2>3. Typed' /\ FilesOK' /\ MineOK' /\ BehindOK'
    BY <1>1, <1>3, <2>1, <2>2, ElsewhereKeeps DEF OnFile
  <2>4. PlaceOK'
    BY <2>1, <2>2 DEF PlaceOK, At, OnFile, Working
  <2>5. MapOK' /\ DirtyOK' /\ ClosedIsWhole'
    BY <1>4, <2>1 DEF PubInv, MapOK, DirtyOK, ClosedIsWhole
  <2> QED BY <1>5, <2>3, <2>4, <2>5 DEF PubInv
<1>8. CASE \E owner \in {"cli", "session"} : PubEnter(owner)
  <2>1. PICK owner \in {"cli", "session"} : PubEnter(owner)
    BY <1>8
  <2>2. /\ pubOp.state = "none" /\ pubOp' = [pubOp EXCEPT !.owner = owner, !.fresh = TRUE]
        /\ pubMap' = pubMap /\ pubRun' = [pubRun EXCEPT !.pc = "enter"]
    BY <2>1 DEF PubEnter, Go, Disk
  <2>3. pubOp' \in OpRow /\ pubOp'.state = "none" /\ pubOp'.dirty = pubOp.dirty
    BY <1>1, <2>2 DEF OpRow
  <2>4. pubRun' \in RunRow /\ pubRun'.pc = "enter" /\ pubRun'.mine \notin Natives
    BY <1>1, <1>2, <2>2 DEF RunRow, PubPcs
  <2>5. Typed' /\ FilesOK' /\ MineOK' /\ BehindOK'
    BY <1>1, <1>3, <2>2, <2>3, <2>4, ElsewhereKeeps DEF OnFile
  <2>6. PlaceOK'
    BY <2>3, <2>4 DEF PlaceOK, At, OnFile, Working
  <2>7. MapOK' /\ DirtyOK' /\ ClosedIsWhole'
    BY <1>4, <2>2, <2>3 DEF PubInv, MapOK, DirtyOK, ClosedIsWhole
  <2> QED BY <1>5, <2>5, <2>6, <2>7 DEF PubInv
<1> QED BY <1>6, <1>7, <1>8

\* Every action of every published file was prepared in its time: the receipts that a phase
\* promises, and for a Fill the release, which the loop left behind it.
LEMMA JournalWhole ==
  ASSUME PubInv, Complete, pubRun.pc = "map", NEW f \in PubFiles, NEW s \in ActionSteps
  PROVE  /\ pubFile[f].act[s] = "VERIFIED" /\ pubFile[f].row
         /\ Fill => pubFile[f].staged = "none"
<1>1. FileOK(f, pubFile[f]) /\ pubFile[f].phase = "CATALOG_PUBLISHED"
  BY DEF PubInv, FilesOK, Complete
<1>2. Fill => pubFile[f].act["release"] = "VERIFIED"
  BY <1>1 DEF PubInv, BehindOK, Behind
<1>3. CASE Fill
  BY <1>1, <1>2, <1>3 DEF FileOK, ActionSteps
<1>4. CASE ~Fill
  BY <1>1, <1>4 DEF FileOK, ActionSteps
<1> QED BY <1>3, <1>4

\* close_operation: the anchors are clean, and the journal behind them is whole.
LEMMA CloseKeeps ==
  ASSUME PubInv, CloseOperation
  PROVE  PubInv'
<1>1. /\ pubPlan' = pubPlan /\ pubFile' = pubFile /\ pubSetup' = pubSetup /\ pubMap' = pubMap
      /\ pubOp' = [pubOp EXCEPT !.state = "CLOSED", !.dirty = {}] /\ pubRun' = [pubRun EXCEPT !.pc = "closed"]
      /\ pubRun.pc = "map" /\ pubMap.phase = "PROPAGATED"
  BY DEF CloseOperation, At, Go, Disk
<1>2. /\ pubRun \in RunRow /\ pubOp \in OpRow /\ pubSetup \in SetupRow /\ pubMap \in MapRow
      /\ pubRun.mine \notin Natives /\ Complete
  BY <1>1 DEF PubInv, Typed, MineOK, PlaceOK, At
<1>3. pubOp' \in OpRow /\ pubOp'.state = "CLOSED" /\ pubOp'.dirty = {}
  BY <1>1, <1>2 DEF OpRow
<1>4. pubRun' \in RunRow /\ pubRun'.pc = "closed" /\ pubRun'.mine \notin Natives
  BY <1>1, <1>2 DEF RunRow, PubPcs
<1>5. Typed' /\ FilesOK' /\ MineOK' /\ BehindOK'
  BY <1>1, <1>2, <1>3, <1>4, ElsewhereKeeps DEF OnFile
<1>6. PlaceOK'
  BY <1>3, <1>4 DEF PlaceOK, At, OnFile, Working
<1>7. Fill' = Fill /\ Participants' = Participants /\ ActionSteps' = ActionSteps /\ PubFiles' = PubFiles
  BY <1>1, SamePlan
<1>8. SetupOK' /\ MapOK' /\ DirtyOK'
  BY <1>1, <1>3 DEF PubInv, SetupOK, MapOK, DirtyOK
<1>9. ClosedIsWhole'
  <2>1. \A f \in PubFiles : /\ pubFile[f].row /\ (Fill => pubFile[f].staged = "none")
                            /\ \A s \in ActionSteps : pubFile[f].act[s] = "VERIFIED"
    BY <1>1, <1>2, StepsOf, JournalWhole
  <2>2. pubMap.step > Len(MapSteps)
    BY <1>1 DEF PubInv, MapOK, MapSteps
  <2> QED BY <1>1, <1>3, <1>7, <2>1, <2>2 DEF ClosedIsWhole, MapSteps
<1> QED BY <1>5, <1>6, <1>8, <1>9 DEF PubInv

\* Another write to the planning graph.
LEMMA ForeignWriteKeeps ==
  ASSUME PubInv, ForeignWrite
  PROVE  PubInv'
<1>1. /\ pubPlan' = pubPlan /\ pubFile' = pubFile /\ pubSetup' = pubSetup /\ pubMap' = pubMap /\ pubRun' = pubRun
      /\ pubOp' = [pubOp EXCEPT !.fresh = FALSE]
  BY DEF ForeignWrite, Disk
<1>2. pubOp \in OpRow
  BY DEF PubInv, Typed
<1>3. pubOp' \in OpRow /\ pubOp'.state = pubOp.state /\ pubOp'.dirty = pubOp.dirty
  BY <1>1, <1>2 DEF OpRow
<1>4. /\ Fill' = Fill /\ PubFiles' = PubFiles /\ OpRow' = OpRow /\ FileRow' = FileRow /\ RunRow' = RunRow
      /\ Participants' = Participants /\ ActionSteps' = ActionSteps
      /\ \A f, p : FileOK(f, p)' = FileOK(f, p)
      /\ \A m, p : MineFits(m, p)' = MineFits(m, p)
  BY <1>1, SamePlan
<1>5. Typed'
  BY <1>1, <1>3, <1>4 DEF PubInv, Typed, SetupRow, MapRow
<1>6. FilesOK'
  BY <1>1, <1>4 DEF PubInv, FilesOK
<1>7. MineOK' /\ PlaceOK'
  BY <1>1, <1>3, <1>4 DEF PubInv, MineOK, PlaceOK, At, F, Complete, MineFits, OnFile, Working
<1>8. BehindOK' /\ SetupOK' /\ MapOK'
  BY <1>1, <1>4 DEF PubInv, BehindOK, Behind, SetupOK, MapOK
<1>9. DirtyOK' /\ ClosedIsWhole'
  BY <1>1, <1>3, <1>4 DEF PubInv, DirtyOK, ClosedIsWhole
<1> QED BY <1>5, <1>6, <1>7, <1>8, <1>9 DEF PubInv

\* Somebody else's file appears at a path where nothing was.
LEMMA ForeignPathKeeps ==
  ASSUME PubInv, NEW f \in PubFiles, ForeignPath(f)
  PROVE  PubInv'
<1> DEFINE q == [pubFile[f] EXCEPT !.path = "foreign"]
<1>1. /\ pubPlan' = pubPlan /\ pubSetup' = pubSetup /\ pubMap' = pubMap /\ pubRun' = pubRun /\ pubOp' = pubOp
      /\ pubFile' = [pubFile EXCEPT ![f] = q] /\ pubFile[f].path = "none" /\ pubOp.state # "CLOSED"
  BY DEF ForeignPath
<1>2. pubFile \in [PubFiles -> FileRow] /\ pubFile[f] \in FileRow /\ FileOK(f, pubFile[f])
  BY DEF PubInv, Typed, FilesOK
<1>3. q \in FileRow /\ FileOK(f, q)
  BY <1>1, <1>2 DEF FileRow, FileOK
<1>4. q.phase = pubFile[f].phase /\ q.act = pubFile[f].act /\ q.adds = pubFile[f].adds
  BY <1>2 DEF FileRow
<1> HIDE DEF q
<1>5. /\ pubFile' \in [PubFiles -> FileRow] /\ pubFile'[f] = q
      /\ \A g \in PubFiles \ {f} : pubFile'[g] = pubFile[g]
  BY <1>1, <1>2, <1>3
<1>6. \A g \in PubFiles : /\ pubFile'[g].phase = pubFile[g].phase /\ pubFile'[g].act = pubFile[g].act
                          /\ pubFile'[g].adds = pubFile[g].adds
  BY <1>4, <1>5
<1>7. /\ Fill' = Fill /\ PubFiles' = PubFiles /\ OpRow' = OpRow /\ FileRow' = FileRow /\ RunRow' = RunRow
      /\ Participants' = Participants /\ ActionSteps' = ActionSteps
      /\ \A g, p : FileOK(g, p)' = FileOK(g, p)
      /\ \A m, p : MineFits(m, p)' = MineFits(m, p)
  BY <1>1, SamePlan
<1>8. Typed'
  BY <1>1, <1>5, <1>7 DEF PubInv, Typed, SetupRow, MapRow
<1>9. FilesOK'
  BY <1>3, <1>5, <1>7 DEF PubInv, FilesOK
<1>10. MineOK'
  <2>1. ASSUME pubRun.mine \in Natives
        PROVE  At("publish") /\ MineFits(pubRun.mine, pubFile'[pubRun.cur])
    <3>1. At("publish") /\ pubRun.cur \in PubFiles /\ MineFits(pubRun.mine, pubFile[pubRun.cur])
      BY <2>1 DEF PubInv, MineOK, F, PlaceOK, At, OnFile
    <3>2. pubRun.cur = f => pubRun.mine # "setkey"
      BY <1>1, <3>1 DEF MineFits
    <3>3. MineFits(pubRun.mine, pubFile'[pubRun.cur])
      BY <1>5, <1>6, <3>1, <3>2 DEF MineFits
    <3> QED BY <3>1, <3>3
  <2> QED BY <1>1, <1>7, <2>1 DEF MineOK, At, F, MineFits
<1>11. PlaceOK'
  BY <1>1, <1>6, <1>7 DEF PubInv, PlaceOK, At, F, Complete, OnFile, Working
<1>12. BehindOK'
  BY <1>1, <1>6, <1>7 DEF PubInv, BehindOK, Behind
<1>13. SetupOK' /\ MapOK' /\ DirtyOK'
  BY <1>1, <1>7 DEF PubInv, SetupOK, MapOK, DirtyOK
<1>14. ClosedIsWhole'
  BY <1>1, <1>7 DEF PubInv, ClosedIsWhole
<1> QED BY <1>8, <1>9, <1>10, <1>11, <1>12, <1>13, <1>14 DEF PubInv


-----------------------------------------------------------------------------
(* The invariant holds.                                                    *)

\* Before the first process nothing is recorded and no file has been touched.
LEMMA PubInvInit ==
  ASSUME PubInit
  PROVE  PubInv
<1>1. NewFile \in FileRow /\ \A f \in PubFiles : FileOK(f, NewFile)
  <2>1. [s \in ActionSteps |-> "none"] \in [ActionSteps -> Status]
    BY DEF Status
  <2>2. NewFile \in FileRow
    BY <2>1 DEF NewFile, FileRow, Phases
  <2>3. \A s \in ActionSteps : NewFile.act[s] = "none"
    BY DEF NewFile
  <2>4. \A f \in PubFiles : FileOK(f, NewFile)
    BY <2>3, StepsOf DEF NewFile, FileOK
  <2> QED BY <2>2, <2>4
<1>2. pubFile \in [PubFiles -> FileRow] /\ FilesOK
  BY <1>1 DEF PubInit, FilesOK
<1>3. Typed
  BY <1>2 DEF PubInit, Typed, OpRow, SetupRow, MapRow, RunRow, PubPcs, Status
<1>4. MineOK /\ PlaceOK /\ BehindOK
  BY DEF PubInit, MineOK, Natives, PlaceOK, At, OnFile, Working, BehindOK, Behind
<1>5. SetupOK /\ MapOK /\ DirtyOK /\ ClosedIsWhole
  BY DEF PubInit, SetupOK, MapOK, DirtyOK, ClosedIsWhole
<1> QED BY <1>2, <1>3, <1>4, <1>5 DEF PubInv

\* A stuttering step keeps what does not speak of time.
LEMMA PubStutterKeeps ==
  ASSUME PubInv, UNCHANGED pubVars
  PROVE  PubInv'
<1>1. /\ pubPlan' = pubPlan /\ pubFile' = pubFile /\ pubSetup' = pubSetup /\ pubMap' = pubMap /\ pubRun' = pubRun
      /\ pubOp' = pubOp
  BY DEF pubVars
<1>2. /\ Fill' = Fill /\ PubFiles' = PubFiles /\ OpRow' = OpRow /\ FileRow' = FileRow /\ RunRow' = RunRow
      /\ Participants' = Participants /\ ActionSteps' = ActionSteps
      /\ \A f, p : FileOK(f, p)' = FileOK(f, p)
      /\ \A m, p : MineFits(m, p)' = MineFits(m, p)
  BY <1>1, SamePlan
<1>3. Typed' /\ FilesOK'
  BY <1>1, <1>2 DEF PubInv, Typed, SetupRow, MapRow, FilesOK
<1>4. MineOK' /\ PlaceOK' /\ BehindOK'
  BY <1>1, <1>2 DEF PubInv, MineOK, PlaceOK, At, F, Complete, MineFits, OnFile, Working, BehindOK, Behind
<1>5. SetupOK' /\ MapOK' /\ DirtyOK' /\ ClosedIsWhole'
  BY <1>1, <1>2 DEF PubInv, SetupOK, MapOK, DirtyOK, ClosedIsWhole
<1> QED BY <1>3, <1>4, <1>5 DEF PubInv

\* Every step of the publication and of the world around it.
LEMMA PubInvStep ==
  ASSUME PubInv, [PubNext]_pubVars
  PROVE  PubInv'
<1>1. CASE PubStep
  <2>1. CASE PrepareOperation
    BY <2>1, OperationsKeep
  <2>2. CASE \/ PolicyPrepare \/ PolicyCreate \/ PolicyWrite \/ PolicyRename \/ PolicyVerify
             \/ DirPrepare \/ DirMake
    BY <2>2, SetupKeeps
  <2>3. CASE SetupDone \/ DirVerify
    BY <2>3, BeginningsKeep
  <2>4. CASE Acquire \/ ResumeFile \/ Published \/ ReleaseVerify
    BY <2>4, LoopKeeps
  <2>5. CASE PrepareFile \/ LocalVerify \/ TreeVerify \/ CatalogPublish
    BY <2>5, PhasesKeep
  <2>6. CASE \/ InstallPrepare \/ AddPrepare \/ SetkeyPrepare \/ PointerPrepare \/ StagePrepare
             \/ CommitPrepare \/ MetadataPrepare \/ ReleasePrepare
    BY <2>6, IntentsKeep
  <2>7. CASE InstallVerify \/ SetkeyVerify \/ PointerVerify \/ StageVerify
    BY <2>7, ReceiptsKeep
  <2>8. CASE InstallCopy \/ InstallRename \/ PointerLink \/ CommitRun \/ MetadataRun \/ ReleaseUnlink
    BY <2>8, EffectsKeep
  <2>9. CASE AddRun \/ SetkeyRun \/ StageRun
    BY <2>9, NativesKeep
  <2>10. CASE Finish \/ MapPrepare \/ MapRun \/ MapVerify \/ PropagateBatch
    BY <2>10, MapKeeps
  <2>11. CASE CloseOperation
    BY <2>11, CloseKeeps
  <2>12. CASE Refuse
    BY <2>12, EndsKeep
  <2> QED BY <1>1, <2>1, <2>2, <2>3, <2>4, <2>5, <2>6, <2>7, <2>8, <2>9, <2>10, <2>11, <2>12 DEF PubStep
<1>2. CASE (\E owner \in {"cli", "session"} : PubEnter(owner)) \/ PubResume
  BY <1>2, OperationsKeep
<1>3. CASE AcquireFails
  BY <1>3, LoopKeeps
<1>4. CASE AddFails
  BY <1>4, NativesKeep
<1>5. CASE CheckoutTorn \/ PubCrash
  BY <1>5, EndsKeep
<1>6. CASE ForeignWrite
  BY <1>6, ForeignWriteKeeps
<1>7. CASE \E f \in PubFiles : ForeignPath(f)
  BY <1>7, ForeignPathKeeps
<1>8. CASE UNCHANGED pubVars
  BY <1>8, PubStutterKeeps
<1> QED BY <1>1, <1>2, <1>3, <1>4, <1>5, <1>6, <1>7, <1>8 DEF PubNext

\* The journal's promises (FileOK), the knowledge of the process and the order of the loop hold
\* at every step of a publication, however often it is interrupted.
THEOREM PublicationInvariant == PubSpec => []PubInv
<1>1. PubInit => PubInv
  BY PubInvInit
<1>2. PubInv /\ [PubNext]_pubVars => PubInv'
  BY PubInvStep
<1> QED BY <1>1, <1>2, PTL DEF PubSpec

\* CatalogIsArchive: a row of the archive stands for bytes on the drive that are committed and
\* known to git-annex, no native add runs twice, the participants are dirty until the closure,
\* and a closed operation has left nothing out, for every set of plans and every number of
\* crashes (archive_publisher.close_operation, publication_file_resume).
THEOREM CatalogStaysArchive == PubSpec => []CatalogIsArchive
<1>1. PubInv => CatalogIsArchive
  <2> SUFFICES ASSUME PubInv PROVE CatalogIsArchive
    OBVIOUS
  <2>1. \A f \in PubFiles : pubFile[f] \in FileRow /\ FileOK(f, pubFile[f])
    BY DEF PubInv, Typed, FilesOK
  <2>2. \A f \in PubFiles :
          /\ pubFile[f].phase \in Phases /\ pubFile[f].staged \in {"none", "held", "other"}
          /\ pubFile[f].path \in {"none", "bytes", "pointer", "foreign"}
          /\ pubFile[f].base \subseteq PubFiles \ {f} /\ pubFile[f].act \in [ActionSteps -> Status]
    BY <2>1 DEF FileRow, FileOK
  <2>3. PubTypeOK
    BY <2>2 DEF PubInv, Typed, PubTypeOK, OpRow, SetupRow, MapRow, RunRow, PubPcs, MapSteps, Status
  <2>4. RowIsProven /\ NativeAddOnce
    BY <2>1 DEF RowIsProven, NativeAddOnce, FileOK
  <2> QED BY <2>3, <2>4 DEF PubInv, CatalogIsArchive
<1> QED BY <1>1, PublicationInvariant, PTL


-----------------------------------------------------------------------------
(* What a step does to others' files, to the downloads and to the rows.    *)

\* From p to q: no row is written or taken back, what is foreign stays, and a download goes
\* only while the archive has the bytes and its row.
Gentle(p, q) ==
  /\ q.row = p.row
  /\ p.path = "foreign" => q.path = "foreign"
  /\ p.staged # "none" /\ q.staged = "none" => p.row /\ p.obj

AllGentle == \A f \in PubFiles : Gentle(pubFile[f], pubFile'[f])

\* Writing the journal is gentle.
LEMMA WroteGentle ==
  ASSUME NEW p \in FileRow, NEW s, NEW v, NEW q, Wrote(p, s, v, q)
  PROVE  Gentle(p, q)
<1> DEFINE a == [p.act EXCEPT ![s] = v]
<1>1. q = [p EXCEPT !.act = a]
  BY Zenon DEF Wrote
<1> HIDE DEF a
<1> QED BY <1>1 DEF Gentle, FileRow

\* A step that touches one file, gently.
LEMMA OneGentle ==
  ASSUME PubInv, NEW f \in PubFiles, NEW q, pubFile' = [pubFile EXCEPT ![f] = q], Gentle(pubFile[f], q)
  PROVE  AllGentle
BY DEF PubInv, Typed, AllGentle, Gentle

\* No other file.
LEMMA NoneGentle ==
  ASSUME pubFile' = pubFile
  PROVE  AllGentle
BY DEF AllGentle, Gentle

\* The journal's own steps.
LEMMA JournalGentle ==
  ASSUME PubInv, pubRun.pc \in OnFile, NEW s, NEW run, File(Prepared(s), run) \/ File(Verified(s), run)
  PROVE  AllGentle
<1>1. F \in FileRow /\ pubRun.cur \in PubFiles
  BY AtFile
<1>2. CASE File(Prepared(s), run)
  <2> DEFINE q == Prepared(s)
  <2>1. Wrote(F, s, "PREPARED", q)
    BY Zenon DEF Wrote, Prepared
  <2>2. pubFile' = [pubFile EXCEPT ![pubRun.cur] = q]
    BY <1>2 DEF File
  <2> HIDE DEF q
  <2>3. Gentle(F, q)
    BY <1>1, <2>1, WroteGentle
  <2> QED BY <1>1, <2>2, <2>3, OneGentle DEF F
<1>3. CASE File(Verified(s), run)
  <2> DEFINE q == Verified(s)
  <2>1. Wrote(F, s, "VERIFIED", q)
    BY Zenon DEF Wrote, Verified
  <2>2. pubFile' = [pubFile EXCEPT ![pubRun.cur] = q]
    BY <1>3 DEF File
  <2> HIDE DEF q
  <2>3. Gentle(F, q)
    BY <1>1, <2>1, WroteGentle
  <2> QED BY <1>1, <2>2, <2>3, OneGentle DEF F
<1> QED BY <1>2, <1>3

\* All intents, and the receipts that leave the phase.
LEMMA JournalStepsGentle ==
  ASSUME PubInv,
         \/ InstallPrepare \/ AddPrepare \/ SetkeyPrepare \/ PointerPrepare \/ StagePrepare
         \/ CommitPrepare \/ MetadataPrepare \/ ReleasePrepare
         \/ InstallVerify \/ SetkeyVerify \/ PointerVerify \/ StageVerify \/ ReleaseVerify
  PROVE  AllGentle
<1>1. CASE \/ InstallPrepare \/ AddPrepare \/ SetkeyPrepare \/ PointerPrepare \/ StagePrepare
           \/ CommitPrepare \/ MetadataPrepare \/ ReleasePrepare
  <2>1. pubRun.pc \in OnFile /\ \E s, run : File(Prepared(s), run)
    BY <1>1 DEF InstallPrepare, AddPrepare, SetkeyPrepare, PointerPrepare, StagePrepare, ReplicaPrepare, Installed,
                CommitPrepare, Committing, MetadataPrepare, Cataloguing, ReleasePrepare, Releasing, At, OnFile
  <2> QED BY <2>1, JournalGentle
<1>2. CASE InstallVerify \/ SetkeyVerify \/ PointerVerify \/ StageVerify \/ ReleaseVerify
  <2>1. pubRun.pc \in OnFile /\ \E s, run : File(Verified(s), run)
    BY <1>2 DEF InstallVerify, Installing, SetkeyVerify, PointerVerify, StageVerify, Installed, ReleaseVerify,
                Releasing, At, OnFile
  <2> QED BY <2>1, JournalGentle
<1> QED BY <1>1, <1>2

\* The steps with an effect at the file, and the loop.
LEMMA EffectsGentle ==
  ASSUME PubInv,
         \/ Acquire \/ ResumeFile \/ PrepareFile \/ InstallCopy \/ InstallRename \/ AddRun \/ AddFails
         \/ SetkeyRun \/ PointerLink \/ StageRun \/ LocalVerify \/ CommitRun \/ TreeVerify \/ MetadataRun
         \/ Published \/ ReleaseUnlink
  PROVE  AllGentle
<1>1. pubRun.pc \in OnFile
  BY DEF Acquire, ResumeFile, PrepareFile, InstallCopy, InstallRename, Installing, AddRun, AddFails, SetkeyRun, PointerLink,
         StageRun, LocalVerify, Installed, CommitRun, TreeVerify, Committing, MetadataRun, Cataloguing, Published,
         ReleaseUnlink, Releasing, At, OnFile
<1>2. /\ F \in FileRow /\ FileOK(pubRun.cur, F) /\ pubRun.cur \in PubFiles
      /\ pubRun.mine \in Natives => MineFits(pubRun.mine, F)
      /\ pubRun.pc = "release" => F.phase = "CATALOG_PUBLISHED"
      /\ pubFile = [pubFile EXCEPT ![pubRun.cur] = F]
  BY <1>1, AtFile
<1>3. ASSUME NEW q, pubFile' = [pubFile EXCEPT ![pubRun.cur] = q], Gentle(F, q)
      PROVE  AllGentle
  BY <1>2, <1>3, OneGentle DEF F
<1>4. CASE Acquire
  <2> DEFINE st == IF F.phase = "absent" \/ pubRun.cur \notin pubPlan.packed THEN "held" ELSE "other"
             q == [F EXCEPT !.staged = st]
  <2>1. pubFile' = [pubFile EXCEPT ![pubRun.cur] = q]
    BY <1>4 DEF Acquire, File
  <2>2. st # "none"
    OBVIOUS
  <2> HIDE DEF st
  <2>3. Gentle(F, q)
    BY <1>2, <2>2 DEF FileRow, Gentle
  <2> HIDE DEF q
  <2> QED BY <1>3, <2>1, <2>3
<1>5. CASE ResumeFile \/ Published
  <2>1. pubFile' = [pubFile EXCEPT ![pubRun.cur] = F]
    BY <1>5 DEF ResumeFile, Published, File
  <2> QED BY <1>2, <2>1, NoneGentle
<1>6. CASE PrepareFile
  <2>1. pubFile' = [pubFile EXCEPT ![pubRun.cur] = [F EXCEPT !.phase = "PREPARED", !.base = Heads]]
    BY <1>6 DEF PrepareFile, File
  <2>2. Gentle(F, [F EXCEPT !.phase = "PREPARED", !.base = Heads])
    BY <1>2 DEF FileRow, Gentle
  <2> QED BY <1>3, <2>1, <2>2
<1>7. CASE InstallCopy \/ InstallRename \/ PointerLink
  <2> DEFINE qs == {[F EXCEPT !.temp = TRUE], [F EXCEPT !.path = "bytes", !.temp = FALSE], [F EXCEPT !.path = "pointer"]}
  <2>1. F.path = "none" /\ \E q \in qs : pubFile' = [pubFile EXCEPT ![pubRun.cur] = q]
    BY <1>7 DEF InstallCopy, InstallRename, PointerLink, File
  <2>2. \A q \in qs : Gentle(F, q)
    BY <1>2, <2>1 DEF FileRow, Gentle
  <2> HIDE DEF qs
  <2> QED BY <1>3, <2>1, <2>2
<1>8. CASE AddRun \/ AddFails
  <2>1. Fill /\ F.act["install"] = "VERIFIED"
    BY <1>8 DEF AddRun, AddFails, Installed, Act
  <2>2. F.path \in {"bytes", "pointer"}
    BY <1>2, <2>1 DEF FileOK
  <2>3. \A q \in {F, [F EXCEPT !.path = "pointer", !.obj = TRUE, !.adds = @ + 1],
                  [F EXCEPT !.path = "pointer", !.obj = TRUE, !.index = TRUE, !.adds = @ + 1]} : Gentle(F, q)
    BY <1>2, <2>2 DEF FileRow, Gentle
  <2>4. \E q \in {F, [F EXCEPT !.path = "pointer", !.obj = TRUE, !.adds = @ + 1],
                  [F EXCEPT !.path = "pointer", !.obj = TRUE, !.index = TRUE, !.adds = @ + 1]} :
          pubFile' = [pubFile EXCEPT ![pubRun.cur] = q]
    BY <1>8 DEF AddRun, AddFails, File
  <2> QED BY <1>3, <2>3, <2>4
<1>9. CASE SetkeyRun
  <2>1. F.path = "bytes"
    BY <1>2, <1>9 DEF SetkeyRun, MineFits, Natives
  <2> DEFINE q == [F EXCEPT !.path = "none", !.obj = TRUE, !.adds = @ + 1]
  <2>2. pubFile' = [pubFile EXCEPT ![pubRun.cur] = q]
    BY <1>9 DEF SetkeyRun, File
  <2>3. Gentle(F, q)
    BY <1>2, <2>1 DEF FileRow, Gentle
  <2> HIDE DEF q
  <2> QED BY <1>3, <2>2, <2>3
<1>10. CASE StageRun \/ CommitRun \/ MetadataRun
  <2>1. \E q : pubFile' = [pubFile EXCEPT ![pubRun.cur] = q] /\ Gentle(F, q)
    BY <1>2, <1>10 DEF StageRun, CommitRun, MetadataRun, File, FileRow, Gentle
  <2> QED BY <1>3, <2>1
<1>11. CASE LocalVerify \/ TreeVerify
  <2>1. PICK s, phase : pubFile' = [pubFile EXCEPT ![pubRun.cur] = [Verified(s) EXCEPT !.phase = phase]]
    BY <1>11 DEF LocalVerify, TreeVerify, File
  <2> DEFINE p == Verified(s)
             q == [p EXCEPT !.phase = phase]
             a == [F.act EXCEPT ![s] = "VERIFIED"]
  <2>2. p = [F EXCEPT !.act = a]
    BY Zenon DEF Verified
  <2> HIDE DEF p, a
  <2>3. Gentle(F, q)
    BY <1>2, <2>2 DEF FileRow, Gentle
  <2>4. pubFile' = [pubFile EXCEPT ![pubRun.cur] = q]
    BY <2>1 DEF p
  <2> HIDE DEF q
  <2> QED BY <1>3, <2>3, <2>4
<1>12. CASE ReleaseUnlink
  <2>1. F.row /\ F.obj
    BY <1>2, <1>12 DEF ReleaseUnlink, Releasing, At, FileOK
  <2> DEFINE q == [F EXCEPT !.staged = "none"]
  <2>2. pubFile' = [pubFile EXCEPT ![pubRun.cur] = q]
    BY <1>12 DEF ReleaseUnlink, File
  <2>3. Gentle(F, q)
    BY <1>2, <2>1 DEF FileRow, Gentle
  <2> HIDE DEF q
  <2> QED BY <1>3, <2>2, <2>3
<1> QED BY <1>4, <1>5, <1>6, <1>7, <1>8, <1>9, <1>10, <1>11, <1>12


\* The catalog's compare and swap writes the row of the current file, and nothing else of
\* what Gentle names changes.
LEMMA CatalogWrites ==
  ASSUME PubInv, CatalogPublish
  PROVE  /\ pubRun.cur \in PubFiles /\ ~pubFile[pubRun.cur].row /\ pubFile'[pubRun.cur].row = TRUE
         /\ pubOp.state = "PREPARED"
         /\ \A f \in PubFiles : /\ f # pubRun.cur => pubFile'[f].row = pubFile[f].row
                                /\ pubFile'[f].path = pubFile[f].path /\ pubFile'[f].staged = pubFile[f].staged
<1>1. pubRun.pc \in OnFile
  BY DEF CatalogPublish, Cataloguing, At, OnFile
<1>2. /\ F \in FileRow /\ FileOK(pubRun.cur, F) /\ pubRun.cur \in PubFiles /\ F = pubFile[pubRun.cur]
      /\ pubFile \in [PubFiles -> FileRow] /\ pubOp.state = "PREPARED"
  BY <1>1, AtFile DEF F, PubInv, Typed, PlaceOK, OnFile, Working
<1> DEFINE a == [F.act EXCEPT !["metadata"] = "VERIFIED"]
           p == Verified("metadata")
           q == [p EXCEPT !.phase = "CATALOG_PUBLISHED", !.row = TRUE]
<1>3. p = [F EXCEPT !.act = a]
  BY Zenon DEF Verified
<1>4. pubFile' = [pubFile EXCEPT ![pubRun.cur] = q] /\ F.phase = "TREE_VERIFIED"
  BY DEF CatalogPublish, Cataloguing, File
<1> HIDE DEF p, a
<1>5. q.row = TRUE /\ q.path = F.path /\ q.staged = F.staged
  BY <1>2, <1>3 DEF FileRow
<1>6. ~F.row
  BY <1>2, <1>4 DEF FileOK
<1> HIDE DEF q
<1> QED BY <1>2, <1>4, <1>5, <1>6

\* All other steps are gentle.
LEMMA StepsAreGentle ==
  ASSUME PubInv, [PubNext]_pubVars, ~CatalogPublish
  PROVE  AllGentle
<1>1. CASE PubStep
  <2>1. CASE \/ PrepareOperation \/ PolicyPrepare \/ PolicyCreate \/ PolicyWrite \/ PolicyRename \/ PolicyVerify
             \/ SetupDone \/ DirPrepare \/ DirMake \/ DirVerify
             \/ Finish \/ MapPrepare \/ MapRun \/ MapVerify \/ PropagateBatch \/ CloseOperation \/ Refuse
    BY <2>1, NoneGentle DEF PrepareOperation, PolicyPrepare, PolicyCreate, PolicyWrite, PolicyRename, PolicyVerify, Setup,
       SetupDone, DirPrepare, DirMake, DirVerify, Finish, MapPrepare, MapRun, MapVerify, PropagateBatch, Batch,
       CloseOperation, Refuse, Disk
  <2>2. CASE \/ InstallPrepare \/ AddPrepare \/ SetkeyPrepare \/ PointerPrepare \/ StagePrepare
             \/ CommitPrepare \/ MetadataPrepare \/ ReleasePrepare
             \/ InstallVerify \/ SetkeyVerify \/ PointerVerify \/ StageVerify \/ ReleaseVerify
    BY <2>2, JournalStepsGentle
  <2>3. CASE \/ Acquire \/ ResumeFile \/ PrepareFile \/ InstallCopy \/ InstallRename \/ AddRun
             \/ SetkeyRun \/ PointerLink \/ StageRun \/ LocalVerify \/ CommitRun \/ TreeVerify \/ MetadataRun
             \/ Published \/ ReleaseUnlink
    BY <2>3, EffectsGentle
  <2> QED BY <1>1, <2>1, <2>2, <2>3 DEF PubStep
<1>2. CASE AddFails
  BY <1>2, EffectsGentle
<1>3. CASE \/ PubResume \/ AcquireFails \/ CheckoutTorn \/ PubCrash \/ ForeignWrite \/ UNCHANGED pubVars
           \/ \E owner \in {"cli", "session"} : PubEnter(owner)
  BY <1>3, NoneGentle DEF PubResume, AcquireFails, CheckoutTorn, PubCrash, ForeignWrite, pubVars, PubEnter, Disk
<1>4. CASE \E f \in PubFiles : ForeignPath(f)
  <2>1. PICK f \in PubFiles : ForeignPath(f)
    BY <1>4
  <2>2. pubFile' = [pubFile EXCEPT ![f] = [pubFile[f] EXCEPT !.path = "foreign"]]
    BY <2>1 DEF ForeignPath
  <2>3. Gentle(pubFile[f], [pubFile[f] EXCEPT !.path = "foreign"])
    BY DEF PubInv, Typed, FileRow, Gentle
  <2> QED BY <2>2, <2>3, OneGentle
<1> QED BY <1>1, <1>2, <1>3, <1>4 DEF PubNext

\* NothingLost: no step replaces what somebody else put at a path (rename_noreplace), and the
\* download goes only after its row, while the archive has the bytes (publication_staging._release).
THEOREM NothingIsLost == PubSpec => NothingLost
<1>1. ASSUME PubInv, [PubNext]_pubVars
      PROVE  /\ \A f \in PubFiles : pubFile[f].path = "foreign" => pubFile'[f].path = "foreign"
             /\ \A f \in PubFiles : pubFile[f].staged # "none" /\ pubFile'[f].staged = "none" =>
                                      pubFile[f].row /\ pubFile[f].obj
  <2>1. CASE CatalogPublish
    BY <1>1, <2>1, CatalogWrites
  <2>2. CASE ~CatalogPublish
    BY <1>1, <2>2, StepsAreGentle DEF AllGentle, Gentle
  <2> QED BY <2>1, <2>2
<1>2. PubInv /\ [PubNext]_pubVars =>
        [\A f \in PubFiles : pubFile[f].path = "foreign" => pubFile'[f].path = "foreign"]_pubVars
  BY <1>1
<1>3. PubInv /\ [PubNext]_pubVars =>
        [\A f \in PubFiles : pubFile[f].staged # "none" /\ pubFile'[f].staged = "none" =>
           pubFile[f].row /\ pubFile[f].obj]_pubVars
  BY <1>1
<1> QED BY <1>2, <1>3, PublicationInvariant, PTL DEF PubSpec, NothingLost, ForeignKept, StagedUntilArchived

-----------------------------------------------------------------------------
(* The publication implements ArchivePromise.                              *)

Rows == {f \in PubFiles : pubFile[f].row}
Shown == pubMap.step > RefsStep \/ (pubMap.step = RefsStep /\ pubMap.eff = "yes")

\* A gentle step shows the reader of the catalog no other rows.
LEMMA SameRows ==
  ASSUME AllGentle, pubPlan' = pubPlan
  PROVE  Rows' = Rows
<1>1. PubFiles' = PubFiles
  BY DEF PubFiles
<1> QED BY <1>1 DEF Rows, AllGentle, Gentle

\* What a reader does not see.
LEMMA Unseen ==
  ASSUME pubPlan' = pubPlan, Rows' = Rows, Shown' = Shown, pubOp'.dirty = pubOp.dirty, pubOp'.state = pubOp.state
  PROVE  UNCHANGED Promise!promiseVars
<1>1. PubFiles' = PubFiles
  BY DEF PubFiles
<1> QED BY <1>1 DEF Rows, Shown, Promise!promiseVars

\* Before the operation the catalog shows none of its files and the drives are clean.
LEMMA PromiseInitially ==
  ASSUME PubInit
  PROVE  Promise!PromiseInit
<1>1. \A f \in PubFiles : pubFile[f].row = FALSE
  BY DEF PubInit, NewFile
<1>2. Rows = {} /\ ~Shown /\ pubOp.dirty = {} /\ pubOp.state = "none"
  BY <1>1 DEF PubInit, Rows, Shown, RefsStep
<1> QED BY <1>2 DEF Promise!PromiseInit, Rows, Shown

\* Steps at the files, of the setup and of the process.
LEMMA PlainStep ==
  ASSUME PubInv, [PubNext]_pubVars,
         ~CatalogPublish, ~PrepareOperation, ~CloseOperation, ~MapRun, ~MapVerify, ~CheckoutTorn
  PROVE  UNCHANGED Promise!promiseVars
<1>1. Rows' = Rows /\ pubPlan' = pubPlan
  <2>1. pubPlan' = pubPlan
    BY DEF PubNext, PubStep, pubVars, PolicyPrepare, PolicyCreate, PolicyWrite, PolicyRename, PolicyVerify, Setup,
       SetupDone, DirPrepare, DirMake, DirVerify, Acquire, ResumeFile, PrepareFile, InstallPrepare, InstallCopy,
       InstallRename, InstallVerify, AddPrepare, AddRun, SetkeyPrepare, SetkeyRun, SetkeyVerify, PointerPrepare,
       PointerLink, PointerVerify, StagePrepare, StageRun, StageVerify, LocalVerify, CommitPrepare, CommitRun,
       TreeVerify, MetadataPrepare, MetadataRun, Published, ReleasePrepare, ReleaseUnlink, ReleaseVerify, File,
       Finish, MapPrepare, PropagateBatch, Batch, Refuse, PubEnter, PubResume, AcquireFails, AddFails, PubCrash,
       ForeignWrite, ForeignPath
  <2> QED BY <2>1, StepsAreGentle, SameRows
<1>2. pubOp'.dirty = pubOp.dirty /\ pubOp'.state = pubOp.state
  <2>1. pubOp \in OpRow
    BY DEF PubInv, Typed
  <2> QED
    BY <2>1 DEF OpRow, PubNext, PubStep, pubVars, PolicyPrepare, PolicyCreate, PolicyWrite, PolicyRename, PolicyVerify,
       Setup, SetupDone, DirPrepare, DirMake, DirVerify, Acquire, ResumeFile, PrepareFile, InstallPrepare, InstallCopy,
       InstallRename, InstallVerify, AddPrepare, AddRun, SetkeyPrepare, SetkeyRun, SetkeyVerify, PointerPrepare,
       PointerLink, PointerVerify, StagePrepare, StageRun, StageVerify, LocalVerify, CommitPrepare, CommitRun,
       TreeVerify, MetadataPrepare, MetadataRun, Published, ReleasePrepare, ReleaseUnlink, ReleaseVerify, File,
       Finish, MapPrepare, PropagateBatch, Batch, Refuse, PubEnter, PubResume, AcquireFails, AddFails, PubCrash,
       ForeignWrite, ForeignPath
<1>3. Shown' = Shown
  <2>1. pubMap \in MapRow
    BY DEF PubInv, Typed
  <2>2. pubMap'.step = pubMap.step /\ pubMap'.eff = pubMap.eff
    BY <2>1 DEF MapRow, PubNext, PubStep, pubVars, PolicyPrepare, PolicyCreate, PolicyWrite, PolicyRename, PolicyVerify,
       Setup, SetupDone, DirPrepare, DirMake, DirVerify, Acquire, ResumeFile, PrepareFile, InstallPrepare, InstallCopy,
       InstallRename, InstallVerify, AddPrepare, AddRun, SetkeyPrepare, SetkeyRun, SetkeyVerify, PointerPrepare,
       PointerLink, PointerVerify, StagePrepare, StageRun, StageVerify, LocalVerify, CommitPrepare, CommitRun,
       TreeVerify, MetadataPrepare, MetadataRun, Published, ReleasePrepare, ReleaseUnlink, ReleaseVerify, File,
       Finish, MapPrepare, PropagateBatch, Batch, Refuse, PubEnter, PubResume, AcquireFails, AddFails, PubCrash,
       ForeignWrite, ForeignPath, Disk
  <2> QED BY <2>2 DEF Shown
<1> QED BY <1>1, <1>2, <1>3, Unseen


\* The journal of the map: the refs move once, the other steps do not show.
LEMMA MapPromise ==
  ASSUME PubInv, MapRun \/ MapVerify \/ CheckoutTorn
  PROVE  [Promise!PromiseNext]_(Promise!promiseVars)
<1>1. /\ pubMap \in MapRow /\ pubMap.step \in 1..9 /\ Len(MapSteps) = 8 /\ RefsStep = 7
      /\ Complete /\ pubOp.state = "PREPARED" /\ pubOp.dirty = Participants
  BY DEF PubInv, Typed, MapRow, MapSteps, RefsStep, MapRun, MapVerify, CheckoutTorn, PlaceOK, Working, At, DirtyOK
<1>2. pubPlan' = pubPlan /\ pubOp' = pubOp /\ pubFile' = pubFile
  BY DEF MapRun, MapVerify, Batch, CheckoutTorn
<1>3. Rows' = Rows
  BY <1>2, NoneGentle, SameRows
<1>4. CASE MapRun /\ pubMap.step = 7
  <2>1. pubMap.eff # "yes" /\ pubMap' = [pubMap EXCEPT !.eff = "yes"]
    BY <1>4 DEF MapRun, Batch
  <2>2. ~Shown /\ Shown'
    BY <1>1, <1>4, <2>1 DEF Shown, MapRow
  <2>3. Rows = PubFiles
    BY <1>1 DEF Rows, Complete, PubInv, FilesOK, FileOK
  <2>4. PubFiles' = PubFiles
    BY <1>2 DEF PubFiles
  <2>5. Promise!ShowBatch
    BY <1>1, <1>2, <1>3, <2>2, <2>3, <2>4 DEF Promise!ShowBatch, Rows, Shown
  <2> QED BY <2>5 DEF Promise!PromiseNext
<1>5. CASE MapRun /\ pubMap.step # 7
  <2>1. pubMap' = [pubMap EXCEPT !.eff = "yes"]
    BY <1>5 DEF MapRun, Batch
  <2>2. pubMap'.step = pubMap.step
    BY <1>1, <2>1 DEF MapRow
  <2>3. Shown' = Shown
    BY <1>1, <1>5, <2>2 DEF Shown
  <2> QED BY <1>2, <1>3, <2>3, Unseen
<1>6. CASE MapVerify
  <2>1. /\ pubMap.eff = "yes" /\ pubMap.act = "PREPARED"
        /\ pubMap' = [pubMap EXCEPT !.step = @ + 1, !.act = "none", !.eff = "no"]
    BY <1>6 DEF MapVerify, Batch
  <2>2. pubMap'.step = pubMap.step + 1 /\ pubMap'.eff = "no"
    BY <1>1, <2>1 DEF MapRow
  <2>3. Shown' = Shown
    BY <1>1, <2>1, <2>2 DEF Shown
  <2> QED BY <1>2, <1>3, <2>3, Unseen
<1>7. CASE CheckoutTorn
  <2>1. pubMap.step = 8 /\ pubMap' = [pubMap EXCEPT !.eff = "partial"]
    BY <1>1, <1>7 DEF CheckoutTorn
  <2>2. pubMap'.step = 8
    BY <1>1, <2>1 DEF MapRow
  <2>3. Shown' = Shown
    BY <1>1, <2>1, <2>2 DEF Shown
  <2> QED BY <1>2, <1>3, <2>3, Unseen
<1> QED BY <1>4, <1>5, <1>6, <1>7

\* Opening the operation makes the participants dirty; the row of a file appears while they
\* are; closing it makes them clean, after the map has shown the batch.
LEMMA OperationPromise ==
  ASSUME PubInv, PrepareOperation \/ CatalogPublish \/ CloseOperation
  PROVE  Promise!PromiseNext
<1>1. pubOp \in OpRow /\ pubMap \in MapRow
  BY DEF PubInv, Typed
<1>2. pubPlan' = pubPlan /\ PubFiles' = PubFiles
  BY DEF PrepareOperation, CatalogPublish, File, CloseOperation, PubFiles
<1>3. Participants # {}
  BY DEF Participants
<1>4. CASE PrepareOperation
  <2>1. /\ pubOp.state = "none" /\ pubOp' = [pubOp EXCEPT !.state = "PREPARED", !.dirty = Participants]
        /\ pubMap' = [pubMap EXCEPT !.phase = "PREPARED"] /\ pubFile' = pubFile
    BY <1>4 DEF PrepareOperation, PubInv, PlaceOK
  <2>2. pubOp'.state = "PREPARED" /\ pubOp'.dirty # {}
    BY <1>1, <1>3, <2>1 DEF OpRow
  <2>3. Shown' = Shown
    BY <1>1, <2>1 DEF Shown, MapRow
  <2>4. Rows' = Rows
    BY <1>2, <2>1, NoneGentle, SameRows
  <2>5. Promise!Open
    BY <1>2, <2>1, <2>2, <2>3, <2>4 DEF Promise!Open, Rows, Shown
  <2> QED BY <2>5 DEF Promise!PromiseNext
<1>5. CASE CatalogPublish
  <2>0. PICK c : c = pubRun.cur
    OBVIOUS
  <2>1. c \in PubFiles \ Rows /\ pubOp.state = "PREPARED" /\ Rows' = Rows \cup {c}
    BY <1>2, <1>5, <2>0, CatalogWrites DEF Rows
  <2>2. pubMap' = pubMap /\ pubOp' = pubOp
    BY <1>5 DEF CatalogPublish, File
  <2>3. Promise!PublishFile(c)
    BY <1>2, <2>1, <2>2 DEF Promise!PublishFile, Rows
  <2> QED BY <2>1, <2>3 DEF Promise!PromiseNext, Rows
<1>6. CASE CloseOperation
  <2>1. /\ pubMap.phase = "PROPAGATED" /\ pubOp.state = "PREPARED" /\ pubMap' = pubMap /\ pubFile' = pubFile
        /\ pubOp' = [pubOp EXCEPT !.state = "CLOSED", !.dirty = {}]
    BY <1>6 DEF CloseOperation, Owned, Disk
  <2>2. pubOp'.state = "CLOSED" /\ pubOp'.dirty = {}
    BY <1>1, <2>1 DEF OpRow
  <2>3. Shown /\ Shown' = Shown
    BY <2>1 DEF Shown, PubInv, MapOK, RefsStep
  <2>4. Rows' = Rows
    BY <1>2, <2>1, NoneGentle, SameRows
  <2>5. Promise!Close
    BY <1>2, <2>1, <2>2, <2>3, <2>4 DEF Promise!Close, Rows, Shown
  <2> QED BY <2>5 DEF Promise!PromiseNext
<1> QED BY <1>4, <1>5, <1>6

\* Every step of the publication is one of the promise, or is not seen.
LEMMA PromiseStep ==
  ASSUME PubInv, [PubNext]_pubVars
  PROVE  [Promise!PromiseNext]_(Promise!promiseVars)
<1>1. CASE MapRun \/ MapVerify \/ CheckoutTorn
  BY <1>1, MapPromise
<1>2. CASE PrepareOperation \/ CatalogPublish \/ CloseOperation
  BY <1>2, OperationPromise
<1>3. CASE ~ (\/ MapRun \/ MapVerify \/ CheckoutTorn \/ PrepareOperation \/ CatalogPublish \/ CloseOperation)
  BY <1>3, PlainStep
<1> QED BY <1>1, <1>2, <1>3

\* The reader of catalog, map and anchors sees what ArchivePromise says: files one by one while
\* the drives are dirty, a batch on the map whole or not at all, and clean drives only when
\* everything was published (archive_publisher, publication_map).
THEOREM PublicationImplementsPromise == PubSpec => ImplementsPromise
BY PromiseInitially, PromiseStep, PublicationInvariant, PTL
DEF PubSpec, ImplementsPromise, Promise!PromiseSpec

=============================================================================

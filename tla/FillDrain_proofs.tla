-------------------------- MODULE FillDrain_proofs --------------------------
(***************************************************************************)
(* What a Fill reports is true, whatever interrupts it, and what it works  *)
(* from is what was approved: theorems about FillDrain for every           *)
(* projection and every bound, about Projection for every approval, and    *)
(* about Children, the processes that work for a Fill.                     *)
(*                                                                         *)
(* ReportsAreTrue is not inductive.  That a row written from hashed bytes  *)
(* stands for approved bytes rests on what the thread knows between two    *)
(* of its steps (StepKnows): at "store" the staged file was hashed, at     *)
(* "record" it is at its path, at "copied" the target has what the source  *)
(* has and no row yet.  Nobody else writes rows or bytes, so what it knows *)
(* stays true.  A published requirement stays complete because no step     *)
(* takes a satisfying row away.                                            *)
(*                                                                         *)
(* Nor is ProjectionSound.  PjRowsGrow tells the progress of a Fill from a *)
(* change by others, PjUntouched what nobody but others changes, and       *)
(* PjUnderWay that what a Fill has not left is done.                       *)
(*                                                                         *)
(* Of the children: EnKnows says what a process of Encoding knows of the   *)
(* file at each step; CdLedger that a decoder's parent never takes more    *)
(* than the child has, and CdTalk what is on the way between them.  A      *)
(* native command is contained because whoever a scan did not list was     *)
(* forked behind its back (Scanned), and because whoever lives hangs by    *)
(* living parents from one a scan finds (Parentage).                       *)
(***************************************************************************)
EXTENDS FillDrain, Projection, Children, WellFoundedInduction, TLAPS

\* What a batch has reported so far (fetch.run, run_replica_tasks).
OutRow == [stored : SUBSET Reqs, failed : SUBSET Reqs, gated : SUBSET Repos, refused : SUBSET Repos,
           retry : BOOLEAN, halt : {None, "stopped", "terminal", "throttled", "capacity", "unwritable"},
           copied : BOOLEAN, deferred : BOOLEAN]
\* The codes a session ends with.
EndCodes ==
  OrderlyCodes \cup
  {"HF_AUTH_INVALID", "DRIVE_UNAVAILABLE", "OPERATOR_STOP", "FETCH_TERMINAL", "DOWNLOAD_THROTTLED",
   "PLAN_CAPACITY_STOP", "DRIVE_UNWRITABLE", "FETCH_TASK_FAILED", "PROJECTION_REFRESH_FAILED",
   "REPLICA_KEY_FAILED", "SOURCE_UNAVAILABLE", "REPLICA_TASK_FAILED"}
\* The Fill thread (_drain_projection).
RunRow == [pc : Pcs, guided : BOOLEAN, first : BOOLEAN, pinned : Drives \cup {None},
           fetch : SUBSET Reqs, copy : SUBSET Reqs, todo : SUBSET Reqs, cur : Reqs \cup {None},
           files : SUBSET Files, staged : {"none", "good", "foreign"}, out : OutRow,
           attempts : [Reqs -> 0..1], hits : [Repos -> 0..2],
           dgated : SUBSET Repos, dcontent : SUBSET Repos, progress : BOOLEAN,
           published : SUBSET Reqs, state : {None} \cup Verdicts,
           code : {None} \cup EndCodes]

Typed ==
  /\ archived \in [Drives -> [Files -> Rows]] /\ bytes \in [Drives -> [Files -> Contents]]
  /\ mounted \subseteq Drives /\ gated \subseteq Repos /\ stop \in BOOLEAN
  /\ run \in RunRow

\* Where the thread stands.
FetchPcs == {"repo", "file", "verify", "store", "record", "prompt"}
FilePcs == {"file", "verify", "store", "record", "prompt"}
CopyPcs == {"replica", "copy", "copied"}
BatchPcs == FetchPcs \cup CopyPcs \cup {"await", "batch", "close", "fetched", "replicated"}

\* A batch has a drive; its tasks are fetched, or copied from a source.
BatchOK(r) ==
  /\ r.pc \in BatchPcs => r.pinned \in Drives
  /\ \A q \in r.copy : Task[q].source # None
  /\ r.pc \in CopyPcs => \A q \in r.todo : Task[q].source # None
  /\ r.pc \in FilePcs \cup {"copy", "copied"} => r.cur \in Reqs
  /\ r.pc \in {"copy", "copied"} => Task[r.cur].source \in Drives

\* A session has a verdict exactly when it has ended.
VerdictOK(r) ==
  /\ (r.state # None) <=> r.pc = "ended"
  /\ r.pc # "ended" => r.code = None

\* What the thread knows of rows and bytes between two of its steps.
StepKnows ==
  LET f == Min(run.files) IN
  /\ run.pc \in FilePcs => \A g \in run.files : archived[run.pinned][g] # "bad"
  /\ run.pc \in {"verify", "store", "record", "copied"} => run.files # {}
  /\ run.pc = "store" => run.staged = "good"
  /\ run.pc = "record" => bytes[run.pinned][f] = "good"
  /\ run.pc = "copied" => /\ archived[run.pinned][f] = "none"
                          /\ bytes[run.pinned][f] = bytes[Source][f]

\* What was published is proved by rows.
PublishedHasRows == \A r \in run.published : Missing(r) = {}

DrainInv ==
  /\ Typed
  /\ BatchOK(run)
  /\ VerdictOK(run)
  /\ StepKnows
  /\ RowsTellBytes
  /\ PublishedHasRows
  /\ FeasibleIsSafe

-----------------------------------------------------------------------------
(* Least elements and two-level tables                                     *)

\* The file and the task that come next (the order of the map) are among those left.
LEMMA MinIsIn ==
  ASSUME NEW S, S \subseteq Nat, S # {}
  PROVE  Min(S) \in S
<1>1. \E m \in S : \A f \in S : ~ (<<f, m>> \in OpToRel(<, Nat))
  BY NatLessThanWellFounded, WFMin
<1>2. PICK m \in S : \A f \in S : ~ (<<f, m>> \in OpToRel(<, Nat))
  BY <1>1
<1>3. \A f \in S : m <= f
  <2>1. SUFFICES ASSUME NEW f \in S PROVE m <= f
    OBVIOUS
  <2>2. f \in Nat /\ m \in Nat
    OBVIOUS
  <2>3. f < m => <<f, m>> \in OpToRel(<, Nat)
    BY <2>2 DEF OpToRel
  <2>4. ~ (f < m)
    BY <1>2, <2>3, Zenon
  <2> QED BY <2>2, <2>4
<1> QED BY <1>3 DEF Min

\* Table t after one entry was set: rows of the catalog, bytes of the drives.
Put(t, u, d, f, v) ==
  u = [e \in Drives |-> [g \in Files |-> IF e = d /\ g = f THEN v ELSE t[e][g]]]

\* An EXCEPT of two levels sets that entry.
LEMMA PutEntry ==
  ASSUME NEW S, NEW t \in [Drives -> [Files -> S]], NEW d \in Drives, NEW f \in Files, NEW v
  PROVE  Put(t, [t EXCEPT ![d][f] = v], d, f, v)
<1> DEFINE u == [t EXCEPT ![d][f] = v]
<1>1. u = [e \in Drives |-> IF e = d THEN [t[d] EXCEPT ![f] = v] ELSE t[e]]
  BY Zenon
<1>2. \A e \in Drives : t[e] = [g \in Files |-> t[e][g]]
  OBVIOUS
<1>3. [t[d] EXCEPT ![f] = v] = [g \in Files |-> IF g = f THEN v ELSE t[d][g]]
  BY <1>2
<1>4. \A e \in Drives : u[e] = [g \in Files |-> IF e = d /\ g = f THEN v ELSE t[e][g]]
  <2> SUFFICES ASSUME NEW e \in Drives PROVE u[e] = [g \in Files |-> IF e = d /\ g = f THEN v ELSE t[e][g]]
    OBVIOUS
  <2>1. CASE e = d
    BY <1>1, <1>3, <2>1
  <2>2. CASE e # d
    BY <1>1, <1>2, <2>2
  <2> QED BY <2>1, <2>2
<1> QED BY <1>1, <1>4 DEF Put

-----------------------------------------------------------------------------
(* What every step of the thread has to show                               *)

\* Requirements and files by number, and what the assumptions say of None.
LEMMA Names ==
  /\ Files \subseteq Nat /\ Reqs \subseteq Nat
  /\ \A r \in Reqs : Task[r].files \subseteq Files /\ Task[r].repo \in Repos
  /\ None \notin Drives /\ None \notin Verdicts /\ None \notin OrderlyCodes
BY DrainAssumption, DrainNames DEF Files, Repos

\* A thread that has not begun.
LEMMA NoRunTyped == NoRun \in RunRow
<1>1. NoOutcome \in OutRow
  BY DEF NoOutcome, OutRow
<1> QED BY <1>1 DEF NoRun, RunRow, Pcs

\* Work that is finished (Completed) has its rows; the rest is ready, waiting or parked.
LEMMA Finished ==
  /\ Completed \subseteq Reqs
  /\ \A r \in Completed : Missing(r) = {}
  /\ Remaining \subseteq Reqs
  /\ Remaining \subseteq Ready \cup Waiting \cup Parked
  /\ \A r \in Waiting : Task[r].source # None /\ ~SourceReady(r)
BY DEF Completed, Remaining, Ready, Waiting, Parked, Schedule

\* A step of the thread that changes no row and no bytes.
LEMMA ThreadKeeps ==
  ASSUME DrainInv, archived' = archived, bytes' = bytes, mounted' \subseteq Drives, gated' \subseteq Repos,
         stop' \in BOOLEAN,
         run' \in RunRow, BatchOK(run'), VerdictOK(run'), run'.code = None, StepKnows',
         \A q \in run'.published : q \in run.published \cup Completed
  PROVE  DrainInv'
<1>1. Typed'
  BY DEF DrainInv, Typed
<1>2. RowsTellBytes'
  BY DEF DrainInv, RowsTellBytes
<1>3. PublishedHasRows'
  BY Finished DEF DrainInv, PublishedHasRows, Missing, Satisfies
<1>4. FeasibleIsSafe'
  BY Names DEF FeasibleIsSafe
<1>5. BatchOK(run)' /\ VerdictOK(run)'
  BY DEF BatchOK, VerdictOK
<1> QED BY <1>1, <1>2, <1>3, <1>4, <1>5 DEF DrainInv

\* The verdict of a session (_terminal): a code that reports completion is earned.
LEMMA EndKeeps ==
  ASSUME DrainInv, archived' = archived, bytes' = bytes, mounted' = mounted, gated' = gated, stop' = stop,
         NEW s \in Verdicts, NEW c \in EndCodes, End(s, c),
         c \in OrderlyCodes => Ready = {},
         c \in {"PLAN_SATISFIED"} => Parked = {} /\ Waiting = {}
  PROVE  DrainInv'
<1> DEFINE r == [NoRun EXCEPT !.pc = "ended", !.state = s, !.code = c, !.published = Completed,
                       !.dgated = run.dgated, !.dcontent = run.dcontent]
<1>1. run' = r
  BY DEF End
<1>2. r \in RunRow /\ r.pc = "ended" /\ r.state = s /\ r.code = c /\ r.published = Completed
      /\ r.dgated = run.dgated /\ r.dcontent = run.dcontent /\ r.copy = {}
  <2>1. run.dgated \in SUBSET Repos /\ run.dcontent \in SUBSET Repos
    BY DEF DrainInv, Typed, RunRow
  <2>2. NoRun.copy = {}
    BY DEF NoRun
  <2> QED BY <2>1, <2>2, NoRunTyped, Finished DEF RunRow, Pcs
<1> HIDE DEF r
<1>3. Typed'
  BY <1>1, <1>2 DEF DrainInv, Typed
<1>4. RowsTellBytes'
  BY DEF DrainInv, RowsTellBytes
<1>5. PublishedHasRows'
  BY <1>1, <1>2, Finished DEF PublishedHasRows, Missing, Satisfies
<1>6. BatchOK(run)' /\ VerdictOK(run)'
  BY <1>1, <1>2, Names DEF BatchOK, VerdictOK, BatchPcs, FetchPcs, CopyPcs, FilePcs
<1>7. StepKnows'
  BY <1>1, <1>2 DEF StepKnows, FilePcs
<1>8. FeasibleIsSafe'
  <2> SUFFICES ASSUME c \in OrderlyCodes, NEW q \in Reqs
               PROVE  \/ \A f \in Task[q].files : Kept(Task[q].target, f)'
                      \/ c # "PLAN_SATISFIED" /\ (Deferred(q)' \/ (Task[q].source # None /\ ~SourceReady(q)'))
    BY <1>1, <1>2 DEF FeasibleIsSafe
  <2>1. Task[q].target \in Drives /\ Task[q].files \subseteq Files
    BY DrainAssumption, Names
  <2>2. CASE Missing(q) = {}
    BY <2>1, <2>2 DEF Missing, Satisfies, Kept, DrainInv, RowsTellBytes
  <2>3. CASE Missing(q) # {}
    <3>1. q \in Parked \cup Waiting
      BY <2>3, Finished DEF Completed
    <3>2. c # "PLAN_SATISFIED"
      BY <3>1
    <3>3. CASE q \in Parked
      BY <3>2, <3>3, <1>1, <1>2 DEF Parked, Deferred
    <3>4. CASE q \in Waiting
      BY <3>2, <3>4, Finished DEF SourceReady, Satisfies
    <3> QED BY <3>1, <3>3, <3>4
  <2> QED BY <2>2, <2>3
<1> QED BY <1>3, <1>4, <1>5, <1>6, <1>7, <1>8 DEF DrainInv

-----------------------------------------------------------------------------
(* The drain loop                                                          *)

\* A session that ends with any code but those that report completion.
LEMMA RefusalKeeps ==
  ASSUME DrainInv, UNCHANGED World, NEW s \in Verdicts, NEW c \in EndCodes \ OrderlyCodes, End(s, c)
  PROVE  DrainInv'
BY EndKeeps DEF World, OrderlyCodes

\* Refusals and a Stop at the boundary, and the orderly ends (fill._terminal).
LEMMA LoopEndsKeep ==
  ASSUME DrainInv, AuthInvalid \/ DriveUnavailable \/ StopAtBoundary \/ Drained
  PROVE  DrainInv'
<1>1. CASE AuthInvalid
  BY <1>1, RefusalKeeps DEF AuthInvalid, EndCodes, OrderlyCodes, Verdicts
<1>2. CASE DriveUnavailable
  BY <1>2, RefusalKeeps DEF DriveUnavailable, EndCodes, OrderlyCodes, Verdicts
<1>3. CASE StopAtBoundary
  BY <1>3, RefusalKeeps DEF StopAtBoundary, EndCodes, OrderlyCodes, Verdicts
<1>4. CASE Drained
  <2>1. UNCHANGED World /\ Ready = {}
    BY <1>4 DEF Drained
  <2>2. CASE End("done", "PLAN_COMPLETE_WITH_FOLLOWUPS")
    BY <2>1, <2>2, EndKeeps DEF World, EndCodes, OrderlyCodes, Verdicts
  <2>3. CASE End("paused", "WAITING_DEPENDENCY")
    BY <2>1, <2>3, EndKeeps DEF World, EndCodes, OrderlyCodes, Verdicts
  <2>4. CASE End("done", "PLAN_SATISFIED") /\ Parked = {} /\ Waiting = {}
    BY <2>1, <2>4, EndKeeps DEF World, EndCodes, OrderlyCodes, Verdicts
  <2> QED BY <1>4, <2>2, <2>3, <2>4 DEF Drained
<1> QED BY <1>1, <1>2, <1>3, <1>4

\* PinBatch: a batch on one drive, its tasks sorted by what they need.
LEMMA PinKeeps ==
  ASSUME DrainInv, PinBatch
  PROVE  DrainInv'
<1> DEFINE labels == {Task[r].target : r \in Ready}
           drive == IF run.pinned \in labels THEN run.pinned
                    ELSE Task[Min({r \in Remaining : Task[r].target \in labels})].target
           batch == {r \in Ready : Task[r].target = drive}
           fetch == {r \in batch : Task[r].source = None}
           copy == {r \in batch : Task[r].source # None}
           new == [run EXCEPT !.pc = "await", !.first = FALSE, !.pinned = drive,
                        !.published = Completed, !.out = NoOutcome, !.fetch = fetch, !.copy = copy]
<1>1. run' = new /\ UNCHANGED World /\ Ready # {} /\ run.pc = "loop"
  BY DEF PinBatch
<1>2. Ready \subseteq Remaining /\ Remaining \subseteq Reqs
  BY DEF Ready, Remaining
<1>3. drive \in Drives
  <2>1. CASE run.pinned \in labels
    BY <2>1, <1>2, DrainAssumption
  <2>2. CASE run.pinned \notin labels
    <3>1. {r \in Remaining : Task[r].target \in labels} # {}
      BY <1>1, <1>2
    <3>2. {r \in Remaining : Task[r].target \in labels} \subseteq Nat
      BY <1>2, Names
    <3>3. Min({r \in Remaining : Task[r].target \in labels}) \in Reqs
      BY <3>1, <3>2, <1>2, MinIsIn
    <3> QED BY <2>2, <3>3, DrainAssumption
  <2> QED BY <2>1, <2>2
<1>4. fetch \in SUBSET Reqs /\ copy \in SUBSET Reqs /\ \A q \in copy : Task[q].source # None
  BY <1>2
<1> HIDE DEF drive, fetch, copy
<1>5. run \in RunRow /\ run.code = None /\ run.state = None
  BY <1>1 DEF DrainInv, Typed, VerdictOK
<1>6. NoOutcome \in OutRow /\ Completed \in SUBSET Reqs
  BY Finished DEF NoOutcome, OutRow
<1>7. new \in RunRow /\ new.pc = "await" /\ new.pinned = drive /\ new.copy = copy /\ new.published = Completed
      /\ new.code = None /\ new.state = None
  BY <1>3, <1>4, <1>5, <1>6 DEF RunRow, Pcs
<1> HIDE DEF new
<1>8. BatchOK(new) /\ VerdictOK(new)
  BY <1>3, <1>4, <1>7 DEF BatchOK, VerdictOK, FilePcs, CopyPcs
<1>9. StepKnows'
  BY <1>1, <1>7 DEF StepKnows, FilePcs
<1> QED BY <1>1, <1>7, <1>8, <1>9, ThreadKeeps DEF World, DrainInv, Typed

\* AwaitDrive.
LEMMA AwaitKeeps ==
  ASSUME DrainInv, AwaitDrive
  PROVE  DrainInv'
<1> DEFINE new == [run EXCEPT !.pc = "batch"]
<1>1. run' = new /\ UNCHANGED World /\ run.pc = "await" /\ run \in RunRow
  BY DEF AwaitDrive, DrainInv, Typed
<1>2. new \in RunRow /\ new.pc = "batch" /\ new.pinned = run.pinned /\ new.copy = run.copy
      /\ new.published = run.published /\ new.code = run.code /\ new.state = run.state
  BY <1>1 DEF RunRow, Pcs
<1> HIDE DEF new
<1>3. BatchOK(new) /\ VerdictOK(new) /\ new.code = None
  BY <1>1, <1>2 DEF DrainInv, BatchOK, VerdictOK, BatchPcs, FetchPcs, FilePcs, CopyPcs
<1>4. StepKnows'
  BY <1>1, <1>2 DEF StepKnows, FilePcs
<1> QED BY <1>1, <1>2, <1>3, <1>4, ThreadKeeps DEF World, DrainInv, Typed

-----------------------------------------------------------------------------
(* fetch.run                                                               *)

\* What a step inside a batch leaves alone: its drive, its copies, what was published.
Inside(r, q) ==
  /\ q.pinned = r.pinned /\ q.copy = r.copy /\ q.published = r.published
  /\ q.code = r.code /\ q.state = r.state

\* A step inside a batch that changes no row and no bytes.
LEMMA InsideKeeps ==
  ASSUME DrainInv, archived' = archived, bytes' = bytes, mounted' = mounted, gated' = gated, stop' = stop,
         run.pc \in BatchPcs, run' \in RunRow, run'.pc \in BatchPcs, Inside(run, run'),
         run'.pc \in FilePcs \cup {"copy", "copied"} => run'.cur \in Reqs,
         run'.pc \in CopyPcs => \A q \in run'.todo : Task[q].source # None,
         run'.pc \in {"copy", "copied"} => Task[run'.cur].source \in Drives,
         StepKnows'
  PROVE  DrainInv'
<1>1. BatchOK(run') /\ VerdictOK(run') /\ run'.code = None
  BY DEF DrainInv, BatchOK, VerdictOK, Inside, BatchPcs, FetchPcs, CopyPcs, FilePcs
<1>2. run'.published = run.published
  BY DEF Inside
<1> QED BY <1>1, <1>2, ThreadKeeps DEF DrainInv, Typed

\* The same for a step after which the thread knows nothing in particular.
LEMMA PlainKeeps ==
  ASSUME DrainInv, UNCHANGED <<archived, bytes, mounted, gated, stop>>,
         run.pc \in BatchPcs, run' \in RunRow, Inside(run, run'),
         run'.pc \in {"repo", "prompt", "close", "fetched", "replica", "replicated"},
         run'.pc = "prompt" => run'.cur \in Reqs /\ \A g \in run'.files : archived[run.pinned][g] # "bad",
         run'.pc = "replica" => \A q \in run'.todo : Task[q].source # None
  PROVE  DrainInv'
<1>1. StepKnows'
  BY DEF StepKnows, FilePcs, Inside
<1> QED BY <1>1, InsideKeeps DEF BatchPcs, FetchPcs, CopyPcs, FilePcs

\* What a batch has reported stays typed.
LEMMA OutTyped ==
  ASSUME DrainInv
  PROVE  /\ run.out \in OutRow
         /\ \A r \in Reqs : Stored(r) \in OutRow /\ Failed(r) \in OutRow
<1>1. run.out \in OutRow
  BY DEF DrainInv, Typed, RunRow
<1> QED BY <1>1 DEF OutRow, Stored, Failed

\* A repository that failed, and a batch that halts.
LEMMA FailsTyped ==
  ASSUME DrainInv, run.pc \in FilePcs
  PROVE  /\ Fails \in RunRow /\ Inside(run, Fails) /\ Fails.pc \in {"repo", "close"}
         /\ \A why \in {"stopped", "terminal", "throttled", "capacity"} :
              Halts(why) \in RunRow /\ Inside(run, Halts(why)) /\ Halts(why).pc = "close"
<1>1. run \in RunRow /\ run.cur \in Reqs
  BY DEF DrainInv, Typed, BatchOK
<1>2. run.out \in OutRow
  BY <1>1 DEF RunRow
<1> DEFINE o == [Failed(run.cur) EXCEPT
                   !.halt = IF run.pinned \in mounted THEN run.out.halt ELSE "unwritable"]
<1>3. o \in OutRow
  BY <1>1, OutTyped DEF OutRow
<1>4. Fails = [run EXCEPT !.pc = IF run.pinned \in mounted THEN "repo" ELSE "close",
                          !.staged = "none", !.files = {}, !.out = o]
  BY DEF Fails
<1> HIDE DEF o
<1>5. Fails \in RunRow /\ Inside(run, Fails) /\ Fails.pc \in {"repo", "close"}
  BY ZenonT(40), <1>1, <1>3, <1>4 DEF RunRow, Pcs, Inside
<1>6. ASSUME NEW why \in {"stopped", "terminal", "throttled", "capacity"}
      PROVE  Halts(why) \in RunRow /\ Inside(run, Halts(why)) /\ Halts(why).pc = "close"
  <2> DEFINE h == [run.out EXCEPT !.halt = why]
  <2>1. h \in OutRow
    BY <1>2 DEF OutRow
  <2>2. Halts(why) = [run EXCEPT !.pc = "close", !.out = h, !.staged = "none", !.files = {}]
    BY DEF Halts
  <2> HIDE DEF h
  <2> QED BY ZenonT(40), <1>1, <2>1, <2>2 DEF RunRow, Pcs, Inside
<1> QED BY <1>5, <1>6

\* FetchBegin: nothing to fetch, the drive is gone, the envelope refuses, or the repositories.
LEMMA FetchBeginKeeps ==
  ASSUME DrainInv, FetchBegin
  PROVE  DrainInv'
<1>1. run \in RunRow /\ run.pc = "batch" /\ run.pc \in BatchPcs /\ UNCHANGED World /\ run.out \in OutRow
  BY DEF FetchBegin, DrainInv, Typed, RunRow, BatchPcs
<1>2. CASE run' = [run EXCEPT !.pc = "replica", !.todo = run.copy]
  <2>1. run' \in RunRow /\ run'.pc = "replica" /\ Inside(run, run') /\ run'.todo = run.copy
    BY <1>1, <1>2 DEF RunRow, Pcs, Inside
  <2> QED BY <1>1, <2>1, PlainKeeps DEF World, DrainInv, BatchOK
<1>3. CASE run' = [run EXCEPT !.pc = "fetched"]
  <2>1. run' \in RunRow /\ run'.pc = "fetched" /\ Inside(run, run')
    BY <1>1, <1>3 DEF RunRow, Pcs, Inside
  <2> QED BY <1>1, <2>1, PlainKeeps DEF World
<1>4. CASE run' = [run EXCEPT !.pc = "repo", !.todo = run.fetch]
  <2>1. run' \in RunRow /\ run'.pc = "repo" /\ Inside(run, run')
    BY <1>1, <1>4 DEF RunRow, Pcs, Inside
  <2> QED BY <1>1, <2>1, PlainKeeps DEF World
<1>5. CASE run' = [run EXCEPT !.pc = "close", !.out = [@ EXCEPT !.halt = "terminal"]]
  <2>1. [run.out EXCEPT !.halt = "terminal"] \in OutRow
    BY <1>1 DEF OutRow
  <2>2. run' \in RunRow /\ run'.pc = "close" /\ Inside(run, run')
    BY <1>1, <1>5, <2>1 DEF RunRow, Pcs, Inside
  <2> QED BY <1>1, <2>2, PlainKeeps DEF World
<1> QED BY <1>2, <1>3, <1>4, <1>5 DEF FetchBegin

\* FetchRepo: a repository with a conflicting row is refused whole; of another, no file that
\* is to be fetched has one.
LEMMA FetchRepoKeeps ==
  ASSUME DrainInv, FetchRepo
  PROVE  DrainInv'
<1>1. run \in RunRow /\ run.pc = "repo" /\ run.pc \in BatchPcs /\ UNCHANGED World /\ run.out \in OutRow
  BY DEF FetchRepo, DrainInv, Typed, RunRow, BatchPcs, FetchPcs
<1>2. CASE run' = [run EXCEPT !.pc = "close"]
  <2>1. run' \in RunRow /\ run'.pc = "close" /\ Inside(run, run')
    BY <1>1, <1>2 DEF RunRow, Pcs, Inside
  <2> QED BY <1>1, <2>1, PlainKeeps DEF World
<1>3. CASE run' = [run EXCEPT !.pc = "close",
                            !.out = [@ EXCEPT !.halt = IF stop THEN "stopped" ELSE "throttled"]]
  <2>1. [run.out EXCEPT !.halt = IF stop THEN "stopped" ELSE "throttled"] \in OutRow
    BY <1>1 DEF OutRow
  <2>2. run' \in RunRow /\ run'.pc = "close" /\ Inside(run, run')
    BY ZenonT(40), <1>1, <1>3, <2>1 DEF RunRow, Pcs, Inside
  <2> QED BY <1>1, <2>2, PlainKeeps DEF World
<1>4. CASE run.todo # {} /\ FetchModel(Min(run.todo))
  <2> DEFINE r == Min(run.todo)
             conflict == \E f \in Task[r].files : Pinned(f) \in {"bad", "unproven"}
  <2>1. run.todo \subseteq Reqs /\ r \in run.todo
    BY <1>1, <1>4, Names, MinIsIn DEF RunRow
  <2>2. r \in Reqs /\ Task[r].files \subseteq Files /\ Task[r].repo \in Repos /\ Missing(r) \subseteq Task[r].files
    BY <2>1, Names DEF Missing
  <2>3. IF conflict
        THEN run' = [run EXCEPT !.todo = @ \ {r}, !.out = [@ EXCEPT !.refused = run.out.refused \cup {Task[r].repo}]]
        ELSE run' = [run EXCEPT !.todo = @ \ {r}, !.cur = r, !.pc = "file", !.files = Missing(r)]
    BY <1>4 DEF FetchModel
  <2> HIDE DEF r
  <2>4. CASE conflict
    <3>1. [run.out EXCEPT !.refused = run.out.refused \cup {Task[r].repo}] \in OutRow
      BY <1>1, <2>2 DEF OutRow
    <3>2. run' = [run EXCEPT !.todo = @ \ {r},
                             !.out = [@ EXCEPT !.refused = run.out.refused \cup {Task[r].repo}]]
      BY <2>3, <2>4
    <3>3. run' \in RunRow /\ run'.pc = "repo" /\ Inside(run, run')
      BY <1>1, <3>1, <3>2 DEF RunRow, Inside
    <3> QED BY <1>1, <3>3, PlainKeeps DEF World
  <2>5. CASE ~conflict
    <3>1. run' = [run EXCEPT !.todo = @ \ {r}, !.cur = r, !.pc = "file", !.files = Missing(r)]
      BY <2>3, <2>5
    <3>2. run' \in RunRow /\ run'.pc = "file" /\ run'.cur = r /\ run'.files = Missing(r) /\ Inside(run, run')
      BY <1>1, <2>2, <3>1 DEF RunRow, Pcs, Inside
    <3>3. \A g \in Missing(r) : archived[run.pinned][g] # "bad"
      BY <2>2, <2>5 DEF Pinned
    <3>4. StepKnows'
      BY <1>1, <3>2, <3>3 DEF StepKnows, Inside, World
    <3> QED BY <1>1, <2>2, <3>2, <3>4, InsideKeeps DEF World, BatchPcs, FetchPcs, CopyPcs
  <2> QED BY <2>4, <2>5
<1> QED BY <1>2, <1>3, <1>4 DEF FetchRepo

\* A step of the fetch that refuses, returns or halts (ModelReturns, CapacityPreflight,
\* DownloadStopped, CloseEnvelope).
LEMMA FetchStopsKeep ==
  ASSUME DrainInv, ModelReturns \/ CapacityPreflight \/ DownloadStopped \/ CloseEnvelope
  PROVE  DrainInv'
<1>1. run \in RunRow /\ UNCHANGED World /\ run.out \in OutRow /\ run.pc \in BatchPcs
  BY OutTyped DEF ModelReturns, CapacityPreflight, DownloadStopped, CloseEnvelope, DrainInv, Typed, BatchPcs, FetchPcs
<1>2. CASE ModelReturns
  <2>1. run.pc \in FilePcs /\ run.cur \in Reqs
    BY <1>2 DEF ModelReturns, FilePcs, DrainInv, BatchOK
  <2>2. Stored(run.cur) \in OutRow
    BY <2>1, OutTyped
  <2>3. run' = [run EXCEPT !.pc = "repo", !.out = Stored(run.cur), !.files = {}]
    BY <1>2 DEF ModelReturns
  <2>4. run' \in RunRow /\ run'.pc = "repo" /\ Inside(run, run')
    BY <1>1, <2>2, <2>3 DEF RunRow, Pcs, Inside
  <2> QED BY <1>1, <2>4, PlainKeeps DEF World
<1>3. CASE CapacityPreflight
  <2>1. run.pc \in FilePcs /\ run' = Halts("capacity")
    BY <1>3 DEF CapacityPreflight, FilePcs
  <2> QED BY <1>1, <2>1, FailsTyped, PlainKeeps DEF World
<1>4. CASE DownloadStopped
  <2>1. run.pc \in FilePcs /\ run' = Halts("stopped")
    BY <1>4 DEF DownloadStopped, FilePcs
  <2> QED BY <1>1, <2>1, FailsTyped, PlainKeeps DEF World
<1>5. CASE CloseEnvelope
  <2>1. PICK h \in {run.out.halt, IF run.out.halt = "stopped" THEN "stopped" ELSE "terminal"} :
          run' = [run EXCEPT !.pc = "fetched", !.out = [@ EXCEPT !.halt = h]]
    BY <1>5 DEF CloseEnvelope
  <2>2. [run.out EXCEPT !.halt = h] \in OutRow
    BY <1>1 DEF OutRow
  <2>3. run' \in RunRow /\ run'.pc = "fetched" /\ Inside(run, run')
    BY <1>1, <2>1, <2>2 DEF RunRow, Pcs, Inside
  <2> QED BY <1>1, <2>3, PlainKeeps DEF World
<1> QED BY <1>2, <1>3, <1>4, <1>5

\* DownloadShard: a staged file, a failure, a halt, or a refusal of access.
LEMMA DownloadKeeps ==
  ASSUME DrainInv, DownloadShard
  PROVE  DrainInv'
<1>1. /\ run \in RunRow /\ UNCHANGED World /\ run.pc = "file" /\ run.pc \in BatchPcs /\ run.pc \in FilePcs
      /\ run.cur \in Reqs /\ run.files # {} /\ run.pinned \in Drives
      /\ \A g \in run.files : archived[run.pinned][g] # "bad"
  BY DEF DownloadShard, DrainInv, Typed, BatchPcs, FetchPcs, FilePcs, BatchOK, StepKnows
<1>2. ASSUME NEW staged \in {"good", "foreign"}, run' = [run EXCEPT !.pc = "verify", !.staged = staged]
      PROVE  DrainInv'
  <2>1. run' \in RunRow /\ run'.pc = "verify" /\ Inside(run, run') /\ run'.files = run.files /\ run'.cur = run.cur
    BY <1>1, <1>2 DEF RunRow, Pcs, Inside
  <2>2. StepKnows'
    BY <1>1, <2>1 DEF StepKnows, Inside, World
  <2> QED BY <1>1, <2>1, <2>2, InsideKeeps DEF World, BatchPcs, FetchPcs, CopyPcs
<1>3. CASE run' \in {Fails, Halts("terminal"), Halts("throttled")}
  BY <1>1, <1>3, FailsTyped, PlainKeeps DEF World
<1>4. ASSUME NEW n, n = IF run.hits[Repo] = 2 THEN 2 ELSE run.hits[Repo] + 1,
             run' = [run EXCEPT !.pc = "prompt", !.hits = [@ EXCEPT ![Repo] = n]]
      PROVE  DrainInv'
  <2>1. Repo \in Repos /\ run.hits \in [Repos -> 0..2]
    BY <1>1, Names DEF Repo, RunRow
  <2>2. [run.hits EXCEPT ![Repo] = n] \in [Repos -> 0..2]
    BY <1>4, <2>1
  <2>3. run' \in RunRow /\ run'.pc = "prompt" /\ Inside(run, run') /\ run'.files = run.files /\ run'.cur = run.cur
    BY ZenonT(40), <1>1, <1>4, <2>2 DEF RunRow, Pcs, Inside
  <2> QED BY <1>1, <2>3, PlainKeeps DEF World
<1> QED BY <1>2, <1>3, <1>4 DEF DownloadShard

\* OnGated: the repository is left for later, asked for again, or parked.
LEMMA OnGatedKeeps ==
  ASSUME DrainInv, OnGated
  PROVE  DrainInv'
<1>1. /\ run \in RunRow /\ UNCHANGED <<archived, bytes, mounted, gated, stop>> /\ run.pc \in BatchPcs
      /\ run.out \in OutRow /\ run.cur \in Reqs /\ Repo \in Repos
  BY OutTyped, Names DEF OnGated, DrainInv, Typed, BatchPcs, FetchPcs, FilePcs, BatchOK, Repo
<1>2. CASE run' = [run EXCEPT !.pc = "repo", !.files = {}]
  <2>1. run' \in RunRow /\ run'.pc = "repo" /\ Inside(run, run')
    BY <1>1, <1>2 DEF RunRow, Pcs, Inside
  <2> QED BY <1>1, <2>1, PlainKeeps
<1>3. CASE run' = [run EXCEPT !.pc = "close", !.files = {}, !.out = [@ EXCEPT !.retry = TRUE]]
  <2>1. [run.out EXCEPT !.retry = TRUE] \in OutRow
    BY <1>1 DEF OutRow
  <2>2. run' \in RunRow /\ run'.pc = "close" /\ Inside(run, run')
    BY <1>1, <1>3, <2>1 DEF RunRow, Pcs, Inside
  <2> QED BY <1>1, <2>2, PlainKeeps
<1>4. CASE run' = [run EXCEPT !.pc = "repo", !.files = {},
                              !.out = [@ EXCEPT !.gated = run.out.gated \cup {Repo}]]
  <2>1. [run.out EXCEPT !.gated = run.out.gated \cup {Repo}] \in OutRow
    BY <1>1 DEF OutRow
  <2>2. run' \in RunRow /\ run'.pc = "repo" /\ Inside(run, run')
    BY <1>1, <1>4, <2>1 DEF RunRow, Pcs, Inside
  <2> QED BY <1>1, <2>2, PlainKeeps
<1> QED BY <1>2, <1>3, <1>4 DEF OnGated

\* Verify: only bytes with the approved digest go on to their final path.
LEMMA VerifyKeeps ==
  ASSUME DrainInv, Verify
  PROVE  DrainInv'
<1>1. /\ run \in RunRow /\ UNCHANGED World /\ run.pc = "verify" /\ run.pc \in BatchPcs /\ run.pc \in FilePcs
      /\ run.cur \in Reqs /\ run.files # {}
      /\ \A g \in run.files : archived[run.pinned][g] # "bad"
  BY DEF Verify, DrainInv, Typed, BatchPcs, FetchPcs, FilePcs, BatchOK, StepKnows
<1>2. CASE run' = Fails
  BY <1>1, <1>2, FailsTyped, PlainKeeps DEF World
<1>3. CASE run.staged = "good" /\ run' = [run EXCEPT !.pc = "store"]
  <2>1. run' \in RunRow /\ run'.pc = "store" /\ Inside(run, run') /\ run'.files = run.files /\ run'.cur = run.cur
        /\ run'.staged = run.staged
    BY <1>1, <1>3 DEF RunRow, Pcs, Inside
  <2>2. StepKnows'
    BY <1>1, <1>3, <2>1 DEF StepKnows, Inside, World
  <2> QED BY <1>1, <2>1, <2>2, InsideKeeps DEF World, BatchPcs, FetchPcs, CopyPcs
<1> QED BY <1>2, <1>3 DEF Verify

-----------------------------------------------------------------------------
(* Bytes and rows                                                          *)

\* A step that writes a row or bytes, and takes no satisfying row away.
LEMMA WriteKeeps ==
  ASSUME DrainInv, Typed', RowsTellBytes', StepKnows', run.pc \in BatchPcs, run'.pc \in BatchPcs,
         Inside(run, run'),
         \A d \in Drives, f \in Files : Satisfies(d, f) => archived'[d][f] \in {"good", "vouched"},
         run'.pc \in FilePcs \cup {"copy", "copied"} => run'.cur \in Reqs,
         run'.pc \in CopyPcs => \A q \in run'.todo : Task[q].source # None,
         run'.pc \in {"copy", "copied"} => Task[run'.cur].source \in Drives
  PROVE  DrainInv'
<1>1. BatchOK(run') /\ VerdictOK(run') /\ run'.code = None
  BY DEF DrainInv, BatchOK, VerdictOK, Inside, BatchPcs, FetchPcs, CopyPcs, FilePcs
<1>2. PublishedHasRows'
  <2> SUFFICES ASSUME NEW r \in run'.published, NEW f \in Task[r].files
               PROVE  archived'[Task[r].target][f] \in {"good", "vouched"}
    BY DEF PublishedHasRows, Missing, Satisfies
  <2>1. r \in run.published /\ r \in Reqs
    BY DEF Inside, DrainInv, Typed, RunRow
  <2>2. f \in Files /\ Task[r].target \in Drives
    BY <2>1, Names, DrainAssumption
  <2>3. Satisfies(Task[r].target, f)
    BY <2>1 DEF DrainInv, PublishedHasRows, Missing
  <2> QED BY <2>2, <2>3
<1>3. FeasibleIsSafe'
  BY <1>1, Names DEF FeasibleIsSafe
<1>4. BatchOK(run)' /\ VerdictOK(run)'
  BY <1>1 DEF BatchOK, VerdictOK
<1> QED BY <1>2, <1>3, <1>4 DEF DrainInv

\* PublishStaged: hashed bytes at a free path, or at one that has them already.
LEMMA PublishStagedKeeps ==
  ASSUME DrainInv, PublishStaged
  PROVE  DrainInv'
<1> DEFINE f == Min(run.files)
<1>1. /\ run \in RunRow /\ run.pc = "store" /\ run.pc \in BatchPcs /\ run.pc \in FilePcs
      /\ run.cur \in Reqs /\ run.files # {} /\ run.pinned \in Drives /\ run.staged = "good"
      /\ \A g \in run.files : archived[run.pinned][g] # "bad"
      /\ UNCHANGED <<archived, mounted, gated, stop, left>>
  BY DEF PublishStaged, DrainInv, Typed, BatchPcs, FetchPcs, FilePcs, BatchOK, StepKnows
<1>2. f \in run.files /\ f \in Files
  BY <1>1, Names, MinIsIn DEF RunRow
<1>3. CASE run' = Halts("terminal") /\ bytes' = bytes
  BY <1>1, <1>3, FailsTyped, PlainKeeps
<1>4. CASE /\ bytes[run.pinned][f] \in {"none", run.staged}
           /\ bytes' = [bytes EXCEPT ![run.pinned][f] = run.staged]
           /\ run' = [run EXCEPT !.pc = "record", !.staged = "none"]
  <2> HIDE DEF f
  <2>1. bytes \in [Drives -> [Files -> Contents]] /\ run.staged \in Contents
    BY <1>1 DEF DrainInv, Typed, Contents
  <2>2. Put(bytes, bytes', run.pinned, f, run.staged)
    BY <1>1, <1>2, <1>4, <2>1, PutEntry
  <2>3. /\ bytes' \in [Drives -> [Files -> Contents]]
        /\ bytes'[run.pinned][f] = "good"
        /\ \A d \in Drives, g \in Files : ~(d = run.pinned /\ g = f) => bytes'[d][g] = bytes[d][g]
    BY <1>1, <1>2, <2>1, <2>2 DEF Put
  <2>4. run' \in RunRow /\ run'.pc = "record" /\ Inside(run, run') /\ run'.files = run.files /\ run'.cur = run.cur
    BY <1>1, <1>4 DEF RunRow, Pcs, Inside
  <2>5. Typed'
    BY <1>1, <2>3, <2>4 DEF DrainInv, Typed
  <2>6. RowsTellBytes'
    BY <1>1, <2>3 DEF DrainInv, RowsTellBytes
  <2>7. StepKnows'
    BY <1>1, <2>3, <2>4 DEF StepKnows, Inside, f
  <2> QED BY <1>1, <2>4, <2>5, <2>6, <2>7, WriteKeeps DEF Satisfies, BatchPcs, FetchPcs, CopyPcs
<1> QED BY <1>3, <1>4 DEF PublishStaged

\* RecordRow: a row for bytes that are at their path.
LEMMA RecordRowKeeps ==
  ASSUME DrainInv, RecordRow
  PROVE  DrainInv'
<1> DEFINE f == Min(run.files)
<1>1. /\ run \in RunRow /\ run.pc = "record" /\ run.pc \in BatchPcs /\ run.pc \in FilePcs
      /\ run.cur \in Reqs /\ run.files # {} /\ run.pinned \in Drives /\ bytes[run.pinned][f] = "good"
      /\ \A g \in run.files : archived[run.pinned][g] # "bad"
      /\ UNCHANGED <<bytes, mounted, gated, stop, left>>
  BY DEF RecordRow, DrainInv, Typed, BatchPcs, FetchPcs, FilePcs, BatchOK, StepKnows
<1>2. f \in run.files /\ f \in Files
  BY <1>1, Names, MinIsIn DEF RunRow
<1>3. CASE run' = Fails /\ archived' = archived
  BY <1>1, <1>3, FailsTyped, PlainKeeps
<1>4. CASE /\ archived' = [archived EXCEPT ![run.pinned][f] = "good"]
           /\ run' = [run EXCEPT !.pc = "file", !.files = @ \ {f}]
  <2> HIDE DEF f
  <2>1. archived \in [Drives -> [Files -> Rows]] /\ "good" \in Rows
    BY DEF DrainInv, Typed, Rows
  <2>2. Put(archived, archived', run.pinned, f, "good")
    BY <1>1, <1>2, <1>4, <2>1, PutEntry
  <2>3. /\ archived' \in [Drives -> [Files -> Rows]]
        /\ archived'[run.pinned][f] = "good"
        /\ \A d \in Drives, g \in Files : ~(d = run.pinned /\ g = f) => archived'[d][g] = archived[d][g]
    BY <1>1, <1>2, <2>1, <2>2 DEF Put
  <2>4. run' \in RunRow /\ run'.pc = "file" /\ Inside(run, run') /\ run'.files = run.files \ {f} /\ run'.cur = run.cur
    BY <1>1, <1>4 DEF RunRow, Pcs, Inside
  <2>5. Typed'
    BY <1>1, <2>3, <2>4 DEF DrainInv, Typed
  <2>6. RowsTellBytes'
    BY <1>1, <2>3 DEF DrainInv, RowsTellBytes
  <2>7. \A g \in run'.files : archived'[run.pinned][g] # "bad"
    BY <1>1, <2>3, <2>4 DEF RunRow
  <2>8. StepKnows'
    BY <2>4, <2>7 DEF StepKnows, Inside
  <2> QED BY <1>1, <2>3, <2>4, <2>5, <2>6, <2>8, WriteKeeps DEF Satisfies, BatchPcs, FetchPcs, CopyPcs
<1> QED BY <1>3, <1>4 DEF RecordRow

-----------------------------------------------------------------------------
(* What the drain does with a summary                                      *)

\* Attempts stay below their bound unless the session ends for it.
LEMMA AttemptsTyped ==
  ASSUME DrainInv, NEW T \in SUBSET Reqs, ~Exhausted(T)
  PROVE  Attempted(T) \in [Reqs -> 0..1]
<1>1. run.attempts \in [Reqs -> 0..1]
  BY DEF DrainInv, Typed, RunRow
<1>2. ASSUME NEW r \in Reqs
      PROVE  (IF r \in T THEN run.attempts[r] + 1 ELSE run.attempts[r]) \in 0..1
  <2>1. run.attempts[r] \in 0..1
    BY <1>1
  <2>2. CASE r \in T
    <3>1. ~(Attempted(T)[r] >= 2)
      BY <2>2 DEF Exhausted, MAX_TASK_ATTEMPTS
    <3>2. Attempted(T)[r] = run.attempts[r] + 1
      BY <2>2 DEF Attempted
    <3> QED BY <2>1, <2>2, <3>1, <3>2
  <2>3. CASE r \notin T
    BY <2>1, <2>3
  <2> QED BY <2>2, <2>3
<1> QED BY <1>2 DEF Attempted

\* The thread between two batches, with what it counted and published.
Between(r) ==
  /\ r \in RunRow /\ r.published \in {run.published, Completed} /\ r.state = None /\ r.code = None

\* The next turn of the loop begins with no batch (Turn).
LEMMA TurnKeeps ==
  ASSUME DrainInv, UNCHANGED World, NEW STATE r, Between(r), run' = Turn(r)
  PROVE  DrainInv'
<1>1. r \in RunRow /\ NoOutcome \in OutRow
  BY DEF Between, NoOutcome, OutRow
<1>2. /\ run' \in RunRow /\ run'.pc = "loop" /\ run'.copy = {} /\ run'.published = r.published
      /\ run'.code = r.code /\ run'.state = r.state
  BY <1>1 DEF Turn, RunRow, Pcs
<1>3. BatchOK(run') /\ VerdictOK(run') /\ run'.code = None
  BY <1>2 DEF Between, BatchOK, VerdictOK, BatchPcs, FetchPcs, FilePcs, CopyPcs
<1>4. StepKnows'
  BY <1>2 DEF StepKnows, FilePcs
<1>5. \A q \in run'.published : q \in run.published \cup Completed
  BY <1>2 DEF Between
<1> QED BY <1>2, <1>3, <1>4, <1>5, ThreadKeeps DEF World, DrainInv, Typed

\* FetchOutcome: rows decide what is complete; the runner's summary decides how to go on.
LEMMA FetchOutcomeKeeps ==
  ASSUME DrainInv, FetchOutcome
  PROVE  DrainInv'
<1> DEFINE progress == run.progress \/ run.out.stored # {}
           dgated == run.dgated \cup run.out.gated
           dcontent == run.dcontent \cup run.out.refused
           T == {r \in run.fetch \cap Remaining :
                   r \in run.out.failed \cup run.out.stored /\ Task[r].repo \notin dgated \cup dcontent}
           next == [run EXCEPT !.progress = progress, !.dgated = dgated, !.dcontent = dcontent,
                          !.published = Completed, !.attempts = Attempted(T), !.cur = None,
                          !.todo = {}, !.fetch = {}]
<1>1. run \in RunRow /\ run.pc = "fetched" /\ UNCHANGED World /\ run.out \in OutRow
      /\ run.code = None /\ run.state = None
  BY OutTyped DEF FetchOutcome, DrainInv, Typed, VerdictOK
<1>2. progress \in BOOLEAN /\ dgated \in SUBSET Repos /\ dcontent \in SUBSET Repos /\ T \in SUBSET Reqs
      /\ Completed \in SUBSET Reqs
  <2>1. run.progress \in BOOLEAN /\ run.dgated \in SUBSET Repos /\ run.dcontent \in SUBSET Repos
        /\ run.out.gated \in SUBSET Repos /\ run.out.refused \in SUBSET Repos
    BY <1>1 DEF RunRow, OutRow
  <2>2. T \subseteq Remaining
    OBVIOUS
  <2> HIDE DEF T
  <2> QED BY <2>1, <2>2, Finished
<1>3. \/ \E s \in Verdicts, c \in EndCodes \ OrderlyCodes : End(s, c)
      \/ ~Exhausted(T) /\ run' = Turn(next)
      \/ ~Exhausted(T) /\ run' = Turn([next EXCEPT !.pinned = None])
      \/ ~Exhausted(T) /\ run' = [next EXCEPT !.pc = "replica", !.todo = run.copy, !.out = NoOutcome]
  <2> DEFINE orderly == End("stopped", "OPERATOR_STOP")
             terminal == End(Halted(progress, "paused", "blocked"), "FETCH_TERMINAL")
             throttled == End("paused", "DOWNLOAD_THROTTLED")
             capacity == End(Halted(progress, "plan-capacity-stop", "blocked"), "PLAN_CAPACITY_STOP")
             unwritable == End(Halted(progress, "paused", "blocked"), "DRIVE_UNWRITABLE")
             failed == End("error", "FETCH_TASK_FAILED")
             refresh == End("failed", "PROJECTION_REFRESH_FAILED")
  <2>1. \/ orderly \/ terminal \/ throttled \/ capacity \/ unwritable \/ failed \/ refresh
        \/ ~Exhausted(T) /\ run' = Turn(next)
        \/ ~Exhausted(T) /\ run' = Turn([next EXCEPT !.pinned = None])
        \/ ~Exhausted(T) /\ run' = [next EXCEPT !.pc = "replica", !.todo = run.copy, !.out = NoOutcome]
    BY Zenon DEF FetchOutcome
  <2>2. Halted(progress, "paused", "blocked") \in Verdicts /\ Halted(progress, "plan-capacity-stop", "blocked") \in Verdicts
    BY DEF Halted, Verdicts
  <2>3. {"stopped", "paused", "error", "failed"} \subseteq Verdicts
    BY DEF Verdicts
  <2>4. {"OPERATOR_STOP", "FETCH_TERMINAL", "DOWNLOAD_THROTTLED", "PLAN_CAPACITY_STOP", "DRIVE_UNWRITABLE",
         "FETCH_TASK_FAILED", "PROJECTION_REFRESH_FAILED"} \subseteq EndCodes \ OrderlyCodes
    BY DEF EndCodes, OrderlyCodes
  <2>5. orderly \/ terminal \/ throttled \/ capacity \/ unwritable \/ failed \/ refresh
        => \E s \in Verdicts, c \in EndCodes \ OrderlyCodes : End(s, c)
    BY <2>2, <2>3, <2>4
  <2> QED BY <2>1, <2>5
<1> HIDE DEF progress, dgated, dcontent, T
<1>4. CASE \E s \in Verdicts, c \in EndCodes \ OrderlyCodes : End(s, c)
  BY <1>1, <1>4, RefusalKeeps
<1>5. ASSUME ~Exhausted(T)
      PROVE  /\ next \in RunRow /\ next.published = Completed /\ next.state = None /\ next.code = None
             /\ next.pinned = run.pinned /\ next.copy = run.copy
  <2>1. Attempted(T) \in [Reqs -> 0..1]
    BY <1>2, <1>5, AttemptsTyped
  <2> QED BY <1>1, <1>2, <2>1 DEF RunRow
<1> HIDE DEF next
<1>6. CASE ~Exhausted(T) /\ run' = Turn(next)
  BY <1>1, <1>5, <1>6, TurnKeeps DEF Between
<1>7. CASE ~Exhausted(T) /\ run' = Turn([next EXCEPT !.pinned = None])
  <2>1. Between([next EXCEPT !.pinned = None])
    BY <1>5, <1>7 DEF Between, RunRow
  <2> QED BY <1>1, <1>7, <2>1, TurnKeeps
<1>8. CASE ~Exhausted(T) /\ run' = [next EXCEPT !.pc = "replica", !.todo = run.copy, !.out = NoOutcome]
  <2>1. NoOutcome \in OutRow /\ run.copy \in SUBSET Reqs /\ run.pinned \in Drives /\ \A q \in run.copy : Task[q].source # None
    BY <1>1 DEF NoOutcome, OutRow, RunRow, DrainInv, BatchOK, BatchPcs
  <2>2. /\ run' \in RunRow /\ run'.pc = "replica" /\ run'.todo = run.copy /\ run'.copy = run.copy
        /\ run'.pinned = run.pinned /\ run'.published = Completed /\ run'.state = None /\ run'.code = None
    BY <1>5, <1>8, <2>1 DEF RunRow, Pcs
  <2>3. BatchOK(run') /\ VerdictOK(run')
    BY <2>1, <2>2 DEF BatchOK, VerdictOK, FilePcs
  <2>4. StepKnows'
    BY <2>2 DEF StepKnows, FilePcs
  <2> QED BY <1>1, <2>2, <2>3, <2>4, ThreadKeeps DEF World, DrainInv, Typed
<1> QED BY <1>3, <1>4, <1>6, <1>7, <1>8

\* ReplicaOutcome: the same for the second copies.
LEMMA ReplicaOutcomeKeeps ==
  ASSUME DrainInv, ReplicaOutcome
  PROVE  DrainInv'
<1> DEFINE T == {r \in run.copy \cap Remaining : run.out.copied \/ r \in run.out.stored}
           progress == run.progress \/ run.out.copied
           next == [run EXCEPT !.progress = progress, !.published = Completed, !.attempts = Attempted(T)]
<1>1. run \in RunRow /\ run.pc = "replicated" /\ UNCHANGED World /\ run.out \in OutRow
      /\ run.code = None /\ run.state = None
  BY OutTyped DEF ReplicaOutcome, DrainInv, Typed, VerdictOK
<1>2. progress \in BOOLEAN /\ T \in SUBSET Reqs /\ Completed \in SUBSET Reqs
  <2>1. run.progress \in BOOLEAN /\ run.out.copied \in BOOLEAN
    BY <1>1 DEF RunRow, OutRow
  <2>2. T \subseteq Remaining
    OBVIOUS
  <2> HIDE DEF T
  <2> QED BY <2>1, <2>2, Finished
<1>3. \/ \E s \in Verdicts, c \in EndCodes \ OrderlyCodes : End(s, c)
      \/ ~Exhausted(T) /\ run' = Turn([next EXCEPT !.pinned = None])
      \/ ~Exhausted(T) /\ run' = [next EXCEPT !.pc = "boundary"]
  <2> DEFINE failed == End("error", "REPLICA_KEY_FAILED")
             deferred == End("paused", "SOURCE_UNAVAILABLE")
             exhausted == End("error", "REPLICA_TASK_FAILED")
  <2>1. \/ failed \/ deferred \/ exhausted
        \/ ~Exhausted(T) /\ run' = Turn([next EXCEPT !.pinned = None])
        \/ ~Exhausted(T) /\ run' = [next EXCEPT !.pc = "boundary"]
    BY Zenon DEF ReplicaOutcome
  <2>2. {"paused", "error"} \subseteq Verdicts
        /\ {"REPLICA_KEY_FAILED", "SOURCE_UNAVAILABLE", "REPLICA_TASK_FAILED"} \subseteq EndCodes \ OrderlyCodes
    BY DEF Verdicts, EndCodes, OrderlyCodes
  <2>3. failed \/ deferred \/ exhausted => \E s \in Verdicts, c \in EndCodes \ OrderlyCodes : End(s, c)
    BY <2>2
  <2> QED BY <2>1, <2>3
<1> HIDE DEF T, progress
<1>4. CASE \E s \in Verdicts, c \in EndCodes \ OrderlyCodes : End(s, c)
  BY <1>1, <1>4, RefusalKeeps
<1>5. ASSUME ~Exhausted(T)
      PROVE  next \in RunRow /\ next.published = Completed /\ next.state = None /\ next.code = None /\ next.copy = run.copy
  <2>1. Attempted(T) \in [Reqs -> 0..1]
    BY <1>2, <1>5, AttemptsTyped
  <2> QED BY <1>1, <1>2, <2>1 DEF RunRow
<1> HIDE DEF next
<1>6. CASE ~Exhausted(T) /\ run' = Turn([next EXCEPT !.pinned = None])
  <2>1. Between([next EXCEPT !.pinned = None])
    BY <1>5, <1>6 DEF Between, RunRow
  <2> QED BY <1>1, <1>6, <2>1, TurnKeeps
<1>7. CASE ~Exhausted(T) /\ run' = [next EXCEPT !.pc = "boundary"]
  <2>1. /\ run' \in RunRow /\ run'.pc = "boundary" /\ run'.copy = run.copy
        /\ run'.published = Completed /\ run'.state = None /\ run'.code = None
    BY <1>5, <1>7 DEF RunRow, Pcs
  <2>2. BatchOK(run') /\ VerdictOK(run')
    BY <2>1 DEF DrainInv, BatchOK, VerdictOK, FilePcs, BatchPcs, FetchPcs, CopyPcs
  <2>3. StepKnows'
    BY <2>1 DEF StepKnows, FilePcs
  <2> QED BY <1>1, <2>1, <2>2, <2>3, ThreadKeeps DEF World, DrainInv, Typed
<1> QED BY <1>3, <1>4, <1>6, <1>7

\* BatchBoundary: the projection is refreshed, or the session fails closed.
LEMMA BoundaryKeeps ==
  ASSUME DrainInv, BatchBoundary
  PROVE  DrainInv'
<1> DEFINE next == [run EXCEPT !.pinned = None, !.published = Completed]
<1>1. run \in RunRow /\ UNCHANGED World /\ run.code = None /\ run.state = None
  BY DEF BatchBoundary, DrainInv, Typed, VerdictOK
<1>2. Between(next)
  BY <1>1, Finished DEF Between, RunRow
<1>3. CASE run' = Turn(next)
  BY <1>1, <1>2, <1>3, TurnKeeps
<1>4. CASE End("failed", "PROJECTION_REFRESH_FAILED")
  BY <1>1, <1>4, RefusalKeeps DEF Verdicts, EndCodes, OrderlyCodes
<1> QED BY <1>3, <1>4 DEF BatchBoundary

-----------------------------------------------------------------------------
(* run_replica_tasks                                                       *)

\* ReplicaTask: the tasks are done, one is deferred or refused, or its files begin.
LEMMA ReplicaTaskKeeps ==
  ASSUME DrainInv, ReplicaTask \/ ReplicaTaskEnds
  PROVE  DrainInv'
<1>1. /\ run \in RunRow /\ UNCHANGED World /\ run.out \in OutRow /\ run.pc \in {"replica", "copy"}
      /\ run.pc \in BatchPcs /\ run.pinned \in Drives /\ run.code = None /\ run.state = None
      /\ run.todo \in SUBSET Reqs
      /\ (\A q \in run.todo : Task[q].source # None) /\ (\A q \in run.copy : Task[q].source # None)
  BY OutTyped DEF ReplicaTask, ReplicaTaskEnds, DrainInv, Typed, BatchPcs, CopyPcs, BatchOK, VerdictOK, RunRow
<1>2. CASE run' = [run EXCEPT !.pc = "replica"]
  <2>1. run' \in RunRow /\ run'.pc = "replica" /\ Inside(run, run') /\ run'.todo = run.todo
    BY <1>1, <1>2 DEF RunRow, Pcs, Inside
  <2> QED BY <1>1, <2>1, PlainKeeps DEF World
<1>3. CASE run' = [run EXCEPT !.pc = IF run.copy = {} THEN "boundary" ELSE "replicated", !.cur = None]
  <2>1. /\ run' \in RunRow /\ run'.pc \in {"boundary", "replicated"} /\ Inside(run, run')
    BY ZenonT(40), <1>1, <1>3 DEF RunRow, Pcs, Inside
  <2>2. BatchOK(run') /\ VerdictOK(run')
    BY <1>1, <2>1 DEF Inside, BatchOK, VerdictOK, FilePcs, CopyPcs
  <2>3. StepKnows'
    BY <2>1 DEF StepKnows, FilePcs
  <2> QED BY <1>1, <2>1, <2>2, <2>3, ThreadKeeps DEF World, DrainInv, Typed, Inside
<1>4. ASSUME run.todo # {}, NEW r, r = Min(run.todo)
      PROVE  /\ r \in Reqs /\ Task[r].source \in Drives /\ Missing(r) \in SUBSET Files
             /\ run.todo \ {r} \in SUBSET Reqs
             /\ \A q \in run.todo \ {r} : Task[q].source # None
  <2>1. r \in run.todo
    BY <1>1, <1>4, Names, MinIsIn
  <2> QED BY <1>1, <2>1, Names, DrainAssumption DEF Missing
<1>5. ASSUME run.todo # {}, NEW r, r = Min(run.todo), NEW o \in OutRow,
             run' = [run EXCEPT !.todo = @ \ {r}, !.out = o], run.pc = "replica"
      PROVE  DrainInv'
  <2>1. run' \in RunRow /\ run'.pc = "replica" /\ Inside(run, run') /\ run'.todo = run.todo \ {r}
    BY <1>1, <1>4, <1>5 DEF RunRow, Inside
  <2> QED BY <1>1, <1>4, <1>5, <2>1, PlainKeeps DEF World
<1>6. ASSUME run.todo # {}, NEW r, r = Min(run.todo),
             run' = [run EXCEPT !.todo = @ \ {r}, !.cur = r, !.pc = "copy", !.files = Missing(r)]
      PROVE  DrainInv'
  <2>1. /\ run' \in RunRow /\ run'.pc = "copy" /\ Inside(run, run') /\ run'.todo = run.todo \ {r}
        /\ run'.cur = r
    BY ZenonT(40), <1>1, <1>4, <1>6 DEF RunRow, Pcs, Inside
  <2>2. StepKnows'
    BY <2>1 DEF StepKnows, FilePcs
  <2> QED BY <1>1, <1>4, <1>6, <2>1, <2>2, InsideKeeps DEF World, BatchPcs, CopyPcs
<1>7. CASE ReplicaTask /\ run.todo # {}
  <2>1. PICK r : r = Min(run.todo)
    OBVIOUS
  <2>2. run.pc = "replica"
    BY <1>7 DEF ReplicaTask
  <2>3. r \in Reqs /\ Failed(r) \in OutRow /\ [run.out EXCEPT !.deferred = TRUE] \in OutRow
    BY <1>1, <1>4, <1>7, <2>1, OutTyped DEF OutRow
  <2>4. \/ run' = [run EXCEPT !.todo = @ \ {r}, !.out = [@ EXCEPT !.deferred = TRUE]]
        \/ run' = [run EXCEPT !.todo = @ \ {r}, !.out = Failed(r)]
        \/ run' = [run EXCEPT !.todo = @ \ {r}, !.cur = r, !.pc = "copy", !.files = Missing(r)]
    BY <1>7, <2>1 DEF ReplicaTask
  <2> QED BY <1>5, <1>6, <1>7, <2>1, <2>2, <2>3, <2>4
<1> QED BY <1>2, <1>3, <1>7 DEF ReplicaTask, ReplicaTaskEnds

\* What holds at the next file of a second copy.
LEMMA CopyFacts ==
  ASSUME DrainInv, run.pc \in {"copy", "copied"}, run.files # {}
  PROVE  /\ run \in RunRow /\ run.pc \in BatchPcs /\ run.cur \in Reqs /\ run.pinned \in Drives
         /\ Source \in Drives /\ Source = Task[run.cur].source
         /\ Min(run.files) \in run.files /\ Min(run.files) \in Files
         /\ run.out \in OutRow /\ Stored(run.cur) \in OutRow /\ Failed(run.cur) \in OutRow
         /\ \A q \in run.todo : Task[q].source # None
<1>1. run \in RunRow /\ run.pc \in BatchPcs /\ run.cur \in Reqs /\ run.pinned \in Drives
      /\ Source \in Drives /\ Source = Task[run.cur].source /\ \A q \in run.todo : Task[q].source # None
  BY DEF DrainInv, Typed, BatchOK, BatchPcs, CopyPcs, Source
<1>2. run.files \subseteq Nat /\ run.files \subseteq Files
  BY <1>1, Names DEF RunRow
<1> QED BY <1>1, <1>2, MinIsIn, OutTyped

\* A step of a second copy after which it goes on, or gives the task up.
LEMMA CopyGoesOn ==
  ASSUME DrainInv, run.pc \in {"copy", "copied"}, UNCHANGED <<bytes, mounted, gated, stop>>,
         archived' \in [Drives -> [Files -> Rows]],
         RowsTellBytes',
         \A d \in Drives, g \in Files : Satisfies(d, g) => archived'[d][g] \in {"good", "vouched"},
         run' \in RunRow, run'.pc \in {"copy", "replica"}, Inside(run, run'), run'.cur = run.cur, run'.todo = run.todo
  PROVE  DrainInv'
<1>1. run \in RunRow /\ run.pc \in BatchPcs /\ run.cur \in Reqs /\ Task[run.cur].source \in Drives
      /\ \A q \in run.todo : Task[q].source # None
  BY DEF DrainInv, Typed, BatchOK, BatchPcs, CopyPcs
<1>2. StepKnows'
  BY DEF StepKnows, FilePcs
<1>3. Typed'
  BY DEF DrainInv, Typed
<1> QED BY <1>1, <1>2, <1>3, WriteKeeps DEF BatchPcs, CopyPcs, FilePcs

\* ReplicaExisting: an unproven row is healed from its source, any other fails the file.
LEMMA ReplicaExistingKeeps ==
  ASSUME DrainInv, ReplicaExisting
  PROVE  DrainInv'
<1> DEFINE f == Min(run.files)
<1>1. run.pc = "copy" /\ run.files # {} /\ UNCHANGED <<bytes, mounted, gated, stop, left>>
  BY DEF ReplicaExisting
<1>2. CASE /\ archived[run.pinned][f] = "unproven"
           /\ archived' = [archived EXCEPT ![run.pinned][f] = "vouched"]
           /\ run' = [run EXCEPT !.files = @ \ {f}, !.out = Stored(run.cur)]
  <2>1. run \in RunRow /\ run.pinned \in Drives /\ f \in Files /\ Stored(run.cur) \in OutRow
    BY <1>1, CopyFacts
  <2> HIDE DEF f
  <2>2. archived \in [Drives -> [Files -> Rows]] /\ "vouched" \in Rows
    BY DEF DrainInv, Typed, Rows
  <2>3. Put(archived, archived', run.pinned, f, "vouched")
    BY <1>2, <2>1, <2>2, PutEntry
  <2>4. /\ archived' \in [Drives -> [Files -> Rows]]
        /\ archived'[run.pinned][f] = "vouched"
        /\ \A d \in Drives, g \in Files : ~(d = run.pinned /\ g = f) => archived'[d][g] = archived[d][g]
    BY <2>1, <2>2, <2>3 DEF Put
  <2>5. run' \in RunRow /\ run'.pc = "copy" /\ Inside(run, run') /\ run'.cur = run.cur /\ run'.todo = run.todo
    BY <1>1, <1>2, <2>1 DEF RunRow, Inside
  <2>6. RowsTellBytes'
    BY <1>1, <2>4 DEF DrainInv, RowsTellBytes
  <2> QED BY <1>1, <2>4, <2>5, <2>6, CopyGoesOn DEF Satisfies
<1>3. CASE /\ archived' = archived
           /\ run' = [run EXCEPT !.files = @ \ {f}, !.out = Failed(run.cur)]
  <2>1. run \in RunRow /\ Failed(run.cur) \in OutRow
    BY <1>1, CopyFacts
  <2>2. run' \in RunRow /\ run'.pc = "copy" /\ Inside(run, run') /\ run'.cur = run.cur /\ run'.todo = run.todo
    BY <1>1, <1>3, <2>1 DEF RunRow, Inside
  <2>3. RowsTellBytes' /\ archived \in [Drives -> [Files -> Rows]]
    BY <1>1, <1>3 DEF DrainInv, RowsTellBytes, Typed
  <2> QED BY <1>1, <1>3, <2>2, <2>3, CopyGoesOn DEF Satisfies
<1> QED BY <1>2, <1>3 DEF ReplicaExisting, HealFills

\* ReplicaCopy: the target gets what the source has; there is no row for it yet.
LEMMA ReplicaCopyKeeps ==
  ASSUME DrainInv, ReplicaCopy
  PROVE  DrainInv'
<1> DEFINE f == Min(run.files)
<1>1. run.pc = "copy" /\ run.files # {} /\ UNCHANGED <<archived, mounted, gated, stop, left>>
      /\ archived[run.pinned][f] = "none"
  BY DEF ReplicaCopy
<1>2. /\ run \in RunRow /\ run.pc \in BatchPcs /\ run.cur \in Reqs /\ run.pinned \in Drives
      /\ Source \in Drives /\ Source = Task[run.cur].source
      /\ f \in run.files /\ f \in Files /\ run.out \in OutRow /\ Failed(run.cur) \in OutRow
      /\ \A q \in run.todo : Task[q].source # None
  BY <1>1, CopyFacts
<1>3. CASE /\ bytes' = [bytes EXCEPT ![run.pinned][f] = bytes[Source][f]]
           /\ run' = [run EXCEPT !.pc = "copied"]
  <2> HIDE DEF f
  <2>1. bytes \in [Drives -> [Files -> Contents]] /\ bytes[Source][f] \in Contents
    BY <1>2 DEF DrainInv, Typed
  <2>2. Put(bytes, bytes', run.pinned, f, bytes[Source][f])
    BY <1>2, <1>3, <2>1, PutEntry
  <2>3. /\ bytes' \in [Drives -> [Files -> Contents]]
        /\ bytes'[run.pinned][f] = bytes[Source][f]
        /\ \A d \in Drives, g \in Files : ~(d = run.pinned /\ g = f) => bytes'[d][g] = bytes[d][g]
    BY <1>2, <2>1, <2>2 DEF Put
  <2>4. bytes'[run.pinned][f] = bytes'[Source][f]
    BY <1>2, <2>3
  <2>5. /\ run' \in RunRow /\ run'.pc = "copied" /\ Inside(run, run') /\ run'.cur = run.cur /\ run'.todo = run.todo
        /\ run'.files = run.files
    BY <1>1, <1>2, <1>3 DEF RunRow, Pcs, Inside
  <2>6. RowsTellBytes'
    BY <1>1, <1>2, <2>3 DEF DrainInv, RowsTellBytes
  <2>7. Source' = Source
    BY <2>5 DEF Source
  <2>8. StepKnows'
    BY <1>1, <1>2, <2>4, <2>5, <2>7 DEF StepKnows, FilePcs, Inside, f
  <2>9. Typed'
    BY <1>1, <2>3, <2>5 DEF DrainInv, Typed
  <2> QED BY <1>1, <1>2, <2>5, <2>6, <2>8, <2>9, WriteKeeps DEF Satisfies, BatchPcs, CopyPcs, FilePcs
<1>4. CASE bytes' = bytes /\ run' = [run EXCEPT !.files = @ \ {f}, !.out = Failed(run.cur)]
  <2>1. run' \in RunRow /\ run'.pc = "copy" /\ Inside(run, run') /\ run'.cur = run.cur /\ run'.todo = run.todo
    BY <1>1, <1>2, <1>4 DEF RunRow, Inside
  <2>2. RowsTellBytes' /\ archived' \in [Drives -> [Files -> Rows]]
    BY <1>1, <1>4 DEF DrainInv, RowsTellBytes, Typed
  <2> QED BY <1>1, <1>4, <2>1, <2>2, CopyGoesOn DEF Satisfies
<1>5. CASE bytes' = bytes /\ run' = [run EXCEPT !.files = {}, !.pc = "replica", !.out = [@ EXCEPT !.deferred = TRUE]]
  <2>1. [run.out EXCEPT !.deferred = TRUE] \in OutRow
    BY <1>2 DEF OutRow
  <2>2. run' \in RunRow /\ run'.pc = "replica" /\ Inside(run, run') /\ run'.cur = run.cur /\ run'.todo = run.todo
    BY <1>1, <1>2, <1>5, <2>1 DEF RunRow, Pcs, Inside
  <2>3. RowsTellBytes' /\ archived' \in [Drives -> [Files -> Rows]]
    BY <1>1, <1>5 DEF DrainInv, RowsTellBytes, Typed
  <2> QED BY <1>1, <1>5, <2>2, <2>3, CopyGoesOn DEF Satisfies
<1> QED BY <1>3, <1>4, <1>5 DEF ReplicaCopy

\* ReplicaRecord: the row of the source for the bytes of the source.
LEMMA ReplicaRecordKeeps ==
  ASSUME DrainInv, ReplicaRecord
  PROVE  DrainInv'
<1> DEFINE f == Min(run.files)
<1>1. /\ run.pc = "copied" /\ run.files # {} /\ UNCHANGED <<bytes, mounted, gated, stop, left>>
      /\ archived[run.pinned][f] = "none" /\ bytes[run.pinned][f] = bytes[Source][f]
      /\ archived' = [archived EXCEPT ![run.pinned][f] = archived[Source][f]]
      /\ run' = [run EXCEPT !.pc = "copy", !.files = @ \ {f}, !.out = [Stored(run.cur) EXCEPT !.copied = TRUE]]
  BY DEF ReplicaRecord, DrainInv, StepKnows
<1>2. /\ run \in RunRow /\ run.pinned \in Drives /\ Source \in Drives /\ f \in Files /\ Stored(run.cur) \in OutRow
  BY <1>1, CopyFacts
<1> HIDE DEF f
<1>3. archived \in [Drives -> [Files -> Rows]] /\ archived[Source][f] \in Rows
  BY <1>2 DEF DrainInv, Typed
<1>4. Put(archived, archived', run.pinned, f, archived[Source][f])
  BY <1>1, <1>2, <1>3, PutEntry
<1>5. /\ archived' \in [Drives -> [Files -> Rows]]
      /\ archived'[run.pinned][f] = archived[Source][f]
      /\ \A d \in Drives, g \in Files : ~(d = run.pinned /\ g = f) => archived'[d][g] = archived[d][g]
  BY <1>2, <1>3, <1>4 DEF Put
<1>6. [Stored(run.cur) EXCEPT !.copied = TRUE] \in OutRow
  BY <1>2 DEF OutRow
<1>7. run' \in RunRow /\ run'.pc = "copy" /\ Inside(run, run') /\ run'.cur = run.cur /\ run'.todo = run.todo
  BY <1>1, <1>2, <1>6 DEF RunRow, Pcs, Inside
<1>8. RowsTellBytes'
  BY <1>1, <1>2, <1>5 DEF DrainInv, RowsTellBytes
<1> QED BY <1>1, <1>2, <1>5, <1>7, <1>8, CopyGoesOn DEF Satisfies

-----------------------------------------------------------------------------
(* The world around the Fill                                               *)

\* BeginDrain and Crash: the thread begins, or is gone; rows and bytes stay.
LEMMA AnewKeeps ==
  ASSUME DrainInv, (\E guided \in BOOLEAN : BeginDrain(guided)) \/ Crash
  PROVE  DrainInv'
<1>1. /\ archived' = archived /\ bytes' = bytes /\ mounted' \subseteq Drives /\ gated' \subseteq Repos
      /\ stop' \in BOOLEAN
  BY DEF BeginDrain, Crash, World, DrainInv, Typed
<1>2. \/ run' = NoRun
      \/ \E guided \in BOOLEAN : run' = [NoRun EXCEPT !.pc = "loop", !.guided = guided]
  BY DEF BeginDrain, Crash
<1>3. NoRun.copy = {} /\ NoRun.state = None /\ NoRun.code = None /\ NoRun.published = {} /\ NoRun.pc = "none"
  BY DEF NoRun
<1>4. /\ run' \in RunRow /\ run'.pc \in {"none", "loop"} /\ run'.copy = {} /\ run'.state = None
      /\ run'.code = None /\ run'.published = {}
  BY ZenonT(40), <1>2, <1>3, NoRunTyped DEF RunRow, Pcs
<1>5. BatchOK(run') /\ VerdictOK(run')
  BY <1>4 DEF BatchOK, VerdictOK, FilePcs, BatchPcs, FetchPcs, CopyPcs
<1>6. StepKnows'
  BY <1>4 DEF StepKnows, FilePcs
<1> QED BY <1>1, <1>4, <1>5, <1>6, ThreadKeeps

\* A Stop, drives that come and go, access granted: the thread, the rows and the bytes stay.
LEMMA WorldKeeps ==
  ASSUME DrainInv,
         RequestStop \/ (\E d \in Drives : Unmount(d) \/ Mount(d)) \/ (\E p \in Repos : GrantAccess(p)) \/ UNCHANGED vars
  PROVE  DrainInv'
<1>1. archived' = archived /\ bytes' = bytes /\ run' = run
  BY DEF RequestStop, Unmount, Mount, GrantAccess, vars
<1>2. mounted' \subseteq Drives /\ gated' \subseteq Repos /\ stop' \in BOOLEAN
  BY DEF RequestStop, Unmount, Mount, GrantAccess, vars, DrainInv, Typed
<1>3. Typed'
  BY <1>1, <1>2 DEF DrainInv, Typed
<1>4. BatchOK(run)' /\ VerdictOK(run)' /\ StepKnows' /\ RowsTellBytes'
  BY <1>1 DEF DrainInv, BatchOK, VerdictOK, StepKnows, Source, RowsTellBytes
<1>5. PublishedHasRows'
  BY <1>1 DEF DrainInv, PublishedHasRows, Missing, Satisfies
<1>6. FeasibleIsSafe'
  BY <1>1 DEF DrainInv, FeasibleIsSafe, Kept, Deferred, SourceReady, Satisfies
<1> QED BY <1>3, <1>4, <1>5, <1>6 DEF DrainInv

-----------------------------------------------------------------------------
(* Theorems                                                                *)

\* Every projection begins with rows that tell what is on the drives.
LEMMA DrainInvInit == DrainInit => DrainInv
<1> SUFFICES ASSUME DrainInit PROVE DrainInv
  OBVIOUS
<1>1. PICK d \in Drives, f \in Files, was \in Found :
        /\ archived = [e \in Drives |-> [g \in Files |-> IF e = d /\ g = f THEN was[1] ELSE "none"]]
        /\ bytes = [e \in Drives |-> [g \in Files |-> IF e = d /\ g = f THEN was[2] ELSE "none"]]
  BY DEF DrainInit
<1>2. was[1] \in Rows /\ was[2] \in Contents /\ "none" \in Rows /\ "none" \in Contents
      /\ (was[1] = "good" => was[2] = "good")
  BY DEF Found, Rows, Contents
<1>3. /\ archived \in [Drives -> [Files -> Rows]] /\ bytes \in [Drives -> [Files -> Contents]]
      /\ RowsTellBytes
  BY <1>1, <1>2 DEF RowsTellBytes
<1>4. run = NoRun /\ mounted \subseteq Drives /\ gated \subseteq Repos /\ stop \in BOOLEAN
  BY DrainAssumption DEF DrainInit
<1>5. Typed
  BY <1>3, <1>4, NoRunTyped DEF Typed
<1>6. run.copy = {} /\ run.state = None /\ run.code = None /\ run.published = {} /\ run.pc = "none"
  BY <1>4 DEF NoRun
<1>7. BatchOK(run) /\ VerdictOK(run) /\ StepKnows /\ PublishedHasRows
  BY <1>6 DEF BatchOK, VerdictOK, StepKnows, PublishedHasRows, FilePcs, BatchPcs, FetchPcs, CopyPcs
<1>8. FeasibleIsSafe
  BY <1>6, Names DEF FeasibleIsSafe
<1> QED BY <1>3, <1>5, <1>7, <1>8 DEF DrainInv

\* Every step keeps it.
LEMMA DrainInvStep == DrainInv /\ [DrainNext]_vars => DrainInv'
<1> SUFFICES ASSUME DrainInv, [DrainNext]_vars PROVE DrainInv'
  OBVIOUS
<1>1. CASE AuthInvalid \/ DriveUnavailable \/ StopAtBoundary \/ Drained
  BY <1>1, LoopEndsKeep
<1>2. CASE PinBatch \/ AwaitDrive
  BY <1>2, PinKeeps, AwaitKeeps
<1>3. CASE FetchBegin \/ FetchRepo
  BY <1>3, FetchBeginKeeps, FetchRepoKeeps
<1>4. CASE ModelReturns \/ CapacityPreflight \/ DownloadStopped \/ CloseEnvelope
  BY <1>4, FetchStopsKeep
<1>5. CASE DownloadShard \/ OnGated \/ Verify
  BY <1>5, DownloadKeeps, OnGatedKeeps, VerifyKeeps
<1>6. CASE PublishStaged \/ RecordRow
  BY <1>6, PublishStagedKeeps, RecordRowKeeps
<1>7. CASE FetchOutcome \/ ReplicaOutcome \/ BatchBoundary
  BY <1>7, FetchOutcomeKeeps, ReplicaOutcomeKeeps, BoundaryKeeps
<1>8. CASE ReplicaTask \/ ReplicaTaskEnds
  BY <1>8, ReplicaTaskKeeps
<1>9. CASE ReplicaExisting \/ ReplicaCopy \/ ReplicaRecord
  BY <1>9, ReplicaExistingKeeps, ReplicaCopyKeeps, ReplicaRecordKeeps
<1>10. CASE (\E guided \in BOOLEAN : BeginDrain(guided)) \/ Crash
  BY <1>10, AnewKeeps
<1>11. CASE RequestStop \/ (\E d \in Drives : Unmount(d) \/ Mount(d)) \/ (\E p \in Repos : GrantAccess(p)) \/ UNCHANGED vars
  BY <1>11, WorldKeeps
<1> QED BY <1>1, <1>2, <1>3, <1>4, <1>5, <1>6, <1>7, <1>8, <1>9, <1>10, <1>11 DEF DrainNext, Step

\* What the Fill thread knows agrees with rows and bytes after every step, Stop, crash and
\* unmounted drive (fill._drain_projection, fetch.fetch_model, run_replica_tasks).
THEOREM DrainInvariant == DrainSpec => []DrainInv
BY DrainInvInit, DrainInvStep, PTL DEF DrainSpec

\* ReportsAreTrue: a row written from hashed bytes stands for them at its path; what was
\* published as complete stays complete and has its bytes; an orderly end leaves out only what
\* is parked or waits for its source (publish_completed, _terminal), for every projection and
\* any number of sessions.
THEOREM ReportsStayTrue == DrainSpec => []ReportsAreTrue
<1>1. DrainInv => ReportsAreTrue
  <2> SUFFICES ASSUME DrainInv PROVE ReportsAreTrue
    OBVIOUS
  <2>1. run \in RunRow
    BY DEF DrainInv, Typed
  <2>2. DrainTypeOK
    BY <2>1 DEF DrainInv, Typed, VerdictOK, DrainTypeOK, RunRow, MAX_TASK_ATTEMPTS
  <2>3. CompletionIsDurable
    <3> SUFFICES ASSUME NEW r \in run.published, NEW f \in Task[r].files
                 PROVE  Satisfies(Task[r].target, f) /\ Kept(Task[r].target, f)
      BY DEF CompletionIsDurable
    <3>1. r \in Reqs
      BY <2>1 DEF RunRow
    <3>2. f \in Files /\ Task[r].target \in Drives
      BY <3>1, Names, DrainAssumption
    <3>3. Satisfies(Task[r].target, f)
      BY DEF DrainInv, PublishedHasRows, Missing
    <3> QED BY <3>2, <3>3 DEF Satisfies, Kept, DrainInv, RowsTellBytes
  <2> QED BY <2>2, <2>3 DEF DrainInv, ReportsAreTrue
<1> QED BY <1>1, DrainInvariant, PTL

-----------------------------------------------------------------------------
(* Conflicting evidence                                                    *)

\* What may happen to the rows and the bytes in a step.
RowsStay == archived' = archived
BytesStay == bytes' = bytes
BadStays == \A d \in Drives, f \in Files : archived[d][f] = "bad" => archived'[d][f] = "bad"
ForeignStays ==
  \A d \in Drives, f \in Files : bytes[d][f] = "foreign" /\ run.pc # "copy" => bytes'[d][f] = "foreign"

\* A row goes only where no conflicting one is.
LEMMA RowsYield ==
  ASSUME DrainInv, RecordRow \/ ReplicaExisting \/ ReplicaRecord
  PROVE  BadStays /\ BytesStay
<1> DEFINE f == Min(run.files)
<1>1. archived \in [Drives -> [Files -> Rows]] /\ run \in RunRow /\ run.files # {} /\ run.pinned \in Drives
  BY DEF DrainInv, Typed, StepKnows, BatchOK, BatchPcs, FetchPcs, CopyPcs, RecordRow, ReplicaExisting, ReplicaRecord
<1>2. f \in run.files /\ f \in Files
  BY <1>1, Names, MinIsIn DEF RunRow
<1>3. archived[run.pinned][f] # "bad"
      \/ archived' = archived
  BY <1>2 DEF DrainInv, StepKnows, FilePcs, RecordRow, ReplicaExisting, HealFills, ReplicaRecord
<1>4. \/ archived' = archived
      \/ \E v : archived' = [archived EXCEPT ![run.pinned][f] = v]
  BY Zenon DEF RecordRow, ReplicaExisting, ReplicaRecord
<1>5. BytesStay
  BY DEF BytesStay, RecordRow, ReplicaExisting, ReplicaRecord
<1> HIDE DEF f
<1>6. CASE archived' = archived
  BY <1>5, <1>6 DEF BadStays
<1>7. CASE archived' # archived
  <2>1. PICK v : archived' = [archived EXCEPT ![run.pinned][f] = v]
    BY <1>4, <1>7
  <2>2. Put(archived, archived', run.pinned, f, v)
    BY <1>1, <1>2, <2>1, PutEntry
  <2>3. \A d \in Drives, g \in Files : ~(d = run.pinned /\ g = f) => archived'[d][g] = archived[d][g]
    BY <2>2 DEF Put
  <2> QED BY <1>3, <1>5, <1>7, <2>3 DEF BadStays
<1> QED BY <1>6, <1>7

\* Bytes go only where there are none, or the same (fetch), or where a copy has no row yet.
LEMMA BytesYield ==
  ASSUME DrainInv, PublishStaged \/ ReplicaCopy
  PROVE  RowsStay /\ ForeignStays
<1>1. CASE ReplicaCopy
  BY <1>1 DEF ReplicaCopy, RowsStay, ForeignStays
<1>2. CASE PublishStaged
  <2> DEFINE f == Min(run.files)
  <2>1. /\ bytes \in [Drives -> [Files -> Contents]] /\ run \in RunRow /\ run.files # {} /\ run.pinned \in Drives
        /\ run.staged = "good" /\ archived' = archived
    BY <1>2 DEF DrainInv, Typed, StepKnows, BatchOK, BatchPcs, FetchPcs, PublishStaged
  <2>2. f \in Files
    BY <2>1, Names, MinIsIn DEF RunRow
  <2>3. \/ bytes' = bytes
        \/ /\ bytes[run.pinned][f] \in {"none", run.staged}
           /\ bytes' = [bytes EXCEPT ![run.pinned][f] = run.staged]
    BY <1>2 DEF PublishStaged
  <2> HIDE DEF f
  <2>4. CASE bytes' = bytes
    BY <2>1, <2>4 DEF RowsStay, ForeignStays
  <2>5. CASE /\ bytes[run.pinned][f] \in {"none", run.staged}
             /\ bytes' = [bytes EXCEPT ![run.pinned][f] = run.staged]
    <3>1. Put(bytes, bytes', run.pinned, f, run.staged)
      BY <2>1, <2>2, <2>5, PutEntry
    <3>2. \A d \in Drives, g \in Files : ~(d = run.pinned /\ g = f) => bytes'[d][g] = bytes[d][g]
      BY <3>1 DEF Put
    <3> QED BY <2>1, <2>5, <3>2 DEF RowsStay, ForeignStays
  <2> QED BY <2>3, <2>4, <2>5
<1> QED BY <1>1, <1>2

\* No other step of the thread or of the world touches rows or bytes.
LEMMA OthersYield ==
  ASSUME DrainInv, [DrainNext]_vars,
         ~(RecordRow \/ ReplicaExisting \/ ReplicaRecord \/ PublishStaged \/ ReplicaCopy)
  PROVE  RowsStay /\ BytesStay
BY DEF DrainNext, Step, RowsStay, BytesStay, World, vars, BeginDrain, AuthInvalid, Drained, DriveUnavailable,
       PinBatch, AwaitDrive, StopAtBoundary, FetchBegin, FetchRepo, ModelReturns, CapacityPreflight,
       DownloadShard, DownloadStopped, OnGated, Verify, CloseEnvelope, FetchOutcome, ReplicaTask,
       ReplicaTaskEnds, ReplicaOutcome, BatchBoundary, RequestStop, Unmount, Mount, GrantAccess, Crash

\* ConflictKept: content that conflicts with the approval is evidence. No fetch replaces it at
\* its path, nothing replaces its row (fetch_model, _publish_staged, heal_replica_archived_from_source).
THEOREM ConflictsAreKept == DrainSpec => ConflictKept
<1>1. ASSUME DrainInv, [DrainNext]_vars
      PROVE  \A d \in Drives, f \in Files :
               /\ archived[d][f] = "bad" => archived'[d][f] = "bad"
               /\ bytes[d][f] = "foreign" /\ run.pc # "copy" => bytes'[d][f] = "foreign"
  <2>1. CASE RecordRow \/ ReplicaExisting \/ ReplicaRecord
    BY <1>1, <2>1, RowsYield DEF BadStays, BytesStay
  <2>2. CASE PublishStaged \/ ReplicaCopy
    BY <1>1, <2>2, BytesYield DEF RowsStay, ForeignStays
  <2>3. CASE ~(RecordRow \/ ReplicaExisting \/ ReplicaRecord \/ PublishStaged \/ ReplicaCopy)
    BY <1>1, <2>3, OthersYield DEF RowsStay, BytesStay
  <2> QED BY <2>1, <2>2, <2>3
<1>2. DrainInv /\ [DrainNext]_vars =>
        [\A d \in Drives, f \in Files :
           /\ archived[d][f] = "bad" => archived'[d][f] = "bad"
           /\ bytes[d][f] = "foreign" /\ run.pc # "copy" => bytes'[d][f] = "foreign"]_vars
  BY <1>1
<1> QED BY <1>2, DrainInvariant, PTL DEF DrainSpec, ConflictKept

\* FillTruthful: both of them, what the run of this module checks.
THEOREM FillStaysTruthful == DrainSpec => FillTruthful
BY ReportsStayTrue, ConflictsAreKept, PTL DEF FillTruthful

-----------------------------------------------------------------------------
(* The projection of an approval                                           *)

PjEnds ==
  {"none", "missing", "input", "identity", "violation", "unknown", "satisfied", "paused", "crashed"}
PjSemantics == {<<>>} \cup (BOOLEAN \X (0..1) \X [PjDrives -> 1..2] \X {"away", "placeable"} \X Nat)
PjCatalog ==
  [row : [PjFiles -> [PjDrives -> PjContents]], manifest : [DOMAIN pjWorld.files -> 0..1], extra : BOOLEAN,
   models : 0..1, epoch : [PjDrives -> 1..2], clean : [PjDrives -> BOOLEAN], old : {"away", "placeable"},
   lane : Nat, pointer : {"baseline", "this"}, approved : BOOLEAN]
PjFill ==
  [pc : {"draft", "none"} \cup InFill, left : SUBSET Todo, ready : SUBSET Todo, drive : PjDrives \cup {"none"},
   frozen : 0..1, semantic : PjSemantics, starts : Nat, end : PjEnds]

PjTyped ==
  /\ pjWorld \in PjWorlds
  /\ pjCat \in PjCatalog
  /\ pjConf \in 0..1
  /\ pjRun \in PjFill
  /\ pjRun.ready \subseteq pjRun.left

\* As long as nobody else came, the catalog is the approved one but for rows and evidence.
PjUntouched ==
  pjSince = {} =>
    /\ pjConf = 0 /\ ~pjCat.extra /\ pjCat.lane = 1
    /\ \A r \in DOMAIN pjWorld.files : pjCat.manifest[r] = 0
    /\ \A d \in PjDrives : pjCat.epoch[d] = 1
    /\ pjRun.pc # "draft" => pjCat.approved /\ pjRun.semantic = Semantic

\* A Fill adds copies where there were none, and heals those that prove nothing.
PjRowsGrow ==
  "rows" \notin pjSince =>
    \A f \in PjFiles, d \in PjDrives :
      \/ pjCat.row[f][d] = pjWorld.row[f][d]
      \/ pjCat.row[f][d] = "good" /\ pjWorld.row[f][d] \in {"none", "bare"}

\* A Fill under way has the approved configuration, and what it does not have left is done.
PjUnderWay ==
  /\ pjRun.pc \in InFill =>
       /\ pjRun.frozen = 0
       /\ \A t \in Todo \ pjRun.left : AllSatisfied(t, TargetOf(t))
  /\ pjRun.pc = "batch" => pjRun.drive \in PjDrives

PjInv ==
  /\ PjTyped /\ PjUntouched /\ PjRowsGrow /\ PjUnderWay
  /\ OwnWorkAdmitted /\ ApprovalStands /\ ReadyHasSource /\ SatisfiedIsThere

\* The tasks, files and drives of an approval.
LEMMA PjPlan ==
  ASSUME pjWorld \in PjWorlds
  PROVE  /\ "none" \notin PjDrives /\ PjStarts \in Nat
         /\ pjWorld.successor \in BOOLEAN
         /\ pjWorld.row \in [PjFiles -> [PjDrives -> PjContents]]
         /\ \A t \in PjTasks : /\ FilesOf(t) \subseteq PjFiles
                               /\ pjWorld.tasks[t].repo \in DOMAIN pjWorld.files
                               /\ TargetOf(t) \in PjDrives
                               /\ SourceOf(t) \in PjDrives \cup {"none"}
         /\ \A t \in PjTasks \ Todo : PjHolds(pjWorld, t, TargetOf(t))
         /\ \A t \in Todo : SourceOf(t) # "none" =>
              \/ PjHolds(pjWorld, t, SourceOf(t))
              \/ \E p \in Todo : /\ SourceOf(p) = "none" /\ TargetOf(p) = SourceOf(t)
                                 /\ pjWorld.tasks[p].repo = pjWorld.tasks[t].repo
<1> USE DEF PjFiles, PjTasks, Todo, FilesOf, TargetOf, SourceOf
<1>1. /\ "none" \notin PjDrives /\ PjStarts \in Nat /\ pjWorld.successor \in BOOLEAN
      /\ pjWorld.row \in [DOMAIN pjWorld.row -> [PjDrives -> PjContents]]
      /\ pjWorld.files \in [DOMAIN pjWorld.files -> SUBSET DOMAIN pjWorld.row]
      /\ pjWorld.tasks \in [DOMAIN pjWorld.tasks ->
                         [repo : DOMAIN pjWorld.files, kind : {"executable", "baseline"},
                          target : PjDrives, source : PjDrives \cup {"none"}]]
  BY ProjectionPlans
<1>2. \A t \in DOMAIN pjWorld.tasks :
            /\ pjWorld.tasks[t].kind = "baseline" => PjHolds(pjWorld, t, pjWorld.tasks[t].target)
            /\ pjWorld.tasks[t].kind = "executable" /\ pjWorld.tasks[t].source # "none" =>
                 \/ PjHolds(pjWorld, t, pjWorld.tasks[t].source)
                 \/ \E p \in DOMAIN pjWorld.tasks :
                      /\ pjWorld.tasks[p].kind = "executable" /\ pjWorld.tasks[p].source = "none"
                      /\ pjWorld.tasks[p].repo = pjWorld.tasks[t].repo
                      /\ pjWorld.tasks[p].target = pjWorld.tasks[t].source
  BY ProjectionPlans
<1>3. \A t \in DOMAIN pjWorld.tasks :
        /\ pjWorld.tasks[t].repo \in DOMAIN pjWorld.files
        /\ pjWorld.tasks[t].kind \in {"executable", "baseline"}
        /\ pjWorld.tasks[t].target \in PjDrives
        /\ pjWorld.tasks[t].source \in PjDrives \cup {"none"}
        /\ pjWorld.files[pjWorld.tasks[t].repo] \subseteq DOMAIN pjWorld.row
  BY <1>1
<1> QED BY <1>1, <1>2, <1>3

\* The plan never changes, nor what is made of it.
LEMMA PjSamePlan ==
  ASSUME pjWorld' = pjWorld
  PROVE  /\ PjFiles' = PjFiles /\ PjTasks' = PjTasks /\ Todo' = Todo
         /\ PjCatalog' = PjCatalog /\ PjFill' = PjFill
         /\ \A t : FilesOf(t)' = FilesOf(t) /\ TargetOf(t)' = TargetOf(t) /\ SourceOf(t)' = SourceOf(t)
BY DEF PjFiles, PjTasks, Todo, PjCatalog, PjFill, FilesOf, TargetOf, SourceOf

\* What the approval placed at first, or the Fill has done, is there until a row is rewritten.
LEMMA PjHeld ==
  ASSUME PjTyped, PjRowsGrow, "rows" \notin pjSince, NEW t \in PjTasks, NEW d \in PjDrives,
         PjHolds(pjWorld, t, d)
  PROVE  AllSatisfied(t, d) /\ \A f \in FilesOf(t) : pjCat.row[f][d] = pjWorld.row[f][d]
<1>1. d # "none" /\ FilesOf(t) \subseteq PjFiles
  BY PjPlan DEF PjTyped
<1>2. ASSUME NEW f \in FilesOf(t)
      PROVE  pjCat.row[f][d] = pjWorld.row[f][d] /\ PjSatisfied(f, d)
  BY <1>1, <1>2 DEF PjRowsGrow, PjHolds, FilesOf, PjAccepted, PjSatisfied
<1> QED BY <1>1, <1>2 DEF AllSatisfied

\* A projection refuses no work for what its own Fill did (project_pure).
LEMMA OwnWork ==
  ASSUME PjInv, pjSince = {}, pjRun.pc # "draft"
  PROVE  Refusal \in {"none", "unknown"}
<1> USE DEF PjInv
<1>1. pjCat.approved /\ pjRun.semantic = Semantic /\ ~pjCat.extra /\ pjCat.lane = 1
  BY DEF PjUntouched
<1>2. ~InputChanged /\ ~IdentityChanged
  BY <1>1, PjPlan DEF InputChanged, IdentityChanged, Expanded, SuccessorRefused, PjUntouched, PjTyped
<1>3. \A t \in PjTasks \ Todo : CertificateKept(t)
  BY PjHeld, PjPlan DEF CertificateKept, PjTyped
<1>4. ASSUME NEW t \in Unfinished, Unsourced(t)
      PROVE  PrimaryUnfinished(t)
  <2>1. t \in Todo /\ t \in PjTasks /\ SourceOf(t) # "none" /\ ~AllSatisfied(t, SourceOf(t))
    BY <1>4 DEF Unfinished, Unsourced, Todo
  <2>2. ~PjHolds(pjWorld, t, SourceOf(t))
    BY <2>1, PjHeld, PjPlan DEF PjTyped
  <2>3. PICK p \in Todo : /\ SourceOf(p) = "none" /\ TargetOf(p) = SourceOf(t)
                          /\ pjWorld.tasks[p].repo = pjWorld.tasks[t].repo
    BY <2>1, <2>2, PjPlan DEF PjTyped
  <2>4. ~AllSatisfied(p, TargetOf(p))
    BY <2>1, <2>3 DEF AllSatisfied, FilesOf
  <2> QED BY <2>3, <2>4 DEF PrimaryUnfinished, Unfinished
<1>5. ~SourceLost
  BY <1>4 DEF SourceLost
<1> QED BY <1>1, <1>2, <1>3, <1>5 DEF Refusal

\* What a projection admits is approved, and has its sources and its evidence.
LEMMA Admits ==
  ASSUME PjTyped, Refusal = "none"
  PROVE  /\ pjCat.approved
         /\ \A t \in PjTasks : pjCat.manifest[pjWorld.tasks[t].repo] = 0 /\ pjCat.epoch[TargetOf(t)] = 1
         /\ \A t \in PjTasks \ Todo : CertificateKept(t)
         /\ \A t \in Unfinished : pjCat.clean[TargetOf(t)]
BY DEF Refusal, InputChanged, IdentityChanged, EvidenceUnknown

\* Every refusal is one of the ends of a Fill.
LEMMA RefusalEnds == Refusal \in PjEnds \ {"satisfied", "paused", "crashed"}
BY DEF Refusal, PjEnds


-----------------------------------------------------------------------------
(* The steps of a projection                                               *)

\* The initial states.
LEMMA PjInitially == PjInit => PjInv
<1> SUFFICES ASSUME PjInit PROVE PjInv
  OBVIOUS
<1>1. pjWorld \in PjWorlds /\ pjWorld.row \in [PjFiles -> [PjDrives -> PjContents]]
  BY PjPlan DEF PjInit
<1>2. pjCat \in PjCatalog
  BY <1>1 DEF PjInit, PjCatalog
<1>3. pjRun \in PjFill /\ pjRun.ready = {} /\ pjRun.left = {} /\ pjRun.pc = "draft" /\ pjRun.end = "none"
  BY DEF PjInit, PjFill, PjSemantics, PjEnds
<1>4. PjTyped
  BY <1>1, <1>2, <1>3 DEF PjTyped, PjInit
<1>5. PjUntouched /\ PjRowsGrow
  BY <1>3 DEF PjUntouched, PjRowsGrow, PjInit
<1>6. PjUnderWay /\ OwnWorkAdmitted /\ ApprovalStands /\ ReadyHasSource /\ SatisfiedIsThere
  BY <1>3 DEF PjUnderWay, OwnWorkAdmitted, ApprovalStands, ReadyHasSource, SatisfiedIsThere, InFill
<1> QED BY <1>4, <1>5, <1>6 DEF PjInv

\* The rows of the catalog stay: what is said of copies stays.
LEMMA RowsSame ==
  ASSUME pjWorld' = pjWorld, pjCat'.row = pjCat.row
  PROVE  /\ \A f, d : PjSatisfied(f, d)' = PjSatisfied(f, d)
         /\ \A t, d : AllSatisfied(t, d)' = AllSatisfied(t, d)
BY PjSamePlan DEF PjSatisfied, AllSatisfied, PjAccepted, FilesOf

\* A change by others, between two sessions.
LEMMA OthersStep ==
  ASSUME PjInv, NEW what, NEW cat \in PjCatalog, Others(what, cat), what = "rows" \/ cat.row = pjCat.row
  PROVE  PjInv'
<1> USE DEF PjInv
<1>1. pjRun.pc = "none" /\ pjRun' = pjRun /\ pjWorld' = pjWorld /\ pjConf' = pjConf /\ pjCat' = cat
      /\ pjSince' = pjSince \cup {what}
  BY DEF Others
<1>2. PjTyped'
  BY <1>1, PjSamePlan DEF PjTyped
<1>3. PjUntouched' /\ OwnWorkAdmitted'
  BY <1>1 DEF PjUntouched, OwnWorkAdmitted
<1>4. PjUnderWay' /\ ApprovalStands' /\ ReadyHasSource'
  BY <1>1 DEF PjUnderWay, ApprovalStands, ReadyHasSource, InFill
<1>5. PjRowsGrow' /\ SatisfiedIsThere'
  <2>1. CASE what = "rows"
    BY <1>1, <2>1 DEF PjRowsGrow, SatisfiedIsThere
  <2>2. CASE cat.row = pjCat.row
    BY <1>1, <2>2, RowsSame, PjSamePlan DEF PjRowsGrow, SatisfiedIsThere
  <2> QED BY <2>1, <2>2
<1> QED BY <1>2, <1>3, <1>4, <1>5

\* The catalog after another row, or another word on a drive.
LEMMA RowTyped ==
  ASSUME pjCat \in PjCatalog, NEW f \in PjFiles, NEW d \in PjDrives, NEW c \in PjContents
  PROVE  /\ PjRow(f, d, c) \in PjCatalog
         /\ \A g \in PjFiles, e \in PjDrives :
              PjRow(f, d, c).row[g][e] = IF g = f /\ e = d THEN c ELSE pjCat.row[g][e]
         /\ PjRow(f, d, c) = [pjCat EXCEPT !.row = PjRow(f, d, c).row]
<1> DEFINE at == [pjCat.row[f] EXCEPT ![d] = c]
           rows == [pjCat.row EXCEPT ![f] = at]
<1>1. pjCat.row \in [PjFiles -> [PjDrives -> PjContents]]
  BY DEF PjCatalog
<1>2. at \in [PjDrives -> PjContents] /\ \A e \in PjDrives : at[e] = IF e = d THEN c ELSE pjCat.row[f][e]
  BY <1>1
<1> HIDE DEF at
<1>3. rows \in [PjFiles -> [PjDrives -> PjContents]] /\ \A g \in PjFiles : rows[g] = IF g = f THEN at ELSE pjCat.row[g]
  BY <1>1, <1>2
<1> HIDE DEF rows
<1>4. PjRow(f, d, c) = [pjCat EXCEPT !.row = rows]
  BY DEF PjRow, rows, at
<1>5. PjRow(f, d, c) \in PjCatalog /\ PjRow(f, d, c).row = rows
  BY <1>3, <1>4 DEF PjCatalog
<1> QED BY <1>2, <1>3, <1>4, <1>5

\* A change of the evidence of one drive keeps the types and all else.
LEMMA SeenTyped ==
  ASSUME pjCat \in PjCatalog, NEW d \in PjDrives, NEW seen \in BOOLEAN
  PROVE  /\ PjSeen(d, seen) \in PjCatalog
         /\ PjSeen(d, seen) = [pjCat EXCEPT !.clean = PjSeen(d, seen).clean]
<1>1. [pjCat.clean EXCEPT ![d] = seen] \in [PjDrives -> BOOLEAN]
  BY DEF PjCatalog
<1> QED BY <1>1 DEF PjCatalog, PjSeen

\* Each change by others is such a step.
LEMMA OthersKeep ==
  ASSUME PjInv, \/ Discover \/ SelectMore \/ Returns \/ PjWithdraw
                \/ \E d \in PjDrives : Reidentify(d)
                \/ \E r \in DOMAIN pjWorld.files : Rediscover(r)
                \/ \E n \in {0, 2} : Resize(n)
                \/ \E f \in PjFiles, d \in PjDrives : Rewrite(f, d)
  PROVE  PjInv'
<1>0. pjCat \in PjCatalog
  BY DEF PjInv, PjTyped
<1>1. CASE Discover
  BY <1>0, <1>1, OthersStep DEF Discover, PjCatalog
<1>2. CASE SelectMore
  BY <1>0, <1>2, OthersStep DEF SelectMore, PjCatalog
<1>3. CASE Returns
  BY <1>0, <1>3, OthersStep DEF Returns, PjCatalog
<1>4. CASE PjWithdraw
  BY <1>0, <1>4, OthersStep DEF PjWithdraw, PjCatalog
<1>5. ASSUME NEW d \in PjDrives, Reidentify(d) PROVE PjInv'
  <2>1. [pjCat.epoch EXCEPT ![d] = 2] \in [PjDrives -> 1..2]
    BY <1>0 DEF PjCatalog
  <2> QED BY <1>0, <1>5, <2>1, OthersStep DEF Reidentify, PjCatalog
<1>6. ASSUME NEW r \in DOMAIN pjWorld.files, Rediscover(r) PROVE PjInv'
  <2>1. [pjCat.manifest EXCEPT ![r] = 1] \in [DOMAIN pjWorld.files -> 0..1]
    BY <1>0 DEF PjCatalog
  <2> QED BY <1>0, <1>6, <2>1, OthersStep DEF Rediscover, PjCatalog
<1>7. ASSUME NEW n \in {0, 2}, Resize(n) PROVE PjInv'
  BY <1>0, <1>7, OthersStep DEF Resize, PjCatalog
<1>8. ASSUME NEW f \in PjFiles, NEW d \in PjDrives, Rewrite(f, d) PROVE PjInv'
  <2>1. PICK c \in {"good", "moved", "none"} : Others("rows", PjRow(f, d, c))
    BY <1>8 DEF Rewrite
  <2>2. PjRow(f, d, c) \in PjCatalog
    BY <1>0, RowTyped DEF PjContents
  <2> QED BY <2>1, <2>2, OthersStep
<1> QED BY <1>1, <1>2, <1>3, <1>4, <1>5, <1>6, <1>7, <1>8

\* The configuration is edited (a file, at any time).
LEMMA EditConfigKeeps ==
  ASSUME PjInv, EditConfig
  PROVE  PjInv'
<1> USE DEF PjInv
<1>1. pjConf' = 1 /\ pjSince' = pjSince \cup {"config"} /\ pjWorld' = pjWorld /\ pjCat' = pjCat /\ pjRun' = pjRun
  BY DEF EditConfig
<1>2. PjTyped' /\ PjUntouched' /\ PjRowsGrow' /\ OwnWorkAdmitted'
  BY <1>1, PjSamePlan DEF PjTyped, PjUntouched, PjRowsGrow, OwnWorkAdmitted
<1>3. PjUnderWay' /\ ReadyHasSource' /\ SatisfiedIsThere' /\ ApprovalStands'
  BY <1>1, RowsSame, PjSamePlan DEF PjUnderWay, ReadyHasSource, SatisfiedIsThere, ApprovalStands
<1> QED BY <1>2, <1>3

\* Most steps of the Fill, an approval and a reconciliation change no input of the projection but
\* what is known of the drives.
OwnStep ==
  /\ pjWorld' = pjWorld /\ pjConf' = pjConf /\ pjSince' = pjSince
  /\ pjCat'.manifest = pjCat.manifest /\ pjCat'.extra = pjCat.extra /\ pjCat'.models = pjCat.models
  /\ pjCat'.epoch = pjCat.epoch /\ pjCat'.old = pjCat.old /\ pjCat'.lane = pjCat.lane
  /\ pjCat'.row = pjCat.row

\* After such a step others still have not come, and the approval still has its hash.
LEMMA OwnKeeps ==
  ASSUME PjInv, OwnStep, PjTyped'
  PROVE  /\ PjRowsGrow'
         /\ (pjSince = {} /\ pjRun'.pc # "draft" => pjCat'.approved /\ pjRun'.semantic = Semantic)
            => PjUntouched'
<1>1. Semantic' = Semantic
  BY DEF OwnStep, Semantic
<1> QED BY <1>1, PjSamePlan DEF PjInv, OwnStep, PjRowsGrow, PjUntouched

\* A Fill goes on with what project_pure returns.
LEMMA ProjectedKeeps ==
  ASSUME PjInv, Refusal = "none", OwnStep, pjCat' = pjCat, pjRun' \in PjFill, pjRun.pc # "draft",
         pjRun'.pc = "drain", pjRun'.left = Unfinished, pjRun'.ready = {t \in Unfinished : ~Unsourced(t)},
         pjRun'.frozen = 0, pjRun'.end = pjRun.end, pjRun'.semantic = pjRun.semantic
  PROVE  PjInv'
<1> USE DEF PjInv
<1>1. PjTyped'
  BY PjSamePlan DEF PjTyped, OwnStep
<1>2. PjRowsGrow' /\ PjUntouched'
  BY <1>1, OwnKeeps DEF PjUntouched, OwnStep
<1>3. PjUnderWay'
  BY RowsSame, PjSamePlan DEF PjUnderWay, OwnStep, Unfinished
<1>4. OwnWorkAdmitted' /\ SatisfiedIsThere'
  BY RowsSame, PjSamePlan DEF OwnWorkAdmitted, SatisfiedIsThere, OwnStep
<1>5. ApprovalStands'
  BY Admits, PjSamePlan DEF PjTyped, ApprovalStands, OwnStep, CertificateKept
<1>6. ReadyHasSource'
  <2> SUFFICES ASSUME NEW t \in Unfinished, ~Unsourced(t), SourceOf(t) # "none"
               PROVE  \A f \in FilesOf(t) : PjSatisfied(f, SourceOf(t))
    BY RowsSame, PjSamePlan DEF ReadyHasSource, OwnStep
  <2> QED BY DEF Unsourced, AllSatisfied
<1> QED BY <1>1, <1>2, <1>3, <1>4, <1>5, <1>6

\* A Fill ends, for a reason that is not a wrong refusal or a wrong report.
LEMMA EndedKeeps ==
  ASSUME PjInv, OwnStep, pjCat' = pjCat, pjRun' \in PjFill, pjRun.pc # "draft", pjRun'.pc = "none",
         pjRun'.left = pjRun.left, pjRun'.ready = pjRun.ready, pjRun'.semantic = pjRun.semantic,
         pjSince = {} => pjRun'.end \notin {"missing", "input", "identity", "violation"},
         pjRun'.end = "satisfied" => pjRun.pc \in InFill /\ pjRun.left = {}
  PROVE  PjInv'
<1> USE DEF PjInv
<1>1. PjTyped'
  BY PjSamePlan DEF PjTyped, OwnStep
<1>2. PjRowsGrow' /\ PjUntouched'
  BY <1>1, OwnKeeps DEF PjUntouched, OwnStep
<1>3. PjUnderWay' /\ ApprovalStands' /\ ReadyHasSource' /\ OwnWorkAdmitted'
  BY DEF PjUnderWay, ApprovalStands, ReadyHasSource, OwnWorkAdmitted, InFill, OwnStep
<1>4. SatisfiedIsThere'
  <2> SUFFICES ASSUME pjRun.pc \in InFill, pjRun.left = {}, "rows" \notin pjSince,
                      NEW t \in PjTasks, NEW f \in FilesOf(t)
               PROVE  PjSatisfied(f, TargetOf(t))
    BY RowsSame, PjSamePlan DEF SatisfiedIsThere, OwnStep
  <2>1. CASE t \in Todo
    BY <2>1 DEF PjUnderWay, AllSatisfied
  <2>2. CASE t \notin Todo
    BY <2>2, PjPlan, PjHeld DEF AllSatisfied, PjTyped
  <2> QED BY <2>1, <2>2
<1> QED BY <1>1, <1>2, <1>3, <1>4

\* start_session.
LEMMA BeginKeeps ==
  ASSUME PjInv, PjBegin
  PROVE  PjInv'
<1> DEFINE why == IF pjCat.approved /\ pjConf # 0 THEN "input" ELSE Refusal
<1>1. pjRun \in PjFill /\ PjTyped /\ pjRun.pc = "none"
  BY DEF PjInv, PjTyped, PjBegin
<1>2. OwnStep /\ pjCat' = pjCat
  BY DEF PjBegin, OwnStep
<1>3. pjRun.starts + 1 \in Nat /\ pjConf \in 0..1
  BY <1>1 DEF PjFill, PjTyped
<1>4. CASE why = "none"
  <2>1. Refusal = "none" /\ pjConf = 0
    BY <1>1, <1>4, Admits
  <2>2. pjRun' = [Projected EXCEPT !.starts = @ + 1, !.frozen = pjConf]
    BY <1>4 DEF PjBegin
  <2>3. pjRun' = [pjRun EXCEPT !.pc = "drain", !.left = Unfinished, !.ready = {t \in Unfinished : ~Unsourced(t)},
                               !.drive = "none", !.starts = pjRun.starts + 1, !.frozen = pjConf]
    BY <1>1, <2>2 DEF Projected, PjFill
  <2>4. pjRun' \in PjFill
    BY <1>1, <1>3, <2>3 DEF PjFill, Unfinished, InFill
  <2> QED BY <1>1, <1>2, <2>1, <2>3, <2>4, ProjectedKeeps DEF PjFill
<1>5. CASE why # "none"
  <2>1. pjRun' = [Ended(why) EXCEPT !.starts = @ + 1, !.frozen = pjConf]
    BY <1>5 DEF PjBegin
  <2>2. pjRun' = [pjRun EXCEPT !.pc = "none", !.drive = "none", !.end = why, !.starts = pjRun.starts + 1,
                               !.frozen = pjConf]
    BY <1>1, <2>1 DEF Ended, PjFill
  <2>3. why \in PjEnds \ {"satisfied"}
    BY RefusalEnds DEF PjEnds
  <2>4. pjSince = {} => why = "unknown"
    BY <1>1, <1>5, OwnWork DEF PjInv, PjUntouched
  <2> HIDE DEF why
  <2>5. pjRun' \in PjFill
    BY <1>1, <1>3, <2>2, <2>3 DEF PjFill
  <2> QED BY <1>1, <1>2, <2>2, <2>3, <2>4, <2>5, EndedKeeps DEF PjFill
<1> QED BY <1>4, <1>5

\* _refresh_projection.
LEMMA RefreshKeeps ==
  ASSUME PjInv, PjRefresh
  PROVE  /\ PjInv'
         /\ pjRun'.pc = "drain" => pjRun'.left \subseteq pjRun.left /\ pjConf = 0
<1> DEFINE why == IF ConfigChanged THEN "input" ELSE Refusal
<1>1. pjRun \in PjFill /\ PjTyped /\ pjRun.pc = "boundary" /\ pjRun.frozen = 0
  BY DEF PjInv, PjTyped, PjRefresh, PjUnderWay, InFill
<1>2. OwnStep /\ pjCat' = pjCat
  BY DEF PjRefresh, OwnStep
<1>3. CASE why = "none"
  <2>1. Refusal = "none" /\ pjConf = 0
    BY <1>1, <1>3 DEF ConfigChanged
  <2>2. pjRun' = [pjRun EXCEPT !.pc = "drain", !.left = Unfinished, !.ready = {t \in Unfinished : ~Unsourced(t)},
                               !.drive = "none"]
    BY <1>3 DEF PjRefresh, Projected
  <2>3. pjRun' \in PjFill
    BY <1>1, <2>2 DEF PjFill, Unfinished, InFill
  <2>4. PjInv'
    BY <1>1, <1>2, <2>1, <2>2, <2>3, ProjectedKeeps DEF PjFill
  <2>5. Unfinished \subseteq pjRun.left
    BY <1>1 DEF Unfinished, PjInv, PjUnderWay, InFill
  <2> QED BY <1>1, <2>1, <2>2, <2>4, <2>5 DEF PjFill
<1>4. CASE why # "none"
  <2>1. pjRun' = [pjRun EXCEPT !.pc = "none", !.drive = "none", !.end = why]
    BY <1>4 DEF PjRefresh, Ended
  <2>2. why \in PjEnds \ {"satisfied"}
    BY RefusalEnds DEF PjEnds
  <2>3. pjSince = {} => why = "unknown"
    BY <1>1, <1>4, OwnWork DEF PjInv, PjUntouched, ConfigChanged
  <2> HIDE DEF why
  <2>4. pjRun' \in PjFill
    BY <1>1, <2>1, <2>2 DEF PjFill
  <2>5. PjInv'
    BY <1>1, <1>2, <2>1, <2>2, <2>3, <2>4, EndedKeeps DEF PjFill
  <2> QED BY <1>1, <2>1, <2>5 DEF PjFill
<1> QED BY <1>3, <1>4

\* The Fill ends, or its process dies.
LEMMA PjEndKeeps ==
  ASSUME PjInv, PjEnd \/ PjCrash
  PROVE  PjInv'
<1>1. pjRun \in PjFill /\ PjTyped
  BY DEF PjInv, PjTyped
<1>2. OwnStep /\ pjCat' = pjCat /\ pjRun.pc \in InFill
  BY DEF PjEnd, PjCrash, OwnStep, InFill
<1>3. PICK why \in {"satisfied", "paused", "crashed"} :
        /\ pjRun' = [pjRun EXCEPT !.pc = "none", !.drive = "none", !.end = why]
        /\ why = "satisfied" => pjRun.left = {}
  BY DEF PjEnd, PjCrash, Ended
<1>4. pjRun' \in PjFill
  BY <1>1, <1>3 DEF PjFill, PjEnds
<1> QED BY <1>1, <1>2, <1>3, <1>4, EndedKeeps DEF PjFill, InFill

\* An approval is given: its hash is of the catalog it is given for.
LEMMA ApproveKeeps ==
  ASSUME PjInv, PjApprove
  PROVE  PjInv'
<1> USE DEF PjInv
<1>1. pjRun \in PjFill /\ pjCat \in PjCatalog
  BY DEF PjTyped
<1>2. /\ pjCat' = [pjCat EXCEPT !.pointer = "this", !.approved = TRUE]
      /\ pjRun' = [pjRun EXCEPT !.pc = "none", !.semantic = Semantic]
  BY DEF PjApprove
<1>3. pjCat' \in PjCatalog /\ OwnStep /\ pjCat'.approved
  BY <1>1, <1>2 DEF PjCatalog, OwnStep, PjApprove
<1>4. pjWorld.successor \in BOOLEAN /\ pjCat.lane \in Nat
  BY <1>1, PjPlan DEF PjCatalog, PjTyped
<1>5. Semantic \in PjSemantics
  BY <1>1, <1>4 DEF Semantic, PjSemantics, PjCatalog
<1>6. pjRun' \in PjFill /\ pjRun'.semantic = Semantic /\ pjRun'.pc = "none" /\ pjRun'.end = pjRun.end
      /\ pjRun'.ready = pjRun.ready /\ pjRun'.left = pjRun.left
  BY <1>1, <1>2, <1>5 DEF PjFill
<1>7. PjTyped'
  BY <1>3, <1>6, PjSamePlan DEF PjTyped, OwnStep
<1>8. PjRowsGrow' /\ PjUntouched'
  BY <1>3, <1>6, <1>7, OwnKeeps
<1>9. PjUnderWay' /\ ApprovalStands' /\ ReadyHasSource' /\ OwnWorkAdmitted'
  BY <1>3, <1>6 DEF PjUnderWay, ApprovalStands, ReadyHasSource, OwnWorkAdmitted, InFill, OwnStep
<1>10. SatisfiedIsThere'
  BY <1>3, <1>6, RowsSame, PjSamePlan DEF SatisfiedIsThere, OwnStep
<1> QED BY <1>7, <1>8, <1>9, <1>10

\* The generation of a drive opens, closes, or is reconciled: only its evidence changes.
LEMMA SeenKeeps ==
  ASSUME PjInv, NEW d \in PjDrives, NEW seen \in BOOLEAN, pjCat' = PjSeen(d, seen), pjRun' \in PjFill,
         pjWorld' = pjWorld, pjConf' = pjConf, pjSince' = pjSince, pjRun.pc # "draft",
         pjRun'.pc # "drain", pjRun'.pc \in InFill => pjRun.pc \in InFill,
         pjRun'.pc = "batch" => pjRun'.drive \in PjDrives,
         pjRun'.left = pjRun.left, pjRun'.ready = pjRun.ready, pjRun'.frozen = pjRun.frozen,
         pjRun'.semantic = pjRun.semantic, pjRun'.end = pjRun.end
  PROVE  PjInv'
<1> USE DEF PjInv
<1>1. pjCat \in PjCatalog
  BY DEF PjTyped
<1>2. /\ pjCat' \in PjCatalog
      /\ pjCat' = [pjCat EXCEPT !.clean = pjCat'.clean]
  BY <1>1, SeenTyped
<1>3. OwnStep /\ pjCat'.approved = pjCat.approved
  BY <1>1, <1>2 DEF PjCatalog, OwnStep
<1>4. PjTyped'
  BY <1>2, <1>3, PjSamePlan DEF PjTyped, OwnStep
<1>5. PjRowsGrow' /\ PjUntouched'
  BY <1>3, <1>4, OwnKeeps DEF PjUntouched
<1>6. PjUnderWay' /\ ReadyHasSource' /\ SatisfiedIsThere'
  BY <1>3, RowsSame, PjSamePlan DEF PjUnderWay, ReadyHasSource, SatisfiedIsThere, OwnStep
<1>7. ApprovalStands' /\ OwnWorkAdmitted'
  BY DEF ApprovalStands, OwnWorkAdmitted
<1> QED BY <1>4, <1>5, <1>6, <1>7

\* Opening, closing and reconciling a generation are such steps.
LEMMA EvidenceKeeps ==
  ASSUME PjInv, PjClose \/ \E d \in PjDrives : PjBatch(d) \/ PjReconcile(d)
  PROVE  PjInv'
<1>1. pjRun \in PjFill
  BY DEF PjInv, PjTyped
<1>2. CASE PjClose
  <2>1. pjRun.drive \in PjDrives
    BY <1>2 DEF PjInv, PjUnderWay, PjClose
  <2>2. pjRun' = [pjRun EXCEPT !.pc = "boundary"] /\ pjRun.pc = "batch"
    BY <1>2 DEF PjClose
  <2>3. pjRun' \in PjFill
    BY <1>1, <2>2 DEF PjFill, InFill
  <2>4. PICK seen \in BOOLEAN : pjCat' = PjSeen(pjRun.drive, seen)
    BY <1>2 DEF PjClose
  <2> QED BY <1>1, <1>2, <2>1, <2>2, <2>3, <2>4, SeenKeeps DEF PjClose, PjFill, InFill
<1>3. ASSUME NEW d \in PjDrives, PjBatch(d) PROVE PjInv'
  <2>1. pjRun' = [pjRun EXCEPT !.pc = "batch", !.drive = d] /\ pjRun.pc = "drain"
    BY <1>3 DEF PjBatch
  <2>2. pjRun' \in PjFill
    BY <1>1, <2>1 DEF PjFill, InFill
  <2> QED BY <1>1, <1>3, <2>1, <2>2, SeenKeeps DEF PjBatch, PjFill, InFill
<1>4. ASSUME NEW d \in PjDrives, PjReconcile(d) PROVE PjInv'
  BY <1>1, <1>4, SeenKeeps DEF PjReconcile, InFill
<1> QED BY <1>2, <1>3, <1>4

\* A file is fetched, copied or healed: no copy that satisfied its task ceases to.
LEMMA RecordKeeps ==
  ASSUME PjInv, NEW f \in PjFiles, PjRecord(f)
  PROVE  PjInv'
<1> USE DEF PjInv
<1> DEFINE d == pjRun.drive
<1>1. /\ pjRun.pc = "batch" /\ d \in PjDrives /\ pjCat \in PjCatalog
      /\ pjRun' = pjRun /\ pjWorld' = pjWorld /\ pjConf' = pjConf /\ pjSince' = pjSince
      /\ pjCat' = PjRow(f, d, "good") /\ pjCat.row[f][d] \in {"none", "bare"}
  BY DEF PjRecord, PjUnderWay, PjTyped
<1> HIDE DEF d
<1>2. /\ pjCat' \in PjCatalog
      /\ \A g \in PjFiles, e \in PjDrives :
           pjCat'.row[g][e] = IF g = f /\ e = d THEN "good" ELSE pjCat.row[g][e]
      /\ pjCat' = [pjCat EXCEPT !.row = pjCat'.row]
  BY <1>1, RowTyped DEF PjContents
<1>3. /\ pjCat'.manifest = pjCat.manifest /\ pjCat'.extra = pjCat.extra /\ pjCat'.models = pjCat.models
      /\ pjCat'.epoch = pjCat.epoch /\ pjCat'.old = pjCat.old /\ pjCat'.lane = pjCat.lane
      /\ pjCat'.approved = pjCat.approved
  BY <1>1, <1>2 DEF PjCatalog
<1>4. PjTyped'
  BY <1>1, <1>2, PjSamePlan DEF PjTyped
<1>5. PjUntouched'
  BY <1>1, <1>3 DEF PjUntouched, Semantic
<1>6. PjRowsGrow'
  BY <1>1, <1>2, PjSamePlan, PjPlan DEF PjTyped, PjRowsGrow
<1>7. \A g \in PjFiles, e \in PjDrives : PjSatisfied(g, e) => PjSatisfied(g, e)'
  BY <1>1, <1>2 DEF PjSatisfied, PjAccepted
<1>8. \A t \in PjTasks, e \in PjDrives : AllSatisfied(t, e) => AllSatisfied(t, e)'
  BY <1>1, <1>7, PjPlan, PjSamePlan DEF AllSatisfied, PjTyped
<1>9. PjUnderWay'
  BY <1>1, <1>8, PjSamePlan, PjPlan DEF PjUnderWay, PjTyped, Todo
<1>10. ReadyHasSource' /\ SatisfiedIsThere'
  <2>1. Todo \subseteq PjTasks /\ pjRun.ready \subseteq Todo
    BY DEF Todo, PjTyped, PjFill
  <2>2. \A t \in PjTasks : FilesOf(t) \subseteq PjFiles /\ TargetOf(t) \in PjDrives
                           /\ SourceOf(t) \in PjDrives \cup {"none"}
    BY PjPlan DEF PjTyped
  <2> QED BY <1>1, <1>7, <2>1, <2>2, PjSamePlan DEF ReadyHasSource, SatisfiedIsThere
<1>11. OwnWorkAdmitted' /\ ApprovalStands'
  BY <1>1 DEF OwnWorkAdmitted, ApprovalStands
<1> QED BY <1>4, <1>5, <1>6, <1>9, <1>10, <1>11

\* Every step keeps the invariant, and a boundary keeps what was done.
LEMMA PjStep ==
  ASSUME PjInv, [PjNext]_pjVars
  PROVE  /\ PjInv'
         /\ pjRun.pc = "boundary" /\ pjRun'.pc = "drain" => pjRun'.left \subseteq pjRun.left /\ pjConf = 0
<1>1. CASE PjRefresh
  BY <1>1, RefreshKeeps
<1>2. CASE UNCHANGED pjVars
  <2>1. PjInv'
    BY <1>2, PjSamePlan, RowsSame DEF pjVars, PjInv, PjTyped, PjUntouched, PjRowsGrow, PjUnderWay,
       OwnWorkAdmitted, ApprovalStands, ReadyHasSource, SatisfiedIsThere, Semantic
  <2> QED BY <1>2, <2>1 DEF pjVars
<1>3. ASSUME PjNext, ~PjRefresh PROVE PjInv'
  BY <1>3, BeginKeeps, PjEndKeeps, ApproveKeeps, EvidenceKeeps, RecordKeeps, OthersKeep, EditConfigKeeps DEF PjNext
<1>4. ASSUME PjNext, ~PjRefresh PROVE ~(pjRun.pc = "boundary" /\ pjRun'.pc = "drain")
  <2>1. PjBegin \/ PjApprove \/ PjClose \/ PjEnd \/ (\E d \in PjDrives : PjBatch(d)) => pjRun.pc # "boundary"
    BY DEF PjBegin, PjApprove, PjClose, PjEnd, PjBatch
  <2>2. PjCrash => pjRun'.pc = "none"
    <3>1. pjRun \in PjFill
      BY DEF PjInv, PjTyped
    <3> QED BY <3>1 DEF PjCrash, Ended, PjFill
  <2>3. ASSUME ~PjBegin, ~PjApprove, ~PjClose, ~PjEnd, ~PjCrash, ~\E d \in PjDrives : PjBatch(d)
        PROVE  pjRun' = pjRun
    BY <1>4, <2>3 DEF PjNext, PjReconcile, Reidentify, PjRecord, Rewrite, Rediscover, Resize, Discover, SelectMore,
       Returns, PjWithdraw, EditConfig, Others
  <2> QED BY <2>1, <2>2, <2>3
<1> QED BY <1>1, <1>2, <1>3, <1>4

\* PjInv holds always: the inductive invariant of an approval, its Fills and the changes by others.
THEOREM ProjectionInvariant == PjSpec => []PjInv
<1>1. PjInit => PjInv
  BY PjInitially
<1>2. PjInv /\ [PjNext]_pjVars => PjInv'
  BY PjStep
<1> QED BY <1>1, <1>2, PTL DEF PjSpec

\* ProjectionKept: what a projection admits is approved and still to be done, a Fill is not refused
\* for its own work, a satisfied one has left all files in their places, and no boundary undoes
\* progress (project_pure, _refresh_projection).
THEOREM ProjectionsHold == PjSpec => ProjectionKept
<1>1. PjInv => ProjectionSound
  <2> SUFFICES ASSUME PjInv PROVE PjTypeOK
    BY DEF PjInv, ProjectionSound
  <2> QED BY DEF PjInv, PjTyped, PjTypeOK, PjFill, PjCatalog, PjEnds
<1>2. PjInv /\ [PjNext]_pjVars =>
        [pjRun.pc = "boundary" /\ pjRun'.pc = "drain" => pjRun'.left \subseteq pjRun.left /\ pjConf = 0]_pjVars
  BY PjStep
<1>3. PjSpec => []PjInv
  BY ProjectionInvariant
<1> QED BY <1>1, <1>2, <1>3, PTL DEF PjSpec, ProjectionKept, BoundariesKept

-----------------------------------------------------------------------------
(* One file between the Hub and its publication                            *)

EnPhases == {"down", "load", "watch", "read", "verify", "encode", "drop", "raw", "encoded"}

EnTyped ==
  /\ enWorld \in [hub : BOOLEAN, codec : {"none", "sound", "flawed", "aborts", "grows"},
                  faults : SUBSET EnFaults]
  /\ enStage = [orig |-> enStage.orig, znn |-> enStage.znn, tmp |-> enStage.tmp]
  /\ enStage.orig \in {"none", "A", "B"} /\ enStage.znn \in {"none", "A", "B", "bad"} /\ enStage.tmp \in BOOLEAN
  /\ enChild = [kind |-> enChild.kind, at |-> enChild.at, said |-> enChild.said, code |-> enChild.code,
                hung |-> enChild.hung]
  /\ enChild.kind \in {"none", "load", "encode"} /\ enChild.at \in {"start", "part", "write", "canary", "ended"}
  /\ enParent = [at |-> enParent.at, tries |-> enParent.tries, got |-> enParent.got, out |-> enParent.out,
                 stop |-> enParent.stop]
  /\ enParent.at \in EnPhases /\ enParent.tries \in 0..EnTries
  /\ enKept = [form |-> enKept.form, of |-> enKept.of, digest |-> enKept.digest, seen |-> enKept.seen]

\* From the digest to the publication the bytes named are the Hub's, if it names any.
Hashed == enKept.seen = enParent.got /\ (enWorld.hub => enParent.got = "A")
Encodes == enParent.at \in {"watch", "read"} /\ enChild.kind = "encode"

\* What the thread knows of the stage, its child's work included.
EnKnows ==
  /\ enParent.at \in {"encode", "raw", "drop"} \/ Encodes => Hashed /\ enStage.orig = enParent.got
  /\ enParent.at \in {"drop", "encoded"} \/ (Encodes /\ enChild.said = "ok") =>
       Hashed /\ enStage.znn = enParent.got
  /\ enParent.at \in {"watch", "read"} => enChild.kind # "none"
  /\ enChild.said = "ok" => ~ChildAlive
  /\ enChild.at = "part" => enChild.kind = "load" /\ enStage.orig = "none"
  /\ enChild.at \in {"write", "canary"} => enChild.kind = "encode"

EnInv == EnTyped /\ EnKnows /\ KeptIsOriginal /\ VerifiedStays /\ ChildrenBelong

\* An empty stage and nobody at work.
LEMMA EnInitInv == EnInit => EnInv
BY EnWorldsAssumption
   DEF EnInit, EnInv, EnTyped, EnPhases, EnKnows, KeptIsOriginal, VerifiedStays, ChildrenBelong, ChildAlive, Encodes

\* A fault happens once, and the world stays what it was otherwise.
LEMMA OnceKeeps ==
  ASSUME EnTyped, NEW f, Once(f) \/ Calm
  PROVE  /\ enWorld' \in [hub : BOOLEAN, codec : {"none", "sound", "flawed", "aborts", "grows"},
                          faults : SUBSET EnFaults]
         /\ enWorld'.hub = enWorld.hub /\ enWorld'.codec = enWorld.codec
BY DEF EnTyped, Once, Calm

\* The steps of the thread that leave its child alone.
LEMMA EnThreadInv ==
  ASSUME EnInv, EnBegin \/ EnLoad \/ EnExited \/ EnLoaded \/ EnVerify \/ EnDrop \/ EnPublish \/ EnEncoded
  PROVE  EnInv'
<1> USE DEF EnInv
<1> USE DEF EnTyped, EnPhases, EnKnows, KeptIsOriginal, VerifiedStays, ChildrenBelong, ChildAlive, Hashed, Encodes
<1>1. CASE EnBegin
  <2>1. EnTyped'
    BY <1>1, EnWorldsAssumption DEF EnBegin
  <2>2. EnKnows'
    BY <1>1, EnWorldsAssumption DEF EnBegin
  <2>3. KeptIsOriginal' /\ VerifiedStays' /\ ChildrenBelong'
    BY <1>1, EnWorldsAssumption DEF EnBegin
  <2> QED
    BY <2>1, <2>2, <2>3
<1>2. CASE EnLoad
  <2>1. CASE enParent.stop \/ enParent.tries = EnTries
    BY <1>2, <2>1 DEF EnLoad, Gives
  <2>2. CASE ~(enParent.stop \/ enParent.tries = EnTries)
    <3>1. /\ enParent' = [at |-> "watch", tries |-> enParent.tries + 1, got |-> enParent.got, out |-> enParent.out,
                          stop |-> enParent.stop]
          /\ enParent.at = "load" /\ UNCHANGED <<enWorld, enStage, enKept>>
      BY <1>2, <2>2 DEF EnLoad
    <3>2. enChild' = [kind |-> "load", at |-> "start", said |-> "nothing", code |-> "zero", hung |-> FALSE]
      BY <1>2, <2>2 DEF EnLoad, Spawn
    <3>3. enParent.tries + 1 \in 0..EnTries
      BY <2>2, EnWorldsAssumption
    <3>4. EnTyped'
      BY <3>1, <3>2, <3>3
    <3> QED
      BY <3>1, <3>2, <3>4
  <2> QED
    BY <2>1, <2>2
<1>3. CASE EnExited
  <2>1. EnTyped'
    BY <1>3 DEF EnExited
  <2>2. EnKnows'
    BY <1>3 DEF EnExited
  <2>3. KeptIsOriginal' /\ VerifiedStays' /\ ChildrenBelong'
    BY <1>3 DEF EnExited
  <2> QED
    BY <2>1, <2>2, <2>3
<1>4. CASE EnLoaded
  <2>1. EnTyped'
    BY <1>4 DEF EnLoaded, Reading, Reported, To, Gives
  <2>2. EnKnows'
    BY <1>4 DEF EnLoaded, Reading, Reported, To, Gives
  <2>3. KeptIsOriginal' /\ VerifiedStays' /\ ChildrenBelong'
    BY <1>4 DEF EnLoaded, Reading, Reported, To, Gives
  <2> QED
    BY <2>1, <2>2, <2>3
<1>5. CASE EnVerify
  <2>1. EnTyped'
    <3>1. /\ enParent' = [at |-> enParent'.at, tries |-> enParent.tries, got |-> enParent'.got,
                          out |-> enParent.out, stop |-> enParent.stop]
          /\ enParent'.at \in {"down", "raw", "encode"}
      BY <1>5 DEF EnVerify, Gives
    <3>2. enKept' = [form |-> enKept.form, of |-> enKept.of, digest |-> enKept.digest, seen |-> enKept'.seen]
      BY <1>5 DEF EnVerify
    <3>3. UNCHANGED <<enWorld, enStage, enChild>>
      BY <1>5 DEF EnVerify
    <3> QED
      BY <3>1, <3>2, <3>3
  <2>2. EnKnows'
    BY ZenonT(40), <1>5 DEF EnVerify, Gives, HubAgrees
  <2>3. KeptIsOriginal' /\ VerifiedStays' /\ ChildrenBelong'
    BY <1>5 DEF EnVerify, Gives, HubAgrees
  <2> QED
    BY <2>1, <2>2, <2>3
<1>6. CASE EnDrop
  <2>1. EnTyped'
    BY <1>6 DEF EnDrop, To
  <2>2. EnKnows'
    BY <1>6 DEF EnDrop, To
  <2>3. KeptIsOriginal' /\ VerifiedStays' /\ ChildrenBelong'
    BY <1>6 DEF EnDrop, To
  <2> QED
    BY <2>1, <2>2, <2>3
<1>7. CASE EnPublish
  <2>1. EnTyped'
    BY <1>7 DEF EnPublish, Gives
  <2>2. EnKnows'
    BY <1>7 DEF EnPublish, Gives
  <2>3. KeptIsOriginal' /\ VerifiedStays' /\ ChildrenBelong'
    BY <1>7 DEF EnPublish, Gives
  <2> QED
    BY <2>1, <2>2, <2>3
<1>8. CASE EnEncoded
  <2>1. EnTyped'
    BY <1>8 DEF EnEncoded, Reading, Reported, To, Gives, Left, Swept, Certified, RawAfter
  <2>2. EnKnows'
    BY <1>8 DEF EnEncoded, Reading, Reported, To, Gives, Left, Swept, Certified, RawAfter
  <2>3. KeptIsOriginal' /\ VerifiedStays' /\ ChildrenBelong'
    BY <1>8 DEF EnEncoded, Reading, Reported, To, Gives, Left, Swept, Certified, RawAfter
  <2> QED
    BY <2>1, <2>2, <2>3
<1> QED
  BY <1>1, <1>2, <1>3, <1>4, <1>5, <1>6, <1>7, <1>8

\* A child is started, or killed, or the process dies.
LEMMA EnHandsInv ==
  ASSUME EnInv, EnEncode \/ EnStopped \/ EnStalled \/ EnStop \/ EnCrash
  PROVE  EnInv'
<1> USE DEF EnInv
<1> USE DEF EnTyped, EnPhases, EnKnows, KeptIsOriginal, VerifiedStays, ChildrenBelong, ChildAlive, Hashed, Encodes
<1>1. CASE EnEncode
  <2>1. EnTyped'
    BY <1>1, OnceKeeps DEF EnEncode, To, Gives, Spawn
  <2>2. EnKnows'
    BY <1>1, OnceKeeps DEF EnEncode, To, Gives, Spawn
  <2>3. KeptIsOriginal' /\ VerifiedStays' /\ ChildrenBelong'
    BY <1>1, OnceKeeps DEF EnEncode, To, Gives, Spawn
  <2> QED
    BY <2>1, <2>2, <2>3
<1>2. CASE EnStopped
  <2>1. EnTyped'
    BY <1>2 DEF EnStopped, Killed, ChildEnds, Torn, ChildAlive
  <2>2. EnKnows'
    BY ZenonT(40), <1>2 DEF EnStopped, Killed, ChildEnds, Torn, ChildAlive
  <2>3. KeptIsOriginal' /\ VerifiedStays' /\ ChildrenBelong'
    BY <1>2 DEF EnStopped, Killed, ChildEnds, Torn, ChildAlive
  <2> QED
    BY <2>1, <2>2, <2>3
<1>3. CASE EnStalled
  <2>1. EnTyped'
    BY <1>3 DEF EnStalled, Killed, ChildEnds, Torn, ChildAlive
  <2>2. EnKnows'
    BY <1>3 DEF EnStalled, Killed, ChildEnds, Torn, ChildAlive
  <2>3. KeptIsOriginal' /\ VerifiedStays' /\ ChildrenBelong'
    BY <1>3 DEF EnStalled, Killed, ChildEnds, Torn, ChildAlive
  <2> QED
    BY <2>1, <2>2, <2>3
<1>4. CASE EnStop
  <2>1. EnTyped'
    BY <1>4, OnceKeeps DEF EnStop
  <2>2. EnKnows'
    BY <1>4, OnceKeeps DEF EnStop
  <2>3. KeptIsOriginal' /\ VerifiedStays' /\ ChildrenBelong'
    BY <1>4, OnceKeeps DEF EnStop
  <2> QED
    BY <2>1, <2>2, <2>3
<1>5. CASE EnCrash
  <2>1. EnTyped'
    BY <1>5, OnceKeeps DEF EnCrash, Gives, ChildEnds, Torn
  <2>2. EnKnows'
    BY <1>5, OnceKeeps DEF EnCrash, Gives, ChildEnds, Torn
  <2>3. KeptIsOriginal' /\ VerifiedStays' /\ ChildrenBelong'
    BY <1>5, OnceKeeps DEF EnCrash, Gives, ChildEnds, Torn
  <2> QED
    BY <2>1, <2>2, <2>3
<1> QED
  BY <1>1, <1>2, <1>3, <1>4, <1>5

\* The download child.
LEMMA EnLoadInv ==
  ASSUME EnInv, LoadBegins \/ LoadDone \/ LoadFails
  PROVE  EnInv'
<1> USE DEF EnInv
<1> USE DEF EnTyped, EnPhases, EnKnows, KeptIsOriginal, VerifiedStays, ChildrenBelong, ChildAlive, Hashed, Encodes
<1>1. CASE LoadBegins
  <2>1. EnTyped'
    BY ZenonT(40), <1>1 DEF LoadBegins, EnStarted, EnSays
  <2>2. EnKnows'
    BY <1>1 DEF LoadBegins, EnStarted, EnSays
  <2>3. KeptIsOriginal' /\ VerifiedStays' /\ ChildrenBelong'
    BY <1>1 DEF LoadBegins, EnStarted, EnSays
  <2> QED
    BY <2>1, <2>2, <2>3
<1>2. CASE LoadDone
  <2>1. EnTyped'
    BY <1>2, OnceKeeps DEF LoadDone, EnStarted, EnSays
  <2>2. EnKnows'
    BY <1>2, OnceKeeps DEF LoadDone, EnStarted, EnSays
  <2>3. KeptIsOriginal' /\ VerifiedStays' /\ ChildrenBelong'
    BY <1>2, OnceKeeps DEF LoadDone, EnStarted, EnSays
  <2> QED
    BY <2>1, <2>2, <2>3
<1>3. CASE LoadFails
  <2>1. EnTyped'
    BY <1>3, OnceKeeps DEF LoadFails, EnStarted, EnSays
  <2>2. EnKnows'
    BY <1>3, OnceKeeps DEF LoadFails, EnStarted, EnSays
  <2>3. KeptIsOriginal' /\ VerifiedStays' /\ ChildrenBelong'
    BY <1>3, OnceKeeps DEF LoadFails, EnStarted, EnSays
  <2> QED
    BY <2>1, <2>2, <2>3
<1> QED
  BY <1>1, <1>2, <1>3

\* The compressing child, and what may happen to either.
LEMMA EnChildInv ==
  ASSUME EnInv, EncBind \/ EncName \/ EncCap \/ EncAbort \/ EncCanary \/ EncMemory \/ EnHang \/ EnChildDies
  PROVE  EnInv'
<1> USE DEF EnInv
<1> USE DEF EnTyped, EnPhases, EnKnows, KeptIsOriginal, VerifiedStays, ChildrenBelong, ChildAlive, Hashed, Encodes
<1>1. CASE EncBind
  <2>1. EnTyped'
    BY ZenonT(40), <1>1 DEF EncBind, EnStarted, ChildEnds, OrphanSeen
  <2>2. EnKnows'
    BY <1>1 DEF EncBind, EnStarted, ChildEnds, OrphanSeen
  <2>3. KeptIsOriginal' /\ VerifiedStays' /\ ChildrenBelong'
    BY <1>1 DEF EncBind, EnStarted, ChildEnds, OrphanSeen
  <2> QED
    BY <2>1, <2>2, <2>3
<1>2. CASE EncName
  <2>1. EnTyped'
    BY <1>2 DEF EncName, EnStarted
  <2>2. EnKnows'
    BY <1>2 DEF EncName, EnStarted
  <2>3. KeptIsOriginal' /\ VerifiedStays' /\ ChildrenBelong'
    BY <1>2 DEF EncName, EnStarted
  <2> QED
    BY <2>1, <2>2, <2>3
<1>3. CASE EncCap
  <2>1. EnTyped'
    BY <1>3 DEF EncCap, EnStarted, EnSays
  <2>2. EnKnows'
    BY <1>3 DEF EncCap, EnStarted, EnSays
  <2>3. KeptIsOriginal' /\ VerifiedStays' /\ ChildrenBelong'
    BY <1>3 DEF EncCap, EnStarted, EnSays
  <2> QED
    BY <2>1, <2>2, <2>3
<1>4. CASE EncAbort
  <2>1. EnTyped'
    BY <1>4 DEF EncAbort, EnStarted, ChildEnds, Torn
  <2>2. EnKnows'
    BY <1>4 DEF EncAbort, EnStarted, ChildEnds, Torn
  <2>3. KeptIsOriginal' /\ VerifiedStays' /\ ChildrenBelong'
    BY <1>4 DEF EncAbort, EnStarted, ChildEnds, Torn
  <2> QED
    BY <2>1, <2>2, <2>3
<1>5. CASE EncCanary
  <2>1. EnTyped'
    BY <1>5 DEF EncCanary, EnStarted, EnSays, RoundTrips
  <2>2. EnKnows'
    BY <1>5 DEF EncCanary, EnStarted, EnSays, RoundTrips
  <2>3. KeptIsOriginal' /\ VerifiedStays' /\ ChildrenBelong'
    BY <1>5 DEF EncCanary, EnStarted, EnSays, RoundTrips
  <2> QED
    BY <2>1, <2>2, <2>3
<1>6. CASE EncMemory
  <2>1. EnTyped'
    BY <1>6, OnceKeeps DEF EncMemory, EnStarted, EnSays
  <2>2. EnKnows'
    BY <1>6, OnceKeeps DEF EncMemory, EnStarted, EnSays
  <2>3. KeptIsOriginal' /\ VerifiedStays' /\ ChildrenBelong'
    BY <1>6, OnceKeeps DEF EncMemory, EnStarted, EnSays
  <2> QED
    BY <2>1, <2>2, <2>3
<1>7. CASE EnHang
  <2>1. EnTyped'
    BY <1>7, OnceKeeps DEF EnHang
  <2>2. EnKnows'
    BY <1>7, OnceKeeps DEF EnHang
  <2>3. KeptIsOriginal' /\ VerifiedStays' /\ ChildrenBelong'
    BY <1>7, OnceKeeps DEF EnHang
  <2> QED
    BY <2>1, <2>2, <2>3
<1>8. CASE EnChildDies
  <2>1. EnTyped'
    BY <1>8, OnceKeeps DEF EnChildDies, ChildEnds, Torn
  <2>2. EnKnows'
    BY <1>8, OnceKeeps DEF EnChildDies, ChildEnds, Torn
  <2>3. KeptIsOriginal' /\ VerifiedStays' /\ ChildrenBelong'
    BY <1>8, OnceKeeps DEF EnChildDies, ChildEnds, Torn
  <2> QED
    BY <2>1, <2>2, <2>3
<1> QED
  BY <1>1, <1>2, <1>3, <1>4, <1>5, <1>6, <1>7, <1>8

\* Every step keeps it.
LEMMA EnStepInv == EnInv /\ [EnNext]_enVars => EnInv'
<1> SUFFICES ASSUME EnInv, [EnNext]_enVars PROVE EnInv'
  OBVIOUS
<1>1. CASE UNCHANGED enVars
  BY <1>1 DEF enVars, EnInv, EnTyped, EnKnows, KeptIsOriginal, VerifiedStays, ChildrenBelong, ChildAlive,
              Hashed, Encodes
<1>2. CASE EnNext
  BY <1>2, EnThreadInv, EnHandsInv, EnLoadInv, EnChildInv DEF EnNext, EnStep
<1> QED
  BY <1>1, <1>2

\* What is published decodes to what was verified and, where the Hub names a digest, to the Hub's,
\* whatever children and processes die or hang (fetch_model).
THEOREM EncodingStaysSound == EnSpec => []EncodingSound
<1>1. EnInv => EncodingSound
  BY DEF EnInv, EnTyped, EnPhases, EncodingSound, EnTypeOK
<1> QED
  BY <1>1, EnInitInv, EnStepInv, PTL DEF EnSpec

-----------------------------------------------------------------------------
(* Decoding in guarded children                                            *)

CdEnds == {"eof", "LIMIT", "RESOURCE", "INVALID", "UNSUPPORTED", "WORKER_FAILED", "cancelled", "closed", "dead"}
CdPhases == {"none", "fresh", "take", "work", "hung", "meta", "size", "stream", "send", "fail", "gone"}
\* A pipe holds one packet at most.
NoPacket == cdOut = <<>>
Packet == Head(cdOut)
OnePacket == NoPacket \/ cdOut = <<[k |-> Packet.k, n |-> Packet.n]>>

CdTyped ==
  /\ cdP = [at |-> cdP.at, fed |-> cdP.fed, closed |-> cdP.closed, runtime |-> cdP.runtime, status |-> cdP.status,
            left |-> cdP.left, got |-> cdP.got, eof |-> cdP.eof, holds |-> cdP.holds]
  /\ cdP.at \in {"idle", "on"} /\ cdP.fed \in Nat /\ cdP.left \in Nat /\ cdP.got \in Nat
  /\ cdC = [at |-> cdC.at, read |-> cdC.read, sent |-> cdC.sent, exit |-> cdC.exit, said |-> cdC.said,
            noise |-> cdC.noise]
  /\ cdC.at \in CdPhases /\ cdC.read \in Nat /\ cdC.sent \in Nat /\ cdC.said \in {""} \cup Refusals
  /\ cdIn \in {0, 1} /\ cdNoise \in {0, 1} /\ OnePacket
  /\ cdTotal \in Nat /\ cdEnd \in {"open"} \cup CdEnds

\* The artifact, and what was told of the frames before this one.
CdTold ==
  /\ cdWorld \in CdWorlds
  /\ cdFrame \in 1..(Len(cdWorld.frames) + 1)
  /\ cdProofs \in Seq(Nat) /\ Len(cdProofs) = cdFrame - 1
  /\ \A f \in 1..cdFrame - 1 : FrameProven(f)

\* Between two sessions, and after the last.
CdAtRest ==
  cdP.at = "idle" =>
    /\ cdEnd = "open" => cdC = NoChild /\ cdIn = 0 /\ NoPacket /\ cdNoise = 0 /\ AddUp(cdProofs, cdTotal)
    /\ cdEnd # "open" => cdC.at \in {"none", "gone"} \/ (cdC.at \in {"fresh", "fail"} /\ cdEnd = "dead")

\* The parent's books: what it fed and got of the frame, and what it had before.
FrameLeft == cdFrame <= Len(cdWorld.frames)
CdLedger ==
  cdP.at = "on" =>
    /\ cdEnd = "open" /\ FrameLeft
    /\ cdP.got <= cdTotal /\ AddUp(cdProofs, cdTotal - cdP.got)
    /\ Framed => cdTotal - cdP.got + Frame.orig <= cdWorld.expected
    /\ cdP.fed <= Frame.stored /\ cdP.fed <= Frame.has
    /\ cdP.status = "O" => Framed /\ cdP.got + cdP.left = Frame.orig
    /\ cdP.status # "O" => cdP.left = 0 /\ (Framed => cdP.got = 0)
    /\ cdP.status = "E" => ~Framed /\ cdP.got = Frame.orig
    /\ cdP.status \in {"O", "E"} => Frame.sound /\ Frame.stored <= Frame.has

\* The child has said nothing that ends its session.
Undecided == cdC.at \in {"fresh", "take", "work", "hung", "meta", "size", "stream", "fail"}

\* What the child did, against what it said and the parent heard.
CdTalk ==
  cdP.at = "on" =>
    /\ cdC.at # "none" /\ cdC.read + cdIn <= cdP.fed
    /\ IF Framed THEN cdC.at # "stream" ELSE cdC.at \notin {"take", "work", "hung", "size"}
    /\ Framed /\ cdC.at \in {"work", "meta", "size", "send"} => cdC.read = Frame.stored
    /\ Framed /\ cdC.at \in {"meta", "size", "send"} => Frame.sound
    /\ cdC.at \in {"fresh", "take", "work", "hung", "meta"} => NoPacket /\ ~cdP.runtime
    /\ Undecided => cdP.status = "" /\ (NoPacket \/ Packet.k \in {"M", "D"})
    /\ ~NoPacket /\ Packet.k = "O" => Frame.sound /\ Frame.stored <= Frame.has
    /\ ~NoPacket /\ Packet.k = "E" => Packet.n = Frame.orig /\ Frame.sound /\ Frame.stored <= Frame.has
    /\ ~NoPacket /\ Packet.k = "torn" => cdP.status = ""
    /\ cdC.at = "fail" => cdC.said # ""
    /\ cdC.at \notin {"fail", "gone"} => cdC.said = ""
    /\ cdC.said \in {"R", "U"} => ~cdP.runtime /\ (cdC.at = "fail" => NoPacket)
    /\ cdC.at = "gone" /\ cdC.said # "" =>
         \/ cdP.status = "" /\ ~NoPacket /\ Packet.k = cdC.said
         \/ cdP.status = cdC.said /\ NoPacket
    /\ cdP.eof => cdC.at = "gone" /\ NoPacket

CdInv == CdTyped /\ CdTold /\ CdAtRest /\ CdLedger /\ CdTalk /\ EofIsWhole /\ NeverTooMuch /\ RefusalKept

\* Nothing adds up to nothing, and one more part to that much more.
LEMMA AddUpNothing == AddUp(<<>>, 0)
<1> DEFINE upto == [i \in 0..0 |-> 0]
<1>1. upto \in [0..Len(<<>>) -> 0..0] /\ upto[0] = 0 /\ upto[Len(<<>>)] = 0
  OBVIOUS
<1>2. 1..Len(<<>>) = {}
  OBVIOUS
<1> HIDE DEF upto
<1> QED
  BY <1>1, <1>2 DEF AddUp

\* And one part more adds up to that much more.
LEMMA AddUpMore ==
  ASSUME NEW s \in Seq(Nat), NEW t \in Nat, NEW n \in Nat, AddUp(s, t)
  PROVE  AddUp(Append(s, n), t + n)
<1>1. PICK upto \in [0..Len(s) -> 0..t] :
        upto[0] = 0 /\ upto[Len(s)] = t /\ \A i \in 1..Len(s) : upto[i] = upto[i - 1] + s[i]
  BY DEF AddUp
<1> DEFINE m == Len(s)
<1> DEFINE more == [i \in 0..m + 1 |-> IF i <= m THEN upto[i] ELSE t + n]
<1>2. m \in Nat /\ Len(Append(s, n)) = m + 1 /\ \A i \in 1..m : Append(s, n)[i] = s[i]
  OBVIOUS
<1>3. Append(s, n)[m + 1] = n
  OBVIOUS
<1> HIDE DEF m
<1>4. more \in [0..m + 1 -> 0..t + n]
  <2> SUFFICES ASSUME NEW i \in 0..m + 1 PROVE (IF i <= m THEN upto[i] ELSE t + n) \in 0..t + n
    OBVIOUS
  <2>1. CASE i <= m
    <3>1. upto[i] \in 0..t
      BY SMTT(30), <1>1, <1>2, <2>1 DEF m
    <3> QED
      BY <2>1, <3>1
  <2> QED
    BY <2>1
<1>5. more[0] = 0 /\ more[m + 1] = t + n
  BY <1>1, <1>2 DEF m
<1>6. \A i \in 1..m + 1 : more[i] = more[i - 1] + Append(s, n)[i]
  <2> SUFFICES ASSUME NEW i \in 1..m + 1 PROVE more[i] = more[i - 1] + Append(s, n)[i]
    OBVIOUS
  <2>1. CASE i <= m
    <3>1. upto[i] = upto[i - 1] + s[i]
      BY <1>1, <1>2, <2>1 DEF m
    <3> QED
      BY <1>2, <2>1, <3>1
  <2>2. CASE i = m + 1
    <3>1. more[i] = t + n /\ more[i - 1] = t
      BY <1>1, <1>2, <2>2 DEF m
    <3> QED
      BY <1>3, <2>2, <3>1
  <2> QED
    BY <1>2, <2>1, <2>2
<1> HIDE DEF more
<1> QED
  BY <1>2, <1>4, <1>5, <1>6 DEF AddUp

\* Frames are numbers and a mark, and the artifact stays the same.
LEMMA FramesAre ==
  ASSUME cdWorld \in CdWorlds
  PROVE  /\ Len(cdWorld.frames) \in Nat /\ cdWorld.expected \in Nat /\ DOMAIN cdWorld.frames = 1..Len(cdWorld.frames)
         /\ \A f \in 1..Len(cdWorld.frames) :
              /\ cdWorld.frames[f].stored \in Nat /\ cdWorld.frames[f].orig \in Nat
              /\ cdWorld.frames[f].has \in Nat /\ cdWorld.frames[f].sound \in BOOLEAN
<1> DEFINE FrameSet == [stored : Nat, orig : Nat, has : Nat, sound : BOOLEAN]
<1>1. cdWorld.frames \in Seq(FrameSet) /\ cdWorld.expected \in Nat
  BY CdWorldsAssumption
<1> HIDE DEF FrameSet
<1>2. \A f \in 1..Len(cdWorld.frames) : cdWorld.frames[f] \in FrameSet
  BY <1>1
<1>3. Len(cdWorld.frames) \in Nat /\ DOMAIN cdWorld.frames = 1..Len(cdWorld.frames)
  BY <1>1
<1> QED
  BY <1>1, <1>2, <1>3 DEF FrameSet

\* The frame at hand, as long as it is the same.
LEMMA FrameStays ==
  ASSUME UNCHANGED <<cdWorld, cdFrame>>
  PROVE  Frame' = Frame /\ (Framed' <=> Framed) /\ (FrameLeft' <=> FrameLeft) /\ cdWorld'.expected = cdWorld.expected
BY DEF Frame, Framed, FrameLeft

\* The frame at hand is one of the container, with sizes.
LEMMA FrameIs ==
  ASSUME CdTold, FrameLeft
  PROVE  /\ Frame.stored \in Nat /\ Frame.has \in Nat /\ Frame.orig \in Nat /\ Frame.sound \in BOOLEAN
         /\ cdFrame \in DOMAIN cdWorld.frames /\ cdWorld.expected \in Nat
<1>1. cdFrame \in 1..Len(cdWorld.frames)
  BY FramesAre DEF CdTold, FrameLeft
<1> QED
  BY <1>1, FramesAre DEF CdTold, Frame

\* What is in the result pipe stays there until it is taken.
LEMMA PacketStays ==
  ASSUME UNCHANGED cdOut
  PROVE  Packet' = Packet /\ (NoPacket' <=> NoPacket) /\ (OnePacket' <=> OnePacket)
BY DEF Packet, NoPacket, OnePacket

\* The pipe to the parent holds one packet, and is empty once that is taken.
LEMMA PacketTaken ==
  ASSUME OnePacket, ~NoPacket
  PROVE  /\ cdOut # <<>> /\ Packet = [k |-> Packet.k, n |-> Packet.n] /\ Tail(cdOut) = <<>>
         /\ (cdOut' = Tail(cdOut) => NoPacket' /\ OnePacket')
<1> DEFINE p == [k |-> Packet.k, n |-> Packet.n]
<1>1. cdOut = <<p>> /\ cdOut # <<>>
  BY DEF OnePacket, NoPacket
<1> HIDE DEF p
<1>2. Tail(cdOut) = <<>> /\ Head(cdOut) = p
  BY <1>1
<1>3. Packet = p
  BY <1>2 DEF Packet
<1> QED
  BY <1>1, <1>2, <1>3 DEF p, NoPacket, OnePacket

\* What a child says is the packet then on its way; it waits until the pipe is empty.
LEMMA PacketSaid ==
  ASSUME OnePacket, NEW k, NEW n, Say(k, n)
  PROVE  NoPacket /\ ~NoPacket' /\ OnePacket' /\ Packet'.k = k /\ Packet'.n = n
<1> DEFINE p == [k |-> k, n |-> n]
<1>1. Len(cdOut) < 1 /\ cdOut' = Append(cdOut, p)
  BY DEF Say, Room
<1>2. NoPacket
  <2> DEFINE q == [k |-> Packet.k, n |-> Packet.n]
  <2>1. cdOut = <<>> \/ cdOut = <<q>>
    BY DEF OnePacket, NoPacket
  <2> HIDE DEF q
  <2> QED
    BY <1>1, <2>1 DEF NoPacket
<1>3. p.k = k /\ p.n = n /\ p = [k |-> p.k, n |-> p.n]
  OBVIOUS
<1> HIDE DEF p
<1>4. cdOut' = <<p>>
  BY <1>1, <1>2 DEF NoPacket
<1>5. Head(cdOut') = p /\ cdOut' # <<>>
  BY <1>4
<1> QED
  BY <1>2, <1>3, <1>4, <1>5 DEF Packet, NoPacket, OnePacket

\* An artifact, and nobody at work.
LEMMA CdInitInv == CdInit => CdInv
<1> SUFFICES ASSUME CdInit PROVE CdInv
  OBVIOUS
<1>1. CdTyped
  BY DEF CdInit, CdTyped, NoSession, NoChild, CdPhases, NoPacket, OnePacket, CdEnds
<1>2. CdTold
  <2>1. cdFrame \in 1..(Len(cdWorld.frames) + 1) /\ cdProofs \in Seq(Nat)
    BY FramesAre DEF CdInit
  <2> QED
    BY <2>1 DEF CdInit, CdTold
<1>3. CdAtRest
  BY AddUpNothing DEF CdInit, CdAtRest, NoSession, NoPacket
<1>4. CdLedger /\ CdTalk
  BY DEF CdInit, CdLedger, CdTalk, NoSession
<1>5. NeverTooMuch
  BY FramesAre DEF CdInit, NeverTooMuch
<1>6. EofIsWhole /\ RefusalKept
  BY DEF CdInit, EofIsWhole, RefusalKept
<1> QED
  BY <1>1, <1>2, <1>3, <1>4, <1>5, <1>6 DEF CdInv

\* The numbers of a session.
LEMMA CdNumbers ==
  ASSUME CdTyped
  PROVE  /\ cdP.fed \in Nat /\ cdP.left \in Nat /\ cdP.got \in Nat /\ cdTotal \in Nat
         /\ cdC.read \in Nat /\ cdC.sent \in Nat /\ cdIn \in {0, 1} /\ cdNoise \in {0, 1}
BY DEF CdTyped

\* A session that ends with a refusal leaves nobody; it must only be the refusal the child wrote.
LEMMA EndWithInv ==
  ASSUME CdInv, NEW why, EndWith(why), why \in CdEnds \ {"eof", "dead"},
         UNCHANGED <<cdWorld, cdFrame, cdTotal, cdProofs>>,
         why = "WORKER_FAILED" \/ (why = "INVALID" /\ cdC.said \in {"R", "U"})
           => cdC.said = "" \/ \E f \in DOMAIN cdWorld.frames : cdWorld.frames[f].has # cdWorld.frames[f].stored
  PROVE  CdInv'
<1>1. /\ cdP' = [at |-> "idle", fed |-> cdP.fed, closed |-> cdP.closed, runtime |-> cdP.runtime,
                 status |-> cdP.status, left |-> cdP.left, got |-> cdP.got, eof |-> cdP.eof, holds |-> cdP.holds]
      /\ cdC' = [at |-> "none", read |-> 0, sent |-> 0, exit |-> 0, said |-> cdC.said, noise |-> 0]
      /\ cdIn' = 0 /\ cdOut' = <<>> /\ cdNoise' = 0 /\ cdEnd' = why
  BY DEF EndWith, Reaped, NoChild, CdInv, CdTyped
<1>2. OnePacket'
  BY <1>1 DEF OnePacket, NoPacket
<1>3. CdTyped'
  BY <1>1, <1>2 DEF CdInv, CdTyped, CdPhases
<1>4. CdTold'
  BY DEF CdInv, CdTold, FrameProven
<1>5. CdAtRest' /\ CdLedger' /\ CdTalk'
  BY <1>1 DEF CdAtRest, CdLedger, CdTalk, CdEnds
<1>6. EofIsWhole' /\ NeverTooMuch' /\ RefusalKept'
  BY <1>1 DEF CdInv, EofIsWhole, NeverTooMuch, RefusalKept, Framed
<1> QED
  BY <1>3, <1>4, <1>5, <1>6 DEF CdInv

\* Within a session what is told of frames and of the end stays; the rest is to show.
LEMMA CdWithin ==
  ASSUME CdInv, cdP.at = "on", cdP'.at = "on", UNCHANGED <<cdWorld, cdFrame, cdProofs, cdEnd>>,
         CdTyped', CdLedger', CdTalk'
  PROVE  CdInv'
<1>1. CdTold' /\ EofIsWhole' /\ RefusalKept' /\ CdAtRest'
  BY DEF CdInv, CdTold, CdAtRest, CdLedger, EofIsWhole, RefusalKept, FrameProven
<1>2. NeverTooMuch'
  <2>1. Framed => cdTotal' - cdP'.got + Frame.orig <= cdWorld.expected
    BY FrameStays DEF CdLedger
  <2>2. Framed => cdP'.got <= Frame.orig
    <3>1. cdP'.got \in Nat /\ cdP'.left \in Nat
      BY DEF CdTyped
    <3>2. Frame' = Frame /\ (Framed' <=> Framed) /\ Frame.orig \in Nat
      BY FrameStays, FrameIs DEF CdInv, CdLedger
    <3>3. CASE cdP'.status = "O"
      BY <3>1, <3>2, <3>3 DEF CdLedger
    <3>4. CASE cdP'.status # "O"
      BY <3>1, <3>2, <3>4 DEF CdLedger
    <3> QED
      BY <3>3, <3>4
  <2>3. cdTotal' \in Nat /\ cdP'.got \in Nat /\ Frame.orig \in Nat /\ cdWorld.expected \in Nat
    BY FrameIs DEF CdInv, CdTyped, CdLedger
  <2> QED
    BY <2>1, <2>2, <2>3, FrameStays DEF NeverTooMuch
<1> QED
  BY <1>1, <1>2 DEF CdInv

\* The parent's own moves between the pipes.
LEMMA CdParentInv ==
  ASSUME CdInv, CdTaken \/ CdFeed \/ CdCloseIn \/ CdDrain \/ CdOutEof
  PROVE  CdInv'
<1> USE DEF CdInv
<1>1. CASE CdTaken
  <2>1. /\ cdP' = [at |-> cdP.at, fed |-> cdP.fed, closed |-> cdP.closed, runtime |-> cdP.runtime,
                   status |-> cdP.status, left |-> cdP.left, got |-> cdP.got, eof |-> cdP.eof, holds |-> FALSE]
        /\ UNCHANGED <<cdWorld, cdFrame, cdC, cdIn, cdOut, cdNoise, cdTotal, cdProofs, cdEnd>>
    BY <1>1 DEF CdTaken, CdTyped
  <2>2. CdTyped' /\ CdAtRest'
    BY <2>1, PacketStays DEF CdTyped, CdAtRest
  <2>3. CdLedger'
    BY <2>1, FrameStays DEF CdLedger
  <2>5. CdTalk'
    BY <2>1, PacketStays, FrameStays DEF CdTalk, Undecided
  <2>4. CdTold' /\ EofIsWhole' /\ NeverTooMuch' /\ RefusalKept'
    BY <2>1 DEF CdTold, EofIsWhole, NeverTooMuch, RefusalKept, FrameProven, Framed
  <2> QED
    BY <2>2, <2>3, <2>4, <2>5
<1>2. CASE CdDrain
  <2>1. /\ cdP.at = "on" /\ cdNoise' = 0
        /\ UNCHANGED <<cdWorld, cdFrame, cdP, cdC, cdIn, cdOut, cdTotal, cdProofs, cdEnd>>
    BY <1>2 DEF CdDrain, Rest, AtTurn
  <2>2. CdTyped'
    BY <2>1, PacketStays DEF CdTyped
  <2>3. CdLedger' /\ CdTalk'
    BY ZenonT(40), <2>1, PacketStays, FrameStays DEF CdLedger, CdTalk, Undecided
  <2> QED
    BY <2>1, <2>2, <2>3, CdWithin
<1>3. CASE CdOutEof
  <2>1. /\ cdP' = [at |-> cdP.at, fed |-> cdP.fed, closed |-> cdP.closed, runtime |-> cdP.runtime,
                   status |-> cdP.status, left |-> cdP.left, got |-> cdP.got, eof |-> TRUE, holds |-> cdP.holds]
        /\ UNCHANGED <<cdWorld, cdFrame, cdC, cdIn, cdOut, cdNoise, cdTotal, cdProofs, cdEnd>>
        /\ cdP.at = "on" /\ NoPacket /\ cdC.at \in {"none", "gone"}
    BY <1>3 DEF CdOutEof, CdTyped, Rest, AtTurn, NoPacket, Alive
  <2>2. CdTyped'
    BY <2>1, PacketStays DEF CdTyped
  <2>3. CdLedger'
    BY <2>1, FrameStays DEF CdLedger
  <2>4. CdTalk'
    BY <2>1, PacketStays, FrameStays DEF CdTalk, Undecided
  <2> QED
    BY <2>1, <2>2, <2>3, <2>4, CdWithin
<1>4. ASSUME CdFeed \/ CdCloseIn PROVE CdInv'
  <2>1. cdP.at = "on" /\ UNCHANGED <<cdWorld, cdFrame, cdTotal, cdProofs>>
    BY <1>4 DEF CdFeed, CdCloseIn, AtTurn, Rest
  <2>2. Frame.stored \in Nat /\ Frame.has \in Nat /\ cdFrame \in DOMAIN cdWorld.frames
    BY <2>1, FrameIs DEF CdLedger
  <2>3. CASE EndWith("INVALID") /\ Frame.has # Frame.stored
    BY <2>1, <2>2, <2>3, EndWithInv DEF CdEnds, Frame
  <2>4. CASE /\ cdP.fed < Frame.stored /\ cdP.fed < Frame.has /\ cdIn < Room
             /\ cdIn' = cdIn + 1 /\ cdP' = [cdP EXCEPT !.fed = @ + 1] /\ UNCHANGED <<cdC, cdOut, cdNoise, cdEnd>>
    <3>1. /\ cdP' = [at |-> cdP.at, fed |-> cdP.fed + 1, closed |-> cdP.closed, runtime |-> cdP.runtime,
                     status |-> cdP.status, left |-> cdP.left, got |-> cdP.got, eof |-> cdP.eof, holds |-> cdP.holds]
      BY <2>4 DEF CdTyped
    <3>5. cdIn = 0 /\ cdIn' = 1
      BY <2>4, CdNumbers DEF Room
    <3>6. cdP'.fed = cdP.fed + 1 /\ cdP'.got = cdP.got /\ cdP'.left = cdP.left /\ cdP'.status = cdP.status
          /\ cdP'.at = "on" /\ cdP'.runtime = cdP.runtime /\ cdP'.eof = cdP.eof
      BY <2>1, <3>1
    <3>7. cdP.fed + 1 \in Nat /\ (cdC.read + cdIn <= cdP.fed => cdC.read + cdIn' <= cdP.fed + 1)
      BY <3>5, CdNumbers
    <3>2. CdTyped'
      BY <2>1, <2>4, <3>1, <3>5, <3>7, PacketStays DEF CdTyped
    <3>3. CdLedger'
      BY <2>1, <2>2, <2>4, <3>6, CdNumbers, FrameStays DEF CdLedger
    <3>4. CdTalk'
      BY <2>1, <2>4, <3>6, <3>7, FrameStays, PacketStays DEF CdTalk, Undecided
    <3> QED
      BY <2>1, <2>4, <3>1, <3>2, <3>3, <3>4, CdWithin
  <2>5. CASE cdP' = [cdP EXCEPT !.closed = TRUE] /\ UNCHANGED <<cdC, cdIn, cdOut, cdNoise, cdEnd>>
    <3>1. cdP' = [at |-> cdP.at, fed |-> cdP.fed, closed |-> TRUE, runtime |-> cdP.runtime,
                  status |-> cdP.status, left |-> cdP.left, got |-> cdP.got, eof |-> cdP.eof, holds |-> cdP.holds]
      BY <2>5 DEF CdTyped
    <3>2. CdTyped'
      BY <2>1, <2>5, <3>1, PacketStays DEF CdTyped
    <3>3. CdLedger'
      BY <2>1, <2>5, <3>1, FrameStays DEF CdLedger
    <3>4. CdTalk'
      BY <2>1, <2>5, <3>1, FrameStays, PacketStays DEF CdTalk, Undecided
    <3> QED
      BY <2>1, <2>5, <3>1, <3>2, <3>3, <3>4, CdWithin
  <2>6. CASE CdFeed
    BY <2>2, <2>3, <2>4, <2>5, <2>6 DEF CdFeed, Broken
  <2>7. CASE CdCloseIn
    BY <2>2, <2>3, <2>5, <2>7 DEF CdCloseIn
  <2> QED
    BY <1>4, <2>6, <2>7
<1> QED
  BY <1>1, <1>2, <1>3, <1>4

\* What is received is what comes next of the child's, or ends the session.
LEMMA CdReceiveInv == CdInv /\ CdReceive => CdInv'
<1> SUFFICES ASSUME CdInv, CdReceive PROVE CdInv'
  OBVIOUS
<1> USE DEF CdInv
<1>1. cdP.at = "on" /\ ~NoPacket /\ OnePacket /\ UNCHANGED <<cdWorld, cdFrame, cdProofs>>
  BY DEF CdReceive, AtTurn, CdTyped, NoPacket
<1>2. CASE ~Acceptable(Packet)
  <2>1. EndWith("INVALID") /\ UNCHANGED cdTotal
    BY <1>2 DEF CdReceive, Packet
  <2>2. cdC.said \notin {"R", "U"}
    <3> SUFFICES ASSUME cdC.said \in {"R", "U"} PROVE FALSE
      OBVIOUS
    <3>1. cdC.at = "gone" /\ cdP.status = "" /\ Packet.k = cdC.said /\ ~cdP.runtime
      BY <1>1 DEF CdTalk
    <3> QED
      BY <1>2, <3>1 DEF Acceptable
  <2> QED
    BY <1>1, <2>1, <2>2, EndWithInv DEF CdEnds
<1>3. CASE Acceptable(Packet)
  <2>1. NoPacket' /\ OnePacket' /\ UNCHANGED <<cdC, cdIn, cdNoise, cdEnd>>
    BY <1>1, <1>3, PacketTaken DEF CdReceive, Packet
  <2>8. /\ cdP' = CASE Packet.k = "M" -> [cdP EXCEPT !.runtime = TRUE]
                    [] Packet.k = "O" -> [cdP EXCEPT !.status = "O", !.left = Packet.n]
                    [] Packet.k = "d" -> [cdP EXCEPT !.left = @ - 1, !.got = @ + 1, !.holds = TRUE]
                    [] Packet.k = "D" -> [cdP EXCEPT !.got = @ + 1, !.holds = TRUE]
                    [] OTHER -> [cdP EXCEPT !.status = Packet.k]
        /\ cdTotal' = IF Packet.k \in {"d", "D"} THEN cdTotal + 1 ELSE cdTotal
    BY <1>3 DEF CdReceive, Packet
  <2>2. Frame.orig \in Nat
    BY <1>1, FrameIs DEF CdLedger
  <2>3. CASE Packet.k = "M"
    <3>4. cdP' = [at |-> cdP.at, fed |-> cdP.fed, closed |-> cdP.closed, runtime |-> TRUE,
                  status |-> cdP.status, left |-> cdP.left, got |-> cdP.got, eof |-> cdP.eof, holds |-> cdP.holds]
      BY <2>8, <2>3 DEF CdTyped
    <3>5. cdTotal' = cdTotal
      BY <2>8, <2>3
    <3>6. cdP'.at = "on" /\ cdP'.fed = cdP.fed /\ cdP'.runtime = TRUE /\ cdP'.status = cdP.status
          /\ cdP'.left = cdP.left /\ cdP'.got = cdP.got /\ cdP'.eof = cdP.eof
      BY <1>1, <3>4
    <3>7. cdP'.left \in Nat /\ cdP'.got \in Nat /\ cdTotal' \in Nat
      BY <2>2, <3>5, <3>6, CdNumbers
    <3>8. CdTyped'
      BY <1>1, <2>1, <3>4, <3>7 DEF CdTyped
    <3>9. cdTotal' - cdP'.got = cdTotal - cdP.got /\ (cdP'.got <= cdTotal' <=> cdP.got <= cdTotal)
      BY <3>5, <3>6, CdNumbers
    <3>10. CdLedger'
      BY <1>1, <2>1, <2>2, <2>3, <3>6, <3>9, CdNumbers, FrameStays DEF CdLedger
    <3>11. CdTalk'
      BY <1>1, <2>1, <2>3, <3>6, FrameStays DEF CdTalk, Undecided, CdTyped, Refusals
    <3> QED
      BY <1>1, <2>1, <3>6, <3>8, <3>10, <3>11, CdWithin
  <2>4. CASE Packet.k = "O"
    <3>1. Framed /\ Packet.n = Frame.orig /\ cdP.status = ""
      BY <1>3, <2>4 DEF Acceptable
    <3>2. Frame.sound /\ Frame.stored <= Frame.has
      BY <1>1, <2>4 DEF CdTalk
    <3>4. cdP' = [at |-> cdP.at, fed |-> cdP.fed, closed |-> cdP.closed, runtime |-> cdP.runtime,
                  status |-> "O", left |-> Frame.orig, got |-> cdP.got, eof |-> cdP.eof, holds |-> cdP.holds]
      BY <2>8, <2>4, <3>1 DEF CdTyped
    <3>5. cdTotal' = cdTotal
      BY <2>8, <2>4
    <3>6. cdP'.at = "on" /\ cdP'.fed = cdP.fed /\ cdP'.runtime = cdP.runtime /\ cdP'.status = "O"
          /\ cdP'.left = Frame.orig /\ cdP'.got = cdP.got /\ cdP'.eof = cdP.eof
      BY <1>1, <3>4
    <3>7. cdP'.left \in Nat /\ cdP'.got \in Nat /\ cdTotal' \in Nat
      BY <2>2, <3>5, <3>6, <3>1, CdNumbers
    <3>8. CdTyped'
      BY <1>1, <2>1, <3>4, <3>7 DEF CdTyped
    <3>9. cdTotal' - cdP'.got = cdTotal - cdP.got /\ (cdP'.got <= cdTotal' <=> cdP.got <= cdTotal)
      BY <3>5, <3>6, CdNumbers
    <3>13. cdP.got = 0
      BY <1>1, <3>1 DEF CdLedger
    <3>12. cdP.got = 0 /\ cdP'.got = 0 /\ cdP'.got + cdP'.left = Frame.orig
      BY <2>2, <3>6, <3>13
    <3>10. CdLedger'
      BY <1>1, <2>1, <2>2, <3>1, <3>2, <3>6, <3>9, <3>12, FrameStays DEF CdLedger
    <3>11. CdTalk'
      BY <1>1, <2>1, <2>4, <3>1, <3>6, FrameStays DEF CdTalk, Undecided, CdTyped, Refusals
    <3> QED
      BY <1>1, <2>1, <3>6, <3>8, <3>10, <3>11, CdWithin
  <2>5. CASE Packet.k = "d"
    <3>1. cdP.status = "O" /\ cdP.left > 0
      BY <1>3, <2>5 DEF Acceptable
    <3>4. cdP' = [at |-> cdP.at, fed |-> cdP.fed, closed |-> cdP.closed, runtime |-> cdP.runtime,
                  status |-> cdP.status, left |-> cdP.left - 1, got |-> cdP.got + 1, eof |-> cdP.eof, holds |-> TRUE]
      BY <2>8, <2>5, <3>1 DEF CdTyped
    <3>5. cdTotal' = cdTotal + 1
      BY <2>8, <2>5
    <3>6. cdP'.at = "on" /\ cdP'.fed = cdP.fed /\ cdP'.runtime = cdP.runtime /\ cdP'.status = cdP.status
          /\ cdP'.left = cdP.left - 1 /\ cdP'.got = cdP.got + 1 /\ cdP'.eof = cdP.eof
      BY <1>1, <3>4
    <3>2. cdP.left - 1 \in Nat /\ cdP.got + 1 \in Nat /\ cdTotal + 1 \in Nat
      BY <3>1, CdNumbers
    <3>7. cdP'.left \in Nat /\ cdP'.got \in Nat /\ cdTotal' \in Nat
      BY <3>2, <3>5, <3>6
    <3>8. CdTyped'
      BY <1>1, <2>1, <3>4, <3>7 DEF CdTyped
    <3>9. cdTotal' - cdP'.got = cdTotal - cdP.got /\ (cdP'.got <= cdTotal' <=> cdP.got <= cdTotal)
      BY <3>5, <3>6, CdNumbers
    <3>10. CdLedger'
      BY <1>1, <2>1, <2>2, <2>5, <3>1, <3>6, <3>9, CdNumbers, FrameStays DEF CdLedger
    <3>11. CdTalk'
      BY <1>1, <2>1, <2>5, <3>1, <3>6, FrameStays DEF CdTalk, Undecided, CdTyped, Refusals
    <3> QED
      BY <1>1, <2>1, <3>6, <3>8, <3>10, <3>11, CdWithin
  <2>6. CASE Packet.k = "D"
    <3>1. cdP.status = "" /\ ~Framed
      BY <1>3, <2>6 DEF Acceptable
    <3>4. cdP' = [at |-> cdP.at, fed |-> cdP.fed, closed |-> cdP.closed, runtime |-> cdP.runtime,
                  status |-> cdP.status, left |-> cdP.left, got |-> cdP.got + 1, eof |-> cdP.eof, holds |-> TRUE]
      BY <2>8, <2>6, <3>1 DEF CdTyped
    <3>5. cdTotal' = cdTotal + 1
      BY <2>8, <2>6
    <3>2. cdP.got + 1 \in Nat /\ cdTotal + 1 \in Nat
      BY CdNumbers
    <3>6. cdP'.at = "on" /\ cdP'.fed = cdP.fed /\ cdP'.runtime = cdP.runtime /\ cdP'.status = cdP.status
          /\ cdP'.left = cdP.left /\ cdP'.got = cdP.got + 1 /\ cdP'.eof = cdP.eof
      BY <1>1, <3>4
    <3>7. cdP'.left \in Nat /\ cdP'.got \in Nat /\ cdTotal' \in Nat
      BY <2>2, <3>5, <3>6, <3>2, CdNumbers
    <3>8. CdTyped'
      BY <1>1, <2>1, <3>4, <3>7 DEF CdTyped
    <3>9. cdTotal' - cdP'.got = cdTotal - cdP.got /\ (cdP'.got <= cdTotal' <=> cdP.got <= cdTotal)
      BY <3>5, <3>6, CdNumbers
    <3>10. CdLedger'
      BY <1>1, <2>1, <2>2, <2>6, <3>1, <3>6, <3>9, CdNumbers, FrameStays DEF CdLedger
    <3>11. CdTalk'
      BY <1>1, <2>1, <2>6, <3>1, <3>6, FrameStays DEF CdTalk, Undecided, CdTyped, Refusals
    <3> QED
      BY <1>1, <2>1, <3>6, <3>8, <3>10, <3>11, CdWithin
  <2>7. CASE Packet.k \notin {"M", "O", "d", "D"}
    <3>1. cdP.status = ""
      BY <1>1, <1>3, <2>7 DEF Acceptable, CdTalk
    <3>2. Packet.k = "E" => ~Framed /\ Packet.n = cdP.got
      BY <1>3 DEF Acceptable
    <3>3. Packet.k # "O"
      BY <2>7
    <3>4. cdP' = [at |-> cdP.at, fed |-> cdP.fed, closed |-> cdP.closed, runtime |-> cdP.runtime,
                  status |-> Packet.k, left |-> cdP.left, got |-> cdP.got, eof |-> cdP.eof, holds |-> cdP.holds]
      BY <2>8, <2>7, <3>1, <3>2, <3>3 DEF CdTyped
    <3>5. cdTotal' = cdTotal
      BY <2>8, <2>7
    <3>6. cdP'.at = "on" /\ cdP'.fed = cdP.fed /\ cdP'.runtime = cdP.runtime /\ cdP'.status = Packet.k
          /\ cdP'.left = cdP.left /\ cdP'.got = cdP.got /\ cdP'.eof = cdP.eof
      BY <1>1, <3>4
    <3>7. cdP'.left \in Nat /\ cdP'.got \in Nat /\ cdTotal' \in Nat
      BY <2>2, <3>5, <3>6, <3>1, <3>2, <3>3, CdNumbers
    <3>8. CdTyped'
      BY <1>1, <2>1, <3>4, <3>7 DEF CdTyped
    <3>9. cdTotal' - cdP'.got = cdTotal - cdP.got /\ (cdP'.got <= cdTotal' <=> cdP.got <= cdTotal)
      BY <3>5, <3>6, CdNumbers
    <3>10. CdLedger'
      BY <1>1, <2>1, <2>2, <2>7, <3>1, <3>2, <3>3, <3>6, <3>9, CdNumbers, FrameStays DEF CdLedger, CdTalk
    <3>11. CdTalk'
      BY <1>1, <2>1, <2>7, <3>1, <3>2, <3>3, <3>6, FrameStays DEF CdTalk, Undecided, CdTyped, Refusals
    <3> QED
      BY <1>1, <2>1, <3>6, <3>8, <3>10, <3>11, CdWithin
  <2> QED
    BY <2>3, <2>4, <2>5, <2>6, <2>7
<1> QED
  BY <1>2, <1>3

\* A session opens on a frame that is still allowed for.
LEMMA CdOpenInv == CdInv /\ CdOpen => CdInv'
<1> SUFFICES ASSUME CdInv, CdOpen PROVE CdInv'
  OBVIOUS
<1> USE DEF CdInv
<1>1. cdP.at = "idle" /\ cdEnd = "open" /\ FrameLeft /\ UNCHANGED <<cdWorld, cdFrame, cdTotal, cdProofs>>
  BY DEF CdOpen, FrameLeft
<1>2. cdC = NoChild /\ cdIn = 0 /\ NoPacket /\ cdNoise = 0 /\ AddUp(cdProofs, cdTotal)
  BY <1>1 DEF CdAtRest
<1>3. cdC.said = "" /\ "LIMIT" \in CdEnds /\ "RESOURCE" \in CdEnds
  BY <1>2 DEF NoChild, CdEnds
<1>4. CASE EndWith("LIMIT")
  BY <1>1, <1>3, <1>4, EndWithInv
<1>5. CASE EndWith("RESOURCE")
  BY <1>1, <1>3, <1>5, EndWithInv
<1>6. CASE /\ Framed => Frame.orig <= cdWorld.expected - cdTotal
           /\ cdP' = [NoSession EXCEPT !.at = "on"]
           /\ cdC' = [NoChild EXCEPT !.at = "fresh", !.noise = cdWorld.noise]
           /\ UNCHANGED <<cdIn, cdOut, cdNoise, cdEnd>>
  <2>1. /\ cdP' = [at |-> "on", fed |-> 0, closed |-> FALSE, runtime |-> FALSE, status |-> "", left |-> 0,
                   got |-> 0, eof |-> FALSE, holds |-> FALSE]
        /\ cdC' = [at |-> "fresh", read |-> 0, sent |-> 0, exit |-> 0, said |-> "", noise |-> cdWorld.noise]
    BY <1>6 DEF NoSession, NoChild
  <2>2. Frame.stored \in Nat /\ Frame.has \in Nat /\ Frame.orig \in Nat /\ cdWorld.expected \in Nat
    BY <1>1, FrameIs
  <2>8. /\ cdP'.at = "on" /\ cdP'.fed = 0 /\ cdP'.left = 0 /\ cdP'.got = 0 /\ cdP'.status = ""
        /\ ~cdP'.runtime /\ ~cdP'.eof /\ cdP'.fed \in Nat /\ cdP'.left \in Nat /\ cdP'.got \in Nat
    BY <2>1
  <2>9. /\ cdC'.at = "fresh" /\ cdC'.read = 0 /\ cdC'.sent = 0 /\ cdC'.said = ""
        /\ cdC'.read \in Nat /\ cdC'.sent \in Nat
    BY <2>1
  <2>11. /\ cdP' = [at |-> cdP'.at, fed |-> cdP'.fed, closed |-> cdP'.closed, runtime |-> cdP'.runtime,
                    status |-> cdP'.status, left |-> cdP'.left, got |-> cdP'.got, eof |-> cdP'.eof,
                    holds |-> cdP'.holds]
         /\ cdC' = [at |-> cdC'.at, read |-> cdC'.read, sent |-> cdC'.sent, exit |-> cdC'.exit, said |-> cdC'.said,
                    noise |-> cdC'.noise]
    BY <2>1
  <2>10. OnePacket' /\ NoPacket' /\ cdIn' = 0 /\ cdNoise' = 0 /\ cdEnd' = "open"
    BY <1>1, <1>2, <1>6, PacketStays DEF CdTyped
  <2>3. CdTyped'
    <3>1. cdTotal' \in Nat
      BY <1>1, CdNumbers
    <3>2. cdC'.at \in CdPhases /\ cdC'.read \in Nat /\ cdC'.sent \in Nat /\ cdC'.said \in {""} \cup Refusals
      BY <2>9 DEF CdPhases
    <3>3. cdP'.at \in {"idle", "on"} /\ cdP'.fed \in Nat /\ cdP'.left \in Nat /\ cdP'.got \in Nat
      BY <2>8
    <3>4. cdIn' \in {0, 1} /\ cdNoise' \in {0, 1} /\ OnePacket' /\ cdEnd' \in {"open"} \cup CdEnds
      BY <2>10
    <3> QED
      BY <2>11, <3>1, <3>2, <3>3, <3>4 DEF CdTyped
  <2>4. cdTotal - 0 = cdTotal /\ (Framed => cdTotal + Frame.orig <= cdWorld.expected) /\ 0 <= cdTotal
    BY <1>6, <2>2, CdNumbers
  <2>5. CdLedger'
    <3>1. AddUp(cdProofs', cdTotal' - cdP'.got) /\ cdP'.got <= cdTotal'
      BY <1>1, <1>2, <2>4, <2>8
    <3>2. /\ Frame' = Frame /\ (Framed' <=> Framed) /\ FrameLeft' /\ cdWorld'.expected = cdWorld.expected
      BY <1>1, FrameStays
    <3>3. cdP'.fed <= Frame.stored /\ cdP'.fed <= Frame.has
      <4>1. \A n \in Nat : 0 <= n
        OBVIOUS
      <4>2. cdP'.fed = 0
        BY <2>8
      <4> QED
        BY <2>2, <4>1, <4>2
    <3>4. Framed => cdTotal' - cdP'.got + Frame.orig <= cdWorld.expected
      BY <1>1, <2>2, <2>4, <2>8, CdNumbers
    <3> QED
      BY <2>8, <2>10, <3>1, <3>2, <3>3, <3>4 DEF CdLedger
  <2>6. CdTalk'
    <3>1. cdC'.read + cdIn' <= cdP'.fed
      <4>1. cdC'.read = 0 /\ cdIn' = 0 /\ cdP'.fed = 0
        BY <2>8, <2>9, <2>10
      <4>2. 0 + 0 <= 0
        OBVIOUS
      <4> QED
        BY <4>1, <4>2
    <3> QED
      BY <2>8, <2>9, <2>10, <3>1 DEF CdTalk, Undecided
  <2>7. CdTold' /\ EofIsWhole' /\ NeverTooMuch' /\ RefusalKept' /\ CdAtRest'
    BY <1>1, <1>6, <2>1 DEF CdTold, EofIsWhole, NeverTooMuch, RefusalKept, FrameProven, Framed, CdAtRest
  <2> QED
    BY <2>3, <2>5, <2>6, <2>7
<1> QED
  BY <1>4, <1>5, <1>6 DEF CdOpen

\* The reader ends when every frame was certified, and ends well when their sizes are the artifact's.
LEMMA CdEofInv == CdInv /\ CdEof => CdInv'
<1> SUFFICES ASSUME CdInv, CdEof PROVE CdInv'
  OBVIOUS
<1> USE DEF CdInv
<1>1. /\ cdP.at = "idle" /\ cdEnd = "open" /\ cdFrame > Len(cdWorld.frames)
      /\ cdEnd' = IF SizeKept THEN "eof" ELSE "INVALID"
      /\ UNCHANGED <<cdWorld, cdFrame, cdP, cdC, cdIn, cdOut, cdNoise, cdTotal, cdProofs>>
  BY DEF CdEof
<1>2. cdC = NoChild /\ AddUp(cdProofs, cdTotal)
  BY <1>1 DEF CdAtRest
<1>3. CdTyped'
  BY <1>1, PacketStays DEF CdTyped, CdEnds
<1>4. CdTold' /\ NeverTooMuch' /\ CdLedger' /\ CdTalk' /\ RefusalKept' /\ CdAtRest'
  BY <1>1, <1>2 DEF CdTold, NeverTooMuch, CdLedger, CdTalk, RefusalKept, CdAtRest, FrameProven, Framed, NoChild
<1>5. EofIsWhole'
  <2>1. cdFrame - 1 = Len(cdWorld.frames) /\ DOMAIN cdProofs = 1..cdFrame - 1
    BY <1>1, FramesAre DEF CdTold
  <2>2. cdEnd' = "eof" => SizeKept
    BY <1>1
  <2> QED
    BY <1>1, <1>2, <2>1, <2>2 DEF EofIsWhole, CdTold, FrameProven, SizeKept, Framed
<1> QED
  BY <1>3, <1>4, <1>5

\* A session is over when the child is gone and its pipe read to the end.
LEMMA CdFinishInv == CdInv /\ CdFinish => CdInv'
<1> SUFFICES ASSUME CdInv, CdFinish PROVE CdInv'
  OBVIOUS
<1> USE DEF CdInv
<1>1. cdP.at = "on" /\ cdP.eof /\ cdC.at = "gone" /\ NoPacket /\ cdEnd = "open" /\ FrameLeft
  BY DEF CdFinish, AtTurn, CdTalk, CdLedger
<1>2. Frame.orig \in Nat /\ cdFrame \in 1..Len(cdWorld.frames) /\ Len(cdWorld.frames) \in Nat
  BY <1>1, FrameIs, FramesAre DEF CdTold
<1>3. CASE Succeeded
  <2>1. /\ cdProofs' = Append(cdProofs, cdP.got) /\ cdFrame' = cdFrame + 1
        /\ cdP' = NoSession /\ cdC' = NoChild /\ cdIn' = 0 /\ cdOut' = <<>> /\ cdNoise' = 0
        /\ UNCHANGED <<cdWorld, cdTotal, cdEnd>>
    BY <1>3 DEF CdFinish
  <2>2. cdP.got = Frame.orig /\ Frame.sound /\ Frame.stored <= Frame.has
    <3>1. CASE cdP.status = "O"
      BY <1>1, <1>2, <1>3, <3>1, CdNumbers DEF Succeeded, CdLedger
    <3>2. CASE cdP.status = "E"
      BY <1>1, <3>2 DEF CdLedger
    <3> QED
      BY <1>3, <3>1, <3>2 DEF Succeeded
  <2>3. cdProofs' \in Seq(Nat) /\ Len(cdProofs') = cdFrame' - 1
    BY <1>2, <2>1, CdNumbers DEF CdTold
  <2>4. \A f \in 1..cdFrame' - 1 : FrameProven(f)'
    <3> SUFFICES ASSUME NEW f \in 1..cdFrame' - 1 PROVE FrameProven(f)'
      OBVIOUS
    <3>1. f \in 1..cdFrame /\ Len(cdProofs) = cdFrame - 1 /\ cdProofs \in Seq(Nat) /\ cdP.got \in Nat
      BY <1>2, <2>1, CdNumbers DEF CdTold
    <3>2. CASE f = cdFrame
      <4>1. cdProofs'[f] = cdP.got
        BY <1>2, <2>1, <3>1, <3>2
      <4>2. Frame.has >= Frame.stored
        BY <1>1, <2>2, FrameIs
      <4> QED
        BY <2>1, <2>2, <3>2, <4>1, <4>2 DEF FrameProven, Frame
    <3>3. CASE f # cdFrame
      <4>1. f \in 1..cdFrame - 1
        BY <1>2, <3>1, <3>3
      <4>2. cdProofs'[f] = cdProofs[f]
        BY <2>1, <3>1, <4>1
      <4> QED
        BY <2>1, <4>1, <4>2 DEF CdTold, FrameProven
    <3> QED
      BY <3>2, <3>3
  <2>5. CdTold'
    <3>1. cdFrame' \in 1..(Len(cdWorld'.frames) + 1)
      BY <1>2, <2>1
    <3> QED
      BY <2>1, <2>3, <2>4, <3>1 DEF CdTold
  <2>6. AddUp(cdProofs', cdTotal')
    <3>1. cdTotal - cdP.got \in Nat /\ (cdTotal - cdP.got) + cdP.got = cdTotal
      BY <1>1, CdNumbers DEF CdLedger
    <3>2. AddUp(Append(cdProofs, cdP.got), (cdTotal - cdP.got) + cdP.got)
      BY <1>1, <3>1, CdNumbers, AddUpMore DEF CdLedger, CdTold
    <3> QED
      BY <2>1, <3>1, <3>2
  <2>7. CdTyped'
    BY <2>1 DEF CdTyped, NoSession, NoChild, CdPhases, OnePacket, NoPacket
  <2>8. CdAtRest' /\ CdLedger' /\ CdTalk'
    BY <1>1, <2>1, <2>6 DEF CdAtRest, CdLedger, CdTalk, NoSession, NoPacket
  <2>9. EofIsWhole' /\ NeverTooMuch' /\ RefusalKept'
    BY <1>1, <2>1 DEF EofIsWhole, NeverTooMuch, RefusalKept, Framed
  <2> QED
    BY <2>5, <2>7, <2>8, <2>9
<1>4. CASE ~Succeeded
  <2> DEFINE why == IF cdP.status \in Refusals THEN Kind(cdP.status) ELSE "WORKER_FAILED"
  <2>1. EndWith(why) /\ UNCHANGED <<cdWorld, cdFrame, cdTotal, cdProofs>>
    BY <1>4 DEF CdFinish, Rest
  <2>2. cdC.said # "" => cdP.status = cdC.said
    BY <1>1 DEF CdTalk
  <2>3. cdC.said \in {""} \cup Refusals
    BY DEF CdTyped
  <2>4. why \in CdEnds \ {"eof", "dead"}
    BY DEF Kind, Refusals, CdEnds
  <2>5. ~(why = "INVALID" /\ cdC.said \in {"R", "U"})
    BY <2>2 DEF Kind, Refusals
  <2>6. why = "WORKER_FAILED" => cdC.said = ""
    BY <2>2, <2>3 DEF Kind, Refusals
  <2> HIDE DEF why
  <2> QED
    BY <2>1, <2>4, <2>5, <2>6, EndWithInv
<1> QED
  BY <1>3, <1>4

\* The reader leaves, is cancelled, or dies; what the session held goes with it.
LEMMA CdLeavesInv ==
  ASSUME CdInv, CdGivesUp \/ CdCancel \/ CdParentDies
  PROVE  CdInv'
<1> USE DEF CdInv
<1>1. CASE CdGivesUp
  BY <1>1, EndWithInv DEF CdGivesUp, CdEnds
<1>2. CASE CdCancel
  BY <1>2, EndWithInv DEF CdCancel, CdEnds
<1>3. CASE CdParentDies
  <2>1. /\ cdP' = [at |-> "idle", fed |-> cdP.fed, closed |-> cdP.closed, runtime |-> cdP.runtime,
                   status |-> cdP.status, left |-> cdP.left, got |-> cdP.got, eof |-> cdP.eof, holds |-> cdP.holds]
        /\ cdEnd' = "dead" /\ cdIn' = 0 /\ cdOut' = <<>> /\ cdNoise' = 0
        /\ UNCHANGED <<cdWorld, cdFrame, cdTotal, cdProofs>>
    BY <1>3 DEF CdParentDies, CdTyped
  <2>2. \/ cdC.at = "fresh" /\ cdC' = cdC
        \/ cdC' = [at |-> "none", read |-> 0, sent |-> 0, exit |-> 0, said |-> cdC.said, noise |-> 0]
    BY <1>3 DEF CdParentDies, Reaped, NoChild
  <2>7. /\ cdC' = [at |-> cdC'.at, read |-> cdC'.read, sent |-> cdC'.sent, exit |-> cdC'.exit, said |-> cdC'.said,
                   noise |-> cdC'.noise]
        /\ cdC'.at \in {"none", "fresh"} /\ cdC'.read \in Nat /\ cdC'.sent \in Nat /\ cdC'.said = cdC.said
    <3>1. CASE cdC' = cdC /\ cdC.at = "fresh"
      BY <3>1 DEF CdTyped
    <3>2. CASE cdC' = [at |-> "none", read |-> 0, sent |-> 0, exit |-> 0, said |-> cdC.said, noise |-> 0]
      BY <3>2
    <3> QED
      BY <2>2, <3>1, <3>2
  <2>3. CdTyped'
    <3>1. OnePacket'
      BY <2>1 DEF OnePacket, NoPacket
    <3>2. cdEnd' \in CdEnds /\ cdIn' \in {0, 1} /\ cdNoise' \in {0, 1}
      BY <2>1 DEF CdEnds
    <3>3. cdP' = [at |-> cdP'.at, fed |-> cdP'.fed, closed |-> cdP'.closed, runtime |-> cdP'.runtime,
                  status |-> cdP'.status, left |-> cdP'.left, got |-> cdP'.got, eof |-> cdP'.eof,
                  holds |-> cdP'.holds]
          /\ cdP'.at = "idle" /\ cdP'.fed \in Nat /\ cdP'.left \in Nat /\ cdP'.got \in Nat
      BY <2>1, CdNumbers
    <3> QED
      BY <2>1, <2>7, <3>1, <3>2, <3>3 DEF CdTyped, CdPhases
  <2>4. CdTold'
    BY <2>1 DEF CdTold, FrameProven
  <2>5. CdAtRest' /\ CdLedger' /\ CdTalk'
    BY <2>1, <2>7 DEF CdAtRest, CdLedger, CdTalk
  <2>6. EofIsWhole' /\ NeverTooMuch' /\ RefusalKept'
    BY <2>1 DEF EofIsWhole, NeverTooMuch, RefusalKept, Framed
  <2> QED
    BY <2>3, <2>4, <2>5, <2>6
<1> QED
  BY <1>1, <1>2, <1>3

\* What the child does within a session leaves the books of its parent as they are.
LEMMA CdChildWithin ==
  ASSUME CdInv, cdP.at = "on", ChildOnly, CdTyped', CdTalk'
  PROVE  CdInv'
<1>1. UNCHANGED <<cdWorld, cdFrame, cdP, cdTotal, cdProofs, cdEnd>>
  BY DEF ChildOnly
<1>2. CdLedger'
  BY <1>1, FrameStays DEF CdInv, CdLedger
<1> QED
  BY <1>1, <1>2, CdWithin

\* A child whose parent died before it was bound ends by itself.
LEMMA CdAloneInv ==
  ASSUME CdInv, cdP.at # "on", CdChild \/ CdCrash
  PROVE  CdInv'
<1> USE DEF CdInv
<1>1. cdC.at \in {"fresh", "fail"} /\ cdEnd = "dead" /\ cdP.at = "idle"
  <2>1. cdC.at \notin {"none", "gone"}
    BY DEF CdChild, CdBind, CdMeta, CdTake, CdNoisy, CdWork, CdSend, CdStream, CdFailure, CdExit, CdCrash, Alive
  <2>2. cdP.at = "idle"
    BY DEF CdTyped
  <2>4. NoChild.at = "none"
    BY DEF NoChild
  <2>3. cdEnd # "open"
    BY <2>1, <2>2, <2>4 DEF CdAtRest
  <2> QED
    BY <2>1, <2>2, <2>3 DEF CdAtRest
<1>2. CdBind \/ CdFailure
  BY <1>1 DEF CdChild, CdBind, CdMeta, CdTake, CdNoisy, CdWork, CdSend, CdStream, CdFailure, CdExit, CdCrash, ParentLives
<1>3. UNCHANGED <<cdWorld, cdFrame, cdP, cdIn, cdNoise, cdTotal, cdProofs, cdEnd>> /\ OnePacket'
  <2>1. CASE CdBind
    BY <2>1, PacketStays DEF CdBind, ChildOnly, Silent, CdTyped
  <2>2. CASE CdFailure
    BY <2>2, PacketSaid DEF CdFailure, ChildOnly, CdTyped
  <2> QED
    BY <1>2, <2>1, <2>2
<1>4. \/ cdC' = [cdC EXCEPT !.at = "gone", !.exit = 1]
      \/ \E k \in {"I", "U"} : cdC' = [cdC EXCEPT !.at = "fail", !.said = k]
  BY <1>1, <1>2 DEF CdBind, CdFailure, ParentLives
<1>5. /\ cdC' = [at |-> cdC'.at, read |-> cdC'.read, sent |-> cdC'.sent, exit |-> cdC'.exit, said |-> cdC'.said,
                 noise |-> cdC'.noise]
      /\ cdC'.at \in {"gone", "fail"} /\ cdC'.read = cdC.read /\ cdC'.sent = cdC.sent
      /\ cdC'.said \in {""} \cup Refusals
  <2>1. cdC = [at |-> cdC.at, read |-> cdC.read, sent |-> cdC.sent, exit |-> cdC.exit, said |-> cdC.said,
               noise |-> cdC.noise] /\ cdC.said \in {""} \cup Refusals
    BY DEF CdTyped
  <2>2. CASE cdC' = [cdC EXCEPT !.at = "gone", !.exit = 1]
    BY <2>1, <2>2
  <2>3. ASSUME NEW k \in {"I", "U"}, cdC' = [cdC EXCEPT !.at = "fail", !.said = k]
        PROVE  cdC' = [at |-> "fail", read |-> cdC.read, sent |-> cdC.sent, exit |-> cdC.exit, said |-> k,
                       noise |-> cdC.noise]
    BY <2>1, <2>3
  <2> QED
    BY <1>4, <2>2, <2>3 DEF Refusals
<1>6. CdTyped'
  BY <1>3, <1>5 DEF CdTyped, CdPhases
<1>7. CdTold' /\ EofIsWhole' /\ NeverTooMuch'
  BY <1>3 DEF CdTold, EofIsWhole, NeverTooMuch, FrameProven, Framed
<1>8. CdAtRest' /\ CdLedger' /\ CdTalk' /\ RefusalKept'
  BY <1>1, <1>3, <1>5 DEF CdAtRest, CdLedger, CdTalk, RefusalKept
<1> QED
  BY <1>6, <1>7, <1>8

\* What a child has read and sent moves one at a time.
LEMMA CdChildTyped ==
  ASSUME CdTyped, OnePacket', UNCHANGED <<cdP, cdTotal, cdEnd>>, cdIn' \in {0, 1}, cdNoise' \in {0, 1},
         NEW at \in CdPhases, NEW read \in Nat, NEW sent \in Nat, NEW exit, NEW said \in {""} \cup Refusals, NEW noise,
         cdC' = [at |-> at, read |-> read, sent |-> sent, exit |-> exit, said |-> said, noise |-> noise]
  PROVE  /\ CdTyped'
         /\ cdC'.at = at /\ cdC'.read = read /\ cdC'.sent = sent /\ cdC'.exit = exit /\ cdC'.said = said
<1>1. /\ cdC'.at = at /\ cdC'.read = read /\ cdC'.sent = sent /\ cdC'.exit = exit /\ cdC'.said = said
      /\ cdC'.noise = noise
  OBVIOUS
<1> QED
  BY <1>1 DEF CdTyped

\* What a child did is what it says, whichever step it takes within its session.
LEMMA CdChildInv ==
  ASSUME CdInv, cdP.at = "on", CdChild \/ CdCrash
  PROVE  CdInv'
<1> USE DEF CdInv
<1>1. ChildOnly /\ UNCHANGED <<cdWorld, cdFrame, cdP, cdTotal, cdProofs, cdEnd>>
  BY DEF CdChild, CdBind, CdMeta, CdTake, CdNoisy, CdWork, CdSend, CdStream, CdFailure, CdExit, CdCrash, ChildOnly
<1>2. cdC = [at |-> cdC.at, read |-> cdC.read, sent |-> cdC.sent, exit |-> cdC.exit, said |-> cdC.said,
             noise |-> cdC.noise] /\ OnePacket /\ cdC.said \in {""} \cup Refusals /\ cdC.at \in CdPhases
  BY DEF CdTyped
<1>3. /\ Frame.stored \in Nat /\ Frame.has \in Nat /\ Frame.orig \in Nat
      /\ cdEnd = "open" /\ cdP.fed <= Frame.has
  BY FrameIs DEF CdLedger
<1>4. Frame' = Frame /\ (Framed' <=> Framed)
  BY <1>1, FrameStays
<1>5. UNCHANGED cdOut => Packet' = Packet /\ (NoPacket' <=> NoPacket) /\ OnePacket'
  BY <1>2, PacketStays
<1>6. cdC.read = Frame.stored => Frame.stored <= Frame.has
  <2>1. cdC.read + cdIn <= cdP.fed
    BY DEF CdTalk
  <2> QED
    BY <1>3, <2>1, CdNumbers
<1>7. SUFFICES CdTyped' /\ CdTalk'
  BY <1>1, CdChildWithin
<1>8. CASE CdBind
  <2>1. cdC.at = "fresh" /\ UNCHANGED <<cdIn, cdOut, cdNoise>>
        /\ NoPacket /\ ~cdP.runtime /\ cdC.said = "" /\ cdP.status = ""
    BY <1>8 DEF CdBind, Silent, CdTalk, Undecided
  <2>2. CASE cdC' = [cdC EXCEPT !.at = IF Framed THEN "take" ELSE "meta"]
    <3> DEFINE at == IF Framed THEN "take" ELSE "meta"
    <3>1. cdC' = [at |-> at, read |-> cdC.read, sent |-> cdC.sent, exit |-> cdC.exit, said |-> cdC.said,
                  noise |-> cdC.noise]
      BY <1>2, <2>2
    <3>2. at \in CdPhases
      BY DEF CdPhases
    <3>4. IF Framed THEN at = "take" ELSE at = "meta"
      OBVIOUS
    <3> HIDE DEF at
    <3>3. /\ CdTyped' /\ cdC'.at = at /\ cdC'.read = cdC.read /\ cdC'.said = cdC.said
      BY <1>1, <1>2, <1>5, <2>1, <3>1, <3>2, CdNumbers, CdChildTyped
    <3>5. CdTalk'
      BY <1>1, <1>4, <1>5, <2>1, <3>3, <3>4 DEF CdTalk, Undecided
    <3> QED
      BY <3>3, <3>5
  <2>3. ASSUME NEW k \in Refusals, cdC' = [cdC EXCEPT !.at = "fail", !.said = k]
        PROVE  CdTyped' /\ CdTalk'
    <3>1. cdC' = [at |-> "fail", read |-> cdC.read, sent |-> cdC.sent, exit |-> cdC.exit, said |-> k,
                  noise |-> cdC.noise]
      BY <1>2, <2>3
    <3>2. "fail" \in CdPhases /\ k \in {""} \cup Refusals /\ k # ""
      BY DEF CdPhases, Refusals
    <3>3. /\ CdTyped' /\ cdC'.at = "fail" /\ cdC'.read = cdC.read /\ cdC'.said = k
      BY <1>1, <1>2, <1>5, <2>1, <3>1, <3>2, CdNumbers, CdChildTyped
    <3>4. CdTalk'
      BY <1>1, <1>4, <1>5, <2>1, <3>2, <3>3 DEF CdTalk, Undecided
    <3> QED
      BY <3>3, <3>4
  <2> QED
    BY <1>3, <1>8, <2>2, <2>3 DEF CdBind, ParentLives, Refusals
<1>9. CASE CdMeta
  <2> DEFINE at == IF Framed THEN "size" ELSE "stream"
  <2>1. cdC.at = "meta" /\ Say("M", 0) /\ UNCHANGED <<cdIn, cdNoise>> /\ cdC' = [cdC EXCEPT !.at = at]
    BY <1>9 DEF CdMeta
  <2>2. NoPacket /\ ~NoPacket' /\ OnePacket' /\ Packet'.k = "M"
    BY <1>2, <2>1, PacketSaid
  <2>3. cdC' = [at |-> at, read |-> cdC.read, sent |-> cdC.sent, exit |-> cdC.exit, said |-> cdC.said,
                noise |-> cdC.noise]
    BY <1>2, <2>1
  <2>4. at \in CdPhases /\ IF Framed THEN at = "size" ELSE at = "stream"
    BY DEF CdPhases
  <2> HIDE DEF at
  <2>5. CdTyped' /\ cdC'.at = at /\ cdC'.read = cdC.read /\ cdC'.said = cdC.said
    BY <1>1, <1>2, <2>1, <2>2, <2>3, <2>4, CdNumbers, CdChildTyped
  <2>6. CdTalk'
    BY <1>1, <1>4, <2>1, <2>2, <2>4, <2>5 DEF CdTalk, Undecided
  <2> QED
    BY <2>5, <2>6
<1>10. CASE CdTake
  <2>1. cdC.at = "take" /\ UNCHANGED <<cdOut, cdNoise>> /\ Framed /\ cdC.said = ""
    BY <1>10 DEF CdTake, CdTalk
  <2>2. CASE cdIn > 0 /\ cdIn' = cdIn - 1 /\ cdC' = [cdC EXCEPT !.read = @ + 1]
    <3>1. cdC' = [at |-> cdC.at, read |-> cdC.read + 1, sent |-> cdC.sent, exit |-> cdC.exit, said |-> cdC.said,
                  noise |-> cdC.noise]
      BY <1>2, <2>2
    <3>2. cdC.read + 1 \in Nat /\ cdIn' \in {0, 1} /\ (cdC.read + 1) + cdIn' = cdC.read + cdIn
      BY <2>2, CdNumbers
    <3>3. CdTyped' /\ cdC'.at = cdC.at /\ cdC'.read = cdC.read + 1 /\ cdC'.said = cdC.said
      BY <1>1, <1>2, <1>5, <2>1, <3>1, <3>2, CdNumbers, CdChildTyped
    <3>4. CdTalk'
      BY <1>1, <1>4, <1>5, <2>1, <3>2, <3>3 DEF CdTalk, Undecided
    <3> QED
      BY <3>3, <3>4
  <2>3. CASE cdIn' = cdIn /\ cdC.read = Frame.stored /\ cdC' = [cdC EXCEPT !.at = "work"]
    <3>1. cdC' = [at |-> "work", read |-> cdC.read, sent |-> cdC.sent, exit |-> cdC.exit, said |-> cdC.said,
                  noise |-> cdC.noise] /\ "work" \in CdPhases
      BY <1>2, <2>3 DEF CdPhases
    <3>3. CdTyped' /\ cdC'.at = "work" /\ cdC'.read = cdC.read /\ cdC'.said = cdC.said
      BY <1>1, <1>2, <1>5, <2>1, <2>3, <3>1, CdNumbers, CdChildTyped
    <3>4. CdTalk'
      BY <1>1, <1>4, <1>5, <2>1, <2>3, <3>3 DEF CdTalk, Undecided
    <3> QED
      BY <3>3, <3>4
  <2>4. CASE cdIn' = cdIn /\ cdC' = [cdC EXCEPT !.at = "fail", !.said = "I"]
    <3>1. cdC' = [at |-> "fail", read |-> cdC.read, sent |-> cdC.sent, exit |-> cdC.exit, said |-> "I",
                  noise |-> cdC.noise] /\ "fail" \in CdPhases /\ "I" \in {""} \cup Refusals
      BY <1>2, <2>4 DEF CdPhases, Refusals
    <3>2. cdIn' \in {0, 1} /\ cdNoise' \in {0, 1} /\ OnePacket'
      BY <1>5, <2>1, <2>4, CdNumbers
    <3>3. CdTyped' /\ cdC'.at = "fail" /\ cdC'.read = cdC.read /\ cdC'.said = "I"
      BY <1>1, <3>1, <3>2, CdNumbers, CdChildTyped
    <3>4. CdTalk'
      BY <1>1, <1>4, <1>5, <2>1, <2>4, <3>3 DEF CdTalk, Undecided
    <3> QED
      BY <3>3, <3>4
  <2> QED
    BY <1>10, <2>2, <2>3, <2>4 DEF CdTake
<1>11. CASE CdNoisy
  <2>1. cdC.at \in {"work", "stream"} /\ cdC' = [cdC EXCEPT !.noise = @ - 1] /\ UNCHANGED <<cdIn, cdOut>>
        /\ cdNoise < Room /\ cdNoise' = cdNoise + 1
    BY <1>11 DEF CdNoisy
  <2>2. cdNoise' \in {0, 1}
    BY <2>1, CdNumbers DEF Room
  <2>3. cdC' = [at |-> cdC.at, read |-> cdC.read, sent |-> cdC.sent, exit |-> cdC.exit, said |-> cdC.said,
                noise |-> cdC.noise - 1]
    BY <1>2, <2>1
  <2>4. CdTyped' /\ cdC'.at = cdC.at /\ cdC'.read = cdC.read /\ cdC'.said = cdC.said
    BY <1>1, <1>2, <1>5, <2>1, <2>2, <2>3, CdNumbers, CdChildTyped
  <2>5. CdTalk'
    BY <1>1, <1>4, <1>5, <2>1, <2>4 DEF CdTalk, Undecided
  <2> QED
    BY <2>4, <2>5
<1>12. CASE CdWork
  <2>1. cdC.at = "work" /\ UNCHANGED <<cdIn, cdOut, cdNoise>> /\ Framed /\ cdC.said = ""
        /\ cdC.read = Frame.stored
    BY <1>12 DEF CdWork, Silent, CdTalk
  <2>2. ASSUME NEW at \in {"meta", "hung"}, at = "meta" => Frame.sound, cdC' = [cdC EXCEPT !.at = at]
        PROVE  CdTyped' /\ CdTalk'
    <3>1. cdC' = [at |-> at, read |-> cdC.read, sent |-> cdC.sent, exit |-> cdC.exit, said |-> cdC.said,
                  noise |-> cdC.noise] /\ at \in CdPhases
      BY <1>2, <2>2 DEF CdPhases
    <3>3. CdTyped' /\ cdC'.at = at /\ cdC'.read = cdC.read /\ cdC'.said = cdC.said
      BY <1>1, <1>2, <1>5, <2>1, <3>1, CdNumbers, CdChildTyped
    <3>4. CdTalk'
      BY <1>1, <1>4, <1>5, <2>1, <2>2, <3>3 DEF CdTalk, Undecided
    <3> QED
      BY <3>3, <3>4
  <2>3. CASE cdC' = [cdC EXCEPT !.at = "fail", !.said = "I"]
    <3>1. cdC' = [at |-> "fail", read |-> cdC.read, sent |-> cdC.sent, exit |-> cdC.exit, said |-> "I",
                  noise |-> cdC.noise] /\ "fail" \in CdPhases /\ "I" \in {""} \cup Refusals
      BY <1>2, <2>3 DEF CdPhases, Refusals
    <3>3. CdTyped' /\ cdC'.at = "fail" /\ cdC'.read = cdC.read /\ cdC'.said = "I"
      BY <1>1, <1>2, <1>5, <2>1, <3>1, CdNumbers, CdChildTyped
    <3>4. CdTalk'
      BY <1>1, <1>4, <1>5, <2>1, <3>3 DEF CdTalk, Undecided
    <3> QED
      BY <3>3, <3>4
  <2> QED
    BY <1>12, <2>2, <2>3 DEF CdWork
<1>13. CASE CdSend
  <2>1. UNCHANGED <<cdIn, cdNoise>> /\ cdC.at \in {"size", "send"}
    BY <1>13 DEF CdSend
  <2>2. CASE cdC.at = "size" /\ Say("O", Frame.orig) /\ cdC' = [cdC EXCEPT !.at = "send"]
    <3>1. NoPacket /\ ~NoPacket' /\ OnePacket' /\ Packet'.k = "O"
      BY <1>2, <2>2, PacketSaid
    <3>2. cdC' = [at |-> "send", read |-> cdC.read, sent |-> cdC.sent, exit |-> cdC.exit, said |-> cdC.said,
                  noise |-> cdC.noise] /\ "send" \in CdPhases
      BY <1>2, <2>2 DEF CdPhases
    <3>3. CdTyped' /\ cdC'.at = "send" /\ cdC'.read = cdC.read /\ cdC'.said = cdC.said
      BY <1>1, <1>2, <2>1, <3>1, <3>2, CdNumbers, CdChildTyped
    <3>4. Framed /\ Frame.sound /\ Frame.stored <= Frame.has
      BY <1>6, <2>2 DEF CdTalk
    <3>5. CdTalk'
      BY <1>1, <1>4, <2>1, <2>2, <3>1, <3>3, <3>4 DEF CdTalk, Undecided
    <3> QED
      BY <3>3, <3>5
  <2>3. CASE cdC.at = "send" /\ Say("d", 1) /\ cdC' = [cdC EXCEPT !.sent = @ + 1]
    <3>1. NoPacket /\ ~NoPacket' /\ OnePacket' /\ Packet'.k = "d"
      BY <1>2, <2>3, PacketSaid
    <3>4. cdC.sent + 1 \in Nat
      BY CdNumbers
    <3>2. cdC' = [at |-> cdC.at, read |-> cdC.read, sent |-> cdC.sent + 1, exit |-> cdC.exit, said |-> cdC.said,
                  noise |-> cdC.noise]
      BY <1>2, <2>3
    <3>3. CdTyped' /\ cdC'.at = "send" /\ cdC'.read = cdC.read /\ cdC'.said = cdC.said
      BY <1>1, <1>2, <2>1, <2>3, <3>1, <3>2, <3>4, CdNumbers, CdChildTyped
    <3>5. CdTalk'
      BY <1>1, <1>4, <2>1, <2>3, <3>1, <3>3 DEF CdTalk, Undecided
    <3> QED
      BY <3>3, <3>5
  <2> QED
    BY <1>13, <2>2, <2>3 DEF CdSend
<1>14. CASE CdStream
  <2>1. cdC.at = "stream" /\ cdNoise' = cdNoise /\ ~Framed /\ cdC.said = "" /\ cdP.status = ""
    BY <1>14 DEF CdStream, CdTalk, Undecided
  <2>2. CASE cdIn > 0 /\ cdIn' = cdIn - 1 /\ cdC' = [cdC EXCEPT !.read = @ + 1] /\ UNCHANGED cdOut
    <3>1. cdC' = [at |-> cdC.at, read |-> cdC.read + 1, sent |-> cdC.sent, exit |-> cdC.exit, said |-> cdC.said,
                  noise |-> cdC.noise]
      BY <1>2, <2>2
    <3>2. cdC.read + 1 \in Nat /\ cdIn' \in {0, 1} /\ (cdC.read + 1) + cdIn' = cdC.read + cdIn
      BY <2>2, CdNumbers
    <3>3. CdTyped' /\ cdC'.at = cdC.at /\ cdC'.read = cdC.read + 1 /\ cdC'.said = cdC.said
      BY <1>1, <1>2, <1>5, <2>1, <2>2, <3>1, <3>2, CdNumbers, CdChildTyped
    <3>4. CdTalk'
      BY <1>1, <1>4, <1>5, <2>1, <2>2, <3>2, <3>3 DEF CdTalk, Undecided
    <3> QED
      BY <3>3, <3>4
  <2>3. CASE Say("D", 1) /\ cdC' = [cdC EXCEPT !.sent = @ + 1] /\ UNCHANGED cdIn
    <3>1. NoPacket /\ ~NoPacket' /\ OnePacket' /\ Packet'.k = "D"
      BY <1>2, <2>3, PacketSaid
    <3>4. cdC.sent + 1 \in Nat
      BY CdNumbers
    <3>2. cdC' = [at |-> cdC.at, read |-> cdC.read, sent |-> cdC.sent + 1, exit |-> cdC.exit, said |-> cdC.said,
                  noise |-> cdC.noise]
      BY <1>2, <2>3
    <3>3. CdTyped' /\ cdC'.at = "stream" /\ cdC'.read = cdC.read /\ cdC'.said = cdC.said
      BY <1>1, <1>2, <2>1, <2>3, <3>1, <3>2, <3>4, CdNumbers, CdChildTyped
    <3>5. CdTalk'
      BY <1>1, <1>4, <2>1, <2>3, <3>1, <3>3 DEF CdTalk, Undecided
    <3> QED
      BY <3>3, <3>5
  <2>4. CASE cdC' = [cdC EXCEPT !.at = "fail", !.said = "I"] /\ UNCHANGED <<cdIn, cdOut>>
    <3>1. cdC' = [at |-> "fail", read |-> cdC.read, sent |-> cdC.sent, exit |-> cdC.exit, said |-> "I",
                  noise |-> cdC.noise] /\ "fail" \in CdPhases /\ "I" \in {""} \cup Refusals
      BY <1>2, <2>4 DEF CdPhases, Refusals
    <3>3. CdTyped' /\ cdC'.at = "fail" /\ cdC'.read = cdC.read /\ cdC'.said = "I"
      BY <1>1, <1>2, <1>5, <2>1, <2>4, <3>1, CdNumbers, CdChildTyped
    <3>4. CdTalk'
      BY <1>1, <1>4, <1>5, <2>1, <2>4, <3>3 DEF CdTalk, Undecided
    <3> QED
      BY <3>3, <3>4
  <2>5. CASE /\ Frame.sound /\ cdC.read = Frame.stored /\ cdC.sent = Frame.orig
             /\ Say("E", cdC.sent) /\ cdC' = [cdC EXCEPT !.at = "send"] /\ UNCHANGED cdIn
    <3>1. NoPacket /\ ~NoPacket' /\ OnePacket' /\ Packet'.k = "E" /\ Packet'.n = Frame.orig
      BY <1>2, <2>5, PacketSaid
    <3>2. cdC' = [at |-> "send", read |-> cdC.read, sent |-> cdC.sent, exit |-> cdC.exit, said |-> cdC.said,
                  noise |-> cdC.noise] /\ "send" \in CdPhases
      BY <1>2, <2>5 DEF CdPhases
    <3>3. CdTyped' /\ cdC'.at = "send" /\ cdC'.read = cdC.read /\ cdC'.said = cdC.said
      BY <1>1, <1>2, <2>1, <2>5, <3>1, <3>2, CdNumbers, CdChildTyped
    <3>5. CdTalk'
      BY <1>1, <1>4, <1>6, <2>1, <2>5, <3>1, <3>3 DEF CdTalk, Undecided
    <3> QED
      BY <3>3, <3>5
  <2> QED
    BY <1>14, <2>2, <2>3, <2>4, <2>5 DEF CdStream
<1>15. CASE CdFailure
  <2>1. cdC.at = "fail" /\ Say(cdC.said, 0) /\ UNCHANGED <<cdIn, cdNoise>>
        /\ cdC' = [cdC EXCEPT !.at = "gone", !.exit = 1]
    BY <1>15 DEF CdFailure
  <2>2. NoPacket /\ ~NoPacket' /\ OnePacket' /\ Packet'.k = cdC.said
    BY <1>2, <2>1, PacketSaid
  <2>3. cdC' = [at |-> "gone", read |-> cdC.read, sent |-> cdC.sent, exit |-> 1, said |-> cdC.said,
                noise |-> cdC.noise] /\ "gone" \in CdPhases
    BY <1>2, <2>1 DEF CdPhases
  <2>4. CdTyped' /\ cdC'.at = "gone" /\ cdC'.read = cdC.read /\ cdC'.said = cdC.said
    BY <1>1, <1>2, <2>1, <2>2, <2>3, CdNumbers, CdChildTyped
  <2>5. cdC.said \in Refusals /\ cdP.status = ""
    BY <1>2, <2>1 DEF CdTalk, Undecided
  <2>6. CdTalk'
    BY <1>1, <1>4, <2>1, <2>2, <2>4, <2>5 DEF CdTalk, Undecided, Refusals
  <2> QED
    BY <2>4, <2>6
<1>16. CASE CdExit
  <2>1. cdC.at = "send" /\ UNCHANGED <<cdIn, cdOut, cdNoise>> /\ cdC' = [cdC EXCEPT !.at = "gone"] /\ cdC.said = ""
    BY <1>16 DEF CdExit, Silent, CdTalk
  <2>2. cdC' = [at |-> "gone", read |-> cdC.read, sent |-> cdC.sent, exit |-> cdC.exit, said |-> cdC.said,
                noise |-> cdC.noise] /\ "gone" \in CdPhases
    BY <1>2, <2>1 DEF CdPhases
  <2>3. CdTyped' /\ cdC'.at = "gone" /\ cdC'.read = cdC.read /\ cdC'.said = cdC.said
    BY <1>1, <1>2, <1>5, <2>1, <2>2, CdNumbers, CdChildTyped
  <2>4. CdTalk'
    BY <1>1, <1>4, <1>5, <2>1, <2>3 DEF CdTalk, Undecided
  <2> QED
    BY <2>3, <2>4
<1>17. CASE CdCrash
  <2>1. cdC' = [cdC EXCEPT !.at = "gone", !.exit = 1, !.said = ""] /\ UNCHANGED <<cdIn, cdNoise>>
        /\ cdC.at \notin {"none", "gone"}
    BY <1>17 DEF CdCrash, Alive
  <2>2. cdC' = [at |-> "gone", read |-> cdC.read, sent |-> cdC.sent, exit |-> 1, said |-> "",
                noise |-> cdC.noise] /\ "gone" \in CdPhases
    BY <1>2, <2>1 DEF CdPhases
  <2>3. CASE UNCHANGED cdOut
    <3>1. CdTyped' /\ cdC'.at = "gone" /\ cdC'.read = cdC.read /\ cdC'.said = ""
      BY <1>1, <1>2, <1>5, <2>1, <2>2, <2>3, CdNumbers, CdChildTyped
    <3>2. CdTalk'
      BY <1>1, <1>4, <1>5, <2>1, <2>3, <3>1 DEF CdTalk, Undecided
    <3> QED
      BY <3>1, <3>2
  <2>4. CASE cdC.at \in {"meta", "stream"} /\ Say("torn", 0)
    <3>1. NoPacket /\ ~NoPacket' /\ OnePacket' /\ Packet'.k = "torn"
      BY <1>2, <2>4, PacketSaid
    <3>2. CdTyped' /\ cdC'.at = "gone" /\ cdC'.read = cdC.read /\ cdC'.said = ""
      BY <1>1, <1>2, <2>1, <2>2, <3>1, CdNumbers, CdChildTyped
    <3>3. cdP.status = ""
      BY <2>4 DEF CdTalk, Undecided
    <3>4. CdTalk'
      BY <1>1, <1>4, <2>1, <2>4, <3>1, <3>2, <3>3 DEF CdTalk, Undecided
    <3> QED
      BY <3>2, <3>4
  <2> QED
    BY <1>17, <2>3, <2>4 DEF CdCrash, Say
<1> QED
  BY <1>8, <1>9, <1>10, <1>11, <1>12, <1>13, <1>14, <1>15, <1>16, <1>17 DEF CdChild

\* Every step of parent, child and what goes wrong keeps it.
LEMMA CdStepInv == CdInv /\ [CdNext]_cdVars => CdInv'
<1> SUFFICES ASSUME CdInv, [CdNext]_cdVars PROVE CdInv'
  OBVIOUS
<1>1. CASE UNCHANGED cdVars
  <2>1. UNCHANGED <<cdWorld, cdFrame, cdP, cdC, cdIn, cdOut, cdNoise, cdTotal, cdProofs, cdEnd>>
    BY <1>1 DEF cdVars
  <2>2. CdTyped' /\ CdAtRest'
    BY <2>1, PacketStays DEF CdInv, CdTyped, CdAtRest
  <2>3. CdLedger'
    BY <2>1, FrameStays DEF CdInv, CdLedger
  <2>4. CdTalk'
    BY <2>1, PacketStays, FrameStays DEF CdInv, CdTalk, Undecided
  <2>5. CdTold' /\ EofIsWhole' /\ NeverTooMuch' /\ RefusalKept'
    BY <2>1 DEF CdInv, CdTold, EofIsWhole, NeverTooMuch, RefusalKept, FrameProven, Framed
  <2> QED
    BY <2>2, <2>3, <2>4, <2>5 DEF CdInv
<1>2. CASE CdParent
  BY <1>2, CdOpenInv, CdEofInv, CdParentInv, CdReceiveInv, CdFinishInv DEF CdParent
<1>3. CASE CdChild \/ CdCrash
  BY <1>3, CdChildInv, CdAloneInv
<1>4. CASE CdGivesUp \/ CdCancel \/ CdParentDies
  BY <1>4, CdLeavesInv
<1> QED
  BY <1>1, <1>2, <1>3, <1>4 DEF CdNext

(***************************************************************************)
(* Decoding is sound for every artifact, whatever fails: a reader that     *)
(* ends well has the whole of it, none is handed more than was expected,   *)
(* the refusal a child wrote is the one reported, and no child outlives    *)
(* its session (codec_supervisor.py, codec_worker.py, artifact_io.py).     *)
(***************************************************************************)
THEOREM DecodingStaysSound == CdSpec => []DecodingSound
<1>1. CdInv => DecodingSound
  <2> SUFFICES ASSUME CdInv PROVE DecodingSound
    OBVIOUS
  <2>1. Len(cdOut) <= Room
    <3> DEFINE p == [k |-> Packet.k, n |-> Packet.n]
    <3>1. cdOut = <<>> \/ cdOut = <<p>>
      BY DEF CdInv, CdTyped, OnePacket, NoPacket
    <3> HIDE DEF p
    <3>2. CASE cdOut = <<>>
      <4>1. Len(<<>>) <= 1
        OBVIOUS
      <4> QED
        BY <3>2, <4>1 DEF Room
    <3>3. CASE cdOut = <<p>>
      <4>1. Len(<<p>>) <= 1
        OBVIOUS
      <4> QED
        BY <3>3, <4>1 DEF Room
    <3> QED
      BY <3>1, <3>2, <3>3
  <2>2. cdIn \in 0..Room /\ cdNoise \in 0..Room
    <3>1. 0 \in 0..1 /\ 1 \in 0..1
      OBVIOUS
    <3>2. cdIn \in {0, 1} /\ cdNoise \in {0, 1}
      BY CdNumbers DEF CdInv
    <3> QED
      BY <3>1, <3>2 DEF Room
  <2>3. CdTypeOK
    BY <2>1, <2>2 DEF CdInv, CdTyped, CdTold, CdEnds, CdTypeOK
  <2>4. NoOrphan
    <3>1. NoChild.at = "none"
      BY DEF NoChild
    <3> QED
      BY <3>1 DEF CdInv, CdAtRest, NoOrphan
  <2> QED
    BY <2>3, <2>4 DEF CdInv, DecodingSound
<1> QED
  BY <1>1, CdInitInv, CdStepInv, PTL DEF CdSpec

-----------------------------------------------------------------------------
(* Native commands                                                         *)

Threads == nvWorld.threads
Of(p) == nvProc[p].of
Begun(t) == nvRun[t].at # "idle"
Scanning == {"look", "slay", "list1", "list2", "list3", "read1", "read2", "read3", "done"}
Locked == Scanning \cup {"spawned", "unproven", "cgroup", "cgroupLook", "adopt"}
NvSteps == Locked \cup {"idle", "run", "reap", "wait", "close", "closeLook", "end"}
NvResults == {"none", "ok", "unproven", "incomplete", "refused", "subreaper"}
NvProcs ==
  [st : {"none", "run", "zombie", "gone"}, up : NvIds \cup {Ours, Pid1}, grp : NvIds, of : Threads \cup {"nobody"},
   hit : Threads \cup {"no"}, line : SUBSET NvIds, late : Nat]
NvRuns ==
  [at : NvSteps, child : NvIds, seen : SUBSET NvIds, left : SUBSET NvIds, pre : SUBSET NvIds,
   pass : 0..NvPasses - 1, result : NvResults]

NvTyped ==
  /\ nvWorld \in NvWorlds
  /\ nvProc \in [NvIds -> NvProcs] /\ nvRun \in [Threads -> NvRuns]
  /\ nvLock \in {"free"} \cup Threads /\ nvSub \in BOOLEAN

\* Nobody yet, or one of a command that began, not before its leader.
NvKin ==
  \A p \in NvIds :
    /\ nvProc[p].st = "none" =>
         Of(p) = "nobody" /\ nvProc[p].up = Ours /\ nvProc[p].grp = p /\ nvProc[p].hit = "no" /\ nvProc[p].line = {}
    /\ nvProc[p].st # "none" => Of(p) \in Threads /\ Begun(Of(p)) /\ Leader(Of(p)) <= p
    /\ \A q \in nvProc[p].line : q < p /\ nvProc[q].st # "none"

\* Numbers are handed out in order.
NvInOrder == \A p \in NvIds : nvProc[p].st # "none" => \A q \in NvIds : q < p => nvProc[q].st # "none"

\* A parent among the processes lives, is of the same command, and hands its descent on;
\* who has another parent than the one it descends from lost that one.
Parentage(procs) ==
  \A p \in NvIds :
    LET q == procs[p].up
        line == procs[p].line IN
    /\ q \in NvIds =>
         /\ procs[q].st = "run" /\ q < p /\ procs[q].of = procs[p].of
         /\ line = procs[q].line \cup {q} /\ procs[q].late <= procs[p].late
    /\ q \notin NvIds => line = {} \/ \E r \in line : procs[r].st # "run" /\ \A s \in line : s <= r

LeaderKept(t) ==
  Begun(t) =>
    LET p == nvProc[Leader(t)] IN
    /\ p.of = t /\ p.up = Ours /\ p.grp = Leader(t) /\ p.hit \in {"no", t} /\ p.st # "none" /\ p.line = {}
    /\ nvRun[t].at \in {"spawned", "run"} => p.st # "gone"

NvLocks ==
  /\ \A t \in Threads : nvRun[t].at \in Locked => nvLock = t
  /\ nvSub => nvLock \in Threads /\ nvRun[nvLock].at \in Scanning

\* A scan under way spares the leaders of the other commands.
Spared(t) ==
  /\ \A p \in nvRun[t].seen : nvProc[p].st # "none"
  /\ nvRun[t].at # "slay" => nvRun[t].left = {}
  /\ nvRun[t].at \in Scanning =>
       \A u \in Threads \ {t} :
         Begun(u) =>
           /\ Leader(u) \in nvRun[t].pre \/ nvProc[Leader(u)].st = "gone"
           /\ Leader(u) \notin nvRun[t].left

\* Whom the scans need not find; and who was there when a scan was empty, or came behind its back.
Foreign(t, p) == \E q \in ({p} \cup nvProc[p].line) \ {Leader(t)} : q \in nvRun[t].pre
Missable(t, p, n) == nvProc[p].late >= n \/ OfInit(p) \/ Foreign(t, p)
Scanned(t) ==
  \A p \in NvIds :
    LET at == nvRun[t].at
        unseen == p \notin nvRun[t].seen IN
    Live(p) /\ Of(p) = t =>
      /\ at = "read1" /\ unseen => Missable(t, p, 1)
      /\ at \in {"list2", "read2"} => Missable(t, p, 1)
      /\ at \in {"read2", "read3"} /\ unseen => Missable(t, p, 2)
      /\ at = "done" \/ (at = "wait" /\ nvRun[t].result = "refused") => Missable(t, p, 2)

Emptied(t) ==
  nvWorld.cgroup /\ nvRun[t].at = "end" /\ nvRun[t].result # "incomplete" =>
    \A p \in NvIds : Of(p) = t => ~Live(p)

NvInv ==
  /\ NvTyped /\ NvKin /\ NvInOrder /\ Parentage(nvProc) /\ NvLocks
  /\ \A t \in Threads : LeaderKept(t) /\ Spared(t) /\ Scanned(t) /\ Emptied(t)

\* Among some processes one is the first.
LEMMA NvFirst ==
  ASSUME NEW S \in SUBSET NvIds, S # {}
  PROVE  \E p \in S : \A q \in S : ~(q < p)
<1>1. S \subseteq Nat
  BY DEF NvIds
<1>2. PICK p \in S : \A q \in S : ~(<<q, p>> \in OpToRel(<, Nat))
  BY <1>1, WFMin, NatLessThanWellFounded, Zenon
<1> QED
  BY <1>1, <1>2 DEF OpToRel

\* Numbers of processes are neither this process nor init.
LEMMA NvNumbers == NvIds \subseteq Nat \ {0} /\ Ours \notin NvIds /\ Pid1 \notin NvIds /\ Ours # Pid1
BY NvWorldsAssumption DEF NvIds, Ours, Pid1

\* The forebears of a process in some table, and whether one of them is a child of init.
ChainIn(procs, p) ==
  {p} \cup {q \in procs[p].line : \A r \in procs[p].line : r >= q => procs[r].st = "run"}
InitIn(procs, p) == \E q \in ChainIn(procs, p) : procs[q].up = Pid1

\* What OfInit says, of the table before a step and after it.
LEMMA OfInitIn == ASSUME NEW p PROVE (OfInit(p) <=> InitIn(nvProc, p)) /\ (OfInit(p)' <=> InitIn(nvProc', p))
BY DEF OfInit, Forebears, Live, InitIn, ChainIn

\* Of init is who has a parent that is, or has none but init.
LEMMA InitIs ==
  ASSUME NEW procs, NEW p \in NvIds, Parentage(procs), \A q \in NvIds : procs[q].line \subseteq NvIds,
         \A q \in NvIds : \A r \in procs[q].line : r < q
  PROVE  IF procs[p].up \in NvIds THEN InitIn(procs, p) <=> InitIn(procs, procs[p].up)
         ELSE InitIn(procs, p) <=> procs[p].up = Pid1
<1> DEFINE u == procs[p].up
<1>1. CASE u \in NvIds
  <2>1. procs[u].st = "run" /\ u < p /\ procs[p].line = procs[u].line \cup {u}
    BY <1>1 DEF Parentage
  <2>2. \A r \in procs[u].line : r < u /\ r \in NvIds
    BY <1>1
  <2>3. u \in Nat /\ NvIds \subseteq Nat
    BY <1>1, NvNumbers
  <2>4. ChainIn(procs, p) = {p} \cup ChainIn(procs, u)
    <3>1. ASSUME NEW q \in procs[p].line, \A r \in procs[p].line : r >= q => procs[r].st = "run"
          PROVE  q \in ChainIn(procs, u)
      BY <2>1, <3>1 DEF ChainIn
    <3>2. ASSUME NEW q \in ChainIn(procs, u)
          PROVE  q \in procs[p].line /\ \A r \in procs[p].line : r >= q => procs[r].st = "run"
      <4>1. CASE q = u
        BY <2>1, <2>2, <2>3, <4>1
      <4>2. CASE q \in procs[u].line /\ \A r \in procs[u].line : r >= q => procs[r].st = "run"
        BY <2>1, <4>2
      <4> QED
        BY <3>2, <4>1, <4>2 DEF ChainIn
    <3>3. \A q : q \in ChainIn(procs, p) <=>
                   q = p \/ (q \in procs[p].line /\ \A r \in procs[p].line : r >= q => procs[r].st = "run")
      BY DEF ChainIn
    <3> QED
      BY <3>1, <3>2, <3>3
  <2>5. u # Pid1
    BY <1>1, NvNumbers
  <2> QED
    BY <1>1, <2>4, <2>5 DEF InitIn
<1>2. CASE u \notin NvIds
  <2>1. ChainIn(procs, p) = {p}
    <3>1. procs[p].line = {} \/ \E r \in procs[p].line : procs[r].st # "run" /\ \A s \in procs[p].line : s <= r
      BY <1>2 DEF Parentage
    <3>2. procs[p].line \subseteq Nat
      BY NvNumbers
    <3>3. \A q \in procs[p].line : ~\A r \in procs[p].line : r >= q => procs[r].st = "run"
      BY <3>1, <3>2
    <3> QED
      BY <3>3 DEF ChainIn
  <2> QED
    BY <1>2, <2>1 DEF InitIn
<1> QED
  BY <1>1, <1>2

\* Who is of init stays so while it lives.
LEMMA InitStays ==
  ASSUME NEW P, NEW Q, Parentage(P), Parentage(Q),
         \A p \in NvIds : P[p].line \subseteq NvIds /\ Q[p].line \subseteq NvIds
                          /\ P[p].up \in NvIds \cup {Ours, Pid1},
         \A p \in NvIds : (\A r \in P[p].line : r < p) /\ (\A r \in Q[p].line : r < p),
         \A p \in NvIds : Q[p].st = "run" /\ P[p].st = "run" =>
            Q[p].up = P[p].up \/ (Q[p].up \notin NvIds /\ (InitIn(P, p) => Q[p].up = Pid1)),
         NEW p \in NvIds, P[p].st = "run", Q[p].st = "run", InitIn(P, p)
  PROVE  InitIn(Q, p)
<1> DEFINE Bad == {q \in NvIds : P[q].st = "run" /\ Q[q].st = "run" /\ InitIn(P, q) /\ ~InitIn(Q, q)}
<1>1. SUFFICES ASSUME Bad # {} PROVE FALSE
  OBVIOUS
<1>2. PICK b \in Bad : \A q \in Bad : ~(q < b)
  BY <1>1, NvFirst
<1>3. CASE Q[b].up \in NvIds
  <2>1. Q[b].up = P[b].up /\ P[b].up \in NvIds
    BY <1>3
  <2>2. InitIn(P, P[b].up) /\ ~InitIn(Q, P[b].up)
    BY <1>3, <2>1, InitIs
  <2>3. P[P[b].up].st = "run" /\ Q[P[b].up].st = "run" /\ P[b].up < b
    BY <1>3, <2>1 DEF Parentage
  <2> QED
    BY <1>2, <2>1, <2>2, <2>3
<1>4. CASE Q[b].up \notin NvIds
  <2>1. Q[b].up # Pid1
    BY <1>4, InitIs
  <2>2. Q[b].up = P[b].up
    BY <1>4, <2>1
  <2>3. P[b].up = Pid1
    BY <1>4, <2>2, InitIs
  <2> QED
    BY <2>1, <2>2, <2>3
<1> QED
  BY <1>3, <1>4

\* What the invariant says of the table, as the lemmas on it need it.
LEMMA NvTable ==
  ASSUME NvTyped, NvKin
  PROVE  /\ \A p \in NvIds : nvProc[p].line \subseteq NvIds /\ nvProc[p].up \in NvIds \cup {Ours, Pid1}
         /\ \A p \in NvIds : \A r \in nvProc[p].line : r < p
         /\ \A p \in NvIds : nvProc[p] \in NvProcs
<1>1. \A p \in NvIds : nvProc[p] \in NvProcs
  BY DEF NvTyped
<1> QED
  BY <1>1 DEF NvProcs, NvKin

\* A thread marks processes as killed and collects zombies; the table is else the same.
Tidied(t) ==
  /\ nvProc' \in [NvIds -> NvProcs]
  /\ \A p \in NvIds :
       LET x == nvProc[p]
           y == nvProc'[p] IN
       /\ y.up = x.up /\ y.grp = x.grp /\ y.of = x.of /\ y.line = x.line /\ y.late = x.late
       /\ y.hit = x.hit \/ (y.hit = t /\ x.st = "run")
       /\ y.st = x.st \/ (x.st = "zombie" /\ y.st = "gone")

\* To signal some processes and collect some others only tidies up.
LEMMA NvTidies ==
  ASSUME NvTyped, NEW t \in Threads, NEW hs, NEW cs, nvProc' = Collected(Hit(t, hs), cs)
  PROVE  /\ Tidied(t)
         /\ \A p \in NvIds :
              /\ p \notin hs \/ ~Live(p) => nvProc'[p].hit = nvProc[p].hit
              /\ p \notin cs => nvProc'[p].st = nvProc[p].st
<1>1. \A p \in NvIds : nvProc[p] \in NvProcs
  BY DEF NvTyped
<1>2. ASSUME NEW p \in NvIds
      PROVE  /\ Hit(t, hs)[p] \in NvProcs
             /\ LET x == nvProc[p]
                    y == Hit(t, hs)[p] IN
                /\ y.up = x.up /\ y.grp = x.grp /\ y.of = x.of /\ y.line = x.line /\ y.late = x.late /\ y.st = x.st
                /\ y.hit = x.hit \/ (y.hit = t /\ x.st = "run" /\ p \in hs)
  <2>1. CASE p \in hs /\ Live(p) /\ nvProc[p].hit = "no"
    <3>1. Hit(t, hs)[p] = [nvProc[p] EXCEPT !.hit = t]
      BY <2>1 DEF Hit
    <3> QED
      BY <1>1, <2>1, <3>1 DEF NvProcs, Live
  <2>2. CASE ~(p \in hs /\ Live(p) /\ nvProc[p].hit = "no")
    <3>1. Hit(t, hs)[p] = nvProc[p]
      BY <2>2 DEF Hit
    <3> QED
      BY <1>1, <3>1
  <2> QED
    BY <2>1, <2>2
<1>3. ASSUME NEW p \in NvIds
      PROVE  /\ nvProc'[p] \in NvProcs
             /\ LET x == Hit(t, hs)[p]
                    y == nvProc'[p] IN
                /\ y.up = x.up /\ y.grp = x.grp /\ y.of = x.of /\ y.line = x.line /\ y.late = x.late /\ y.hit = x.hit
                /\ y.st = x.st \/ (x.st = "zombie" /\ y.st = "gone" /\ p \in cs)
  <2> DEFINE x == Hit(t, hs)[p]
  <2>3. x \in NvProcs
    BY <1>2
  <2>1. CASE p \in cs /\ x.st = "zombie" /\ x.up = Ours
    <3>1. nvProc'[p] = [x EXCEPT !.st = "gone"]
      BY <2>1 DEF Collected
    <3> HIDE DEF x
    <3> QED
      BY <2>1, <2>3, <3>1 DEF NvProcs, x
  <2>2. CASE ~(p \in cs /\ x.st = "zombie" /\ x.up = Ours)
    <3>1. nvProc'[p] = x
      BY <2>2 DEF Collected
    <3> HIDE DEF x
    <3> QED
      BY <2>3, <3>1 DEF x
  <2> QED
    BY <2>1, <2>2
<1>4. nvProc' \in [NvIds -> NvProcs]
  BY <1>3 DEF Collected
<1> HIDE DEF Hit, Collected
<1>5. Tidied(t)
  BY <1>2, <1>3, <1>4 DEF Tidied
<1> QED
  BY <1>2, <1>3, <1>5 DEF Live

\* To signal some processes ends none of them yet (_reap_group).
LEMMA NvHits ==
  ASSUME NvTyped, NEW t \in Threads, NEW hs, nvProc' = Hit(t, hs)
  PROVE  /\ Tidied(t)
         /\ \A p \in NvIds : nvProc'[p].st = nvProc[p].st /\ (p \notin hs \/ ~Live(p) => nvProc'[p].hit = nvProc[p].hit)
<1>1. Collected(Hit(t, hs), {}) = Hit(t, hs)
  BY DEF Collected, Hit
<1> QED
  BY <1>1, NvTidies

\* To collect exit statuses signals nobody (_wait_collected).
LEMMA NvCollects ==
  ASSUME NvTyped, NEW t \in Threads, NEW cs, nvProc' = Collected(nvProc, cs)
  PROVE  /\ Tidied(t)
         /\ \A p \in NvIds : nvProc'[p].hit = nvProc[p].hit /\ (p \notin cs => nvProc'[p].st = nvProc[p].st)
<1>1. Hit(t, {}) = nvProc
  BY DEF Hit, NvTyped
<1> QED
  BY <1>1, NvTidies

\* A table left alone is tidied.
LEMMA NvSame ==
  ASSUME NvTyped, NEW t \in Threads, nvProc' = nvProc, UNCHANGED nvWorld
  PROVE  Tidied(t)
BY DEF NvTyped, Tidied

\* Kinship and what the scans may miss are the same afterwards.
LEMMA NvTidyKeeps ==
  ASSUME NvInv, NEW t \in Threads, Tidied(t), UNCHANGED nvWorld
  PROVE  /\ Parentage(nvProc')
         /\ \A p \in NvIds : (Live(p)' <=> Live(p)) /\ nvProc'[p].of = Of(p)
         /\ \A u \in Threads : \A p \in NvIds : \A n \in Nat :
              Live(p) /\ Missable(u, p, n) /\ nvRun'[u].pre = nvRun[u].pre /\ nvRun'[u].child = nvRun[u].child
                => Missable(u, p, n)'
<1> USE DEF NvInv
<1>1. \A p \in NvIds : nvProc'[p].st = "run" <=> nvProc[p].st = "run"
  BY DEF Tidied
<1>2. Parentage(nvProc')
  <2> SUFFICES ASSUME NEW p \in NvIds
               PROVE  LET q == nvProc'[p].up
                          line == nvProc'[p].line IN
                      /\ q \in NvIds =>
                           /\ nvProc'[q].st = "run" /\ q < p /\ nvProc'[q].of = nvProc'[p].of
                           /\ line = nvProc'[q].line \cup {q} /\ nvProc'[q].late <= nvProc'[p].late
                      /\ q \notin NvIds => line = {} \/ \E r \in line : nvProc'[r].st # "run" /\ \A s \in line : s <= r
    BY DEF Parentage
  <2>1. nvProc'[p].up = nvProc[p].up /\ nvProc'[p].line = nvProc[p].line /\ nvProc[p].line \subseteq NvIds
    BY NvTable DEF Tidied
  <2> QED
    BY <1>1, <2>1 DEF Parentage, Tidied
<1>3. ASSUME NEW p \in NvIds, Live(p), OfInit(p) PROVE OfInit(p)'
  <2>1. \A q \in NvIds : nvProc'[q].line = nvProc[q].line /\ nvProc'[q].up = nvProc[q].up
    BY DEF Tidied
  <2>2. InitIn(nvProc, p) /\ nvProc[p].st = "run" /\ nvProc'[p].st = "run"
    BY <1>1, <1>3, OfInitIn DEF Live
  <2>3. InitIn(nvProc', p)
    BY <1>2, <2>1, <2>2, NvTable, InitStays
  <2> QED
    BY <2>3, OfInitIn
<1>4. ASSUME NEW u \in Threads, NEW p \in NvIds, NEW n \in Nat, Live(p), Missable(u, p, n),
             nvRun'[u].pre = nvRun[u].pre, nvRun'[u].child = nvRun[u].child
      PROVE  Missable(u, p, n)'
  <2>1. nvProc'[p].line = nvProc[p].line /\ nvProc'[p].late = nvProc[p].late
    BY DEF Tidied
  <2>2. CASE nvProc[p].late >= n
    BY <2>1, <2>2 DEF Missable
  <2>3. CASE OfInit(p)
    BY <1>3, <1>4, <2>3 DEF Missable
  <2>4. CASE Foreign(u, p)
    BY <1>4, <2>1, <2>4 DEF Missable, Foreign, Leader
  <2> QED
    BY <1>4, <2>2, <2>3, <2>4 DEF Missable
<1> QED
  BY <1>1, <1>2, <1>4 DEF Live, Of, Tidied

\* A step of one thread: what it must keep for itself, and for the leaders of the others.
LEMMA NvThreadStep ==
  ASSUME NvInv, NEW t \in Threads, Begun(t), UNCHANGED nvWorld, Tidied(t),
         nvRun' \in [Threads -> NvRuns], \A u \in Threads \ {t} : nvRun'[u] = nvRun[u],
         nvRun'[t].child = nvRun[t].child, nvRun'[t].at # "idle",
         \A u \in Threads \ {t} :
           Begun(u) => nvProc'[Leader(u)].hit = nvProc[Leader(u)].hit /\ nvProc'[Leader(u)].st = nvProc[Leader(u)].st,
         nvRun'[t].at \in {"spawned", "run"} =>
           nvRun[t].at \in {"spawned", "run"} /\ nvProc'[Leader(t)].st = nvProc[Leader(t)].st,
         nvLock' \in {"free"} \cup Threads, nvSub' \in BOOLEAN, NvLocks',
         Spared(t)', Scanned(t)', Emptied(t)'
  PROVE  NvInv'
<1> USE DEF NvInv
<1>1. Threads' = Threads /\ \A u \in Threads : (Begun(u)' <=> Begun(u)) /\ nvRun'[u].child = nvRun[u].child
  BY DEF Threads, Begun
<1>2. NvTyped'
  <2>1. NvProcs' = NvProcs /\ NvRuns' = NvRuns
    BY <1>1 DEF NvProcs, NvRuns
  <2> QED
    BY <1>1, <2>1 DEF NvTyped, Tidied
<1>3. Parentage(nvProc)'
  BY NvTidyKeeps
<1>4. NvKin'
  <2> SUFFICES ASSUME NEW p \in NvIds
               PROVE  /\ nvProc'[p].st = "none" => nvProc'[p].of = "nobody" /\ nvProc'[p].up = Ours
                           /\ nvProc'[p].grp = p /\ nvProc'[p].hit = "no" /\ nvProc'[p].line = {}
                      /\ nvProc'[p].st # "none" =>
                           nvProc'[p].of \in Threads /\ nvRun'[nvProc'[p].of].at # "idle"
                           /\ nvRun'[nvProc'[p].of].child <= p
                      /\ \A q \in nvProc'[p].line : q < p /\ nvProc'[q].st # "none"
    BY <1>1 DEF NvKin, Of, Leader, Begun
  <2>1. nvProc[p].line \subseteq NvIds /\ nvProc'[p].line = nvProc[p].line /\ nvProc'[p].of = nvProc[p].of
    BY NvTable DEF Tidied
  <2>2. (nvProc'[p].st = "none" <=> nvProc[p].st = "none") /\ (nvProc[p].st = "none" => nvProc'[p].hit = nvProc[p].hit)
        /\ nvProc'[p].up = nvProc[p].up /\ nvProc'[p].grp = nvProc[p].grp
    BY DEF Tidied
  <2>3. \A q \in NvIds : nvProc[q].st # "none" => nvProc'[q].st # "none"
    BY DEF Tidied
  <2>4. nvProc[p].st # "none" => nvProc[p].of \in Threads /\ nvRun[nvProc[p].of].at # "idle"
                                 /\ nvRun[nvProc[p].of].child <= p
    BY DEF NvKin, Of, Leader, Begun
  <2>5. \A u \in Threads : nvRun[u].at # "idle" => nvRun'[u].at # "idle"
    BY <1>1 DEF Begun
  <2> QED
    BY <1>1, <2>1, <2>2, <2>3, <2>4, <2>5 DEF NvKin, Of
<1>5. ASSUME NEW u \in Threads PROVE LeaderKept(u)' /\ Spared(u)' /\ Scanned(u)' /\ Emptied(u)'
  <2>1. Leader(u) \in NvIds /\ Leader(u)' = Leader(u)
    <3>1. nvRun[u] \in NvRuns
      BY DEF NvTyped
    <3> QED
      BY <1>1, <3>1 DEF Leader, NvRuns
  <2>2. LeaderKept(u)'
    <3> SUFFICES ASSUME Begun(u)
                 PROVE  LET p == nvProc'[Leader(u)] IN
                        /\ p.of = u /\ p.up = Ours /\ p.grp = Leader(u) /\ p.hit \in {"no", u} /\ p.st # "none" /\ p.line = {}
                        /\ nvRun'[u].at \in {"spawned", "run"} => p.st # "gone"
      BY <1>1, <2>1 DEF LeaderKept
    <3>1. CASE u = t
      BY <2>1, <3>1 DEF LeaderKept, Tidied
    <3>2. CASE u # t
      BY <2>1, <3>2 DEF LeaderKept, Tidied
    <3> QED
      BY <3>1, <3>2
  <2>3. CASE u = t
    BY <2>2, <2>3
  <2>4. CASE u # t
    <3>1. nvRun'[u] = nvRun[u]
      BY <2>4
    <3>2. Spared(u)'
      <4>1. \A p \in nvRun[u].seen : p \in NvIds
        <5>1. nvRun[u] \in NvRuns
          BY DEF NvTyped
        <5> QED
          BY <5>1 DEF NvRuns
      <4>2. \A p \in nvRun'[u].seen : nvProc'[p].st # "none"
        BY <3>1, <4>1 DEF Spared, Tidied
      <4>3. ASSUME nvRun[u].at \in Scanning, NEW v \in Threads \ {u}, Begun(v)
            PROVE  /\ nvRun[v].child \in nvRun[u].pre \/ nvProc'[nvRun[v].child].st = "gone"
                   /\ nvRun[v].child \notin nvRun[u].left
        <5>1. nvRun[v] \in NvRuns /\ nvRun[v].child \in NvIds
          BY DEF NvTyped, NvRuns
        <5>2. nvProc[nvRun[v].child].st = "gone" => nvProc'[nvRun[v].child].st = "gone"
          BY <5>1 DEF Tidied
        <5> QED
          BY <4>3, <5>2 DEF Spared, Leader
      <4> QED
        BY <1>1, <3>1, <4>2, <4>3 DEF Spared, Leader
    <3>3. Scanned(u)'
      BY <3>1, NvTidyKeeps DEF Scanned, Of
    <3>4. Emptied(u)'
      BY <3>1, NvTidyKeeps DEF Emptied, Of
    <3> QED
      BY <2>2, <3>2, <3>3, <3>4
  <2> QED
    BY <2>3, <2>4
<1>6. NvInOrder'
  <2>1. \A p \in NvIds : nvProc'[p].st = "none" <=> nvProc[p].st = "none"
    BY DEF Tidied
  <2> QED
    BY <2>1 DEF NvInOrder
<1> QED
  BY <1>1, <1>2, <1>3, <1>4, <1>5, <1>6

\* A thread goes on: to a step, with what it saw, left, found before it, its pass and its result.
GoesOn(t, at, seen, found, pre, pass, result) ==
  /\ nvRun' \in [Threads -> NvRuns] /\ \A u \in Threads \ {t} : nvRun'[u] = nvRun[u]
  /\ nvRun'[t].child = nvRun[t].child /\ nvRun'[t].at = at /\ nvRun'[t].seen = seen /\ nvRun'[t].left = found
  /\ nvRun'[t].pre = pre /\ nvRun'[t].pass = pass /\ nvRun'[t].result = result

\* What a thread has is of its types.
LEMMA NvHas ==
  ASSUME NvTyped, NEW t \in Threads
  PROVE  /\ nvRun[t] = [at |-> nvRun[t].at, child |-> nvRun[t].child, seen |-> nvRun[t].seen, left |-> nvRun[t].left,
                        pre |-> nvRun[t].pre, pass |-> nvRun[t].pass, result |-> nvRun[t].result]
         /\ nvRun[t].at \in NvSteps /\ nvRun[t].child \in NvIds /\ nvRun[t].seen \in SUBSET NvIds
         /\ nvRun[t].left \in SUBSET NvIds /\ nvRun[t].pre \in SUBSET NvIds /\ nvRun[t].pass \in 0..NvPasses - 1
         /\ nvRun[t].result \in NvResults /\ 0 \in 0..NvPasses - 1
<1>1. nvRun[t] \in NvRuns
  BY DEF NvTyped
<1>2. 0 \in 0..NvPasses - 1
  BY NvWorldsAssumption
<1> QED
  BY <1>1, <1>2 DEF NvRuns

\* The lock and the subreaper: kept by one who scans, by one who does not, and given back.
LEMMA NvLockHeld ==
  ASSUME NvInv, NEW t \in Threads, UNCHANGED nvWorld, \A u \in Threads \ {t} : nvRun'[u] = nvRun[u],
         nvLock' = t, nvLock = "free" \/ nvLock = t, nvSub' => nvRun'[t].at \in Scanning
  PROVE  NvLocks'
<1>1. \A u \in Threads : u # "free"
  BY NvWorldsAssumption DEF NvInv, NvTyped, Threads
<1>2. \A u \in Threads \ {t} : nvRun'[u].at \notin Locked
  BY <1>1 DEF NvInv, NvLocks
<1> QED
  BY <1>2 DEF NvLocks, Threads

\* A thread outside a scan that does not touch the lock keeps its order.
LEMMA NvLockLeft ==
  ASSUME NvInv, NEW t \in Threads, UNCHANGED <<nvWorld, nvLock, nvSub>>, \A u \in Threads \ {t} : nvRun'[u] = nvRun[u],
         nvRun[t].at \notin Scanning, nvRun'[t].at \in Locked => nvRun[t].at \in Locked
  PROVE  NvLocks'
<1>1. \A u \in Threads : nvRun'[u].at \in Locked => nvLock = u
  BY DEF NvInv, NvLocks
<1>2. nvSub => nvLock \in Threads \ {t} /\ nvRun[nvLock].at \in Scanning
  BY DEF NvInv, NvLocks
<1> QED
  BY <1>1, <1>2 DEF NvLocks, Threads

\* A thread that releases the lock gives back the role of subreaper as well.
LEMMA NvLockFreed ==
  ASSUME NvInv, NEW t \in Threads, UNCHANGED nvWorld, \A u \in Threads \ {t} : nvRun'[u] = nvRun[u],
         nvRun[t].at \in Locked, nvRun'[t].at \notin Locked, nvLock' = "free",
         nvSub' = FALSE \/ (nvSub' = nvSub /\ nvRun[t].at \notin Scanning)
  PROVE  NvLocks'
<1>1. nvLock = t
  BY DEF NvInv, NvLocks
<1>2. t # "free"
  BY NvWorldsAssumption DEF NvInv, NvTyped, Threads
<1>3. \A u \in Threads : nvRun'[u].at \notin Locked
  BY <1>1, <1>2 DEF NvInv, NvLocks
<1>4. ~nvSub'
  BY <1>1 DEF NvInv, NvLocks
<1> QED
  BY <1>3, <1>4 DEF NvLocks, Threads

\* A step of one thread that is no part of a scan.
LEMMA NvPlainStep ==
  ASSUME NvInv, NEW t \in Threads, Begun(t), nvRun[t].at # "slay", UNCHANGED nvWorld, Tidied(t), NvLocks',
         nvLock' \in {"free"} \cup Threads, nvSub' \in BOOLEAN,
         NEW at \in NvSteps, at # "idle", at \notin Scanning, NEW seen \in SUBSET NvIds, seen \subseteq nvRun[t].seen,
         NEW pre \in SUBSET NvIds, NEW pass \in 0..NvPasses - 1, NEW result \in NvResults,
         GoesOn(t, at, seen, nvRun[t].left, pre, pass, result),
         \A u \in Threads \ {t} :
           Begun(u) => nvProc'[Leader(u)].hit = nvProc[Leader(u)].hit /\ nvProc'[Leader(u)].st = nvProc[Leader(u)].st,
         at \in {"spawned", "run"} =>
           nvRun[t].at \in {"spawned", "run"} /\ nvProc'[Leader(t)].st = nvProc[Leader(t)].st,
         at = "wait" => result # "refused",
         at = "end" /\ nvWorld.cgroup /\ result # "incomplete" => \A p \in NvIds : Of(p) = t => ~Live(p)
  PROVE  NvInv'
<1>1. NvTyped /\ Spared(t)
  BY DEF NvInv
<1>2. nvRun[t].left \in SUBSET NvIds /\ nvRun[t].seen \in SUBSET NvIds /\ nvRun[t].left = {}
  BY <1>1, NvHas DEF Spared
<1>3. /\ nvRun' \in [Threads -> NvRuns] /\ \A u \in Threads \ {t} : nvRun'[u] = nvRun[u]
      /\ nvRun'[t].child = nvRun[t].child /\ nvRun'[t].at = at /\ nvRun'[t].seen = seen /\ nvRun'[t].left = {}
      /\ nvRun'[t].result = result
  BY <1>2 DEF GoesOn
<1>4. Spared(t)'
  <2>1. \A p \in seen : nvProc'[p].st # "none"
    BY <1>1, <1>2 DEF Spared, Tidied
  <2> QED
    BY <1>3, <2>1 DEF Spared
<1>5. Scanned(t)'
  BY <1>3 DEF Scanned, Scanning
<1>6. Emptied(t)'
  BY <1>3, NvTidyKeeps DEF Emptied, Of
<1> QED
  BY <1>3, <1>4, <1>5, <1>6, NvThreadStep

\* A new record of a thread's command changes that thread only.
LEMMA NvTurned ==
  ASSUME NvTyped, NEW t \in Threads, NEW x \in NvRuns, nvRun' = [nvRun EXCEPT ![t] = x], x.child = nvRun[t].child
  PROVE  GoesOn(t, x.at, x.seen, x.left, x.pre, x.pass, x.result)
<1>1. nvRun \in [Threads -> NvRuns]
  BY DEF NvTyped
<1>2. nvRun' \in [Threads -> NvRuns] /\ nvRun'[t] = x /\ \A u \in Threads \ {t} : nvRun'[u] = nvRun[u]
  BY <1>1
<1> QED
  BY <1>2 DEF GoesOn

\* So do a next step and a result.
LEMMA NvToTurns ==
  ASSUME NvTyped, NEW t \in Threads, NEW at \in NvSteps, NEW result \in NvResults
  PROVE  /\ NvTo(t, at) => GoesOn(t, at, nvRun[t].seen, nvRun[t].left, nvRun[t].pre, nvRun[t].pass, nvRun[t].result)
         /\ Says(t, result, at) => GoesOn(t, at, nvRun[t].seen, nvRun[t].left, nvRun[t].pre, nvRun[t].pass, result)
<1>1. nvRun \in [Threads -> NvRuns] /\ nvRun[t] \in NvRuns
  BY DEF NvTyped
<1>2. ASSUME NvTo(t, at)
      PROVE  GoesOn(t, at, nvRun[t].seen, nvRun[t].left, nvRun[t].pre, nvRun[t].pass, nvRun[t].result)
  <2> DEFINE x == [nvRun[t] EXCEPT !.at = at]
  <2>1. nvRun' = [nvRun EXCEPT ![t] = x]
    BY <1>1, <1>2 DEF NvTo
  <2>2. x \in NvRuns
    BY <1>1 DEF NvRuns
  <2>3. x.at = at /\ x.child = nvRun[t].child /\ x.seen = nvRun[t].seen /\ x.left = nvRun[t].left
        /\ x.pre = nvRun[t].pre /\ x.pass = nvRun[t].pass /\ x.result = nvRun[t].result
    BY <1>1 DEF NvRuns
  <2> HIDE DEF x
  <2>4. GoesOn(t, x.at, x.seen, x.left, x.pre, x.pass, x.result)
    BY <2>1, <2>2, <2>3, NvTurned
  <2> QED
    BY <2>3, <2>4
<1>3. ASSUME Says(t, result, at)
      PROVE  GoesOn(t, at, nvRun[t].seen, nvRun[t].left, nvRun[t].pre, nvRun[t].pass, result)
  <2> DEFINE x == [nvRun[t] EXCEPT !.at = at, !.result = result]
  <2>1. nvRun' = [nvRun EXCEPT ![t] = x]
    BY <1>1, <1>3 DEF Says
  <2>2. x \in NvRuns
    BY <1>1 DEF NvRuns
  <2>3. x.at = at /\ x.child = nvRun[t].child /\ x.seen = nvRun[t].seen /\ x.left = nvRun[t].left
        /\ x.pre = nvRun[t].pre /\ x.pass = nvRun[t].pass /\ x.result = result
    BY <1>1 DEF NvRuns
  <2> HIDE DEF x
  <2>4. GoesOn(t, x.at, x.seen, x.left, x.pre, x.pass, x.result)
    BY <2>1, <2>2, <2>3, NvTurned
  <2> QED
    BY <2>3, <2>4
<1> QED
  BY <1>2, <1>3

\* Leaders of two commands are two processes.
LEMMA NvTwoLeaders ==
  ASSUME NvInv, NEW t \in Threads, Begun(t), NEW u \in Threads \ {t}, Begun(u)
  PROVE  /\ Leader(u) \in NvIds /\ Leader(t) \in NvIds /\ Leader(u) # Leader(t)
         /\ nvProc[Leader(u)].of = u /\ nvProc[Leader(u)].grp # Leader(t)
         /\ nvProc[Leader(u)].up = Ours /\ nvProc[Leader(u)].line = {}
         /\ nvProc[Leader(u)].st \in {"run", "zombie", "gone"}
<1>1. Leader(u) \in NvIds /\ Leader(t) \in NvIds
  BY NvHas DEF NvInv, Leader
<1>2. nvProc[Leader(u)].of = u /\ nvProc[Leader(t)].of = t /\ nvProc[Leader(u)].grp = Leader(u)
      /\ nvProc[Leader(u)].up = Ours /\ nvProc[Leader(u)].line = {} /\ nvProc[Leader(u)].st # "none"
  BY DEF NvInv, LeaderKept
<1>3. nvProc[Leader(u)] \in NvProcs
  BY <1>1 DEF NvInv, NvTyped
<1> QED
  BY <1>1, <1>2, <1>3 DEF NvProcs

\* The steps of a command but for its spawn and its scans.
LEMMA NvPlainInv ==
  ASSUME NvInv, NEW t \in Threads,
         NvReady(t) \/ NvUnproven(t) \/ NvFinish(t) \/ NvLate(t) \/ NvKillCgroup(t) \/ NvReap(t) \/ NvWait(t) \/ NvClose(t)
  PROVE  NvInv'
<1>1. NvTyped /\ nvLock \in {"free"} \cup Threads /\ nvSub \in BOOLEAN
  BY DEF NvInv, NvTyped
<1>2. /\ nvRun[t].seen \in SUBSET NvIds /\ nvRun[t].pre \in SUBSET NvIds /\ nvRun[t].pass \in 0..NvPasses - 1
      /\ nvRun[t].result \in NvResults /\ 0 \in 0..NvPasses - 1
  BY <1>1, NvHas
<1>3. UNCHANGED nvProc /\ UNCHANGED nvWorld => Tidied(t)
  BY <1>1, NvSame
<1>5. CASE NvReady(t)
  <2>1. nvRun[t].at = "spawned" /\ UNCHANGED <<nvWorld, nvSub>>
    BY <1>5 DEF NvReady, NvAt
  <2>2. Begun(t) /\ nvRun[t].at \in Locked /\ nvRun[t].at \notin Scanning /\ nvRun[t].at # "slay" /\ nvLock = t
    BY <2>1 DEF Begun, Locked, Scanning, NvInv, NvLocks
  <2>3. CASE NvTo(t, "run") /\ nvLock' = "free" /\ UNCHANGED nvProc
    <3>1. GoesOn(t, "run", nvRun[t].seen, nvRun[t].left, nvRun[t].pre, nvRun[t].pass, nvRun[t].result)
      BY <1>1, <1>2, <2>3, NvToTurns DEF NvSteps
    <3>2. "run" \in NvSteps /\ "run" \notin Scanning /\ "run" \notin Locked
      BY DEF NvSteps, Scanning, Locked
    <3>3. nvRun'[t].at = "run" /\ \A u \in Threads \ {t} : nvRun'[u] = nvRun[u]
      BY <1>1, <2>3 DEF NvTo, NvTyped
    <3>4. NvLocks'
      BY <2>1, <2>2, <2>3, <3>2, <3>3, NvLockFreed
    <3> QED
      BY <1>1, <1>2, <1>3, <2>1, <2>2, <2>3, <3>1, <3>2, <3>4, NvPlainStep
  <2>4. CASE NvTo(t, "unproven") /\ nvProc' = Hit(t, {p \in NvIds : nvProc[p].grp = Leader(t)}) /\ UNCHANGED nvLock
    <3>1. GoesOn(t, "unproven", nvRun[t].seen, nvRun[t].left, nvRun[t].pre, nvRun[t].pass, nvRun[t].result)
      BY <1>1, <1>2, <2>4, NvToTurns DEF NvSteps, Locked
    <3>2. "unproven" \in NvSteps /\ "unproven" \notin Scanning
      BY DEF NvSteps, Scanning, Locked
    <3>3. nvRun'[t].at = "unproven" /\ \A u \in Threads \ {t} : nvRun'[u] = nvRun[u]
      BY <1>1, <2>4 DEF NvTo, NvTyped
    <3>4. NvLocks'
      BY <2>1, <2>2, <2>4, <3>3, NvLockLeft
    <3>5. Tidied(t) /\ \A u \in Threads \ {t} : Begun(u) =>
            nvProc'[Leader(u)].hit = nvProc[Leader(u)].hit /\ nvProc'[Leader(u)].st = nvProc[Leader(u)].st
      BY <1>1, <2>2, <2>4, NvHits, NvTwoLeaders
    <3> QED
      BY <1>1, <1>2, <2>1, <2>2, <2>4, <3>1, <3>2, <3>4, <3>5, NvPlainStep
  <2> QED
    BY <1>5, <2>3, <2>4 DEF NvReady
<1>6. CASE NvUnproven(t)
  <2>1. nvRun[t].at = "unproven" /\ UNCHANGED <<nvWorld, nvSub>> /\ nvLock' = "free" /\ Says(t, "unproven", "close")
        /\ nvProc' = Collected(nvProc, {Leader(t)})
    BY <1>6 DEF NvUnproven, NvAt
  <2>2. Begun(t) /\ nvRun[t].at \in Locked /\ nvRun[t].at \notin Scanning /\ nvRun[t].at # "slay"
    BY <2>1 DEF Begun, Locked, Scanning
  <2>3. GoesOn(t, "close", nvRun[t].seen, nvRun[t].left, nvRun[t].pre, nvRun[t].pass, "unproven")
    BY <1>1, <2>1, NvToTurns DEF NvSteps, NvResults
  <2>4. "close" \in NvSteps /\ "close" \notin Scanning /\ "close" \notin Locked /\ "unproven" \in NvResults
    BY DEF NvSteps, Scanning, Locked, NvResults
  <2>5. nvRun'[t].at = "close" /\ \A u \in Threads \ {t} : nvRun'[u] = nvRun[u]
    BY <1>1, <2>1 DEF Says, NvTyped
  <2>6. NvLocks'
    BY <2>1, <2>2, <2>4, <2>5, NvLockFreed
  <2>7. Tidied(t) /\ \A u \in Threads \ {t} : Begun(u) =>
          nvProc'[Leader(u)].hit = nvProc[Leader(u)].hit /\ nvProc'[Leader(u)].st = nvProc[Leader(u)].st
    BY <1>1, <2>1, <2>2, NvCollects, NvTwoLeaders
  <2> QED
    BY <1>1, <1>2, <2>1, <2>2, <2>3, <2>4, <2>6, <2>7, NvPlainStep
<1>7. CASE NvFinish(t)
  <2>1. nvRun[t].at = "run" /\ UNCHANGED <<nvWorld, nvLock, nvSub>> /\ Says(t, "ok", "close")
        /\ nvProc' = Collected(nvProc, {Leader(t)})
    BY <1>7 DEF NvFinish, NvAt
  <2>2. Begun(t) /\ nvRun[t].at \notin Scanning /\ nvRun[t].at # "slay"
    BY <2>1 DEF Begun, Scanning
  <2>3. GoesOn(t, "close", nvRun[t].seen, nvRun[t].left, nvRun[t].pre, nvRun[t].pass, "ok")
    BY <1>1, <2>1, NvToTurns DEF NvSteps, NvResults
  <2>4. "close" \in NvSteps /\ "close" \notin Scanning /\ "close" \notin Locked /\ "ok" \in NvResults
    BY DEF NvSteps, Scanning, Locked, NvResults
  <2>5. nvRun'[t].at = "close" /\ \A u \in Threads \ {t} : nvRun'[u] = nvRun[u]
    BY <1>1, <2>1 DEF Says, NvTyped
  <2>6. NvLocks'
    BY <2>1, <2>2, <2>4, <2>5, NvLockLeft
  <2>7. Tidied(t) /\ \A u \in Threads \ {t} : Begun(u) =>
          nvProc'[Leader(u)].hit = nvProc[Leader(u)].hit /\ nvProc'[Leader(u)].st = nvProc[Leader(u)].st
    BY <1>1, <2>1, <2>2, NvCollects, NvTwoLeaders
  <2> QED
    BY <1>1, <1>2, <2>1, <2>2, <2>3, <2>4, <2>6, <2>7, NvPlainStep
<1>8. CASE NvLate(t)
  <2>1. nvRun[t].at = "run" /\ UNCHANGED <<nvWorld, nvProc, nvLock, nvSub>> /\ NvTo(t, "reap")
    BY <1>8 DEF NvLate, NvAt
  <2>2. Begun(t) /\ nvRun[t].at \notin Scanning /\ nvRun[t].at # "slay"
    BY <2>1 DEF Begun, Scanning
  <2>3. GoesOn(t, "reap", nvRun[t].seen, nvRun[t].left, nvRun[t].pre, nvRun[t].pass, nvRun[t].result)
    BY <1>1, <1>2, <2>1, NvToTurns DEF NvSteps
  <2>4. "reap" \in NvSteps /\ "reap" \notin Scanning /\ "reap" \notin Locked
    BY DEF NvSteps, Scanning, Locked
  <2>5. nvRun'[t].at = "reap" /\ \A u \in Threads \ {t} : nvRun'[u] = nvRun[u]
    BY <1>1, <2>1 DEF NvTo, NvTyped
  <2>6. NvLocks'
    BY <2>1, <2>2, <2>4, <2>5, NvLockLeft
  <2> QED
    BY <1>1, <1>2, <1>3, <2>1, <2>2, <2>3, <2>4, <2>6, NvPlainStep
<1>9. CASE NvKillCgroup(t)
  <2>1. UNCHANGED <<nvWorld, nvLock, nvSub>> /\ nvProc' = Hit(t, Members(t))
    BY <1>9 DEF NvKillCgroup
  <2>2. PICK at \in {"cgroupLook", "closeLook"} :
          NvTo(t, at) /\ nvRun[t].at = IF at = "cgroupLook" THEN "cgroup" ELSE "close"
    BY <1>9 DEF NvKillCgroup, NvAt
  <2>3. Begun(t) /\ nvRun[t].at \notin Scanning /\ nvRun[t].at # "slay"
    BY <2>2 DEF Begun, Scanning
  <2>4. GoesOn(t, at, nvRun[t].seen, nvRun[t].left, nvRun[t].pre, nvRun[t].pass, nvRun[t].result)
    BY <1>1, <1>2, <2>2, NvToTurns DEF NvSteps, Locked, Scanning
  <2>5. at \in NvSteps /\ at \notin Scanning /\ (at \in Locked => nvRun[t].at \in Locked)
        /\ at \notin {"idle", "spawned", "run", "wait", "end"}
    BY <2>2 DEF NvSteps, Scanning, Locked
  <2>6. nvRun'[t].at = at /\ \A u \in Threads \ {t} : nvRun'[u] = nvRun[u]
    BY <1>1, <2>2 DEF NvTo, NvTyped
  <2>7. NvLocks'
    BY <2>1, <2>3, <2>5, <2>6, NvLockLeft
  <2>8. Tidied(t) /\ \A u \in Threads \ {t} : Begun(u) =>
          nvProc'[Leader(u)].hit = nvProc[Leader(u)].hit /\ nvProc'[Leader(u)].st = nvProc[Leader(u)].st
    BY <1>1, <2>1, <2>3, NvHits, NvTwoLeaders DEF Members
  <2> QED
    BY <1>1, <1>2, <2>1, <2>3, <2>4, <2>5, <2>7, <2>8, NvPlainStep
<1>10. CASE NvReap(t)
  <2> DEFINE at == IF nvWorld.cgroup THEN "cgroup" ELSE "adopt"
  <2>1. nvRun[t].at = "reap" /\ UNCHANGED <<nvWorld, nvProc, nvSub>> /\ NvTo(t, at) /\ nvLock = "free" /\ nvLock' = t
    BY <1>10 DEF NvReap, NvAt, LockFree
  <2>5. at \in NvSteps /\ at \notin Scanning /\ at \notin {"idle", "spawned", "run", "wait", "end"}
    BY DEF NvSteps, Scanning, Locked
  <2> HIDE DEF at
  <2>2. Begun(t) /\ nvRun[t].at \notin Scanning /\ nvRun[t].at # "slay"
    BY <2>1 DEF Begun, Scanning
  <2>3. GoesOn(t, at, nvRun[t].seen, nvRun[t].left, nvRun[t].pre, nvRun[t].pass, nvRun[t].result)
    BY <1>1, <1>2, <2>1, <2>5, NvToTurns
  <2>6. nvRun'[t].at = at /\ \A u \in Threads \ {t} : nvRun'[u] = nvRun[u]
    BY <1>1, <2>1 DEF NvTo, NvTyped
  <2>7. ~nvSub'
    BY <2>1, NvWorldsAssumption DEF NvInv, NvLocks, NvTyped, Threads
  <2>8. NvLocks'
    BY <2>1, <2>6, <2>7, NvLockHeld
  <2> QED
    BY <1>1, <1>2, <1>3, <2>1, <2>2, <2>3, <2>5, <2>8, NvPlainStep
<1>11. CASE NvWait(t)
  <2>1. nvRun[t].at = "wait" /\ UNCHANGED <<nvWorld, nvLock, nvSub>> /\ nvProc' = Collected(nvProc, {Leader(t)})
        /\ nvRun' = [nvRun EXCEPT ![t].at = "close", ![t].pre = {}, ![t].pass = 0]
    BY <1>11 DEF NvWait, NvAt
  <2>2. Begun(t) /\ nvRun[t].at \notin Scanning /\ nvRun[t].at # "slay"
    BY <2>1 DEF Begun, Scanning
  <2>3. GoesOn(t, "close", nvRun[t].seen, nvRun[t].left, {}, 0, nvRun[t].result)
    <3>1. nvRun \in [Threads -> NvRuns] /\ nvRun[t] \in NvRuns
      BY <1>1 DEF NvTyped
    <3> DEFINE x == [nvRun[t] EXCEPT !.at = "close", !.pre = {}, !.pass = 0]
    <3>2. nvRun' = [nvRun EXCEPT ![t] = x]
      BY <2>1, <3>1
    <3>3. x \in NvRuns
      BY <1>2, <3>1 DEF NvRuns, NvSteps
    <3>4. x.at = "close" /\ x.child = nvRun[t].child /\ x.seen = nvRun[t].seen /\ x.left = nvRun[t].left
          /\ x.pre = {} /\ x.pass = 0 /\ x.result = nvRun[t].result
      BY <3>1 DEF NvRuns
    <3> HIDE DEF x
    <3> QED
      BY <1>1, <3>2, <3>3, <3>4, NvTurned
  <2>4. "close" \in NvSteps /\ "close" \notin Scanning /\ "close" \notin Locked
    BY DEF NvSteps, Scanning, Locked
  <2>5. nvRun'[t].at = "close" /\ \A u \in Threads \ {t} : nvRun'[u] = nvRun[u]
    BY <1>1, <2>1 DEF NvTyped
  <2>6. NvLocks'
    BY <2>1, <2>2, <2>4, <2>5, NvLockLeft
  <2>7. Tidied(t) /\ \A u \in Threads \ {t} : Begun(u) =>
          nvProc'[Leader(u)].hit = nvProc[Leader(u)].hit /\ nvProc'[Leader(u)].st = nvProc[Leader(u)].st
    <3>1. Tidied(t) /\ \A p \in NvIds : nvProc'[p].hit = nvProc[p].hit
                       /\ (p \notin {Leader(t)} => nvProc'[p].st = nvProc[p].st)
      BY <1>1, <2>1, NvCollects
    <3> QED
      BY <2>2, <3>1, NvTwoLeaders
  <2> QED
    BY <1>1, <1>2, <2>1, <2>2, <2>3, <2>4, <2>6, <2>7, NvPlainStep
<1>12. CASE NvClose(t)
  <2>1. nvRun[t].at = "close" /\ UNCHANGED <<nvWorld, nvProc, nvLock, nvSub>> /\ NvTo(t, "end") /\ ~nvWorld.cgroup
    BY <1>12 DEF NvClose, NvAt
  <2>2. Begun(t) /\ nvRun[t].at \notin Scanning /\ nvRun[t].at # "slay"
    BY <2>1 DEF Begun, Scanning
  <2>3. GoesOn(t, "end", nvRun[t].seen, nvRun[t].left, nvRun[t].pre, nvRun[t].pass, nvRun[t].result)
    BY <1>1, <1>2, <2>1, NvToTurns DEF NvSteps
  <2>4. "end" \in NvSteps /\ "end" \notin Scanning /\ "end" \notin Locked
    BY DEF NvSteps, Scanning, Locked
  <2>5. nvRun'[t].at = "end" /\ \A u \in Threads \ {t} : nvRun'[u] = nvRun[u]
    BY <1>1, <2>1 DEF NvTo, NvTyped
  <2>6. NvLocks'
    BY <2>1, <2>2, <2>4, <2>5, NvLockLeft
  <2> QED
    BY <1>1, <1>2, <1>3, <2>1, <2>2, <2>3, <2>4, <2>6, NvPlainStep
<1> QED
  BY <1>5, <1>6, <1>7, <1>8, <1>9, <1>10, <1>11, <1>12


\* What a thread keeps for the next pass of its cgroup, and when it gives up.
LEMMA NvLookCgroupInv ==
  ASSUME NvInv, NEW t \in Threads, NvLookCgroup(t)
  PROVE  NvInv'
<1> DEFINE closing == nvRun[t].at = "closeLook"
           more == \E p \in Members(t) : Live(p)
           again == nvRun[t].pass + 1 < NvPasses
<1>1. NvTyped /\ nvLock \in {"free"} \cup Threads /\ nvSub \in BOOLEAN
  BY DEF NvInv, NvTyped
<1>2. /\ nvRun[t].seen \in SUBSET NvIds /\ nvRun[t].pre \in SUBSET NvIds /\ nvRun[t].pass \in 0..NvPasses - 1
      /\ nvRun[t].result \in NvResults /\ 0 \in 0..NvPasses - 1 /\ nvRun[t] \in NvRuns
  BY <1>1, NvHas DEF NvTyped
<1>3. UNCHANGED nvProc /\ UNCHANGED nvWorld => Tidied(t)
  BY <1>1, NvSame
<1>4. nvRun[t].at \in {"cgroupLook", "closeLook"} /\ UNCHANGED <<nvWorld, nvProc, nvSub>> /\ nvLock' \in {"free", nvLock}
  BY DEF NvLookCgroup, NvAt, Release
<1>5. Begun(t) /\ nvRun[t].at \notin Scanning /\ nvRun[t].at # "slay" /\ (closing <=> nvRun[t].at \notin Locked)
  BY <1>4 DEF Begun, Scanning, Locked
<1>6. more <=> \E p \in NvIds : Of(p) = t /\ Live(p)
  BY DEF Members, Of
<1>7. nvRun \in [Threads -> NvRuns]
  BY <1>1 DEF NvTyped
<1>8. UNCHANGED nvLock \/ nvLock' = "free"
  BY <1>4
<1>9. CASE ~more /\ closing
  <2>1. NvTo(t, "end") /\ UNCHANGED nvLock
    BY <1>9 DEF NvLookCgroup
  <2>2. GoesOn(t, "end", nvRun[t].seen, nvRun[t].left, nvRun[t].pre, nvRun[t].pass, nvRun[t].result)
    BY <1>1, <1>2, <2>1, NvToTurns DEF NvSteps
  <2>3. "end" \in NvSteps /\ "end" \notin Scanning /\ "end" \notin Locked
    BY DEF NvSteps, Scanning, Locked
  <2>4. NvLocks'
    <3>1. nvRun'[t].at = "end" /\ \A u \in Threads \ {t} : nvRun'[u] = nvRun[u]
      BY <2>2 DEF GoesOn
    <3> QED
      BY <1>4, <1>5, <2>1, <2>3, <3>1, NvLockLeft
  <2>5. \A p \in NvIds : Of(p) = t => ~Live(p)
    BY <1>6, <1>9
  <2> HIDE DEF closing, more, again
  <2> QED
    BY <1>1, <1>2, <1>3, <1>4, <1>5, <2>1, <2>2, <2>3, <2>4, <2>5, NvPlainStep
<1>10. CASE (~more /\ ~closing) \/ (more /\ again)
  <2> DEFINE at == IF ~more THEN "adopt" ELSE IF closing THEN "close" ELSE "cgroup"
             pass == IF ~more THEN 0 ELSE nvRun[t].pass + 1
             x == [nvRun[t] EXCEPT !.at = at, !.pass = pass]
  <2>1. nvRun' = [nvRun EXCEPT ![t] = x] /\ UNCHANGED nvLock
    <3>1. CASE ~more /\ ~closing
      <4>1. nvRun' = [nvRun EXCEPT ![t].at = "adopt", ![t].pass = 0] /\ UNCHANGED nvLock
        BY <3>1 DEF NvLookCgroup
      <4> QED
        BY <1>7, <3>1, <4>1
    <3>2. CASE more /\ again
      <4>1. nvRun' = [nvRun EXCEPT ![t].at = IF closing THEN "close" ELSE "cgroup", ![t].pass = @ + 1] /\ UNCHANGED nvLock
        BY <3>2 DEF NvLookCgroup
      <4> QED
        BY <1>7, <3>2, <4>1
    <3> QED
      BY <1>10, <3>1, <3>2
  <2>2. pass \in 0..NvPasses - 1
    BY <1>2, <1>10, NvWorldsAssumption
  <2>3. at \in NvSteps /\ at \notin Scanning /\ at \notin {"idle", "spawned", "run", "wait", "end"}
        /\ (at \in Locked => nvRun[t].at \in Locked)
    BY <1>5, <1>10 DEF NvSteps, Scanning, Locked
  <2> HIDE DEF at, pass, closing, more, again
  <2>4. x \in NvRuns
    BY <1>2, <2>2, <2>3 DEF NvRuns
  <2>5. x.at = at /\ x.child = nvRun[t].child /\ x.seen = nvRun[t].seen /\ x.left = nvRun[t].left
        /\ x.pre = nvRun[t].pre /\ x.pass = pass /\ x.result = nvRun[t].result
    BY <1>2 DEF NvRuns
  <2> HIDE DEF x
  <2>6. GoesOn(t, x.at, x.seen, x.left, x.pre, x.pass, x.result)
    BY <1>1, <2>1, <2>4, <2>5, NvTurned
  <2>7. GoesOn(t, at, nvRun[t].seen, nvRun[t].left, nvRun[t].pre, pass, nvRun[t].result)
    BY <2>5, <2>6
  <2>8. NvLocks'
    <3>1. nvRun'[t].at = at /\ \A u \in Threads \ {t} : nvRun'[u] = nvRun[u]
      BY <2>7 DEF GoesOn
    <3> QED
      BY <1>4, <1>5, <2>1, <2>3, <3>1, NvLockLeft
  <2> QED
    BY <1>1, <1>2, <1>3, <1>4, <1>5, <2>1, <2>2, <2>3, <2>7, <2>8, NvPlainStep
<1>11. CASE more /\ ~again /\ closing
  <2>1. Says(t, "incomplete", "end") /\ UNCHANGED nvLock
    BY <1>11 DEF NvLookCgroup
  <2>2. GoesOn(t, "end", nvRun[t].seen, nvRun[t].left, nvRun[t].pre, nvRun[t].pass, "incomplete")
    BY <1>1, <1>2, <2>1, NvToTurns DEF NvSteps, NvResults
  <2>3. "end" \in NvSteps /\ "end" \notin Scanning /\ "end" \notin Locked /\ "incomplete" \in NvResults
    BY DEF NvSteps, Scanning, Locked, NvResults
  <2>4. NvLocks'
    <3>1. nvRun'[t].at = "end" /\ \A u \in Threads \ {t} : nvRun'[u] = nvRun[u]
      BY <2>2 DEF GoesOn
    <3> QED
      BY <1>4, <1>5, <2>1, <2>3, <3>1, NvLockLeft
  <2> HIDE DEF closing, more, again
  <2> QED
    BY <1>1, <1>2, <1>3, <1>4, <1>5, <2>1, <2>2, <2>3, <2>4, NvPlainStep
<1>12. CASE more /\ ~again /\ ~closing
  <2> DEFINE x == [nvRun[t] EXCEPT !.at = "wait", !.result = "incomplete", !.pass = 0]
  <2>1. nvRun' = [nvRun EXCEPT ![t] = x] /\ nvLock' = "free"
    <3>1. nvRun' = [nvRun EXCEPT ![t].at = "wait", ![t].result = "incomplete", ![t].pass = 0] /\ Release
      BY <1>12 DEF NvLookCgroup
    <3> QED
      BY <1>7, <3>1 DEF Release
  <2>3. "wait" \in NvSteps /\ "wait" \notin Scanning /\ "wait" \notin Locked /\ "incomplete" \in NvResults
    BY DEF NvSteps, Scanning, Locked, NvResults
  <2>4. x \in NvRuns
    BY <1>2, <2>3 DEF NvRuns
  <2>5. x.at = "wait" /\ x.child = nvRun[t].child /\ x.seen = nvRun[t].seen /\ x.left = nvRun[t].left
        /\ x.pre = nvRun[t].pre /\ x.pass = 0 /\ x.result = "incomplete"
    BY <1>2 DEF NvRuns
  <2> HIDE DEF x
  <2>6. GoesOn(t, x.at, x.seen, x.left, x.pre, x.pass, x.result)
    BY <1>1, <2>1, <2>4, <2>5, NvTurned
  <2>7. GoesOn(t, "wait", nvRun[t].seen, nvRun[t].left, nvRun[t].pre, 0, "incomplete")
    BY <2>5, <2>6
  <2>8. NvLocks'
    <3>1. nvRun'[t].at = "wait" /\ \A u \in Threads \ {t} : nvRun'[u] = nvRun[u]
      BY <2>7 DEF GoesOn
    <3> QED
      BY <1>4, <1>5, <1>12, <2>1, <2>3, <3>1, NvLockFreed
  <2> HIDE DEF closing, more, again
  <2>9. nvLock' \in {"free"} \cup Threads /\ nvSub' \in BOOLEAN /\ UNCHANGED nvWorld
    BY <1>1, <1>4, <2>1
  <2>10. Tidied(t) /\ \A u \in Threads \ {t} : Begun(u) =>
           nvProc'[Leader(u)].hit = nvProc[Leader(u)].hit /\ nvProc'[Leader(u)].st = nvProc[Leader(u)].st
    BY <1>3, <1>4
  <2>11. PICK at \in NvSteps : at = "wait"
    BY <2>3
  <2>12. PICK result \in NvResults : result = "incomplete"
    BY <2>3
  <2>13. PICK pass \in 0..NvPasses - 1 : pass = 0
    BY <1>2
  <2>14. GoesOn(t, at, nvRun[t].seen, nvRun[t].left, nvRun[t].pre, pass, result)
    BY <2>7, <2>11, <2>12, <2>13
  <2>15. at # "idle" /\ at \notin Scanning /\ at \notin {"spawned", "run"} /\ at # "end" /\ result # "refused"
    BY <2>3, <2>11, <2>12
  <2> QED
    BY <1>2, <1>5, <2>8, <2>9, <2>10, <2>14, <2>15, NvPlainStep
<1> QED
  BY <1>9, <1>10, <1>11, <1>12

\* A step of a scan.
LEMMA NvScanStep ==
  ASSUME NvInv, NEW t \in Threads, nvRun[t].at \in Scanning \cup {"adopt"}, UNCHANGED nvWorld, Tidied(t),
         NEW at \in NvSteps, at \notin {"idle", "spawned", "run", "end"}, NEW seen \in SUBSET NvIds,
         NEW found \in SUBSET NvIds, NEW pre \in SUBSET NvIds, NEW pass, NEW result,
         GoesOn(t, at, seen, found, pre, pass, result),
         \A u \in Threads \ {t} :
           Begun(u) => nvProc'[Leader(u)].hit = nvProc[Leader(u)].hit /\ nvProc'[Leader(u)].st = nvProc[Leader(u)].st,
         nvLock' \in {"free"} \cup Threads, nvSub' \in BOOLEAN, NvLocks',
         \A p \in seen : nvProc[p].st # "none", at # "slay" => found = {},
         at \in Scanning =>
           \A u \in Threads \ {t} :
             Begun(u) => (Leader(u) \in pre \/ nvProc[Leader(u)].st = "gone") /\ Leader(u) \notin found,
         Scanned(t)'
  PROVE  NvInv'
<1>1. /\ nvRun' \in [Threads -> NvRuns] /\ \A u \in Threads \ {t} : nvRun'[u] = nvRun[u]
      /\ nvRun'[t].child = nvRun[t].child /\ nvRun'[t].at = at /\ nvRun'[t].seen = seen /\ nvRun'[t].left = found
      /\ nvRun'[t].pre = pre
  BY DEF GoesOn
<1>2. Begun(t)
  BY DEF Begun, Scanning
<1>3. NvTyped
  BY DEF NvInv
<1>4. Spared(t)'
  <2>1. \A p \in seen : nvProc'[p].st # "none"
    BY DEF Tidied
  <2>2. \A u \in Threads \ {t} : Leader(u) \in NvIds /\ Leader(u)' = Leader(u) /\ (Begun(u)' <=> Begun(u))
    BY <1>1, <1>3, NvHas DEF Leader, Begun
  <2>3. \A u \in Threads \ {t} : nvProc[Leader(u)].st = "gone" => nvProc'[Leader(u)].st = "gone"
    BY <2>2 DEF Tidied
  <2>4. Threads' = Threads
    BY DEF Threads
  <2>5. at \in Scanning => \A u \in Threads \ {t} :
          Begun(u)' => (Leader(u)' \in pre \/ nvProc'[Leader(u)'].st = "gone") /\ Leader(u)' \notin found
    BY <2>2, <2>3
  <2> QED
    BY <1>1, <2>1, <2>4, <2>5 DEF Spared
<1>5. Emptied(t)'
  BY <1>1 DEF Emptied
<1> QED
  BY <1>1, <1>2, <1>4, <1>5, NvThreadStep

\* What a scan finds is of the process table, and no leader of another command.
LEMMA NvFinds ==
  ASSUME NvInv, NEW t \in Threads, Begun(t), NEW S \in SUBSET NvIds
  PROVE  /\ Leftovers(t, S) \in SUBSET NvIds /\ Listed \in SUBSET NvIds /\ \A p \in Listed : nvProc[p].st # "none"
         /\ \A u \in Threads \ {t} :
              Begun(u) /\ (Leader(u) \in nvRun[t].pre \/ nvProc[Leader(u)].st = "gone") =>
                /\ Leader(u) \notin Leftovers(t, S)
                /\ Leader(u) \notin Orphans(t, S) \/ nvProc[Leader(u)].st = "gone"
<1>1. Leftovers(t, S) \in SUBSET NvIds /\ Listed \in SUBSET NvIds /\ \A p \in Listed : nvProc[p].st # "none"
  BY DEF Leftovers, Tree, Orphans, Group, Listed
<1>2. ASSUME NEW u \in Threads \ {t}, Begun(u), Leader(u) \in nvRun[t].pre \/ nvProc[Leader(u)].st = "gone"
      PROVE  /\ Leader(u) \notin Leftovers(t, S)
             /\ Leader(u) \notin Orphans(t, S) \/ nvProc[Leader(u)].st = "gone"
  <2>1. Leader(u) # Leader(t) /\ nvProc[Leader(u)].grp # Leader(t) /\ nvProc[Leader(u)].line = {}
    BY <1>2, NvTwoLeaders
  <2>2. Leader(u) \notin Orphans(t, S) \/ nvProc[Leader(u)].st = "gone"
    BY <1>2 DEF Orphans
  <2>3. Leader(u) \notin Group(t, S)
    BY <2>1 DEF Group
  <2>4. Leader(u) \notin Tree(t, S)
    BY <2>1 DEF Tree, Forebears
  <2> QED
    BY <2>2, <2>3, <2>4 DEF Leftovers, Live
<1> QED
  BY <1>1, <1>2

\* When a scan finds nobody, all who live are such as it may miss.
LEMMA NvEmptyScan ==
  ASSUME NvInv, NEW t \in Threads, Begun(t), NEW seen \in SUBSET NvIds, Leftovers(t, seen) = {}, NEW n \in Nat,
         \A p \in NvIds : Live(p) /\ Of(p) = t /\ p \notin seen => Missable(t, p, n)
  PROVE  \A p \in NvIds : Live(p) /\ Of(p) = t => Missable(t, p, n)
<1> DEFINE Bad == {p \in NvIds : Live(p) /\ Of(p) = t /\ ~Missable(t, p, n)}
<1>1. SUFFICES ASSUME Bad # {} PROVE FALSE
  OBVIOUS
<1>2. PICK p \in Bad : \A q \in Bad : ~(q < p)
  BY <1>1, NvFirst
<1>3. NvTyped /\ NvKin /\ Parentage(nvProc)
  BY DEF NvInv
<1>4. p \in seen /\ nvProc[p] \in NvProcs /\ Leader(t) \in NvIds
  BY <1>3, NvHas DEF NvTyped, Leader
<1>5. nvProc[p].up \in NvIds \cup {Ours, Pid1} /\ Leader(t) <= p
  BY <1>3, <1>4 DEF NvProcs, NvKin, Live
<1>6. CASE nvProc[p].up \in NvIds
  <2> DEFINE u == nvProc[p].up
  <2>1. nvProc[u].st = "run" /\ u < p /\ nvProc[u].of = nvProc[p].of /\ nvProc[p].line = nvProc[u].line \cup {u}
        /\ nvProc[u].late <= nvProc[p].late
    BY <1>3, <1>6 DEF Parentage
  <2>2. Missable(t, u, n)
    BY <1>2, <1>6, <2>1 DEF Live, Of
  <2>3. nvProc[u].late \in Nat /\ nvProc[p].late \in Nat
    BY <1>3, <1>4, <1>6 DEF NvTyped, NvProcs
  <2>4. CASE nvProc[u].late >= n
    BY <2>1, <2>3, <2>4 DEF Missable
  <2>5. CASE OfInit(u)
    <3>1. InitIn(nvProc, p) <=> InitIn(nvProc, u)
      BY <1>3, <1>6, NvTable, InitIs
    <3> QED
      BY <2>5, <3>1, OfInitIn DEF Missable
  <2>6. CASE Foreign(t, u)
    BY <2>1, <2>6 DEF Missable, Foreign
  <2> QED
    BY <2>2, <2>4, <2>5, <2>6 DEF Missable
<1>7. CASE nvProc[p].up = Pid1
  BY <1>7 DEF Missable, OfInit, Forebears
<1>8. CASE nvProc[p].up = Ours
  <2>1. CASE p \in nvRun[t].pre /\ p # Leader(t)
    BY <2>1 DEF Missable, Foreign
  <2>2. CASE p \notin nvRun[t].pre
    <3>1. p \in Orphans(t, seen)
      BY <1>4, <1>5, <1>8, <2>2, NvNumbers DEF Orphans
    <3> QED
      BY <3>1 DEF Leftovers
  <2>3. CASE p = Leader(t)
    <3>1. nvProc[p].grp = Leader(t)
      BY <2>3 DEF NvInv, LeaderKept
    <3>2. p \in Group(t, seen)
      BY <1>4, <1>5, <3>1, NvNumbers DEF Group
    <3> QED
      BY <3>2 DEF Leftovers
  <2> QED
    BY <2>1, <2>2, <2>3
<1> QED
  BY <1>5, <1>6, <1>7, <1>8

\* A command asks for its orphans before it scans; it is refused where nobody can have them.
LEMMA NvAdoptInv ==
  ASSUME NvInv, NEW t \in Threads, NvAdopt(t)
  PROVE  NvInv'
<1>1. NvTyped /\ nvLock \in {"free"} \cup Threads /\ nvSub \in BOOLEAN /\ nvRun \in [Threads -> NvRuns]
      /\ nvWorld.subreaper \in BOOLEAN
  BY NvWorldsAssumption DEF NvInv, NvTyped
<1>2. /\ nvRun[t].seen \in SUBSET NvIds /\ nvRun[t].pre \in SUBSET NvIds /\ nvRun[t].pass \in 0..NvPasses - 1
      /\ nvRun[t].result \in NvResults /\ nvRun[t].left \in SUBSET NvIds /\ nvRun[t] \in NvRuns
  BY <1>1, NvHas
<1>3. nvRun[t].at = "adopt" /\ UNCHANGED nvWorld /\ nvSub' = nvWorld.subreaper
  BY DEF NvAdopt, NvAt
<1>4. Begun(t) /\ nvRun[t].at \in Locked /\ nvLock = t /\ nvRun[t].at \notin Scanning /\ nvRun[t].at # "slay"
  BY <1>3 DEF Begun, Locked, Scanning, NvInv, NvLocks
<1>5. Leader(t) \in NvIds /\ Spared(t) /\ nvRun[t].left = {}
  BY <1>1, <1>4, NvHas DEF Leader, NvInv, Spared
<1>6. CASE nvWorld.subreaper \/ nvWorld.cgroup
  <2> DEFINE pre == {p \in Listed : nvProc[p].up = Ours} \cup {Leader(t)}
             x == [nvRun[t] EXCEPT !.at = "look", !.pre = pre]
  <2>1. nvRun' = [nvRun EXCEPT ![t] = x] /\ UNCHANGED <<nvProc, nvLock>>
    BY <1>1, <1>6 DEF NvAdopt
  <2>2. Tidied(t)
    BY <1>1, <1>3, <2>1, NvSame
  <2>3. "look" \in NvSteps /\ "look" \in Scanning
    BY DEF NvSteps, Locked, Scanning
  <2>4. pre \in SUBSET NvIds
    BY <1>5 DEF Listed
  <2>5. \A u \in Threads \ {t} : Begun(u) => Leader(u) \in pre \/ nvProc[Leader(u)].st = "gone"
    BY <1>4, NvTwoLeaders DEF Listed
  <2> HIDE DEF pre
  <2>6. x \in NvRuns
    BY <1>2, <2>3, <2>4 DEF NvRuns
  <2>7. x.at = "look" /\ x.child = nvRun[t].child /\ x.seen = nvRun[t].seen /\ x.left = nvRun[t].left
        /\ x.pre = pre /\ x.pass = nvRun[t].pass /\ x.result = nvRun[t].result
    BY <1>2 DEF NvRuns
  <2> HIDE DEF x
  <2>8. GoesOn(t, x.at, x.seen, x.left, x.pre, x.pass, x.result)
    BY <1>1, <2>1, <2>6, <2>7, NvTurned
  <2>9. GoesOn(t, "look", nvRun[t].seen, nvRun[t].left, pre, nvRun[t].pass, nvRun[t].result)
    BY <2>7, <2>8
  <2>10. nvRun'[t].at = "look" /\ \A u \in Threads \ {t} : nvRun'[u] = nvRun[u]
    BY <2>9 DEF GoesOn
  <2>11. NvLocks'
    BY <1>3, <1>4, <2>1, <2>3, <2>10, NvLockHeld
  <2>12. Scanned(t)'
    BY <2>10 DEF Scanned
  <2>13. \A p \in nvRun[t].seen : nvProc[p].st # "none"
    BY <1>5 DEF Spared
  <2> QED
    BY <1>1, <1>2, <1>3, <1>5, <2>1, <2>2, <2>3, <2>4, <2>5, <2>9, <2>11, <2>12, <2>13, NvScanStep
<1>7. CASE ~(nvWorld.subreaper \/ nvWorld.cgroup)
  <2>1. Says(t, "subreaper", "wait") /\ nvProc' = Hit(t, {Leader(t)}) /\ nvLock' = "free" /\ nvSub' = FALSE
    BY <1>1, <1>3, <1>7 DEF NvAdopt, Release
  <2>2. GoesOn(t, "wait", nvRun[t].seen, nvRun[t].left, nvRun[t].pre, nvRun[t].pass, "subreaper")
    BY <1>1, <1>2, <2>1, NvToTurns DEF NvSteps, NvResults
  <2>3. "wait" \in NvSteps /\ "wait" \notin Scanning /\ "wait" \notin Locked /\ "subreaper" \in NvResults
    BY DEF NvSteps, Scanning, Locked, NvResults
  <2>4. NvLocks'
    <3>1. nvRun'[t].at = "wait" /\ \A u \in Threads \ {t} : nvRun'[u] = nvRun[u]
      BY <2>2 DEF GoesOn
    <3> QED
      BY <1>3, <1>4, <2>1, <2>3, <3>1, NvLockFreed
  <2>5. Tidied(t) /\ \A u \in Threads \ {t} : Begun(u) =>
          nvProc'[Leader(u)].hit = nvProc[Leader(u)].hit /\ nvProc'[Leader(u)].st = nvProc[Leader(u)].st
    <3>1. Tidied(t) /\ \A p \in NvIds : nvProc'[p].st = nvProc[p].st
                       /\ (p \notin {Leader(t)} => nvProc'[p].hit = nvProc[p].hit)
      BY <1>1, <2>1, NvHits
    <3> QED
      BY <1>4, <3>1, NvTwoLeaders
  <2>9. nvLock' \in {"free"} \cup Threads /\ nvSub' \in BOOLEAN /\ UNCHANGED nvWorld
    BY <1>3, <2>1
  <2>11. PICK at \in NvSteps : at = "wait"
    BY <2>3
  <2>12. PICK result \in NvResults : result = "subreaper"
    BY <2>3
  <2>14. GoesOn(t, at, nvRun[t].seen, nvRun[t].left, nvRun[t].pre, nvRun[t].pass, result)
    BY <2>2, <2>11, <2>12
  <2>15. at # "idle" /\ at \notin Scanning /\ at \notin {"spawned", "run"} /\ at # "end" /\ result # "refused"
    BY <2>3, <2>11, <2>12
  <2> QED
    BY <1>2, <1>4, <2>4, <2>5, <2>9, <2>14, <2>15, NvPlainStep
<1> QED
  BY <1>6, <1>7

\* A scan kills its own leader first, and then what it finds.
LEMMA NvKillInv ==
  ASSUME NvInv, NEW t \in Threads, NvLook(t) \/ NvSlay(t)
  PROVE  NvInv'
<1>1. NvTyped /\ nvLock \in {"free"} \cup Threads /\ nvSub \in BOOLEAN /\ nvRun \in [Threads -> NvRuns] /\ Spared(t)
  BY DEF NvInv, NvTyped
<1>2. /\ nvRun[t].seen \in SUBSET NvIds /\ nvRun[t].pre \in SUBSET NvIds /\ nvRun[t].pass \in 0..NvPasses - 1
      /\ nvRun[t].result \in NvResults /\ nvRun[t].left \in SUBSET NvIds /\ nvRun[t] \in NvRuns
  BY <1>1, NvHas
<1>3. nvRun[t].at \in {"look", "slay"} /\ UNCHANGED <<nvWorld, nvLock, nvSub>>
  BY DEF NvLook, NvSlay, NvAt
<1>4. Begun(t) /\ nvRun[t].at \in Locked /\ nvLock = t /\ nvRun[t].at \in Scanning
  BY <1>3 DEF Begun, Locked, Scanning, NvInv, NvLocks
<1>5. \A u \in Threads \ {t} : Begun(u) =>
        (Leader(u) \in nvRun[t].pre \/ nvProc[Leader(u)].st = "gone") /\ Leader(u) \notin nvRun[t].left
  BY <1>1, <1>4 DEF Spared
<1>6. \A p \in nvRun[t].seen : nvProc[p].st # "none"
  BY <1>1 DEF Spared
<1>7. /\ Leftovers(t, Listed) \in SUBSET NvIds
      /\ \A u \in Threads \ {t} : Begun(u) =>
           /\ Leader(u) \notin Leftovers(t, Listed)
           /\ Leader(u) \notin Orphans(t, Listed) \/ nvProc[Leader(u)].st = "gone"
  <2>1. Listed \in SUBSET NvIds
    BY DEF Listed
  <2> QED
    BY <1>4, <1>5, <2>1, NvFinds
<1>8. CASE NvLook(t)
  <2> DEFINE x == [nvRun[t] EXCEPT !.at = "slay", !.left = Leftovers(t, Listed)]
  <2>1. nvRun' = [nvRun EXCEPT ![t] = x] /\ nvProc' = Hit(t, {Leader(t)})
    BY <1>1, <1>8 DEF NvLook
  <2>2. "slay" \in NvSteps /\ "slay" \in Scanning
    BY DEF NvSteps, Locked, Scanning
  <2>3. x \in NvRuns
    BY <1>2, <1>7, <2>2 DEF NvRuns
  <2>4. x.at = "slay" /\ x.child = nvRun[t].child /\ x.seen = nvRun[t].seen /\ x.left = Leftovers(t, Listed)
        /\ x.pre = nvRun[t].pre /\ x.pass = nvRun[t].pass /\ x.result = nvRun[t].result
    BY <1>2 DEF NvRuns
  <2> HIDE DEF x
  <2>5. GoesOn(t, x.at, x.seen, x.left, x.pre, x.pass, x.result)
    BY <1>1, <2>1, <2>3, <2>4, NvTurned
  <2>6. GoesOn(t, "slay", nvRun[t].seen, Leftovers(t, Listed), nvRun[t].pre, nvRun[t].pass, nvRun[t].result)
    BY <2>4, <2>5
  <2>7. nvRun'[t].at = "slay" /\ \A u \in Threads \ {t} : nvRun'[u] = nvRun[u]
    BY <2>6 DEF GoesOn
  <2>8. NvLocks'
    BY <1>3, <1>4, <2>2, <2>7, NvLockHeld
  <2>9. Scanned(t)'
    BY <2>7 DEF Scanned
  <2>10. Tidied(t) /\ \A u \in Threads \ {t} : Begun(u) =>
           nvProc'[Leader(u)].hit = nvProc[Leader(u)].hit /\ nvProc'[Leader(u)].st = nvProc[Leader(u)].st
    <3>1. Tidied(t) /\ \A p \in NvIds : nvProc'[p].st = nvProc[p].st
                       /\ (p \notin {Leader(t)} => nvProc'[p].hit = nvProc[p].hit)
      BY <1>1, <2>1, NvHits
    <3> QED
      BY <1>4, <3>1, NvTwoLeaders
  <2> QED
    BY <1>1, <1>2, <1>3, <1>4, <1>5, <1>6, <1>7, <2>2, <2>6, <2>8, <2>9, <2>10, NvScanStep
<1>9. CASE NvSlay(t)
  <2> DEFINE x == [nvRun[t] EXCEPT !.at = "list1", !.left = {}]
             cs == nvRun[t].left \cup Orphans(t, Listed) \cup {Leader(t)}
  <2>1. nvRun' = [nvRun EXCEPT ![t] = x] /\ nvProc' = Collected(Hit(t, nvRun[t].left), cs)
    BY <1>1, <1>9 DEF NvSlay
  <2>2. "list1" \in NvSteps /\ "list1" \in Scanning
    BY DEF NvSteps, Locked, Scanning
  <2>3. x \in NvRuns
    BY <1>2, <2>2 DEF NvRuns
  <2>4. x.at = "list1" /\ x.child = nvRun[t].child /\ x.seen = nvRun[t].seen /\ x.left = {}
        /\ x.pre = nvRun[t].pre /\ x.pass = nvRun[t].pass /\ x.result = nvRun[t].result
    BY <1>2 DEF NvRuns
  <2> HIDE DEF x
  <2>5. GoesOn(t, x.at, x.seen, x.left, x.pre, x.pass, x.result)
    BY <1>1, <2>1, <2>3, <2>4, NvTurned
  <2>6. GoesOn(t, "list1", nvRun[t].seen, {}, nvRun[t].pre, nvRun[t].pass, nvRun[t].result)
    BY <2>4, <2>5
  <2>7. nvRun'[t].at = "list1" /\ \A u \in Threads \ {t} : nvRun'[u] = nvRun[u]
    BY <2>6 DEF GoesOn
  <2>8. NvLocks'
    BY <1>3, <1>4, <2>2, <2>7, NvLockHeld
  <2>9. Scanned(t)'
    BY <2>7 DEF Scanned
  <2>10. /\ Tidied(t)
         /\ \A p \in NvIds :
              /\ p \notin nvRun[t].left \/ ~Live(p) => nvProc'[p].hit = nvProc[p].hit
              /\ p \notin cs => nvProc'[p].st = nvProc[p].st
    <3> HIDE DEF cs
    <3> QED
      BY <1>1, <2>1, NvTidies
  <2>11. ASSUME NEW u \in Threads \ {t}, Begun(u)
         PROVE  nvProc'[Leader(u)].hit = nvProc[Leader(u)].hit /\ nvProc'[Leader(u)].st = nvProc[Leader(u)].st
    <3>1. Leader(u) \in NvIds /\ Leader(u) # Leader(t)
      BY <1>4, <2>11, NvTwoLeaders
    <3>2. Leader(u) \notin cs \/ nvProc[Leader(u)].st = "gone"
      BY <1>5, <1>7, <2>11, <3>1
    <3> HIDE DEF cs
    <3>3. nvProc[Leader(u)].st = "gone" => nvProc'[Leader(u)].st = "gone"
      BY <2>10, <3>1 DEF Tidied
    <3> QED
      BY <1>5, <2>10, <2>11, <3>1, <3>2, <3>3
  <2> QED
    BY <1>1, <1>2, <1>3, <1>4, <1>5, <1>6, <2>2, <2>6, <2>8, <2>9, <2>10, <2>11, NvScanStep
<1> QED
  BY <1>8, <1>9

\* A step of a scan that changes nothing in the table, and whom it finds there.
LEMMA NvSeeing ==
  ASSUME NvInv, NEW t \in Threads, nvRun[t].at \in Scanning, UNCHANGED <<nvWorld, nvProc>>,
         NEW at \in NvSteps, at \notin {"idle", "spawned", "run", "end", "slay"}, NEW seen \in SUBSET NvIds,
         NEW pass, NEW result, GoesOn(t, at, seen, nvRun[t].left, nvRun[t].pre, pass, result),
         nvRun[t].at # "slay", \A p \in seen : nvProc[p].st # "none",
         \/ at \in Scanning /\ UNCHANGED <<nvLock, nvSub>>
         \/ at \notin Locked /\ nvLock' = "free" /\ nvSub' = FALSE,
         \A p \in NvIds :
           Live(p) /\ Of(p) = t =>
             /\ at = "read1" /\ p \notin seen => Missable(t, p, 1)
             /\ at \in {"list2", "read2"} => Missable(t, p, 1)
             /\ at \in {"read2", "read3"} /\ p \notin seen => Missable(t, p, 2)
             /\ at = "done" \/ (at = "wait" /\ result = "refused") => Missable(t, p, 2)
  PROVE  NvInv'
<1>1. NvTyped /\ nvLock \in {"free"} \cup Threads /\ nvSub \in BOOLEAN /\ Spared(t)
  BY DEF NvInv, NvTyped
<1>2. nvRun[t].pre \in SUBSET NvIds /\ nvRun[t].left \in SUBSET NvIds /\ nvRun[t].left = {}
  BY <1>1, NvHas DEF Spared
<1>3. Begun(t) /\ nvRun[t].at \in Locked /\ nvLock = t
  BY DEF Begun, Locked, Scanning, NvInv, NvLocks
<1>4. Tidied(t)
  BY <1>1, NvSame
<1>5. /\ nvRun'[t].at = at /\ nvRun'[t].seen = seen /\ nvRun'[t].pre = nvRun[t].pre /\ nvRun'[t].result = result
      /\ nvRun'[t].child = nvRun[t].child /\ \A u \in Threads \ {t} : nvRun'[u] = nvRun[u]
  BY DEF GoesOn
<1>6. NvLocks'
  <2>1. CASE at \in Scanning /\ UNCHANGED <<nvLock, nvSub>>
    BY <1>3, <1>5, <2>1, NvLockHeld
  <2>2. CASE at \notin Locked /\ nvLock' = "free" /\ nvSub' = FALSE
    BY <1>3, <1>5, <2>2, NvLockFreed
  <2> QED
    BY <2>1, <2>2
<1>7. \A p \in NvIds : (Live(p)' <=> Live(p)) /\ Of(p)' = Of(p)
  BY DEF Live, Of
<1>8. \A p \in NvIds : \A n \in Nat : Live(p) /\ Missable(t, p, n) => Missable(t, p, n)'
  BY <1>4, <1>5, NvTidyKeeps
<1>9. Scanned(t)'
  <2> SUFFICES ASSUME NEW p \in NvIds, Live(p), Of(p) = t
               PROVE  /\ at = "read1" /\ p \notin seen => Missable(t, p, 1)'
                      /\ at \in {"list2", "read2"} => Missable(t, p, 1)'
                      /\ at \in {"read2", "read3"} /\ p \notin seen => Missable(t, p, 2)'
                      /\ at = "done" \/ (at = "wait" /\ result = "refused") => Missable(t, p, 2)'
    BY <1>5, <1>7 DEF Scanned
  <2>1. (Missable(t, p, 1) => Missable(t, p, 1)') /\ (Missable(t, p, 2) => Missable(t, p, 2)')
    BY <1>8
  <2> QED
    BY <2>1
<1>10. at \in Scanning =>
         \A u \in Threads \ {t} :
           Begun(u) => (Leader(u) \in nvRun[t].pre \/ nvProc[Leader(u)].st = "gone") /\ Leader(u) \notin nvRun[t].left
  BY <1>1 DEF Spared
<1>11. nvLock' \in {"free"} \cup Threads /\ nvSub' \in BOOLEAN
  BY <1>1
<1> QED
  BY <1>2, <1>4, <1>6, <1>9, <1>10, <1>11, NvScanStep

\* A scan lists the numbers: whoever lives is among them.
LEMMA NvListInv ==
  ASSUME NvInv, NEW t \in Threads, NvList(t)
  PROVE  NvInv'
<1>1. NvTyped /\ nvRun \in [Threads -> NvRuns] /\ Scanned(t)
  BY DEF NvInv, NvTyped
<1>2. nvRun[t] \in NvRuns
  BY <1>1
<1>3. PICK at \in {"read1", "read2", "read3"} :
        /\ nvRun' = [nvRun EXCEPT ![t].at = at, ![t].seen = Listed]
        /\ nvRun[t].at = CASE at = "read1" -> "list1" [] at = "read2" -> "list2" [] OTHER -> "list3"
  BY DEF NvList, NvAt
<1>4. UNCHANGED <<nvWorld, nvProc, nvLock, nvSub>>
  BY DEF NvList
<1>5. at \in NvSteps /\ at \in Scanning /\ nvRun[t].at \in Scanning /\ nvRun[t].at # "slay" /\ Begun(t)
      /\ at \notin {"idle", "spawned", "run", "end", "slay"}
  BY <1>3 DEF NvSteps, Locked, Scanning, Begun
<1>6. Listed \in SUBSET NvIds /\ \A p \in Listed : nvProc[p].st # "none"
  BY DEF Listed
<1> DEFINE x == [nvRun[t] EXCEPT !.at = at, !.seen = Listed]
<1>7. nvRun' = [nvRun EXCEPT ![t] = x]
  BY <1>1, <1>3
<1>8. x \in NvRuns
  BY <1>2, <1>5, <1>6 DEF NvRuns
<1>9. x.at = at /\ x.child = nvRun[t].child /\ x.seen = Listed /\ x.left = nvRun[t].left
      /\ x.pre = nvRun[t].pre /\ x.pass = nvRun[t].pass /\ x.result = nvRun[t].result
  BY <1>2 DEF NvRuns
<1> HIDE DEF x
<1>10. GoesOn(t, x.at, x.seen, x.left, x.pre, x.pass, x.result)
  BY <1>1, <1>7, <1>8, <1>9, NvTurned
<1>11. GoesOn(t, at, Listed, nvRun[t].left, nvRun[t].pre, nvRun[t].pass, nvRun[t].result)
  BY <1>9, <1>10
<1>12. ASSUME NEW p \in NvIds, Live(p), Of(p) = t
       PROVE  p \in Listed /\ (at = "read2" => Missable(t, p, 1))
  BY <1>1, <1>3, <1>12 DEF Listed, Live, Scanned
<1>13. \A p \in NvIds :
         Live(p) /\ Of(p) = t =>
           /\ at = "read1" /\ p \notin Listed => Missable(t, p, 1)
           /\ at \in {"list2", "read2"} => Missable(t, p, 1)
           /\ at \in {"read2", "read3"} /\ p \notin Listed => Missable(t, p, 2)
           /\ at = "done" \/ (at = "wait" /\ nvRun[t].result = "refused") => Missable(t, p, 2)
  BY <1>3, <1>12
<1> QED
  BY <1>4, <1>5, <1>6, <1>11, <1>13, NvSeeing

\* A scan reads what it listed, and is believed when two in a row are empty.
LEMMA NvReadInv ==
  ASSUME NvInv, NEW t \in Threads, NvRead(t)
  PROVE  NvInv'
<1> DEFINE empty == Leftovers(t, nvRun[t].seen) = {} /\ ~Live(Leader(t))
           last == nvRun[t].pass + 1 = NvPasses
           from == nvRun[t].at
           at == IF empty THEN IF from = "read1" THEN "list2" ELSE "done" ELSE IF last THEN "list3" ELSE "look"
           pass == IF empty \/ last THEN nvRun[t].pass ELSE nvRun[t].pass + 1
           x == [nvRun[t] EXCEPT !.seen = {}, !.pass = pass, !.at = at]
<1>1. NvTyped /\ nvRun \in [Threads -> NvRuns] /\ Scanned(t)
  BY DEF NvInv, NvTyped
<1>2. nvRun[t] \in NvRuns /\ nvRun[t].pass \in 0..NvPasses - 1 /\ nvRun[t].seen \in SUBSET NvIds
  BY <1>1, NvHas
<1>3. from \in {"read1", "read2"} /\ UNCHANGED <<nvWorld, nvProc, nvLock, nvSub>>
  BY DEF NvRead, NvAt
<1>4. from \in Scanning /\ from # "slay" /\ Begun(t)
  BY <1>3 DEF Scanning, Begun
<1>5. nvRun' = [nvRun EXCEPT ![t] = x]
  BY <1>1 DEF NvRead, Confirm
<1>6. at \in {"list2", "done", "list3", "look"} /\ (at = "list2" => empty /\ from = "read1")
      /\ (at = "done" => empty /\ from = "read2")
  BY <1>3
<1>7. pass \in 0..NvPasses - 1
  BY <1>2, NvWorldsAssumption
<1>8. at \in {"list2", "done"} => Leftovers(t, nvRun[t].seen) = {}
  BY <1>6
<1> HIDE DEF empty, last, at, pass
<1>9. at \in NvSteps /\ at \in Scanning /\ at \notin {"idle", "spawned", "run", "end", "slay"}
  BY <1>6 DEF NvSteps, Locked, Scanning
<1>10. x \in NvRuns
  BY <1>2, <1>7, <1>9 DEF NvRuns
<1>11. x.at = at /\ x.child = nvRun[t].child /\ x.seen = {} /\ x.left = nvRun[t].left
       /\ x.pre = nvRun[t].pre /\ x.pass = pass /\ x.result = nvRun[t].result
  BY <1>2 DEF NvRuns
<1> HIDE DEF x
<1>12. GoesOn(t, x.at, x.seen, x.left, x.pre, x.pass, x.result)
  BY <1>1, <1>5, <1>10, <1>11, NvTurned
<1>13. GoesOn(t, at, {}, nvRun[t].left, nvRun[t].pre, pass, nvRun[t].result)
  BY <1>11, <1>12
<1>14. at = "list2" => \A p \in NvIds : Live(p) /\ Of(p) = t => Missable(t, p, 1)
  <2> SUFFICES ASSUME at = "list2" PROVE \A p \in NvIds : Live(p) /\ Of(p) = t => Missable(t, p, 1)
    OBVIOUS
  <2>1. \A p \in NvIds : Live(p) /\ Of(p) = t /\ p \notin nvRun[t].seen => Missable(t, p, 1)
    BY <1>1, <1>6 DEF Scanned
  <2> QED
    BY <1>2, <1>4, <1>8, <2>1, NvEmptyScan
<1>15. at = "done" => \A p \in NvIds : Live(p) /\ Of(p) = t => Missable(t, p, 2)
  <2> SUFFICES ASSUME at = "done" PROVE \A p \in NvIds : Live(p) /\ Of(p) = t => Missable(t, p, 2)
    OBVIOUS
  <2>1. \A p \in NvIds : Live(p) /\ Of(p) = t /\ p \notin nvRun[t].seen => Missable(t, p, 2)
    BY <1>1, <1>6 DEF Scanned
  <2> QED
    BY <1>2, <1>4, <1>8, <2>1, NvEmptyScan
<1>16. PICK seen \in SUBSET NvIds : seen = {}
  OBVIOUS
<1>17. \A p \in NvIds :
         Live(p) /\ Of(p) = t =>
           /\ at = "read1" /\ p \notin seen => Missable(t, p, 1)
           /\ at \in {"list2", "read2"} => Missable(t, p, 1)
           /\ at \in {"read2", "read3"} /\ p \notin seen => Missable(t, p, 2)
           /\ at = "done" \/ (at = "wait" /\ nvRun[t].result = "refused") => Missable(t, p, 2)
  BY <1>6, <1>14, <1>15
<1>18. GoesOn(t, at, seen, nvRun[t].left, nvRun[t].pre, pass, nvRun[t].result) /\ \A p \in seen : nvProc[p].st # "none"
  BY <1>13, <1>16
<1> QED
  BY ZenonT(40), <1>3, <1>4, <1>9, <1>17, <1>18, NvSeeing

\* The passes are used up: one more scan decides.
LEMMA NvGiveUpInv ==
  ASSUME NvInv, NEW t \in Threads, NvGiveUp(t)
  PROVE  NvInv'
<1>1. NvTyped /\ nvRun \in [Threads -> NvRuns] /\ Scanned(t)
  BY DEF NvInv, NvTyped
<1>2. nvRun[t] \in NvRuns /\ nvRun[t].pass \in 0..NvPasses - 1 /\ nvRun[t].seen \in SUBSET NvIds
  BY <1>1, NvHas
<1>3. nvRun[t].at = "read3" /\ UNCHANGED <<nvWorld, nvProc>>
  BY DEF NvGiveUp, NvAt
<1>4. nvRun[t].at \in Scanning /\ nvRun[t].at # "slay" /\ Begun(t)
  BY <1>3 DEF Scanning, Begun
<1>5. CASE Leftovers(t, nvRun[t].seen) = {}
  <2> DEFINE x == [nvRun[t] EXCEPT !.at = "done", !.seen = {}]
  <2>1. nvRun' = [nvRun EXCEPT ![t] = x] /\ UNCHANGED <<nvLock, nvSub>>
    BY <1>1, <1>5 DEF NvGiveUp
  <2>2. "done" \in NvSteps /\ "done" \in Scanning
    BY DEF NvSteps, Locked, Scanning
  <2>3. x \in NvRuns
    BY <1>2, <2>2 DEF NvRuns
  <2>4. x.at = "done" /\ x.child = nvRun[t].child /\ x.seen = {} /\ x.left = nvRun[t].left
        /\ x.pre = nvRun[t].pre /\ x.pass = nvRun[t].pass /\ x.result = nvRun[t].result
    BY <1>2 DEF NvRuns
  <2> HIDE DEF x
  <2>5. GoesOn(t, x.at, x.seen, x.left, x.pre, x.pass, x.result)
    BY <1>1, <2>1, <2>3, <2>4, NvTurned
  <2>6. GoesOn(t, "done", {}, nvRun[t].left, nvRun[t].pre, nvRun[t].pass, nvRun[t].result)
    BY <2>4, <2>5
  <2>7. \A p \in NvIds : Live(p) /\ Of(p) = t /\ p \notin nvRun[t].seen => Missable(t, p, 2)
    BY <1>1, <1>3 DEF Scanned
  <2>8. \A p \in NvIds : Live(p) /\ Of(p) = t => Missable(t, p, 2)
    BY <1>2, <1>4, <1>5, <2>7, NvEmptyScan
  <2>9. PICK at \in NvSteps, seen \in SUBSET NvIds : at = "done" /\ seen = {}
    BY <2>2
  <2>10. GoesOn(t, at, seen, nvRun[t].left, nvRun[t].pre, nvRun[t].pass, nvRun[t].result)
    BY <2>6, <2>9
  <2>11. at \in Scanning /\ at \notin {"idle", "spawned", "run", "end", "slay"} /\ at \notin {"read1", "read2", "read3"}
    BY <2>2, <2>9
  <2>12. \A p \in NvIds :
           Live(p) /\ Of(p) = t =>
             /\ at = "read1" /\ p \notin seen => Missable(t, p, 1)
             /\ at \in {"list2", "read2"} => Missable(t, p, 1)
             /\ at \in {"read2", "read3"} /\ p \notin seen => Missable(t, p, 2)
             /\ at = "done" \/ (at = "wait" /\ nvRun[t].result = "refused") => Missable(t, p, 2)
    BY <2>8, <2>9
  <2>13. \A p \in seen : nvProc[p].st # "none"
    BY <2>9
  <2> QED
    BY ZenonT(40), <1>3, <1>4, <2>1, <2>10, <2>11, <2>12, <2>13, NvSeeing
<1>6. CASE Leftovers(t, nvRun[t].seen) # {}
  <2> DEFINE x == [nvRun[t] EXCEPT !.at = "wait", !.seen = {}, !.result = "incomplete"]
  <2>1. nvRun' = [nvRun EXCEPT ![t] = x] /\ nvLock' = "free" /\ nvSub' = FALSE
    BY <1>1, <1>6 DEF NvGiveUp, Release
  <2>2. "wait" \in NvSteps /\ "wait" \notin Locked /\ "incomplete" \in NvResults
    BY DEF NvSteps, Locked, Scanning, NvResults
  <2>3. x \in NvRuns
    BY <1>2, <2>2 DEF NvRuns
  <2>4. x.at = "wait" /\ x.child = nvRun[t].child /\ x.seen = {} /\ x.left = nvRun[t].left
        /\ x.pre = nvRun[t].pre /\ x.pass = nvRun[t].pass /\ x.result = "incomplete"
    BY <1>2 DEF NvRuns
  <2> HIDE DEF x
  <2>5. GoesOn(t, x.at, x.seen, x.left, x.pre, x.pass, x.result)
    BY <1>1, <2>1, <2>3, <2>4, NvTurned
  <2>6. GoesOn(t, "wait", {}, nvRun[t].left, nvRun[t].pre, nvRun[t].pass, "incomplete")
    BY <2>4, <2>5
  <2>9. PICK at \in NvSteps, seen \in SUBSET NvIds, result \in NvResults : at = "wait" /\ seen = {} /\ result = "incomplete"
    BY <2>2
  <2>10. GoesOn(t, at, seen, nvRun[t].left, nvRun[t].pre, nvRun[t].pass, result) /\ result # "refused"
    BY <2>6, <2>9
  <2>11. at \notin Locked /\ at \notin {"idle", "spawned", "run", "end", "slay"}
         /\ at \notin {"read1", "read2", "read3", "list2", "done"}
    BY <2>2, <2>9
  <2>12. \A p \in NvIds :
           Live(p) /\ Of(p) = t =>
             /\ at = "read1" /\ p \notin seen => Missable(t, p, 1)
             /\ at \in {"list2", "read2"} => Missable(t, p, 1)
             /\ at \in {"read2", "read3"} /\ p \notin seen => Missable(t, p, 2)
             /\ at = "done" \/ (at = "wait" /\ result = "refused") => Missable(t, p, 2)
    BY <2>9
  <2>13. \A p \in seen : nvProc[p].st # "none"
    BY <2>9
  <2> QED
    BY <1>3, <1>4, <2>1, <2>10, <2>11, <2>12, <2>13, NvSeeing
<1> QED
  BY <1>5, <1>6

\* The scans are over: the zombies are collected and the command is refused.
LEMMA NvReapedInv ==
  ASSUME NvInv, NEW t \in Threads, NvReaped(t)
  PROVE  NvInv'
<1> DEFINE x == [nvRun[t] EXCEPT !.at = "wait", !.result = "refused", !.pass = 0]
           cs == Orphans(t, Listed) \cup {Leader(t)}
<1>1. NvTyped /\ nvRun \in [Threads -> NvRuns] /\ Scanned(t) /\ Spared(t)
  BY DEF NvInv, NvTyped
<1>2. nvRun[t] \in NvRuns /\ nvRun[t].seen \in SUBSET NvIds /\ nvRun[t].pre \in SUBSET NvIds
      /\ nvRun[t].left \in SUBSET NvIds /\ 0 \in 0..NvPasses - 1
  BY <1>1, NvHas
<1>3. /\ nvRun[t].at = "done" /\ nvProc' = Collected(nvProc, cs)
      /\ nvSub' = FALSE /\ nvLock' = "free" /\ UNCHANGED nvWorld
  BY DEF NvReaped, NvAt, Release
<1>4. nvRun[t].at \in Scanning /\ nvRun[t].at \in Locked /\ Begun(t)
  BY <1>3 DEF Scanning, Locked, Begun
<1>5. nvRun' = [nvRun EXCEPT ![t] = x]
  BY <1>1 DEF NvReaped
<1>6. "wait" \in NvSteps /\ "wait" \notin Locked /\ "wait" \notin Scanning /\ "refused" \in NvResults
  BY DEF NvSteps, Locked, Scanning, NvResults
<1>7. x \in NvRuns
  BY <1>2, <1>6 DEF NvRuns
<1>8. x.at = "wait" /\ x.child = nvRun[t].child /\ x.seen = nvRun[t].seen /\ x.left = nvRun[t].left
      /\ x.pre = nvRun[t].pre /\ x.pass = 0 /\ x.result = "refused"
  BY <1>2 DEF NvRuns
<1> HIDE DEF x
<1>9. GoesOn(t, x.at, x.seen, x.left, x.pre, x.pass, x.result)
  BY <1>1, <1>5, <1>7, <1>8, NvTurned
<1>10. GoesOn(t, "wait", nvRun[t].seen, nvRun[t].left, nvRun[t].pre, 0, "refused")
  BY <1>8, <1>9
<1>11. /\ nvRun'[t].at = "wait" /\ nvRun'[t].pre = nvRun[t].pre /\ nvRun'[t].child = nvRun[t].child
       /\ \A u \in Threads \ {t} : nvRun'[u] = nvRun[u]
  BY <1>10 DEF GoesOn
<1>12. Tidied(t) /\ \A p \in NvIds : nvProc'[p].hit = nvProc[p].hit /\ (p \notin cs => nvProc'[p].st = nvProc[p].st)
  <2> HIDE DEF cs
  <2> QED
    BY <1>1, <1>3, NvCollects
<1>13. ASSUME NEW u \in Threads \ {t}, Begun(u)
       PROVE  nvProc'[Leader(u)].hit = nvProc[Leader(u)].hit /\ nvProc'[Leader(u)].st = nvProc[Leader(u)].st
  <2>1. Leader(u) \in NvIds /\ Leader(u) # Leader(t)
    BY <1>4, <1>13, NvTwoLeaders
  <2>2. Listed \in SUBSET NvIds /\ (Leader(u) \in nvRun[t].pre \/ nvProc[Leader(u)].st = "gone")
    BY <1>1, <1>4, <1>13 DEF Spared, Listed
  <2>3. Leader(u) \notin Orphans(t, Listed) \/ nvProc[Leader(u)].st = "gone"
    BY <1>4, <1>13, <2>2, NvFinds
  <2>4. Leader(u) \notin cs \/ nvProc[Leader(u)].st = "gone"
    BY <2>1, <2>3
  <2> HIDE DEF cs
  <2>5. nvProc[Leader(u)].st = "gone" => nvProc'[Leader(u)].st = "gone"
    BY <1>12, <2>1 DEF Tidied
  <2> QED
    BY <1>12, <2>1, <2>4, <2>5
<1>14. NvLocks'
  BY <1>3, <1>4, <1>6, <1>11, NvLockFreed
<1>15. Scanned(t)'
  <2>1. \A p \in NvIds : (Live(p)' <=> Live(p)) /\ Of(p)' = Of(p)
    BY <1>3, <1>12, NvTidyKeeps DEF Of
  <2>2. \A p \in NvIds : Live(p) /\ Of(p) = t => Missable(t, p, 2)
    BY <1>1, <1>3 DEF Scanned
  <2>3. \A p \in NvIds : Live(p) /\ Missable(t, p, 2) => Missable(t, p, 2)'
    BY <1>3, <1>11, <1>12, NvTidyKeeps
  <2> QED
    BY <1>11, <2>1, <2>2, <2>3 DEF Scanned
<1>16. (\A p \in nvRun[t].seen : nvProc[p].st # "none") /\ nvRun[t].left = {}
  BY <1>1, <1>3 DEF Spared
<1>17. nvLock' \in {"free"} \cup Threads /\ nvSub' \in BOOLEAN
  BY <1>3
<1>18. PICK at \in NvSteps : at = "wait"
  BY <1>6
<1>19. GoesOn(t, at, nvRun[t].seen, nvRun[t].left, nvRun[t].pre, 0, "refused") /\ at \notin Scanning
       /\ at \notin {"idle", "spawned", "run", "end"}
  BY <1>6, <1>10, <1>18
<1> HIDE DEF cs
<1> QED
  BY <1>2, <1>3, <1>4, <1>12, <1>13, <1>14, <1>15, <1>16, <1>17, <1>19, NvScanStep

\* A process ends or leaves its group: fewer live, of the same descent.
LEMMA NvFewer ==
  ASSUME NvInv, UNCHANGED <<nvWorld, nvRun, nvLock, nvSub>>, nvProc' \in [NvIds -> NvProcs], Parentage(nvProc'),
         \A p \in NvIds :
           LET x == nvProc[p]
               y == nvProc'[p] IN
           /\ y.of = x.of /\ y.line = x.line /\ y.late = x.late /\ y.hit = x.hit
           /\ (y.st = "none" <=> x.st = "none") /\ (y.st = "run" => x.st = "run") /\ (x.st = "gone" => y.st = "gone")
           /\ x.st = "none" => y.up = x.up /\ y.grp = x.grp
           /\ y.st = "run" => y.up = x.up \/ (y.up \notin NvIds /\ (InitIn(nvProc, p) => y.up = Pid1)),
         \A t \in Threads :
           Begun(t) =>
             LET x == nvProc[Leader(t)]
                 y == nvProc'[Leader(t)] IN
             y.up = x.up /\ y.grp = x.grp /\ (y.st = "gone" => x.st = "gone")
  PROVE  NvInv'
<1> USE DEF NvInv
<1>1. Threads' = Threads /\ NvTyped /\ \A u \in Threads : (Begun(u)' <=> Begun(u)) /\ Leader(u)' = Leader(u)
  BY DEF Threads, Begun, Leader
<1>2. NvTyped'
  <2>1. NvProcs' = NvProcs /\ NvRuns' = NvRuns
    BY <1>1 DEF NvProcs, NvRuns
  <2> QED
    BY <1>1, <2>1 DEF NvTyped
<1>3. Parentage(nvProc)'
  OBVIOUS
<1>4. NvKin'
  <2> SUFFICES ASSUME NEW p \in NvIds
               PROVE  /\ nvProc'[p].st = "none" => nvProc'[p].of = "nobody" /\ nvProc'[p].up = Ours
                           /\ nvProc'[p].grp = p /\ nvProc'[p].hit = "no" /\ nvProc'[p].line = {}
                      /\ nvProc'[p].st # "none" =>
                           nvProc'[p].of \in Threads /\ nvRun[nvProc'[p].of].at # "idle"
                           /\ nvRun[nvProc'[p].of].child <= p
                      /\ \A q \in nvProc'[p].line : q < p /\ nvProc'[q].st # "none"
    BY <1>1 DEF NvKin, Of, Leader, Begun
  <2>1. nvProc[p].line \subseteq NvIds
    BY NvTable
  <2>2. \A q \in nvProc[p].line : q < p /\ nvProc[q].st # "none"
    BY DEF NvKin
  <2>3. nvProc[p].st # "none" => nvProc[p].of \in Threads /\ nvRun[nvProc[p].of].at # "idle"
                                 /\ nvRun[nvProc[p].of].child <= p
    BY DEF NvKin, Of, Leader, Begun
  <2>4. nvProc[p].st = "none" =>
          nvProc[p].of = "nobody" /\ nvProc[p].up = Ours /\ nvProc[p].grp = p /\ nvProc[p].hit = "no"
          /\ nvProc[p].line = {}
    BY DEF NvKin, Of
  <2> QED
    BY <2>1, <2>2, <2>3, <2>4
<1>5. NvInOrder'
  BY DEF NvInOrder
<1>6. NvLocks'
  BY <1>1 DEF NvLocks
<1>7. \A p \in NvIds : (Live(p)' => Live(p)) /\ Of(p)' = Of(p)
  BY DEF Live, Of
<1>8. ASSUME NEW p \in NvIds, Live(p)', NEW t \in Threads, NEW n \in Nat, Missable(t, p, n)
      PROVE  Missable(t, p, n)'
  <2>1. CASE nvProc[p].late >= n
    BY <2>1 DEF Missable
  <2>2. CASE Foreign(t, p)
    BY <2>2 DEF Missable, Foreign, Leader
  <2>3. CASE OfInit(p)
    <3>1. InitIn(nvProc, p) /\ nvProc[p].st = "run" /\ nvProc'[p].st = "run"
      BY <1>7, <1>8, <2>3, OfInitIn DEF Live
    <3>2. \A q \in NvIds : nvProc'[q].line = nvProc[q].line
      OBVIOUS
    <3>3. \A q \in NvIds : nvProc[q].line \subseteq NvIds /\ nvProc[q].up \in NvIds \cup {Ours, Pid1}
                           /\ \A r \in nvProc[q].line : r < q
      BY <1>1, NvTable
    <3>4. InitIn(nvProc', p)
      BY <3>1, <3>2, <3>3, InitStays
    <3> QED
      BY <3>4, OfInitIn DEF Missable
  <2> QED
    BY <1>8, <2>1, <2>2, <2>3 DEF Missable
<1>9. ASSUME NEW t \in Threads PROVE LeaderKept(t)' /\ Spared(t)' /\ Scanned(t)' /\ Emptied(t)'
  <2>1. Leader(t) \in NvIds /\ nvRun[t].seen \in SUBSET NvIds
    BY <1>1, NvHas DEF Leader
  <2>2. LeaderKept(t)'
    BY <1>1, <2>1 DEF LeaderKept
  <2>3. Spared(t)'
    <3>1. \A p \in nvRun[t].seen : nvProc'[p].st # "none"
      BY <2>1 DEF Spared
    <3>2. \A u \in Threads : Leader(u) \in NvIds
      BY <1>1, NvHas DEF Leader
    <3>3. nvRun[t].at \in Scanning => \A u \in Threads \ {t} : Begun(u) =>
            (Leader(u) \in nvRun[t].pre \/ nvProc'[Leader(u)].st = "gone") /\ Leader(u) \notin nvRun[t].left
      BY <3>2 DEF Spared
    <3>4. nvRun[t].at # "slay" => nvRun[t].left = {}
      BY DEF Spared
    <3> QED
      BY <1>1, <3>1, <3>3, <3>4 DEF Spared
  <2>4. Scanned(t)'
    BY <1>7, <1>8 DEF Scanned
  <2>5. Emptied(t)'
    BY <1>7 DEF Emptied
  <2> QED
    BY <2>2, <2>3, <2>4, <2>5
<1> QED
  BY <1>1, <1>2, <1>3, <1>4, <1>5, <1>6, <1>9

\* A process leaves its group: no leader, who has its own already.
LEMMA NvLeavesInv ==
  ASSUME NvInv, NEW p \in NvIds, Leaves(p)
  PROVE  NvInv'
<1>1. NvTyped /\ Parentage(nvProc) /\ nvProc \in [NvIds -> NvProcs]
  BY DEF NvInv, NvTyped
<1>2. nvProc' = [nvProc EXCEPT ![p].grp = p] /\ UNCHANGED <<nvWorld, nvRun, nvLock, nvSub>> /\ Live(p) /\ nvProc[p].grp # p
  BY DEF Leaves, Free
<1> DEFINE x == [nvProc[p] EXCEPT !.grp = p]
<1>3. x \in NvProcs /\ x.st = nvProc[p].st /\ x.up = nvProc[p].up /\ x.of = nvProc[p].of /\ x.line = nvProc[p].line
      /\ x.late = nvProc[p].late /\ x.hit = nvProc[p].hit
  BY <1>1 DEF NvProcs
<1>4. nvProc' = [nvProc EXCEPT ![p] = x]
  BY <1>1, <1>2
<1> HIDE DEF x
<1>5. nvProc' \in [NvIds -> NvProcs] /\ \A q \in NvIds \ {p} : nvProc'[q] = nvProc[q]
  BY <1>1, <1>3, <1>4
<1>6. nvProc'[p] = x
  BY <1>1, <1>4
<1>7. \A q \in NvIds :
        /\ nvProc'[q].st = nvProc[q].st /\ nvProc'[q].up = nvProc[q].up /\ nvProc'[q].of = nvProc[q].of
        /\ nvProc'[q].line = nvProc[q].line /\ nvProc'[q].late = nvProc[q].late /\ nvProc'[q].hit = nvProc[q].hit
        /\ q # p => nvProc'[q].grp = nvProc[q].grp
  BY <1>3, <1>5, <1>6
<1>8. Parentage(nvProc')
  <2>1. \A q \in NvIds : nvProc[q].line \subseteq NvIds
    BY <1>1, NvTable DEF NvInv
  <2> QED
    BY <1>1, <1>7, <2>1 DEF Parentage
<1>9. \A t \in Threads : Begun(t) => Leader(t) # p /\ Leader(t) \in NvIds
  BY <1>1, <1>2, NvHas DEF NvInv, LeaderKept, Leader
<1>10. nvProc[p].st # "none"
  BY <1>2 DEF Live
<1> QED
  BY <1>2, <1>5, <1>7, <1>8, <1>9, <1>10, NvFewer

\* A process ends: its children go over to this process or to init.
LEMMA NvGoneInv ==
  ASSUME NvInv, NEW w \in NvIds, Live(w), Gone(w)
  PROVE  NvInv'
<1> DEFINE adopted == nvSub /\ ~OfInit(w)
<1>1. NvTyped /\ Parentage(nvProc) /\ \A q \in NvIds : nvProc[q] \in NvProcs
  BY DEF NvInv, NvTyped
<1>2. UNCHANGED <<nvWorld, nvRun, nvLock, nvSub>> /\ nvProc[w].st = "run"
  BY DEF Gone, Live
<1>3. /\ nvProc' = [q \in NvIds |->
            LET x == nvProc[q] IN
            CASE q = w -> [x EXCEPT !.st = IF x.up = Pid1 THEN "gone" ELSE "zombie"]
              [] x.up = w -> [x EXCEPT !.up = IF adopted THEN Ours ELSE Pid1,
                                       !.st = IF @ = "zombie" /\ ~adopted THEN "gone" ELSE @]
              [] OTHER -> x]
  BY DEF Gone
<1> HIDE DEF adopted
<1>4. nvProc[w].up # w
  BY <1>1, NvNumbers DEF Parentage
<1>5. ASSUME NEW q \in NvIds
      PROVE  /\ nvProc'[q] \in NvProcs
             /\ LET x == nvProc[q]
                    y == nvProc'[q] IN
                /\ y.of = x.of /\ y.line = x.line /\ y.late = x.late /\ y.hit = x.hit /\ y.grp = x.grp
                /\ q = w => y.up = x.up /\ y.st = IF x.up = Pid1 THEN "gone" ELSE "zombie"
                /\ q # w /\ x.up = w =>
                     /\ y.up = IF adopted THEN Ours ELSE Pid1
                     /\ y.st = x.st \/ (x.st = "zombie" /\ y.st = "gone")
                /\ q # w /\ x.up # w => y = x
  <2> DEFINE x == nvProc[q]
  <2>1. x \in NvProcs
    BY <1>1
  <2>2. CASE q = w
    <3>1. nvProc'[q] = [x EXCEPT !.st = IF x.up = Pid1 THEN "gone" ELSE "zombie"]
      BY <1>3, <1>4, <2>2
    <3> HIDE DEF x
    <3> QED
      BY <2>1, <2>2, <3>1 DEF NvProcs, x
  <2>3. CASE q # w /\ x.up = w
    <3> DEFINE st == IF x.st = "zombie" /\ ~adopted THEN "gone" ELSE x.st
               up == IF adopted THEN Ours ELSE Pid1
    <3>1. nvProc'[q] = [x EXCEPT !.up = up, !.st = st]
      BY <1>3, <2>3
    <3>2. st \in {"none", "run", "zombie", "gone"} /\ up \in NvIds \cup {Ours, Pid1}
          /\ (st = x.st \/ (x.st = "zombie" /\ st = "gone"))
      BY <2>1 DEF NvProcs
    <3> HIDE DEF x, st
    <3>3. [x EXCEPT !.up = up, !.st = st] \in NvProcs
      BY <2>1, <3>2 DEF NvProcs
    <3>4. LET y == [x EXCEPT !.up = up, !.st = st] IN
          /\ y.of = x.of /\ y.line = x.line /\ y.late = x.late /\ y.hit = x.hit /\ y.grp = x.grp
          /\ y.up = up /\ y.st = st
      BY <2>1 DEF NvProcs
    <3> QED
      BY <2>3, <3>1, <3>2, <3>3, <3>4 DEF x
  <2>4. CASE q # w /\ x.up # w
    <3>1. nvProc'[q] = x
      BY <1>3, <2>4
    <3> QED
      BY <2>1, <2>4, <3>1
  <2> QED
    BY <2>2, <2>3, <2>4
<1>6. nvProc' \in [NvIds -> NvProcs]
  BY <1>3, <1>5
<1>7. \A q \in NvIds : nvProc[q].line \subseteq NvIds /\ (\A r \in nvProc[q].line : r < q)
                       /\ nvProc[q].up \in NvIds \cup {Ours, Pid1}
  BY <1>1, NvTable DEF NvInv
<1>8. \A q \in NvIds : (nvProc'[q].st = "run" => nvProc[q].st = "run" /\ q # w) /\ (nvProc[q].st = "gone" => nvProc'[q].st = "gone")
                       /\ (nvProc'[q].st = "none" <=> nvProc[q].st = "none")
  BY <1>2, <1>5
<1>9. Parentage(nvProc')
  <2> SUFFICES ASSUME NEW p \in NvIds
               PROVE  LET q == nvProc'[p].up
                          line == nvProc'[p].line IN
                      /\ q \in NvIds =>
                           /\ nvProc'[q].st = "run" /\ q < p /\ nvProc'[q].of = nvProc'[p].of
                           /\ line = nvProc'[q].line \cup {q} /\ nvProc'[q].late <= nvProc'[p].late
                      /\ q \notin NvIds => line = {} \/ \E r \in line : nvProc'[r].st # "run" /\ \A s \in line : s <= r
    BY DEF Parentage
  <2>1. CASE p = w \/ nvProc[p].up # w
    <3> DEFINE u == nvProc[p].up
    <3>1. nvProc'[p].up = u /\ nvProc'[p].line = nvProc[p].line /\ nvProc'[p].of = nvProc[p].of
          /\ nvProc'[p].late = nvProc[p].late /\ u # w
      BY <1>4, <1>5, <2>1
    <3>2. CASE u \in NvIds
      <4>1. nvProc[u].st = "run" /\ u < p /\ nvProc[u].of = nvProc[p].of
            /\ nvProc[p].line = nvProc[u].line \cup {u} /\ nvProc[u].late <= nvProc[p].late
        BY <1>1, <3>2 DEF Parentage
      <4>2. nvProc'[u].st = "run" /\ nvProc'[u].of = nvProc[u].of /\ nvProc'[u].line = nvProc[u].line
            /\ nvProc'[u].late = nvProc[u].late
        BY <1>5, <3>1, <3>2, <4>1
      <4> QED
        BY <3>1, <3>2, <4>1, <4>2
    <3>3. CASE u \notin NvIds
      <4>1. nvProc[p].line = {} \/ \E r \in nvProc[p].line : nvProc[r].st # "run" /\ \A s \in nvProc[p].line : s <= r
        BY <1>1, <3>3 DEF Parentage
      <4> QED
        BY <1>7, <1>8, <3>1, <3>3, <4>1
    <3> QED
      BY <3>2, <3>3
  <2>2. CASE p # w /\ nvProc[p].up = w
    <3>1. nvProc[p].line = nvProc[w].line \cup {w}
      BY <1>1, <2>2 DEF Parentage
    <3>2. nvProc'[p].up \notin NvIds /\ nvProc'[p].line = nvProc[p].line
      BY <1>5, <2>2, NvNumbers
    <3>3. ASSUME NEW s \in nvProc[p].line PROVE s <= w
      <4>1. s \in Nat /\ w \in Nat
        BY <1>7, NvNumbers
      <4>2. s < w \/ s = w
        BY <1>7, <3>1
      <4> QED
        BY <4>1, <4>2
    <3>4. w \in nvProc[p].line /\ nvProc'[w].st # "run"
      BY <1>8, <3>1
    <3> QED
      BY <3>2, <3>3, <3>4
  <2> QED
    BY <2>1, <2>2
<1>10. ASSUME NEW p \in NvIds, nvProc'[p].st = "run"
       PROVE  nvProc'[p].up = nvProc[p].up \/ (nvProc'[p].up \notin NvIds /\ (InitIn(nvProc, p) => nvProc'[p].up = Pid1))
  <2>1. CASE nvProc[p].up # w
    BY <1>5, <1>8, <1>10, <2>1
  <2>2. CASE nvProc[p].up = w
    <3>1. p # w /\ nvProc'[p].up = IF adopted THEN Ours ELSE Pid1
      BY <1>5, <1>8, <1>10, <2>2
    <3>2. InitIn(nvProc, p) <=> OfInit(w)
      BY <1>1, <1>7, <2>2, InitIs, OfInitIn
    <3>3. InitIn(nvProc, p) => ~adopted
      BY <3>2 DEF adopted
    <3>4. nvProc'[p].up \notin NvIds
      BY <3>1, NvNumbers
    <3> QED
      BY <3>1, <3>3, <3>4
  <2> QED
    BY <2>1, <2>2
<1>11. ASSUME NEW t \in Threads, Begun(t)
       PROVE  LET x == nvProc[Leader(t)]
                  y == nvProc'[Leader(t)] IN
              y.up = x.up /\ y.grp = x.grp /\ (y.st = "gone" => x.st = "gone")
  <2>1. Leader(t) \in NvIds /\ nvProc[Leader(t)].up = Ours
    BY <1>1, <1>11, NvHas DEF Leader, NvInv, LeaderKept
  <2>2. Ours # w /\ Ours # Pid1
    BY NvNumbers
  <2> QED
    BY <1>5, <2>1, <2>2
<1>12. \A p \in NvIds : nvProc[p].st = "none" => nvProc'[p].up = nvProc[p].up /\ nvProc'[p].grp = nvProc[p].grp
  <2>1. \A p \in NvIds : nvProc[p].st = "none" => p # w /\ nvProc[p].up = Ours
    BY <1>2 DEF NvInv, NvKin
  <2>2. Ours # w
    BY NvNumbers
  <2> QED
    BY <1>5, <2>1, <2>2
<1>13. \A p \in NvIds : nvProc'[p].of = nvProc[p].of /\ nvProc'[p].line = nvProc[p].line /\ nvProc'[p].late = nvProc[p].late
                        /\ nvProc'[p].hit = nvProc[p].hit
  BY <1>5
<1> QED
  BY <1>2, <1>6, <1>8, <1>9, <1>10, <1>11, <1>12, <1>13, NvFewer

\* A process forks: the child descends from it, and what a scan may miss of it, of its child as well.
LEMMA NvForksInv ==
  ASSUME NvInv, NEW p \in NvIds, NEW q \in NvIds, Forks(p, q)
  PROVE  NvInv'
<1>0. PICK t \in Threads : t = Of(p)
  BY DEF NvInv, NvKin, Forks, Free, Live
<1> DEFINE missed == Missed(nvRun[t].at)
           x == [nvProc[p] EXCEPT !.up = p, !.line = @ \cup {p}, !.late = @ + missed]
<1>1. NvTyped /\ Parentage(nvProc) /\ NvKin /\ NvInOrder /\ nvProc \in [NvIds -> NvProcs]
      /\ \A r \in NvIds : nvProc[r] \in NvProcs
  BY DEF NvInv, NvTyped
<1>2. /\ UNCHANGED <<nvWorld, nvRun, nvLock, nvSub>> /\ nvProc[p].st = "run" /\ nvProc[p].hit = "no"
      /\ nvRun[t].at # "end" /\ nvProc[q].st = "none" /\ \A r \in NvIds : r < q => nvProc[r].st # "none"
  BY <1>0 DEF Forks, Free, Fresh, Live, Of
<1>3. nvProc' = [nvProc EXCEPT ![q] = x]
  BY <1>0 DEF Forks, Of
<1>4. missed \in Nat /\ (nvRun[t].at \in {"read1", "read2"} => missed = 1) /\ (nvRun[t].at = "read3" => missed = 2)
  BY DEF Missed
<1>5. t \in Threads /\ Begun(t) /\ Leader(t) <= p /\ Leader(t) \in NvIds
  BY <1>0, <1>1, <1>2, NvHas DEF NvKin, Leader
<1>6. p < q /\ p \in Nat /\ q \in Nat /\ NvIds \subseteq Nat
  BY <1>1, <1>2, NvNumbers DEF NvInOrder
<1> HIDE DEF missed
<1>7. x \in NvProcs /\ x.st = "run" /\ x.up = p /\ x.grp = nvProc[p].grp /\ x.of = t /\ x.hit = "no"
      /\ x.line = nvProc[p].line \cup {p} /\ x.late = nvProc[p].late + missed
  <2> DEFINE late == nvProc[p].late + missed
             line == nvProc[p].line \cup {p}
  <2>1. nvProc[p] \in NvProcs /\ nvProc[p].late \in Nat /\ nvProc[p].line \in SUBSET NvIds
    BY <1>1 DEF NvProcs
  <2>2. late \in Nat /\ line \in SUBSET NvIds
    BY <1>4, <2>1
  <2>3. x = [nvProc[p] EXCEPT !.up = p, !.line = line, !.late = late]
    BY <2>1
  <2> HIDE DEF late, line, x
  <2>4. x \in NvProcs
    BY <2>1, <2>2, <2>3 DEF NvProcs
  <2>5. x.st = nvProc[p].st /\ x.up = p /\ x.grp = nvProc[p].grp /\ x.of = nvProc[p].of /\ x.hit = nvProc[p].hit
        /\ x.line = line /\ x.late = late
    BY <2>1, <2>3 DEF NvProcs
  <2> QED
    BY <1>0, <1>2, <2>4, <2>5 DEF late, line, Of
<1> HIDE DEF x
<1>8. nvProc' \in [NvIds -> NvProcs] /\ nvProc'[q] = x /\ \A r \in NvIds \ {q} : nvProc'[r] = nvProc[r]
  BY <1>1, <1>3, <1>7
<1>9. \A r \in NvIds : nvProc[r].line \subseteq NvIds /\ (\A s \in nvProc[r].line : s < r /\ nvProc[s].st # "none" /\ s # q)
                       /\ nvProc[r].up \in NvIds \cup {Ours, Pid1}
  BY <1>1, <1>2, NvTable DEF NvKin
<1>10. Threads' = Threads /\ \A u \in Threads : (Begun(u)' <=> Begun(u)) /\ Leader(u)' = Leader(u)
  BY <1>2 DEF Threads, Begun, Leader
<1>11. NvTyped'
  <2>1. NvProcs' = NvProcs /\ NvRuns' = NvRuns
    BY <1>10 DEF NvProcs, NvRuns
  <2> QED
    BY <1>1, <1>2, <1>8, <1>10, <2>1 DEF NvTyped
<1>12. NvKin'
  <2> SUFFICES ASSUME NEW r \in NvIds
               PROVE  /\ nvProc'[r].st = "none" => nvProc'[r].of = "nobody" /\ nvProc'[r].up = Ours
                           /\ nvProc'[r].grp = r /\ nvProc'[r].hit = "no" /\ nvProc'[r].line = {}
                      /\ nvProc'[r].st # "none" =>
                           nvProc'[r].of \in Threads /\ nvRun[nvProc'[r].of].at # "idle"
                           /\ nvRun[nvProc'[r].of].child <= r
                      /\ \A s \in nvProc'[r].line : s < r /\ nvProc'[s].st # "none"
    BY <1>2, <1>10 DEF NvKin, Of, Leader, Begun
  <2>1. CASE r = q
    <3>1. x.of \in Threads /\ nvRun[x.of].at # "idle" /\ nvRun[x.of].child <= r
      <4>1. nvRun[t].child \in Nat /\ nvRun[t].child <= p /\ nvRun[t].at # "idle"
        BY <1>5, <1>6 DEF Begun, Leader
      <4>2. nvRun[t].child <= q
        BY <1>6, <4>1
      <4> QED
        BY <1>5, <1>7, <2>1, <4>1, <4>2
    <3>2. ASSUME NEW s \in x.line PROVE s < q /\ nvProc'[s].st # "none"
      <4>1. s \in NvIds /\ s # q /\ nvProc[s].st # "none" /\ s <= p
        <5>1. CASE s = p
          BY <1>2, <1>6, <5>1
        <5>2. CASE s \in nvProc[p].line
          <6>1. s \in NvIds /\ s < p /\ nvProc[s].st # "none" /\ s # q
            BY <1>9, <5>2
          <6>2. s \in Nat
            BY <1>6, <6>1
          <6>3. s <= p
            BY <1>6, <6>1, <6>2
          <6> QED
            BY <6>1, <6>3
        <5> QED
          BY <1>7, <5>1, <5>2
      <4>2. s < q
        BY <1>6, <4>1
      <4> QED
        BY <1>8, <4>1, <4>2
    <3> QED
      BY <1>7, <1>8, <2>1, <3>1, <3>2
  <2>2. CASE r # q
    <3>1. nvProc'[r] = nvProc[r]
      BY <1>8, <2>2
    <3>2. \A s \in nvProc[r].line : s < r /\ nvProc'[s].st # "none"
      BY <1>8, <1>9
    <3> QED
      BY <1>1, <3>1, <3>2 DEF NvKin, Of, Leader, Begun
  <2> QED
    BY <2>1, <2>2
<1>13. NvInOrder'
  BY <1>1, <1>2, <1>7, <1>8 DEF NvInOrder
<1>14. Parentage(nvProc')
  <2> SUFFICES ASSUME NEW r \in NvIds
               PROVE  LET u == nvProc'[r].up
                          line == nvProc'[r].line IN
                      /\ u \in NvIds =>
                           /\ nvProc'[u].st = "run" /\ u < r /\ nvProc'[u].of = nvProc'[r].of
                           /\ line = nvProc'[u].line \cup {u} /\ nvProc'[u].late <= nvProc'[r].late
                      /\ u \notin NvIds => line = {} \/ \E s \in line : nvProc'[s].st # "run" /\ \A v \in line : v <= s
    BY DEF Parentage
  <2>1. CASE r = q
    <3>1. nvProc'[p] = nvProc[p] /\ nvProc[p].late \in Nat
      BY <1>1, <1>2, <1>8 DEF NvProcs
    <3>2. x.late >= nvProc[p].late
      BY <1>4, <1>7, <3>1
    <3>3. x.late \in Nat
      BY <1>7 DEF NvProcs
    <3> QED
      BY <1>0, <1>2, <1>6, <1>7, <1>8, <2>1, <3>1, <3>2, <3>3 DEF Of
  <2>2. CASE r # q
    <3>1. nvProc'[r] = nvProc[r]
      BY <1>8, <2>2
    <3>2. CASE nvProc[r].up \in NvIds
      <4>1. nvProc[nvProc[r].up].st = "run"
        BY <1>1, <3>2 DEF Parentage
      <4>2. nvProc'[nvProc[r].up] = nvProc[nvProc[r].up]
        BY <1>2, <1>8, <3>2, <4>1
      <4> QED
        BY <1>1, <3>1, <3>2, <4>2 DEF Parentage
    <3>3. CASE nvProc[r].up \notin NvIds
      BY <1>1, <1>8, <1>9, <3>1, <3>3 DEF Parentage
    <3> QED
      BY <3>2, <3>3
  <2> QED
    BY <2>1, <2>2
<1>15. NvLocks'
  BY <1>2, <1>10 DEF NvInv, NvLocks
\* Nobody but the child is of another descent than before.
<1>16. \A r \in NvIds : InitIn(nvProc, r) /\ nvProc[r].st = "run" => InitIn(nvProc', r)
  <2> SUFFICES ASSUME NEW r \in NvIds, InitIn(nvProc, r), nvProc[r].st = "run" PROVE InitIn(nvProc', r)
    OBVIOUS
  <2>1. \A s \in NvIds : nvProc'[s].line \subseteq NvIds /\ \A v \in nvProc'[s].line : v < s
    <3>1. \A s \in NvIds : \A v \in nvProc'[s].line : v < s
      BY <1>12 DEF NvKin
    <3>2. \A s \in NvIds : nvProc'[s].line \subseteq NvIds
      BY <1>8 DEF NvProcs
    <3> QED
      BY <3>1, <3>2
  <2>2. \A s \in NvIds : nvProc'[s].st = "run" /\ nvProc[s].st = "run" => nvProc'[s].up = nvProc[s].up
    BY <1>2, <1>8
  <2>3. nvProc'[r].st = "run"
    BY <1>2, <1>8
  <2> QED
    BY <1>1, <1>9, <1>14, <2>1, <2>2, <2>3, InitStays
<1>17. InitIn(nvProc', p) => InitIn(nvProc', q)
  <2>1. \A s \in NvIds : nvProc'[s].line \subseteq NvIds /\ \A v \in nvProc'[s].line : v < s
    <3>1. \A s \in NvIds : \A v \in nvProc'[s].line : v < s
      BY <1>12 DEF NvKin
    <3>2. \A s \in NvIds : nvProc'[s].line \subseteq NvIds
      BY <1>8 DEF NvProcs
    <3> QED
      BY <3>1, <3>2
  <2>2. nvProc'[q].up = p
    BY <1>7, <1>8
  <2> QED
    BY <1>14, <2>1, <2>2, InitIs
<1>18. ASSUME NEW r \in NvIds, r # q, nvProc[r].st = "run", NEW u \in Threads, NEW n \in Nat, Missable(u, r, n)
       PROVE  Missable(u, r, n)'
  <2>1. nvProc'[r] = nvProc[r]
    BY <1>8, <1>18
  <2>2. OfInit(r) => OfInit(r)'
    BY <1>16, <1>18, OfInitIn
  <2> QED
    BY <1>2, <1>18, <2>1, <2>2 DEF Missable, Foreign, Leader
<1>19. ASSUME NEW n \in Nat, Missable(t, p, n)
       PROVE  OfInit(q)' \/ Foreign(t, q)' \/ nvProc[p].late >= n
  <2>1. OfInit(p) => OfInit(q)'
    BY <1>2, <1>16, <1>17, OfInitIn
  <2>2. Foreign(t, p) => Foreign(t, q)'
    <3> SUFFICES ASSUME NEW r, r \in {p} \cup nvProc[p].line, r # Leader(t), r \in nvRun[t].pre
                 PROVE  Foreign(t, q)'
      BY DEF Foreign
    <3>1. r \in nvProc'[q].line
      BY <1>7, <1>8
    <3> QED
      BY <1>2, <3>1 DEF Foreign, Leader
  <2> QED
    BY <1>19, <2>1, <2>2 DEF Missable
<1>20. nvProc'[q].late = nvProc[p].late + missed /\ nvProc[p].late \in Nat
  BY <1>1, <1>7, <1>8 DEF NvProcs
<1>21. \A r \in NvIds \ {q} : (Live(r)' <=> Live(r)) /\ Of(r)' = Of(r)
  BY <1>8 DEF Live, Of
<1>22. Of(q)' = t
  BY <1>7, <1>8 DEF Of
<1>23. ASSUME NEW u \in Threads PROVE LeaderKept(u)' /\ Spared(u)' /\ Scanned(u)' /\ Emptied(u)'
  <2>1. Leader(u) \in NvIds /\ nvRun[u].seen \in SUBSET NvIds /\ \A v \in Threads : Leader(v) \in NvIds
    BY <1>1, NvHas DEF Leader
  <2>2. \A v \in Threads : Begun(v) => Leader(v) # q /\ nvProc'[Leader(v)] = nvProc[Leader(v)]
    <3>1. \A v \in Threads : Begun(v) => nvProc[Leader(v)].st # "none"
      BY DEF NvInv, LeaderKept
    <3> QED
      BY <1>2, <1>8, <2>1, <3>1
  <2>3. LeaderKept(u)'
    BY <1>2, <1>10, <2>1, <2>2 DEF NvInv, LeaderKept
  <2>4. Spared(u)'
    <3>0. Spared(u)
      BY DEF NvInv
    <3>1. \A r \in nvRun[u].seen : nvProc'[r].st # "none"
      BY <1>2, <1>8, <2>1, <3>0 DEF Spared
    <3>2. nvRun[u].at \in Scanning => \A v \in Threads \ {u} : Begun(v) =>
            (Leader(v) \in nvRun[u].pre \/ nvProc'[Leader(v)].st = "gone") /\ Leader(v) \notin nvRun[u].left
      BY <2>2, <3>0 DEF Spared
    <3>3. nvRun[u].at # "slay" => nvRun[u].left = {}
      BY <3>0 DEF Spared
    <3> QED
      BY <1>2, <1>10, <3>1, <3>2, <3>3 DEF Spared
  <2>5. Scanned(u)'
    <3>0. Scanned(u)
      BY DEF NvInv
    <3> SUFFICES ASSUME NEW r \in NvIds, Live(r)', Of(r)' = u
                 PROVE  LET at == nvRun[u].at
                            unseen == r \notin nvRun[u].seen IN
                        /\ at = "read1" /\ unseen => Missable(u, r, 1)'
                        /\ at \in {"list2", "read2"} => Missable(u, r, 1)'
                        /\ at \in {"read2", "read3"} /\ unseen => Missable(u, r, 2)'
                        /\ at = "done" \/ (at = "wait" /\ nvRun[u].result = "refused") => Missable(u, r, 2)'
      BY <1>2 DEF Scanned
    <3>1. CASE r # q
      <4>1. Live(r) /\ Of(r) = u /\ nvProc[r].st = "run"
        BY <1>21, <3>1 DEF Live
      <4>2. (Missable(u, r, 1) => Missable(u, r, 1)') /\ (Missable(u, r, 2) => Missable(u, r, 2)')
        BY <1>18, <3>1, <4>1
      <4> QED
        BY <3>0, <4>1, <4>2 DEF Scanned
    <3>2. CASE r = q
      <4>1. u = t /\ Live(p) /\ Of(p) = t
        BY <1>0, <1>2, <1>22, <3>2 DEF Live
      <4>2. Missable(t, p, 1) => Missable(t, q, 1)'
        BY <1>4, <1>19, <1>20 DEF Missable
      <4>3. Missable(t, p, 2) => Missable(t, q, 2)'
        BY <1>4, <1>19, <1>20 DEF Missable
      <4>4. nvRun[t].at = "read1" => Missable(t, q, 1)'
        BY <1>4, <1>20 DEF Missable
      <4>5. nvRun[t].at = "read3" => Missable(t, q, 2)'
        BY <1>4, <1>20 DEF Missable
      <4>6. nvRun[t].at = "read2" => Missable(t, p, 1)
        BY <3>0, <4>1 DEF Scanned
      <4>7. nvRun[t].at = "read2" => Missable(t, q, 2)'
        BY <1>4, <1>19, <1>20, <4>6 DEF Missable
      <4>8. nvRun[t].at \in {"list2", "read2"} => Missable(t, q, 1)'
        BY <3>0, <4>1, <4>2 DEF Scanned
      <4>9. nvRun[t].at = "done" \/ (nvRun[t].at = "wait" /\ nvRun[t].result = "refused") => Missable(t, q, 2)'
        BY <3>0, <4>1, <4>3 DEF Scanned
      <4> QED
        BY <3>2, <4>1, <4>4, <4>5, <4>7, <4>8, <4>9
    <3> QED
      BY <3>1, <3>2
  <2>6. Emptied(u)'
    <3>0. Emptied(u)
      BY DEF NvInv
    <3>1. nvRun[u].at = "end" => Of(q)' # u
      BY <1>2, <1>22
    <3> QED
      BY <1>2, <1>21, <3>0, <3>1 DEF Emptied
  <2> QED
    BY <2>3, <2>4, <2>5, <2>6
<1> QED
  BY <1>10, <1>11, <1>12, <1>13, <1>14, <1>15, <1>23 DEF NvInv

\* A command begins: its leader is the next process, under the lock.
LEMMA NvSpawnInv ==
  ASSUME NvInv, NEW t \in Threads, NvSpawn(t)
  PROVE  NvInv'
<1>1. NvTyped /\ Parentage(nvProc) /\ NvKin /\ NvInOrder /\ nvProc \in [NvIds -> NvProcs] /\ NvLocks
      /\ nvRun \in [Threads -> NvRuns] /\ (\A r \in NvIds : nvProc[r] \in NvProcs) /\ nvRun[t] \in NvRuns
  BY DEF NvInv, NvTyped
<1>2. PICK p \in NvIds :
        /\ Fresh(p) /\ nvProc' = [nvProc EXCEPT ![p] = [@ EXCEPT !.st = "run", !.of = t]]
        /\ nvRun' = [nvRun EXCEPT ![t].at = "spawned", ![t].child = p]
  BY DEF NvSpawn
<1>3. nvRun[t].at = "idle" /\ nvLock = "free" /\ nvLock' = t /\ UNCHANGED <<nvWorld, nvSub>>
      /\ nvProc[p].st = "none" /\ \A r \in NvIds : r < p => nvProc[r].st # "none"
  BY <1>2 DEF NvSpawn, NvAt, LockFree, Fresh
<1> DEFINE x == [nvProc[p] EXCEPT !.st = "run", !.of = t]
           y == [nvRun[t] EXCEPT !.at = "spawned", !.child = p]
<1>4. nvProc' = [nvProc EXCEPT ![p] = x] /\ nvRun' = [nvRun EXCEPT ![t] = y]
  BY <1>1, <1>2
<1>5. x \in NvProcs /\ x.st = "run" /\ x.of = t /\ x.up = Ours /\ x.grp = p /\ x.hit = "no" /\ x.line = {}
      /\ x.late = nvProc[p].late
  <2>1. nvProc[p] \in NvProcs /\ nvProc[p].up = Ours /\ nvProc[p].grp = p /\ nvProc[p].hit = "no" /\ nvProc[p].line = {}
    BY <1>1, <1>3 DEF NvKin
  <2> QED
    BY <2>1 DEF NvProcs
<1>6. "spawned" \in NvSteps /\ "spawned" \in Locked /\ "spawned" \notin Scanning
  BY DEF NvSteps, Locked, Scanning
<1>7. y \in NvRuns /\ y.at = "spawned" /\ y.child = p /\ y.seen = nvRun[t].seen /\ y.left = nvRun[t].left
  BY <1>1, <1>6 DEF NvRuns
<1> HIDE DEF x, y
<1>8. nvProc' \in [NvIds -> NvProcs] /\ nvProc'[p] = x /\ \A r \in NvIds \ {p} : nvProc'[r] = nvProc[r]
  BY <1>1, <1>4, <1>5
<1>9. nvRun' \in [Threads -> NvRuns] /\ nvRun'[t] = y /\ \A u \in Threads \ {t} : nvRun'[u] = nvRun[u]
  BY <1>1, <1>4, <1>7
<1>10. Threads' = Threads /\ \A u \in Threads : u # "free"
  BY <1>1, <1>3, NvWorldsAssumption DEF Threads, NvTyped
<1>11. \A u \in Threads : nvRun[u].at \notin Locked
  BY <1>1, <1>3, <1>10 DEF NvLocks
<1>12. ~nvSub
  BY <1>1, <1>3, <1>10 DEF NvLocks
<1>13. \A r \in NvIds : nvProc[r].line \subseteq NvIds /\ nvProc[r].up \in NvIds \cup {Ours, Pid1}
                        /\ \A s \in nvProc[r].line : s < r /\ nvProc[s].st # "none" /\ s # p
  BY <1>1, <1>3, NvTable DEF NvKin
<1>14. \A r \in NvIds : nvProc[r].st # "none" => Of(r) \in Threads \ {t}
  BY <1>1, <1>3 DEF NvKin, Begun
<1>15. NvTyped'
  <2>1. NvProcs' = NvProcs /\ NvRuns' = NvRuns
    BY <1>10 DEF NvProcs, NvRuns
  <2> QED
    BY <1>1, <1>3, <1>8, <1>9, <1>10, <2>1 DEF NvTyped
<1>16. NvKin'
  <2> SUFFICES ASSUME NEW r \in NvIds
               PROVE  /\ nvProc'[r].st = "none" => nvProc'[r].of = "nobody" /\ nvProc'[r].up = Ours
                           /\ nvProc'[r].grp = r /\ nvProc'[r].hit = "no" /\ nvProc'[r].line = {}
                      /\ nvProc'[r].st # "none" =>
                           nvProc'[r].of \in Threads /\ nvRun'[nvProc'[r].of].at # "idle"
                           /\ nvRun'[nvProc'[r].of].child <= r
                      /\ \A s \in nvProc'[r].line : s < r /\ nvProc'[s].st # "none"
    BY <1>10 DEF NvKin, Of, Leader, Begun
  <2>1. CASE r = p
    <3>1. p <= p
      BY NvNumbers
    <3> QED
      BY <1>5, <1>7, <1>8, <1>9, <2>1, <3>1
  <2>2. CASE r # p
    <3>1. nvProc'[r] = nvProc[r]
      BY <1>8, <2>2
    <3>2. \A s \in nvProc[r].line : s < r /\ nvProc'[s].st # "none"
      BY <1>8, <1>13
    <3>3. nvProc[r].st # "none" => nvProc[r].of \in Threads \ {t} /\ nvRun[nvProc[r].of].at # "idle"
                                   /\ nvRun[nvProc[r].of].child <= r
      BY <1>1, <1>14 DEF NvKin, Of, Leader, Begun
    <3>4. nvProc[r].st = "none" => nvProc[r].of = "nobody" /\ nvProc[r].up = Ours
                           /\ nvProc[r].grp = r /\ nvProc[r].hit = "no" /\ nvProc[r].line = {}
      BY <1>1 DEF NvKin, Of
    <3> QED
      BY <1>9, <3>1, <3>2, <3>3, <3>4
  <2> QED
    BY <2>1, <2>2
<1>17. NvInOrder'
  BY <1>1, <1>3, <1>5, <1>8 DEF NvInOrder
<1>18. Parentage(nvProc')
  <2> SUFFICES ASSUME NEW r \in NvIds
               PROVE  LET u == nvProc'[r].up
                          line == nvProc'[r].line IN
                      /\ u \in NvIds =>
                           /\ nvProc'[u].st = "run" /\ u < r /\ nvProc'[u].of = nvProc'[r].of
                           /\ line = nvProc'[u].line \cup {u} /\ nvProc'[u].late <= nvProc'[r].late
                      /\ u \notin NvIds => line = {} \/ \E s \in line : nvProc'[s].st # "run" /\ \A v \in line : v <= s
    BY DEF Parentage
  <2>1. CASE r = p
    BY <1>5, <1>8, <2>1, NvNumbers
  <2>2. CASE r # p
    <3>1. nvProc'[r] = nvProc[r]
      BY <1>8, <2>2
    <3>2. CASE nvProc[r].up \in NvIds
      <4>1. nvProc[nvProc[r].up].st = "run"
        BY <1>1, <3>2 DEF Parentage
      <4>2. nvProc'[nvProc[r].up] = nvProc[nvProc[r].up]
        BY <1>3, <1>8, <3>2, <4>1
      <4> QED
        BY <1>1, <3>1, <3>2, <4>2 DEF Parentage
    <3>3. CASE nvProc[r].up \notin NvIds
      BY <1>1, <1>8, <1>13, <3>1, <3>3 DEF Parentage
    <3> QED
      BY <3>2, <3>3
  <2> QED
    BY <2>1, <2>2
<1>19. NvLocks'
  BY <1>3, <1>9, <1>12, NvLockHeld
<1>20. \A r \in NvIds : InitIn(nvProc, r) /\ nvProc[r].st = "run" => InitIn(nvProc', r)
  <2> SUFFICES ASSUME NEW r \in NvIds, InitIn(nvProc, r), nvProc[r].st = "run" PROVE InitIn(nvProc', r)
    OBVIOUS
  <2>1. \A s \in NvIds : nvProc'[s].line = nvProc[s].line
    <3>1. nvProc[p].line = {}
      BY <1>1, <1>3 DEF NvKin
    <3> QED
      BY <1>5, <1>8, <3>1
  <2>2. \A s \in NvIds : nvProc'[s].st = "run" /\ nvProc[s].st = "run" => nvProc'[s].up = nvProc[s].up
    BY <1>3, <1>8
  <2>3. nvProc'[r].st = "run"
    BY <1>3, <1>8
  <2> QED
    BY <1>1, <1>13, <1>18, <2>1, <2>2, <2>3, InitStays
<1>21. \A u \in Threads : Leader(u) \in NvIds /\ nvRun[u].seen \in SUBSET NvIds
  BY <1>1, NvHas DEF Leader
<1>22. \A u \in Threads \ {t} : Begun(u) => Leader(u) # p /\ nvProc'[Leader(u)] = nvProc[Leader(u)]
  <2>1. \A u \in Threads : Begun(u) => nvProc[Leader(u)].st # "none"
    BY DEF NvInv, LeaderKept
  <2> QED
    BY <1>3, <1>8, <1>21, <2>1
<1>23. ASSUME NEW u \in Threads PROVE LeaderKept(u)' /\ Spared(u)' /\ Scanned(u)' /\ Emptied(u)'
  <2>1. LeaderKept(u) /\ Spared(u) /\ Scanned(u) /\ Emptied(u)
    BY DEF NvInv
  <2>2. CASE u = t
    <3>1. nvRun'[u].at = "spawned" /\ nvRun'[u].child = p /\ nvRun'[u].seen = nvRun[u].seen /\ nvRun'[u].left = nvRun[u].left
      BY <1>7, <1>9, <2>2
    <3>2. LeaderKept(u)'
      BY <1>5, <1>8, <2>2, <3>1 DEF LeaderKept, Leader
    <3>3. Spared(u)'
      <4>1. nvRun[u].left = {} /\ \A r \in nvRun[u].seen : nvProc[r].st # "none"
        BY <1>3, <2>1, <2>2 DEF Spared
      <4>2. \A r \in nvRun[u].seen : nvProc'[r].st # "none"
        BY <1>5, <1>8, <1>21, <4>1
      <4> QED
        BY <1>6, <3>1, <4>1, <4>2 DEF Spared
    <3>4. Scanned(u)' /\ Emptied(u)'
      BY <3>1 DEF Scanned, Emptied
    <3> QED
      BY <3>2, <3>3, <3>4
  <2>3. CASE u # t
    <3>1. nvRun'[u] = nvRun[u] /\ nvRun[u].at \notin Scanning
      BY <1>9, <1>11, <2>3 DEF Locked
    <3>2. LeaderKept(u)'
      BY <1>22, <2>1, <2>3, <3>1 DEF LeaderKept, Leader, Begun
    <3>3. Spared(u)'
      <4>1. \A r \in nvRun[u].seen : nvProc'[r].st # "none"
        BY <1>5, <1>8, <1>21, <2>1 DEF Spared
      <4> QED
        BY <2>1, <3>1, <4>1 DEF Spared
    <3>4. Scanned(u)'
      <4> SUFFICES ASSUME NEW r \in NvIds, Live(r)', Of(r)' = u, nvRun[u].at = "wait", nvRun[u].result = "refused"
                   PROVE  Missable(u, r, 2)'
        BY <3>1 DEF Scanned, Scanning
      <4>1. r # p
        BY <1>5, <1>8, <2>3 DEF Of
      <4>2. nvProc'[r] = nvProc[r] /\ Live(r) /\ Of(r) = u
        BY <1>8, <4>1 DEF Live, Of
      <4>3. Missable(u, r, 2)
        BY <2>1, <4>2 DEF Scanned
      <4>4. OfInit(r) => OfInit(r)'
        BY <1>20, <4>2, OfInitIn DEF Live
      <4> QED
        BY <3>1, <4>2, <4>3, <4>4 DEF Missable, Foreign, Leader
    <3>5. Emptied(u)'
      <4>1. \A r \in NvIds : Of(r)' = u => Of(r) = u /\ (Live(r)' <=> Live(r))
        BY <1>5, <1>8, <2>3 DEF Of, Live
      <4> QED
        BY <1>3, <2>1, <3>1, <4>1 DEF Emptied
    <3> QED
      BY <3>2, <3>3, <3>4, <3>5
  <2> QED
    BY <2>2, <2>3
<1> QED
  BY <1>10, <1>15, <1>16, <1>17, <1>18, <1>19, <1>23 DEF NvInv

\* No process of a command, and no thread in one.
LEMMA NvInitInv == NvInit => NvInv
<1> SUFFICES ASSUME NvInit PROVE NvInv
  OBVIOUS
<1> DEFINE x(p) == [st |-> "none", up |-> Ours, grp |-> p, of |-> "nobody", hit |-> "no", line |-> {}, late |-> 0]
           y == [at |-> "idle", child |-> 1, seen |-> {}, left |-> {}, pre |-> {}, pass |-> 0, result |-> "none"]
<1>1. /\ nvWorld \in NvWorlds /\ nvProc = [p \in NvIds |-> x(p)] /\ nvRun = [t \in Threads |-> y]
      /\ nvLock = "free" /\ nvSub = FALSE
  BY DEF NvInit, Threads
<1>2. 1 \in NvIds /\ 0 \in 0..NvPasses - 1
  BY NvWorldsAssumption DEF NvIds
<1>3. "idle" \in NvSteps /\ "idle" \notin Locked /\ "idle" \notin Scanning /\ "none" \in NvResults
  BY DEF NvSteps, Locked, Scanning, NvResults
<1>4. y \in NvRuns /\ \A p \in NvIds : x(p) \in NvProcs
  BY <1>2, <1>3 DEF NvRuns, NvProcs
<1>5. \A p \in NvIds : nvProc[p] = x(p)
  BY <1>1
<1>6. \A p \in NvIds :
         /\ nvProc[p].st = "none" /\ nvProc[p].up = Ours /\ nvProc[p].grp = p /\ nvProc[p].of = "nobody"
         /\ nvProc[p].hit = "no" /\ nvProc[p].line = {}
  <2> SUFFICES ASSUME NEW p \in NvIds
               PROVE  /\ nvProc[p].st = "none" /\ nvProc[p].up = Ours /\ nvProc[p].grp = p /\ nvProc[p].of = "nobody"
                      /\ nvProc[p].hit = "no" /\ nvProc[p].line = {}
    OBVIOUS
  <2>1. nvProc[p] = x(p)
    BY <1>5
  <2>2. /\ x(p).st = "none" /\ x(p).up = Ours /\ x(p).grp = p /\ x(p).of = "nobody" /\ x(p).hit = "no" /\ x(p).line = {}
    OBVIOUS
  <2> HIDE DEF x
  <2> QED
    BY <2>1, <2>2
<1>7. \A t \in Threads : nvRun[t] = y
  BY <1>1
<1>8. NvTyped
  <2> HIDE DEF x, y
  <2> QED
    BY <1>1, <1>4 DEF NvTyped
<1>9. NvKin /\ NvInOrder
  BY <1>6 DEF NvKin, NvInOrder, Of
<1>10. Parentage(nvProc)
  BY <1>6, NvNumbers DEF Parentage
<1>11. NvLocks
  BY <1>1, <1>3, <1>7 DEF NvLocks
<1>12. ASSUME NEW t \in Threads PROVE LeaderKept(t) /\ Spared(t) /\ Scanned(t) /\ Emptied(t)
  BY <1>3, <1>7 DEF LeaderKept, Spared, Scanned, Emptied, Begun
<1> QED
  BY <1>8, <1>9, <1>10, <1>11, <1>12 DEF NvInv

\* Every step of a thread, a process, time and init keeps it.
LEMMA NvStepInv == NvInv /\ [NvNext]_nvVars => NvInv'
<1> SUFFICES ASSUME NvInv, [NvNext]_nvVars PROVE NvInv'
  OBVIOUS
<1>1. DOMAIN nvRun = Threads
  BY DEF NvInv, NvTyped
<1>2. ASSUME NEW t \in Threads, NvAct(t) PROVE NvInv'
  <2>1. CASE NvSpawn(t)
    BY <2>1, NvSpawnInv
  <2>2. CASE \/ NvReady(t) \/ NvUnproven(t) \/ NvFinish(t) \/ NvLate(t) \/ NvKillCgroup(t) \/ NvReap(t)
             \/ NvWait(t) \/ NvClose(t)
    BY <2>2, NvPlainInv
  <2>3. CASE NvLookCgroup(t)
    BY <2>3, NvLookCgroupInv
  <2>4. CASE NvAdopt(t)
    BY <2>4, NvAdoptInv
  <2>5. CASE NvLook(t) \/ NvSlay(t)
    BY <2>5, NvKillInv
  <2>6. CASE NvList(t)
    BY <2>6, NvListInv
  <2>7. CASE NvRead(t)
    BY <2>7, NvReadInv
  <2>8. CASE NvGiveUp(t)
    BY <2>8, NvGiveUpInv
  <2>9. CASE NvReaped(t)
    BY <2>9, NvReapedInv
  <2> QED
    BY <1>2, <2>1, <2>2, <2>3, <2>4, <2>5, <2>6, <2>7, <2>8, <2>9 DEF NvAct
<1>3. ASSUME NvDies PROVE NvInv'
  BY <1>3, NvGoneInv DEF NvDies
<1>4. ASSUME NEW p \in NvIds, Exits(p) PROVE NvInv'
  BY <1>4, NvGoneInv DEF Exits, Free
<1>5. ASSUME NEW p \in NvIds, Leaves(p) PROVE NvInv'
  BY <1>5, NvLeavesInv
<1>6. ASSUME NEW p \in NvIds, NEW q \in NvIds, Forks(p, q) PROVE NvInv'
  BY <1>6, NvForksInv
<1>7. CASE UNCHANGED nvVars
  <2>1. nvWorld' = nvWorld /\ nvProc' = nvProc /\ nvRun' = nvRun /\ nvLock' = nvLock /\ nvSub' = nvSub
    BY <1>7 DEF nvVars
  <2>2. nvProc' \in [NvIds -> NvProcs] /\ Parentage(nvProc')
    BY <2>1 DEF NvInv, NvTyped
  <2> QED
    BY <2>1, <2>2, NvFewer
<1> QED
  BY <1>1, <1>2, <1>3, <1>4, <1>5, <1>6, <1>7 DEF NvNext

\* Nobody who holds the fences of a command is left behind but whom two scans in a row could not find
\* (_reap_group), nobody at all in a cgroup (_kill_cgroup), and no reap touches the leader of another command.
THEOREM ContainmentHolds == NvSpec => []ContainmentSound
<1>1. NvInv => ContainmentSound
  <2> SUFFICES ASSUME NvInv PROVE ContainmentSound
    OBVIOUS
  <2>1. NvTyped /\ DOMAIN nvRun = Threads /\ \A p \in NvIds : nvProc[p] \in NvProcs
    BY DEF NvInv, NvTyped
  <2>2. NvTypeOK
    <3>1. \A p \in NvIds : nvProc[p].up \in NvIds \cup {Ours, Pid1} /\ nvProc[p].hit \in {"no"} \cup Threads
      BY <2>1 DEF NvProcs
    <3>2. \A t \in Threads : nvRun[t].child \in NvIds /\ nvRun[t].pass \in 0..NvPasses
      BY <2>1, NvHas, NvWorldsAssumption
    <3>3. nvSub => nvLock # "free"
      BY <2>1, NvWorldsAssumption DEF NvInv, NvLocks, NvTyped, Threads
    <3> QED
      BY <2>1, <3>1, <3>2, <3>3 DEF NvTypeOK, NvTyped
  <2>3. Contained
    <3> SUFFICES ASSUME NEW t \in Threads
                 PROVE  /\ nvWorld.cgroup /\ nvRun[t].at = "end" =>
                             nvRun[t].result = "incomplete" \/ ~\E p \in Members(t) : Live(p)
                        /\ nvRun[t].at = "wait" /\ nvRun[t].result = "refused" => \A p \in Survivors(t) : Eludes(t, p)
      BY <2>1 DEF Contained
    <3>1. nvWorld.cgroup /\ nvRun[t].at = "end" => nvRun[t].result = "incomplete" \/ ~\E p \in Members(t) : Live(p)
      BY DEF NvInv, Emptied, Members, Of
    <3>2. ASSUME nvRun[t].at = "wait", nvRun[t].result = "refused", NEW p \in Survivors(t)
          PROVE  Eludes(t, p)
      <4>1. p \in NvIds /\ Live(p) /\ Of(p) = t
        BY DEF Survivors, Members, Of
      <4>2. Missable(t, p, 2)
        BY <3>2, <4>1 DEF NvInv, Scanned
      <4>3. nvProc[p].late \in Nat
        BY <2>1, <4>1 DEF NvProcs
      <4> QED
        BY <4>2, <4>3 DEF Missable, Foreign, Eludes
    <3> QED
      BY <3>1, <3>2
  <2>4. LeadersSpared
    BY <2>1 DEF LeadersSpared, NvInv, LeaderKept, Begun
  <2> QED
    BY <2>2, <2>3, <2>4 DEF ContainmentSound
<1> QED
  BY <1>1, NvInitInv, NvStepInv, PTL DEF NvSpec

\* The children of this process stay under control together, as each of them does for itself
\* (codec_supervisor._session, _bounded_process, _run_monitored).
THEOREM ChildrenStayContained == ChildrenSpec => []ChildrenContained
<1>1. CdSpec => []DecodingSound
  BY DecodingStaysSound
<1>2. NvSpec => []ContainmentSound
  BY ContainmentHolds
<1>3. EnSpec => []EncodingSound
  BY EncodingStaysSound
<1> QED
  BY <1>1, <1>2, <1>3, PTL DEF ChildrenSpec, ChildrenContained

=============================================================================

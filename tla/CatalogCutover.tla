-------------------------- MODULE CatalogCutover --------------------------
(***************************************************************************)
(* core/db.py, clone first: rehearse_provenance_migration copies a stopped *)
(* catalog and migrates the copy; publish_provenance_migration proves that *)
(* nothing moved since and links the result into a new data directory.     *)
(* Meanwhile the source may be written after all, the destination may fill *)
(* up by another hand, any step may fail and the process may die.          *)
(*                                                                         *)
(* The content of a catalog is a number, and its migration (CatalogLadder) *)
(* keeps it.  On disk it is what the main file holds, or the WAL if any.   *)
(***************************************************************************)
EXTENDS Naturals

CONSTANT CtWorlds  \* source, runs, destinations and bounds

\* A WAL holds what was committed after the main file; a row of "left" is a bound.
ASSUME CtWorldsAssumption ==
  \A w \in CtWorlds :
    /\ w.src \in [main : Nat \ {0}, wal : Nat, lib : {"none", "a", "b", "bad"}, ver : Nat]
    /\ w.src.wal = 0 \/ w.src.wal >= w.src.main
    /\ w.runs \in Nat /\ w.dests \in Nat
    /\ w.left \in [src : Nat, rival : Nat, crash : Nat, fail : Nat, dispose : Nat]

VARIABLES
  ctSrc,    \* the source: main file, WAL (0: none), library.json, user_version
  ctRun,    \* the rehearsal directories
  ctDest,   \* the destinations: catalog.sqlite, a sidecar, library.json, the staging slot
  ctTool,   \* the one operation: where it is, on what, and what it has read
  ctWorld,
  ctLeft    \* bounds

ctVars == <<ctSrc, ctRun, ctDest, ctTool, ctWorld, ctLeft>>

NoBundle == <<0, 0>>
NoSlot == [is |-> "none"]
NoRun == [made |-> FALSE, ok |-> FALSE, lib |-> "none", snap |-> 0, clone |-> 0,
          bundle |-> NoBundle, slot |-> NoSlot]
Vacant == [cat |-> "none", side |-> FALSE, lib |-> "none", stage |-> "none"]
\* "since" is a history: what the source held when the bundle began to be read.
Resting == [pc |-> "idle", run |-> 0, dest |-> 0, lib |-> "none", read |-> NoBundle, since |-> 0,
            created |-> FALSE, staged |-> 0, rec |-> NoSlot, end |-> "none", out |-> "none"]

CtTypeOK ==
  /\ ctSrc.lib \in {"none", "a", "b", "bad"} /\ ctSrc.main > 0
  /\ \A d \in DOMAIN ctDest : /\ ctDest[d].cat \in {"none", "ours", "rival"}
                              /\ ctDest[d].stage \in {"none", "ours", "rival"}
                              /\ ctDest[d].lib \in {"none", "partial", "a", "b", "rival"}
  /\ \A r \in DOMAIN ctRun : ctRun[r].slot.is \in {"none", "torn", "record"}
  /\ ctTool.out \in {"none", "rehearsed", "published", "refused", "unrecorded", "died"}

CtInit ==
  \E w \in CtWorlds :
    /\ ctWorld = w /\ ctSrc = w.src /\ ctLeft = w.left /\ ctTool = Resting
    /\ ctRun = [r \in 1..w.runs |-> NoRun] /\ ctDest = [d \in 1..w.dests |-> Vacant]

-----------------------------------------------------------------------------
(* Helpers                                                                 *)

\* _read_library_locator: a regular file that names a library root, or none at all.
LocatorReads(lib) == lib # "bad"

\* What SQLite recovers from a main file and a WAL.
Recovered(b) == IF b[2] # 0 THEN b[2] ELSE b[1]
Content == Recovered(<<ctSrc.main, ctSrc.wal>>)

CtAt(pc) == ctTool.pc = pc
Mine == ctRun[ctTool.run]
Target == ctDest[ctTool.dest]
Enter(pc) == ctTool' = [ctTool EXCEPT !.pc = pc]
Leave(out) == ctTool' = [Resting EXCEPT !.out = out, !.run = ctTool.run, !.dest = ctTool.dest,
                                        !.created = ctTool.created]
InRun(m) == ctRun' = [ctRun EXCEPT ![ctTool.run] = m]
InDest(t) == ctDest' = [ctDest EXCEPT ![ctTool.dest] = t]

\* BEGIN IMMEDIATE on the source, and the clone locked, from here to the return.
Locked == ctTool.pc \in {"stage", "copy", "library", "locator", "link", "verify", "confirm"}

\* _staging_report_for: what the slot holds, and what it is to the catalog beside it.
DestRelation(d) ==
  IF ctDest[d].cat = "none" THEN "absent"
  ELSE IF ctDest[d].cat = ctDest[d].stage THEN "same_attempt_inode" ELSE "different_inode"
StagingReport(d) == [is |-> "record", staged |-> ctDest[d].stage, rel |-> DestRelation(d)]

\* Mutant: only a refusal that finds the slot taken is recorded.
Review_Quiet == Leave("refused")
\* _raise_staging_review, _attach_post_create_review: the record, then the refusal.
Review == ctTool' = [ctTool EXCEPT !.pc = "record", !.end = "refused",
                                   !.rec = StagingReport(ctTool.dest)]
Refuse == IF ctTool.created THEN Review ELSE Leave("refused")

\* A check and what follows if it holds.
Checked(ok, then) == IF ok THEN then ELSE Refuse
CtKeep == UNCHANGED <<ctSrc, ctWorld, ctLeft>>

-----------------------------------------------------------------------------
(* rehearse_provenance_migration                                           *)

CtRehearse ==
  /\ CtAt("idle")
  /\ \E r \in DOMAIN ctRun :
       /\ ~ctRun[r].made
       /\ IF LocatorReads(ctSrc.lib)
          THEN /\ ctRun' = [ctRun EXCEPT ![r] = [NoRun EXCEPT !.made = TRUE, !.lib = ctSrc.lib]]
               /\ ctTool' = [Resting EXCEPT !.pc = "main", !.run = r]
          ELSE ctTool' = [Resting EXCEPT !.out = "refused"] /\ UNCHANGED ctRun
  /\ UNCHANGED ctDest /\ CtKeep

\* _read_sqlite_bundle_bytes, one file after the other; in a rehearsal, then in a publication.
CtReadMain ==
  /\ ctTool.pc \in {"main", "bundle main"}
  /\ ctTool' = [ctTool EXCEPT !.pc = IF @ = "main" THEN "wal" ELSE "bundle wal",
                              !.read = <<ctSrc.main, 0>>, !.since = Content]
  /\ UNCHANGED <<ctRun, ctDest>> /\ CtKeep
CtReadWal ==
  /\ CtAt("wal")
  /\ ctTool' = [ctTool EXCEPT !.pc = "again", !.read = <<@[1], ctSrc.wal>>]
  /\ UNCHANGED <<ctRun, ctDest>> /\ CtKeep

\* Mutant: the source is not read again.
SameMain_Skip == TRUE
\* The source must be byte for byte what was captured.
SameMain == ctSrc.main = ctTool.read[1]
SameWal == ctSrc.wal = ctTool.read[2] /\ ctSrc.lib = Mine.lib
CtCompareMain ==
  /\ CtAt("again") /\ Checked(SameMain, Enter("again wal"))
  /\ UNCHANGED <<ctRun, ctDest>> /\ CtKeep
CtCompareWal ==
  /\ CtAt("again wal")
  /\ IF SameWal THEN InRun([Mine EXCEPT !.snap = Recovered(ctTool.read)]) /\ Enter("migrate")
     ELSE Refuse /\ UNCHANGED ctRun
  /\ UNCHANGED ctDest /\ CtKeep

\* The clone is migrated and checked, and the report written.
CtMigrate ==
  /\ CtAt("migrate")
  /\ InRun([Mine EXCEPT !.clone = Mine.snap, !.ok = TRUE])
  /\ Leave("rehearsed") /\ UNCHANGED ctDest /\ CtKeep

-----------------------------------------------------------------------------
(* publish_provenance_migration                                            *)

\* _resolve_rehearsal_layout: report, manifest, snapshot and clone are all there.
Validated(r) == ctRun[r].ok

\* The destination must hold nothing; a slot that is taken is recorded first.
CtPublish ==
  /\ CtAt("idle")
  /\ \E r \in DOMAIN ctRun, d \in DOMAIN ctDest :
       /\ Validated(r)
       /\ LET t == [Resting EXCEPT !.run = r, !.dest = d, !.lib = ctSrc.lib]
              v == ctDest[d] IN
          ctTool' = IF ctSrc.lib # ctRun[r].lib \/ v.cat # "none" \/ v.side \/ v.lib # "none"
                    THEN [t EXCEPT !.lib = "none", !.out = "refused"]
                    ELSE IF v.stage # "none"
                    THEN [t EXCEPT !.pc = "record", !.end = "refused", !.rec = StagingReport(d)]
                    ELSE [t EXCEPT !.pc = "bundle main"]
  /\ UNCHANGED <<ctRun, ctDest>> /\ CtKeep

\* Mutant: the rollback bundle is kept without being recovered.
BundleRecovers_Unread(b) == TRUE
\* _capture_and_validate_source_rollback_bundle.
BundleRecovers(b) == Recovered(b) = Mine.snap
CtBundle ==
  /\ CtAt("bundle wal")
  /\ LET b == <<ctTool.read[1], ctSrc.wal>> IN
     InRun([Mine EXCEPT !.bundle = b]) /\ Checked(BundleRecovers(b), Enter("lock"))
  /\ UNCHANGED ctDest /\ CtKeep

\* Mutant: the source is not compared once it is locked.
SourceStands_Prelock == TRUE
\* Under the write lock the source is still what was rehearsed.
SourceStands == Content = Mine.snap
CtLock ==
  /\ CtAt("lock") /\ Checked(SourceStands, Enter("stage"))
  /\ UNCHANGED <<ctRun, ctDest>> /\ CtKeep

\* O_EXCL on the one staging name; from here every exit leaves a record.
CtStage ==
  /\ CtAt("stage")
  /\ IF Target.stage # "none" THEN Review /\ UNCHANGED ctDest
     ELSE /\ InDest([Target EXCEPT !.stage = "ours"])
          /\ ctTool' = [ctTool EXCEPT !.pc = "copy", !.created = TRUE]
  /\ UNCHANGED ctRun /\ CtKeep

\* Mutant: the report's word is taken for the clone.
CloneIsExpected_Reported == TRUE
\* _full_catalog_identity: the schema and every row of every table.
SameCatalog(one, other) == one = other
\* The clone against what migrating the snapshot again gives.
CloneIsExpected == SameCatalog(Mine.clone, Mine.snap)
\* The clone is copied into it; it must be the rehearsed one, and a successor of the source.
CtCopy ==
  /\ CtAt("copy")
  /\ IF Target.stage = "ours" /\ CloneIsExpected /\ ctSrc.ver < 7
     THEN ctTool' = [ctTool EXCEPT !.pc = "library", !.staged = Mine.clone]
     ELSE Refuse
  /\ UNCHANGED <<ctRun, ctDest>> /\ CtKeep

LibraryStands == ctSrc.lib = Mine.lib
\* _create_pinned_library_locator, or the promise that there is none.
CtLibrary ==
  /\ CtAt("library")
  /\ IF Target.side \/ ~LibraryStands \/ Target.lib # "none" THEN Refuse /\ UNCHANGED ctDest
     ELSE IF ctTool.lib = "none" THEN Enter("link") /\ UNCHANGED ctDest
     ELSE InDest([Target EXCEPT !.lib = "partial"]) /\ Enter("locator")
  /\ UNCHANGED ctRun /\ CtKeep
CtLocator ==
  /\ CtAt("locator")
  /\ IF Target.lib = "partial" THEN InDest([Target EXCEPT !.lib = ctTool.lib]) /\ Enter("link")
     ELSE Refuse /\ UNCHANGED ctDest
  /\ UNCHANGED ctRun /\ CtKeep

\* Mutant: os.replace, which takes the name over.
Linkable_Replace == Target.stage = "ours"
\* _link_fd_no_clobber: the inode held open, under a name that must be free.
Linkable == Target.stage = "ours" /\ Target.cat = "none"
CtLink ==
  /\ CtAt("link")
  /\ IF Linkable THEN InDest([Target EXCEPT !.cat = "ours"]) /\ Enter("verify") ELSE Refuse /\ UNCHANGED ctDest
  /\ UNCHANGED ctRun /\ CtKeep

CtVerify ==
  /\ CtAt("verify")
  /\ Checked(~Target.side /\ Target.cat = "ours" /\ Target.lib = ctTool.lib, Enter("confirm"))
  /\ UNCHANGED <<ctRun, ctDest>> /\ CtKeep

\* Mutant: the path is not looked at again.
StillOurs_Once == ~Target.side
StillOurs == Target.cat = "ours" /\ ~Target.side
CtConfirm ==
  /\ CtAt("confirm")
  /\ Checked(StillOurs, ctTool' = [ctTool EXCEPT !.pc = "record", !.end = "published",
                                                 !.rec = StagingReport(ctTool.dest)])
  /\ UNCHANGED <<ctRun, ctDest>> /\ CtKeep

\* _write_publication_slot_state: truncated, then written.
CtRecord ==
  /\ CtAt("record") /\ InRun([Mine EXCEPT !.slot = [is |-> "torn"]]) /\ Enter("recorded")
  /\ UNCHANGED ctDest /\ CtKeep
CtRecorded ==
  /\ CtAt("recorded") /\ InRun([Mine EXCEPT !.slot = ctTool.rec]) /\ Leave(ctTool.end)
  /\ UNCHANGED ctDest /\ CtKeep

\* list_publication_leftovers: the record must be there and whole.
Listable(r) == ctRun[r].slot.is = "record"

-----------------------------------------------------------------------------
(* The world                                                               *)

Allowed(b) == ctLeft[b] > 0 /\ ctLeft' = [ctLeft EXCEPT ![b] = @ - 1] /\ UNCHANGED ctWorld

\* An input or output error at any step; one in the record itself is chained to the refusal.
CtFail ==
  /\ ~CtAt("idle") /\ Allowed("fail")
  /\ IF ctTool.pc \in {"record", "recorded"}
     THEN Leave(IF ctTool.created THEN "unrecorded" ELSE "refused") ELSE Refuse
  /\ UNCHANGED <<ctSrc, ctRun, ctDest>>
\* Nothing is written on the way out, and SIGINT is no Exception either.
CtCrash == ~CtAt("idle") /\ Allowed("crash") /\ Leave("died") /\ UNCHANGED <<ctSrc, ctRun, ctDest>>

\* A writer that was not stopped after all; SQLite may checkpoint at any time.
CtCommit ==
  /\ ~Locked /\ Allowed("src") /\ ctSrc' = [ctSrc EXCEPT !.wal = Content + 1]
  /\ UNCHANGED <<ctRun, ctDest, ctTool>>
CtCheckpoint ==
  /\ ctSrc.wal # 0 /\ Allowed("src") /\ ctSrc' = [ctSrc EXCEPT !.main = Content, !.wal = 0]
  /\ UNCHANGED <<ctRun, ctDest, ctTool>>
CtRelocate ==
  /\ Allowed("src") /\ \E l \in {"none", "a", "b", "bad"} : l # ctSrc.lib /\ ctSrc' = [ctSrc EXCEPT !.lib = l]
  /\ UNCHANGED <<ctRun, ctDest, ctTool>>

\* Another hand in the destination, or in the clone while it is not locked.
CtRival ==
  /\ Allowed("rival")
  /\ \E d \in DOMAIN ctDest :
       LET v == ctDest[d] IN
       \E t \in {[v EXCEPT !.cat = "rival"], [v EXCEPT !.lib = "rival"], [v EXCEPT !.stage = "rival"],
                 [v EXCEPT !.side = TRUE], [v EXCEPT !.cat = "none"]} :
         t # v /\ ctDest' = [ctDest EXCEPT ![d] = t]
  /\ UNCHANGED <<ctSrc, ctRun, ctTool>>
CtTamper ==
  /\ Allowed("rival") /\ ~Locked
  /\ \E r \in DOMAIN ctRun : ctRun[r].ok /\ ctRun' = [ctRun EXCEPT ![r].clone = 0]
  /\ UNCHANGED <<ctSrc, ctDest, ctTool>>

\* The operator disposes of a reviewed leftover by hand.
CtDispose ==
  /\ CtAt("idle") /\ Allowed("dispose")
  /\ \E d \in DOMAIN ctDest : ctDest[d].stage # "none" /\ ctDest' = [ctDest EXCEPT ![d].stage = "none"]
  /\ UNCHANGED <<ctSrc, ctRun, ctTool>>

CtStep ==
  \/ CtReadMain \/ CtReadWal \/ CtCompareMain \/ CtCompareWal \/ CtMigrate \/ CtBundle \/ CtLock
  \/ CtStage \/ CtCopy \/ CtLibrary \/ CtLocator \/ CtLink \/ CtVerify \/ CtConfirm
  \/ CtRecord \/ CtRecorded
CtOther == CtFail \/ CtCrash \/ CtCommit \/ CtCheckpoint \/ CtRelocate \/ CtRival \/ CtTamper \/ CtDispose
CtNext == CtRehearse \/ CtPublish \/ CtStep \/ CtOther
CtSpec == CtInit /\ [][CtNext]_ctVars
FairCtSpec == CtSpec /\ WF_ctVars(CtStep)

-----------------------------------------------------------------------------
(* Properties                                                              *)

Quiet == ctLeft = ctWorld.left

(***************************************************************************)
(* What is rehearsed is a state the source was in while it was read, never *)
(* the main file of one moment with the WAL of another.  (It need not be   *)
(* the last one: what is committed and checkpointed between the second     *)
(* reading of the main file and that of the WAL goes unnoticed here.)      *)
(***************************************************************************)
SnapshotIsState ==
  CtCompareWal /\ ctTool'.pc = "migrate" => ctRun'[ctTool.run].snap \in ctTool.since..Content

(***************************************************************************)
(* The catalog that becomes visible is the migration of what the source    *)
(* holds at that moment; the bundle taken before can bring the source back *)
(* and the library, whole, is the one that was rehearsed.                  *)
(***************************************************************************)
PublishedIsSource ==
  CtLink /\ ctTool'.pc = "verify" =>
    /\ ctTool.staged = Content /\ Recovered(Mine.bundle) = Content /\ ctSrc.ver < 7
    /\ Target.lib \in {Mine.lib, "rival", "none"}
    /\ Target.lib = "none" => Mine.lib = "none" \/ ~Quiet

(***************************************************************************)
(* Success is reported of a destination that is the staged file, beside no *)
(* sidecar, from a source that has not moved.                              *)
(***************************************************************************)
SuccessTrue ==
  ctTool.pc = "confirm" /\ ctTool'.end = "published" =>
    /\ Target.cat = "ours" /\ ~Target.side /\ ctTool.staged = Content
    /\ Target.lib \in {Mine.lib, "rival"}

\* No step of the tool takes over or removes what another hand put in a destination.
NoClobber ==
  CtStep => \A d \in DOMAIN ctDest :
              LET old == ctDest[d]
                  new == ctDest'[d] IN
              /\ new.cat # old.cat => old.cat = "none"
              /\ new.stage # old.stage => old.stage = "none"
              /\ new.lib # old.lib => old.lib \in {"none", "partial"}

(***************************************************************************)
(* After the slot was created, an operation that is over has left a record *)
(* of it in the run's directory, or said that it could not, or was killed. *)
(***************************************************************************)
LeftoverListed ==
  /\ (CtAt("idle") /\ ctTool.created /\ ctTool.out \in {"published", "refused"})
       => Listable(ctTool.run)
  /\ \A r \in DOMAIN ctRun : ctRun[r].slot.is = "torn" =>
       (CtAt("recorded") /\ ctTool.run = r) \/ ctLeft.crash < ctWorld.left.crash
                                            \/ ctLeft.fail < ctWorld.left.fail

\* Where nothing interferes a rehearsal succeeds, and so does a publication it begins; but of
\* a catalog at version 7 already a rehearsal succeeds and its publication never does.
NoFalseRefusal ==
  (Quiet /\ CtStep /\ ctTool.end # "refused" /\ ctSrc.ver < 7)
    => ctTool'.end # "refused" /\ ctTool'.out # "refused"

\* An operation under way, which must end however it is disturbed.
CutoverDue == ~CtAt("idle")

CutoverSound ==
  /\ [](CtTypeOK /\ LeftoverListed)
  /\ [][SnapshotIsState /\ PublishedIsSource /\ SuccessTrue /\ NoClobber /\ NoFalseRefusal]_ctVars
=============================================================================

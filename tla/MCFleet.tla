------------------------------ MODULE MCFleet ------------------------------
(***************************************************************************)
(* The portal's Fill worker, and what else happens to the drives around a  *)
(* Fill.  They share no variable: the initial state chooses one, the       *)
(* others keep still (as in MCArchive).                                    *)
(***************************************************************************)
EXTENDS
  FillWorker, Registration, DriveIdentity, CatalogMigrations, Recovery

VARIABLE active

MCRgWorlds ==
  LET bare == [d \in RgDisks |-> NoTree]
      annex == [bare EXCEPT !["d1"] = [has |-> "annex", label |-> 0]]
      few == [crashes |-> 1, writes |-> 0, fails |-> 0, runs |-> 1]
  IN {[v9 |-> TRUE, cli |-> {}, trees |-> bare,
       left |-> [few EXCEPT !.writes = 1, !.fails = 1, !.runs = 0]],
      [v9 |-> FALSE, cli |-> {1}, trees |-> bare, left |-> [few EXCEPT !.fails = 1]],
      [v9 |-> TRUE, cli |-> {3}, trees |-> bare, left |-> few],
      [v9 |-> TRUE, cli |-> {3}, trees |-> annex, left |-> [few EXCEPT !.crashes = 0, !.writes = 1]]}

MCDvWorlds ==
  LET row(serial, print, gen) == [serial |-> serial, print |-> print, cap |-> print[2], epoch |-> 1, gen |-> gen,
                                  auth |-> gen > 0, life |-> "active"]
      opened(n, owned) == {[epoch |-> 1, gen |-> g, op |-> "fill", owned |-> owned /\ g = n] : g \in 1..n}
      disk(serial) == [in |-> TRUE, serial |-> serial, cap |-> 1, whole |-> TRUE]
      anchors(p, N) == {Anchor(1, g, p, p[1]) : g \in N}
      few == [refreshes |-> 1, losses |-> 1, fills |-> 1, moves |-> 2, crashes |-> 1]
      old(serial, print, clean, owned, live) ==
        [row |-> row(serial, print, 2), dirty |-> opened(2, owned), anchors |-> anchors(print, IF clean THEN 1..2 ELSE {1}),
         disk |-> disk(live), fill |-> IF owned THEN "ended" ELSE "none", left |-> few]
  IN {[row |-> row("s", NoPrint, 0), dirty |-> {}, anchors |-> {}, disk |-> disk("s"), fill |-> "none",
       left |-> few],
      old("s", <<"none", 1>>, TRUE, FALSE, "s"), old("s", <<"none", 1>>, FALSE, TRUE, "s"),
      old("s", <<"hex", 1>>, TRUE, FALSE, "hex"), old("s", <<"hex", 1>>, FALSE, FALSE, "hex"),
      old("none", <<"s", 1>>, TRUE, FALSE, "s"), old("none", <<"s", 1>>, FALSE, FALSE, "s")}

MCLdRows == [plan |-> "compressed", path |-> "missing", status |-> "verified", orphan |-> FALSE,
             kids |-> FALSE, hash |-> "none", dmode |-> "ok", digest |-> "hub", prov |-> "none"]
\* What a row of a catalog of the version may be, one oddity at a time.
MCLdOdd(v) ==
  {MCLdRows} \cup {[MCLdRows EXCEPT !.orphan = TRUE]}
  \cup {[MCLdRows EXCEPT !.digest = x] : x \in {"null", "unlisted", "other"}}
  \cup (IF v < 2 THEN {[MCLdRows EXCEPT !.plan = x] : x \in {"uncompressed", "bad", "none"}} ELSE {})
  \cup (IF v = 0 THEN {[MCLdRows EXCEPT !.path = "unsafe"]} ELSE {})
  \cup (IF v >= 5 THEN {[MCLdRows EXCEPT !.dmode = "bad"], [MCLdRows EXCEPT !.kids = TRUE]} ELSE {})
  \cup (IF v = 6 THEN {[MCLdRows EXCEPT !.hash = "short"]} ELSE {})
MCLdHas(v) ==
  UNION {IF i = 0 THEN {"tables"}
         ELSE <<{"fk"}, {"mode"}, {"drives3", "evidence"}, {"drives4"}, {"proposals"}, {},
                {"hash", "digests", "dmode", "repair", "views"}, {}, {}, {}>>[i] : i \in 0..v}
MCLdCat(v, rows) ==
  [there |-> TRUE, ver |-> v, has |-> MCLdHas(v), contract |-> v = 9,
   rows |-> IF v < 2 THEN rows ELSE [rows EXCEPT !.plan = Mode(@), !.path = "recovered"]]
MCLdNew == [there |-> FALSE, ver |-> 0, has |-> {}, contract |-> FALSE,
            rows |-> [MCLdRows EXCEPT !.plan = "none", !.path = "none", !.digest = "null"]]
MCLdWorlds ==
  {[cat |-> MCLdNew, entry |-> "connect", crashes |-> n] : n \in 0..1}
  \cup {[cat |-> MCLdCat(v, MCLdRows), entry |-> e, crashes |-> 1] :
          v \in {3, 6, 7, 8, 9, 10}, e \in {"connect", "read"}}
  \cup UNION {{[cat |-> MCLdCat(v, r), entry |-> e, crashes |-> IF e = "clone" THEN 1 ELSE 2] :
                 r \in MCLdOdd(v), e \in {"ladder", "clone"}} : v \in {0, 1, 5, 6}}
  \cup {[cat |-> MCLdCat(7, [MCLdRows EXCEPT !.orphan = o]), entry |-> "clone", crashes |-> 1] : o \in BOOLEAN}

MCCtSrc == [main |-> 1, wal |-> 2, lib |-> "a", ver |-> 6]
MCCtLeft(s, v, c, f, d) == [src |-> s, rival |-> v, crash |-> c, fail |-> f, dispose |-> d]
MCCtWorlds ==
  {[src |-> MCCtSrc, runs |-> 1, dests |-> 1, left |-> l] :
     l \in {MCCtLeft(3, 0, 0, 0, 0), MCCtLeft(1, 1, 0, 0, 0),
            MCCtLeft(0, 0, 1, 1, 1), MCCtLeft(1, 0, 1, 0, 1), MCCtLeft(0, 1, 0, 1, 1)}}
  \cup {[src |-> [MCCtSrc EXCEPT !.lib = "none"], runs |-> 1, dests |-> 1, left |-> MCCtLeft(1, 1, 0, 0, 0)],
        [src |-> [MCCtSrc EXCEPT !.ver = 7], runs |-> 1, dests |-> 1, left |-> MCCtLeft(0, 0, 0, 0, 1)],
        [src |-> MCCtSrc, runs |-> 2, dests |-> 2, left |-> MCCtLeft(1, 0, 0, 0, 0)]}

MCRcAll(v) == [s \in RcFiles \X RcDrives |-> v]
MCRcBut(v, s, w) == [t \in RcFiles \X RcDrives |-> IF t = s THEN w ELSE v]
MCRcDrive == [d \in RcDrives |->
  [up |-> TRUE, auth |-> FALSE, clean |-> TRUE, pub |-> FALSE, lost |-> FALSE, busy |-> FALSE]]
MCRcWorld ==
  [cat |-> [f \in RcFiles |-> "none"], rows |-> MCRcBut("A", <<1, 2>>, "norow"),
   held |-> MCRcAll("A"), key |-> MCRcAll("none"), head |-> MCRcAll("none"), packed |-> {},
   plan |-> RcFiles, policy |-> TRUE, need |-> 1, v9 |-> FALSE, drive |-> MCRcDrive,
   ops |-> {"verify", "restore"}, kinds |-> {}, left |-> 1]
MCRcRaw == [MCRcWorld EXCEPT !.rows = MCRcBut("none", <<1, 2>>, "norow"), !.head = MCRcAll("A")]
MCRcWorlds ==
  {[MCRcWorld EXCEPT !.packed = {<<1, 1>>}, !.kinds = {"mount", "rot", "drop", "crash"}],
   [MCRcWorld EXCEPT !.kinds = {"drop", "promote", "rival", "mount"}, !.left = 2],
   [MCRcWorld EXCEPT !.v9 = TRUE, !.kinds = {"fill", "die", "drop"}, !.left = 2],
   [MCRcWorld EXCEPT !.kinds = {"fill", "rot"}, !.need = 2, !.policy = FALSE],
   [MCRcWorld EXCEPT !.need = 2, !.rows = MCRcAll("A"), !.held = MCRcBut("A", <<1, 2>>, "gone"), !.cat[1] = "B", !.kinds = {"mount"}],
   [MCRcWorld EXCEPT !.held = [t \in RcFiles \X RcDrives |-> IF t = <<2, 1>> THEN "never" ELSE IF t = <<1, 1>> THEN "gone" ELSE "A"], !.drive[1].auth = TRUE, !.rows = MCRcAll("A")],
   [MCRcWorld EXCEPT !.rows = MCRcBut("norow", <<1, 1>>, "A"), !.kinds = {"fill"}],
   [MCRcRaw EXCEPT !.ops = {"repair", "restore", "verify"}, !.kinds = {"rot", "fill"}],
   [MCRcRaw EXCEPT !.ops = {"repair", "drive"}, !.rows = MCRcBut("none", <<2, 1>>, "B"), !.kinds = {"mount", "rot"}],
   [MCRcRaw EXCEPT !.ops = {"repair", "drive"}, !.head = MCRcBut("A", <<2, 1>>, "B"), !.held = MCRcBut("A", <<2, 1>>, "B"), !.kinds = {"mount"}],
   [MCRcRaw EXCEPT !.ops = {"repair", "drive"}, !.cat = [f \in RcFiles |-> IF f = 1 THEN "B" ELSE "absent"],
      !.key = MCRcBut("none", <<1, 1>>, "A"), !.drive[2].lost = TRUE, !.kinds = {"mount", "drop"}],
   [MCRcRaw EXCEPT !.ops = {"repair", "drive"}, !.packed = {<<2, 2>>}, !.v9 = TRUE, !.drive[2].pub = TRUE]}

MCCvWorld == [same |-> {}, big |-> {}, orig |-> [f \in CvFiles |-> "A"], kinds |-> {"crash"}, left |-> 2]
MCCvWorlds ==
  {MCCvWorld,
   [MCCvWorld EXCEPT !.kinds = {"crash", "write", "rot"}, !.orig[2] = "none"],
   [MCCvWorld EXCEPT !.kinds = {"crash", "plan"}, !.orig[1] = "none"],
   [MCCvWorld EXCEPT !.kinds = {"crash", "fill"}],
   [MCCvWorld EXCEPT !.kinds = {"crash"}, !.same = {2}, !.left = 1],
   [MCCvWorld EXCEPT !.big = {1}, !.left = 1]}

-----------------------------------------------------------------------------
FwAlone == active = "Fw" /\ UNCHANGED <<active, rgVars, dvVars, ldVars, ctVars, rcVars, cvVars>>
RgAlone == active = "Rg" /\ UNCHANGED <<active, vars, dvVars, ldVars, ctVars, rcVars, cvVars>>
DvAlone == active = "Dv" /\ UNCHANGED <<active, vars, rgVars, ldVars, ctVars, rcVars, cvVars>>
LdAlone == active = "Ld" /\ UNCHANGED <<active, vars, rgVars, dvVars, ctVars, rcVars, cvVars>>
CtAlone == active = "Ct" /\ UNCHANGED <<active, vars, rgVars, dvVars, ldVars, rcVars, cvVars>>
RcAlone == active = "Rc" /\ UNCHANGED <<active, vars, rgVars, dvVars, ldVars, ctVars, cvVars>>
CvAlone == active = "Cv" /\ UNCHANGED <<active, vars, rgVars, dvVars, ldVars, ctVars, rcVars>>

\* A behaviour of the Fill tab has rows and prompts, or edits of the selection: they meet
\* only in the thread and the session, which either finds there.
FwWorks == FwAlone /\ gate = None /\ \A r \in Repos : sel[r] = "out"
FwEdits == FwAlone /\ Events = 0

\* A component that does not run stays where it starts.
FwStart == Init /\ (active = "Fw" \/ TRUE)
RgStart == RgInit /\ (active = "Rg" \/ rgWorld = CHOOSE w \in RgWorlds : TRUE)
DvStart == DvInit /\ (active = "Dv" \/ dvDirty = {})
LdStart == LdInit /\ (active = "Ld" \/ (ldWorld.entry = "read" /\ ldCat.ver = 7))
CtStart == CtInit /\ (active = "Ct" \/ ctWorld = CHOOSE w \in CtWorlds : TRUE)
RcStart == RcInit /\ (active = "Rc" \/ rcWorld = CHOOSE w \in RcWorlds : TRUE)
CvStart == CvInit /\ (active = "Cv" \/ cvWorld = CHOOSE w \in CvWorlds : TRUE)

MCInit ==
  /\ active \in {"Fw", "Rg", "Dv", "Ld", "Ct", "Rc", "Cv"}
  /\ FwStart /\ RgStart /\ DvStart /\ LdStart /\ CtStart /\ RcStart /\ CvStart

MCNext ==
  \/ FwWorks /\ AwaitOpen
  \/ FwAlone /\ AwaitEnd
  \/ FwAlone /\ AwaitReturn
  \/ FwAlone /\ MarkArchiveChanged
  \/ FwAlone /\ ReadArchivedTotal
  \/ FwAlone /\ WorkerConfirms
  \/ FwAlone /\ WorkStops
  \/ FwAlone /\ PersistTerminal
  \/ FwAlone /\ PublishTerminal
  \/ FwAlone /\ ThreadExits
  \/ FwAlone /\ RequestStop
  \/ FwAlone /\ AckTerminal
  \/ \E d \in Drives : FwWorks /\ Commit(d)
  \/ \E d \in Drives : FwWorks /\ CommitUnheard(d)
  \/ \E o \in WorkOutcomes : FwAlone /\ WorkEnds(o)
  \/ \E t \in Tabs : FwAlone /\ StartSession(t)
  \/ \E t \in Tabs : FwAlone /\ WorkerStart(t)
  \/ \E t \in Tabs : FwAlone /\ StartRaises(t)
  \/ \E t \in Tabs : FwAlone /\ PollStatus(t)
  \/ \E t \in Tabs : FwAlone /\ PollReads(t)
  \/ \E t \in Tabs : FwAlone /\ PollConfirms(t)
  \/ \E t \in Tabs : FwAlone /\ PollAgain(t)
  \/ \E t \in Tabs, R \in SUBSET Repos \ {{}} : FwEdits /\ SelectionAdd(t, R)
  \/ \E t \in Tabs, R \in SUBSET Repos \ {{}} : FwAlone /\ MutationCommits(t, R)
  \/ \E t \in Tabs, op \in {"remove", "clear", "finalize"} : FwEdits /\ GuardedMutation(t, op)
  \/ \E id \in DOMAIN answers, a \in Actions : FwAlone /\ ResolveAction(id, a)
  \/ RgAlone /\ RgRequest
  \/ RgAlone /\ RgAnswered
  \/ RgAlone /\ CliUnfit
  \/ RgAlone /\ OtherWrite
  \/ RgAlone /\ CheckCatalog
  \/ RgAlone /\ ReceiptFound
  \/ RgAlone /\ CloneStage
  \/ RgAlone /\ WriteReceipt
  \/ RgAlone /\ Promote
  \/ RgAlone /\ CliGuard
  \/ RgAlone /\ CliClone
  \/ RgAlone /\ CliInit
  \/ \E d \in RgDisks : RgAlone /\ RgPreview(d)
  \/ \E d \in RgDisks, l \in RgLabels : RgAlone /\ CliStart(d, l)
  \/ \E a \in Actors : RgAlone /\ HoldController(a)
  \/ \E a \in Actors : RgAlone /\ HoldSetup(a)
  \/ \E a \in Actors : RgAlone /\ PointRemote(a)
  \/ \E a \in Actors : RgAlone /\ AnnexSync(a)
  \/ \E a \in Actors : RgAlone /\ GraphCommit(a)
  \/ \E a \in Actors : RgAlone /\ PrepareRow(a)
  \/ \E a \in Actors : RgAlone /\ LocalVerified(a)
  \/ \E a \in Actors : RgAlone /\ TreeVerified(a)
  \/ \E a \in Actors : RgAlone /\ CatalogPublished(a)
  \/ \E a \in Actors : RgAlone /\ Propagated(a)
  \/ \E a \in Actors : RgAlone /\ CloseSetup(a)
  \/ \E a \in Actors : RgAlone /\ RgRefuse(a)
  \/ \E a \in Actors : RgAlone /\ ToolFails(a)
  \/ \E a \in Actors : RgAlone /\ RgCrash(a)
  \/ DvAlone /\ ReconcileCapture
  \/ DvAlone /\ ReconcileFence
  \/ DvAlone /\ ReconcileInventory
  \/ DvAlone /\ ReconcileCommit
  \/ DvAlone /\ ReconcileRefuse
  \/ DvAlone /\ InspectSerial
  \/ DvAlone /\ RepairHold
  \/ DvAlone /\ RepairFence
  \/ DvAlone /\ RepairInventory
  \/ DvAlone /\ SerialRecover
  \/ DvAlone /\ SerialEnrich
  \/ DvAlone /\ RepairRefuse
  \/ DvAlone /\ LossPreview
  \/ DvAlone /\ DeclareLost
  \/ DvAlone /\ FillOpens
  \/ DvAlone /\ FillAnchors
  \/ DvAlone /\ FillDies
  \/ DvAlone /\ ChildExits
  \/ DvAlone /\ DiskChanges
  \/ \E a \in Operators : DvAlone /\ DvCrash(a)
  \/ LdAlone /\ LdOpen
  \/ LdAlone /\ LdRefuse
  \/ LdAlone /\ LdTables
  \/ LdAlone /\ LdStamp
  \/ LdAlone /\ LdCopy
  \/ LdAlone /\ LdCopied
  \/ LdAlone /\ LdNoCopy
  \/ LdAlone /\ LdLegacy
  \/ LdAlone /\ LdWrite
  \/ LdAlone /\ LdViews
  \/ LdAlone /\ LdCrash
  \/ CtAlone /\ CtRehearse
  \/ CtAlone /\ CtPublish
  \/ CtAlone /\ CtReadMain
  \/ CtAlone /\ CtReadWal
  \/ CtAlone /\ CtCompareMain
  \/ CtAlone /\ CtCompareWal
  \/ CtAlone /\ CtMigrate
  \/ CtAlone /\ CtBundle
  \/ CtAlone /\ CtLock
  \/ CtAlone /\ CtStage
  \/ CtAlone /\ CtCopy
  \/ CtAlone /\ CtLibrary
  \/ CtAlone /\ CtLocator
  \/ CtAlone /\ CtLink
  \/ CtAlone /\ CtVerify
  \/ CtAlone /\ CtConfirm
  \/ CtAlone /\ CtRecord
  \/ CtAlone /\ CtRecorded
  \/ CtAlone /\ CtFail
  \/ CtAlone /\ CtCrash
  \/ CtAlone /\ CtCommit
  \/ CtAlone /\ CtCheckpoint
  \/ CtAlone /\ CtRelocate
  \/ CtAlone /\ CtRival
  \/ CtAlone /\ CtTamper
  \/ CtAlone /\ CtDispose
  \/ RcAlone /\ RcReverify
  \/ RcAlone /\ RcRestore
  \/ RcAlone /\ RcAdmit
  \/ RcAlone /\ RcFetch
  \/ RcAlone /\ RcWrite
  \/ RcAlone /\ RcGiveUp
  \/ RcAlone /\ RcPublish
  \/ RcAlone /\ RcAudit
  \/ RcAlone /\ RcBackup
  \/ RcAlone /\ RcApply
  \/ RcAlone /\ RcRival
  \/ RcAlone /\ RcCrash
  \/ \E d \in RcDrives : RcAlone /\ RcDriveRepair(d)
  \/ \E d \in RcDrives : RcAlone /\ RcMount(d)
  \/ \E d \in RcDrives : RcAlone /\ RcPromote(d)
  \/ \E d \in RcDrives : RcAlone /\ RcFill(d)
  \/ \E d \in RcDrives : RcAlone /\ RcFillDies(d)
  \/ \E s \in RcSlots : RcAlone /\ RcRot(s)
  \/ \E s \in RcSlots : RcAlone /\ RcDrop(s)
  \/ \E s \in RcSlots : RcAlone /\ RcFilled(s)
  \/ CvAlone /\ CvNext
  \/ CvAlone /\ CvRead
  \/ CvAlone /\ CvWrite
  \/ CvAlone /\ CvAdd
  \/ CvAlone /\ CvProve
  \/ CvAlone /\ CvCommit
  \/ CvAlone /\ CvPublish
  \/ CvAlone /\ CvRetire
  \/ CvAlone /\ CvRetired
  \/ CvAlone /\ CvCrash
  \/ CvAlone /\ CvSessionMoves
  \/ \E n \in CvPlanIds : CvAlone /\ CvApply(n)
  \/ \E n \in CvPlanIds : CvAlone /\ CvResume(n)
  \/ \E n \in CvPlanIds : CvAlone /\ CvSpoil(n)
  \/ \E f \in CvFiles : CvAlone /\ CvRewrite(f)
  \/ \E f \in CvFiles : CvAlone /\ CvRot(f)

\* As active never changes, one condition serves one process of every component.
MCSpec ==
  /\ MCInit /\ [][MCNext]_<<active, vars, rgVars, dvVars, ldVars, ctVars, rcVars, cvVars>>
  /\ WF_<<active, vars, rgVars, dvVars, ldVars, ctVars, rcVars, cvVars>>(
       \/ FwAlone /\ ThreadStep
       \/ RgAlone /\ RgStep("portal")
       \/ DvAlone /\ ReconcileStep
       \/ LdAlone /\ (LdStep \/ LdOpen \/ LdRefuse)
       \/ CtAlone /\ CtStep
       \/ RcAlone /\ RcStep
       \/ CvAlone /\ CvStep)
  /\ WF_<<active, vars, rgVars, dvVars, ldVars, ctVars, rcVars, cvVars>>(
       \/ RgAlone /\ RgStep("cli")
       \/ DvAlone /\ RepairStep)
  /\ WF_<<active, vars, rgVars, dvVars, ldVars, ctVars, rcVars, cvVars>>(
       \/ RgAlone /\ (RgRequest \/ RgAnswered)
       \/ DvAlone /\ (FillAnchors \/ FillDies))
  /\ WF_dvVars(DvAlone /\ ChildExits)
  /\ SF_<<active, vars, rgVars, dvVars, ldVars, ctVars, rcVars, cvVars>>(
       \/ RgAlone /\ RgPreview("d1")
       \/ CvAlone /\ CvResume(1))
  /\ SF_rgVars(RgAlone /\ RgPreview("d2"))

-----------------------------------------------------------------------------
(***************************************************************************)
(* What was begun ends: a Stop ends the run (request_stop), a migration of *)
(* sound rows is finished however often it is killed, a rehearsal, a       *)
(* publication, a restore and a hash repair return.                        *)
(***************************************************************************)
OperationsEnd ==
  (CASE active = "Fw" -> StopDue [] active = "Ld" -> LadderDue [] active = "Ct" -> CutoverDue
     [] active = "Rc" -> RecoveryDue [] OTHER -> FALSE)
  ~> (CASE active = "Fw" -> ~running [] active = "Ld" -> LadderDone [] active = "Ct" -> ~CutoverDue
        [] active = "Rc" -> ~RecoveryDue [] OTHER -> TRUE)

(***************************************************************************)
(* Once an operator tries, every disk is registered in the end, every      *)
(* drive's identity settled and every planned copy converted, or one of    *)
(* the named obstacles keeps it back.                                      *)
(***************************************************************************)
FleetSettles ==
  (CASE active = "Rg" -> RegistrationTried [] active = "Dv" -> IdentityTried
     [] active = "Cv" -> ConversionTried [] OTHER -> FALSE)
  ~> [](CASE active = "Rg" -> RegistrationSettled [] active = "Dv" -> IdentitySettled
          [] active = "Cv" -> ConversionSettled [] OTHER -> TRUE)
=============================================================================

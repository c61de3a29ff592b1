------------------------------ MODULE MCDrain ------------------------------
(***************************************************************************)
(* The body of a Fill, the projection it works from, and the child         *)
(* processes that work for this process: downloads, encoders, decoders and *)
(* native Git commands.                                                    *)
(* They share no variable: the initial state chooses one, the others keep  *)
(* still (as in MCArchive).                                                *)
(***************************************************************************)
EXTENDS
  MCFillDrain, Projection, Children

VARIABLE active

MCCdFrame == [stored |-> 2, orig |-> 2, has |-> 2, sound |-> TRUE]
MCCdWorld == [mode |-> "frames", frames |-> <<MCCdFrame>>, expected |-> 2, noise |-> 1, faults |-> {}]
MCCdTwo == [MCCdWorld EXCEPT !.frames = <<[MCCdFrame EXCEPT !.stored = 1, !.orig = 1], MCCdFrame>>, !.expected = 3]
MCCdLegacy == [MCCdWorld EXCEPT !.mode = "legacy", !.noise = 2]
MCCdWorlds ==
  {[MCCdTwo EXCEPT !.noise = 0, !.expected = e] : e \in {2, 3, 4}} \cup
  {[w EXCEPT !.faults = f] : w \in {MCCdWorld, MCCdLegacy, [MCCdWorld EXCEPT !.noise = 2]},
     f \in {{"guard", "crash", "close"}, {"hang", "cancel"}, {"die", "memory"}}} \cup
  {[w EXCEPT !.frames[1].has = 1] : w \in {MCCdWorld, MCCdLegacy}} \cup {[MCCdLegacy EXCEPT !.frames[1].has = 3]} \cup
  {[w EXCEPT !.frames[1].sound = FALSE] : w \in {MCCdWorld, MCCdLegacy}}

MCNvAlone == [threads |-> {"a"}, cgroup |-> FALSE, subreaper |-> TRUE, leave |-> TRUE, max |-> 2]
MCNvWorlds ==
  {MCNvAlone,
   [MCNvAlone EXCEPT !.subreaper = FALSE],
   [MCNvAlone EXCEPT !.cgroup = TRUE, !.subreaper = FALSE],
   [MCNvAlone EXCEPT !.leave = FALSE, !.max = 4],
   [MCNvAlone EXCEPT !.threads = {"a", "b"}]}

MCPjRows(a, b) == [f \in {1, 2} |-> [d \in {"d1", "d2"} |-> IF d = "d1" THEN a ELSE b]]
MCPjTask(kind, target, source) == [repo |-> "a", kind |-> kind, target |-> target, source |-> source]
MCPjNew ==
  [successor |-> FALSE, files |-> [r \in {"a"} |-> {1, 2}], hashed |-> {1}, others |-> 1, row |-> MCPjRows("none", "none"),
   tasks |-> [t \in {"primary", "replica"} |-> IF t = "primary" THEN MCPjTask("executable", "d1", "none") ELSE MCPjTask("executable", "d2", "d1")]]
MCPjHalf ==
  [MCPjNew EXCEPT !.row = MCPjRows("good", "none"), !.hashed = {1, 2},
    !.tasks = [@ EXCEPT !["primary"] = MCPjTask("baseline", "d1", "none")]]
MCPjMovedOn ==
  [MCPjNew EXCEPT !.successor = TRUE, !.row[1]["d1"] = "other", !.row[2]["d2"] = "bare"]
MCPjWorlds == {MCPjNew, MCPjHalf, MCPjMovedOn}

MCEnWorld(hub, codec, faults) == [hub |-> hub, codec |-> codec, faults |-> faults]
MCEnWorlds ==
  {MCEnWorld(h, c, f) : h \in BOOLEAN, c \in {"sound", "flawed", "aborts", "grows"},
     f \in {{"die", "signal", "corrupt", "stop"}, {"die", "hang", "memory"}}}
  \cup {MCEnWorld(TRUE, c, {"slow", "error", "transient", "refused", "die"}) : c \in {"sound", "none"}}

-----------------------------------------------------------------------------
FdAlone == active = "Fd" /\ UNCHANGED <<active, cdVars, nvVars, pjVars, enVars>>
CdAlone == active = "Cd" /\ UNCHANGED <<active, vars, nvVars, pjVars, enVars>>
NvAlone == active = "Nv" /\ UNCHANGED <<active, vars, cdVars, pjVars, enVars>>
PjAlone == active = "Pj" /\ UNCHANGED <<active, vars, cdVars, nvVars, enVars>>
EnAlone == active = "En" /\ UNCHANGED <<active, vars, cdVars, nvVars, pjVars>>

\* A component that does not run stays where it starts.
FdStart == DrainInit /\ (active = "Fd" \/ (gated = {} /\ \A d \in Drives, f \in Files : archived[d][f] = "none" /\ bytes[d][f] = "none"))
CdStart == CdInit /\ (active = "Cd" \/ cdWorld = CHOOSE w \in CdWorlds : TRUE)
NvStart == NvInit /\ (active = "Nv" \/ nvWorld = CHOOSE w \in NvWorlds : TRUE)
PjStart == PjInit /\ (active = "Pj" \/ pjWorld = CHOOSE w \in PjWorlds : TRUE)
EnStart == EnInit /\ (active = "En" \/ enWorld = CHOOSE w \in EnWorlds : TRUE)

MCInit ==
  /\ active \in {"Fd", "Cd", "Nv", "Pj", "En"}
  /\ FdStart /\ CdStart /\ NvStart /\ PjStart /\ EnStart

MCNext ==
  \/ FdAlone /\ AuthInvalid
  \/ FdAlone /\ Drained
  \/ FdAlone /\ DriveUnavailable
  \/ FdAlone /\ PinBatch
  \/ FdAlone /\ AwaitDrive
  \/ FdAlone /\ StopAtBoundary
  \/ FdAlone /\ FetchBegin
  \/ FdAlone /\ FetchRepo
  \/ FdAlone /\ ModelReturns
  \/ FdAlone /\ CapacityPreflight
  \/ FdAlone /\ DownloadShard
  \/ FdAlone /\ DownloadStopped
  \/ FdAlone /\ OnGated
  \/ FdAlone /\ Verify
  \/ FdAlone /\ PublishStaged
  \/ FdAlone /\ RecordRow
  \/ FdAlone /\ CloseEnvelope
  \/ FdAlone /\ FetchOutcome
  \/ FdAlone /\ ReplicaTask
  \/ FdAlone /\ ReplicaExisting
  \/ FdAlone /\ ReplicaCopy
  \/ FdAlone /\ ReplicaRecord
  \/ FdAlone /\ ReplicaTaskEnds
  \/ FdAlone /\ ReplicaOutcome
  \/ FdAlone /\ BatchBoundary
  \/ FdAlone /\ RequestStop
  \/ FdAlone /\ Crash
  \/ \E guided \in BOOLEAN : FdAlone /\ BeginDrain(guided)
  \/ \E d \in Drives : FdAlone /\ Unmount(d)
  \/ \E d \in Drives : FdAlone /\ Mount(d)
  \/ \E p \in Repos : FdAlone /\ GrantAccess(p)
  \/ CdAlone /\ CdOpen
  \/ CdAlone /\ CdEof
  \/ CdAlone /\ CdTaken
  \/ CdAlone /\ CdGivesUp
  \/ CdAlone /\ CdCancel
  \/ CdAlone /\ CdFeed
  \/ CdAlone /\ CdCloseIn
  \/ CdAlone /\ CdDrain
  \/ CdAlone /\ CdReceive
  \/ CdAlone /\ CdOutEof
  \/ CdAlone /\ CdFinish
  \/ CdAlone /\ CdParentDies
  \/ CdAlone /\ CdBind
  \/ CdAlone /\ CdMeta
  \/ CdAlone /\ CdTake
  \/ CdAlone /\ CdNoisy
  \/ CdAlone /\ CdWork
  \/ CdAlone /\ CdSend
  \/ CdAlone /\ CdStream
  \/ CdAlone /\ CdFailure
  \/ CdAlone /\ CdExit
  \/ CdAlone /\ CdCrash
  \/ NvAlone /\ NvDies
  \/ \E t \in DOMAIN nvRun : NvAlone /\ NvSpawn(t)
  \/ \E t \in DOMAIN nvRun : NvAlone /\ NvReady(t)
  \/ \E t \in DOMAIN nvRun : NvAlone /\ NvUnproven(t)
  \/ \E t \in DOMAIN nvRun : NvAlone /\ NvFinish(t)
  \/ \E t \in DOMAIN nvRun : NvAlone /\ NvLate(t)
  \/ \E t \in DOMAIN nvRun : NvAlone /\ NvKillCgroup(t)
  \/ \E t \in DOMAIN nvRun : NvAlone /\ NvLookCgroup(t)
  \/ \E t \in DOMAIN nvRun : NvAlone /\ NvReap(t)
  \/ \E t \in DOMAIN nvRun : NvAlone /\ NvAdopt(t)
  \/ \E t \in DOMAIN nvRun : NvAlone /\ NvLook(t)
  \/ \E t \in DOMAIN nvRun : NvAlone /\ NvSlay(t)
  \/ \E t \in DOMAIN nvRun : NvAlone /\ NvList(t)
  \/ \E t \in DOMAIN nvRun : NvAlone /\ NvRead(t)
  \/ \E t \in DOMAIN nvRun : NvAlone /\ NvGiveUp(t)
  \/ \E t \in DOMAIN nvRun : NvAlone /\ NvReaped(t)
  \/ \E t \in DOMAIN nvRun : NvAlone /\ NvWait(t)
  \/ \E t \in DOMAIN nvRun : NvAlone /\ NvClose(t)
  \/ \E p \in NvIds : NvAlone /\ Exits(p)
  \/ \E p \in NvIds : NvAlone /\ Leaves(p)
  \/ \E p \in NvIds, q \in NvIds : NvAlone /\ Forks(p, q)
  \/ PjAlone /\ PjApprove
  \/ PjAlone /\ PjBegin
  \/ PjAlone /\ PjClose
  \/ PjAlone /\ PjRefresh
  \/ PjAlone /\ PjEnd
  \/ PjAlone /\ PjCrash
  \/ PjAlone /\ Discover
  \/ PjAlone /\ SelectMore
  \/ PjAlone /\ Returns
  \/ PjAlone /\ PjWithdraw
  \/ PjAlone /\ EditConfig
  \/ \E d \in PjDrives : PjAlone /\ PjBatch(d)
  \/ \E d \in PjDrives : PjAlone /\ PjReconcile(d)
  \/ \E d \in PjDrives : PjAlone /\ Reidentify(d)
  \/ \E f \in PjFiles : PjAlone /\ PjRecord(f)
  \/ \E f \in PjFiles, d \in PjDrives : PjAlone /\ Rewrite(f, d)
  \/ \E r \in DOMAIN pjWorld.files : PjAlone /\ Rediscover(r)
  \/ \E n \in {0, 2} : PjAlone /\ Resize(n)
  \/ EnAlone /\ EnBegin
  \/ EnAlone /\ EnLoad
  \/ EnAlone /\ EnExited
  \/ EnAlone /\ EnStopped
  \/ EnAlone /\ EnStalled
  \/ EnAlone /\ EnLoaded
  \/ EnAlone /\ EnVerify
  \/ EnAlone /\ EnEncode
  \/ EnAlone /\ EnEncoded
  \/ EnAlone /\ EnDrop
  \/ EnAlone /\ EnPublish
  \/ EnAlone /\ LoadBegins
  \/ EnAlone /\ LoadDone
  \/ EnAlone /\ LoadFails
  \/ EnAlone /\ EncBind
  \/ EnAlone /\ EncName
  \/ EnAlone /\ EncCap
  \/ EnAlone /\ EncAbort
  \/ EnAlone /\ EncCanary
  \/ EnAlone /\ EncMemory
  \/ EnAlone /\ EnHang
  \/ EnAlone /\ EnChildDies
  \/ EnAlone /\ EnStop
  \/ EnAlone /\ EnCrash

\* As active never changes, one condition serves one process of every component.
MCSpec ==
  /\ MCInit /\ [][MCNext]_<<active, vars, cdVars, nvVars, pjVars, enVars>>
  /\ WF_<<active, vars, cdVars, nvVars, pjVars, enVars>>(
       \/ FdAlone /\ Step
       \/ CdAlone /\ CdProgress
       \/ NvAlone /\ NvAct("a")
       \/ EnAlone /\ EnStep)
  /\ WF_<<active, vars, cdVars, nvVars, pjVars, enVars>>(
       \/ FdAlone /\ Mount(d1)
       \/ NvAlone /\ NvAct("b")
       \/ EnAlone /\ EnBegin)
  /\ WF_<<active, vars, cdVars, nvVars, pjVars, enVars>>(
       \/ FdAlone /\ Mount(d2)
       \/ NvAlone /\ NvDies)

-----------------------------------------------------------------------------
(***************************************************************************)
(* Whatever is under way ends: a Fill session in a verdict                 *)
(* (_drain_projection), a native command (_reap_group gives up at last), a *)
(* decoder session by cancellation at the latest (_transfer), a file that  *)
(* is fetched again and again in its publication (fetch_model).            *)
(***************************************************************************)
WorkersEnd ==
  (CASE active = "Fd" -> DrainDue [] active = "Cd" -> DecodingDue
     [] active = "Nv" -> CommandsDue [] active = "En" -> TRUE [] OTHER -> FALSE)
  ~> (CASE active = "Fd" -> DrainDone [] active = "Cd" -> DecodingDone
        [] active = "Nv" -> ~CommandsDue [] active = "En" -> EncodingDone [] OTHER -> TRUE)
=============================================================================

----------------------------- MODULE MCArchive -----------------------------
(***************************************************************************)
(* One instance that checks the components which share no variable.  The   *)
(* initial state chooses the one that runs; the others keep still, so the  *)
(* cost is that of each alone.                                             *)
(***************************************************************************)
EXTENDS
  Publication, SliceAuthority, SliceTransfer, MCPlacement

VARIABLE active

MCPubPlans ==
  {[kind |-> "fill", files |-> {1, 2}, packed |-> {2}, target |-> "d1", source |-> "none"],
   [kind |-> "replica", files |-> {1, 2}, packed |-> {}, target |-> "d2", source |-> "d1"]}
MCPubBounds ==
  [fill |-> [crashes |-> 1, fails |-> 1, writes |-> 1, paths |-> 1],
   replica |-> [crashes |-> 2, fails |-> 1, writes |-> 1, paths |-> 1]]

MCSaWorlds ==
  {[device |-> [t \in {"t1", "t2"} |-> IF t = "t1" THEN "d1" ELSE "d2"], fat |-> {}, overlap |-> {{"t1", "t2"}}, left |-> [starts |-> 2, stops |-> 1, crashes |-> 0]],
   [device |-> [t \in {"t1"} |-> "d1"], fat |-> {}, overlap |-> {}, left |-> [starts |-> 2, stops |-> 2, crashes |-> 1]],
   [device |-> [t \in {"t1"} |-> "d1"], fat |-> {}, overlap |-> {}, left |-> [starts |-> 3, stops |-> 0, crashes |-> 1]],
   [device |-> [t \in {"t1"} |-> "d1"], fat |-> {"t1"}, overlap |-> {}, left |-> [starts |-> 3, stops |-> 1, crashes |-> 1]]}

MCStPlans == {[files |-> 2, sources |-> 2, fat |-> FALSE], [files |-> 1, sources |-> 1, fat |-> TRUE]}
MCStBounds == [crashes |-> 2, reads |-> 1, touches |-> 1]

-----------------------------------------------------------------------------
PubAlone == active = "Pub" /\ UNCHANGED <<active, saVars, stVars, plVars>>
SaAlone == active = "Sa" /\ UNCHANGED <<active, pubVars, stVars, plVars>>
StAlone == active = "St" /\ UNCHANGED <<active, pubVars, saVars, plVars>>
PlAlone == active = "Pl" /\ UNCHANGED <<active, pubVars, saVars, stVars>>

\* A component that does not run stays where it starts.
PubStart == PubInit /\ (active = "Pub" \/ pubPlan = CHOOSE p \in PubPlans : TRUE)
SaStart == SaInit /\ (active = "Sa" \/ saWorld = CHOOSE w \in SaWorlds : TRUE)
StStart == StInit /\ (active = "St" \/ stPlan = CHOOSE p \in StPlans : TRUE)
PlStart == PlInit /\ (active = "Pl" \/ plWorld = CHOOSE w \in PlWorlds : TRUE)

MCInit ==
  /\ active \in {"Pub", "Sa", "St", "Pl"}
  /\ PubStart /\ SaStart /\ StStart /\ PlStart

MCNext ==
  \/ PubAlone /\ PrepareOperation
  \/ PubAlone /\ PolicyPrepare
  \/ PubAlone /\ PolicyCreate
  \/ PubAlone /\ PolicyWrite
  \/ PubAlone /\ PolicyRename
  \/ PubAlone /\ PolicyVerify
  \/ PubAlone /\ SetupDone
  \/ PubAlone /\ DirPrepare
  \/ PubAlone /\ DirMake
  \/ PubAlone /\ DirVerify
  \/ PubAlone /\ Acquire
  \/ PubAlone /\ ResumeFile
  \/ PubAlone /\ PrepareFile
  \/ PubAlone /\ InstallPrepare
  \/ PubAlone /\ InstallCopy
  \/ PubAlone /\ InstallRename
  \/ PubAlone /\ InstallVerify
  \/ PubAlone /\ AddPrepare
  \/ PubAlone /\ AddRun
  \/ PubAlone /\ SetkeyPrepare
  \/ PubAlone /\ SetkeyRun
  \/ PubAlone /\ SetkeyVerify
  \/ PubAlone /\ PointerPrepare
  \/ PubAlone /\ PointerLink
  \/ PubAlone /\ PointerVerify
  \/ PubAlone /\ StagePrepare
  \/ PubAlone /\ StageRun
  \/ PubAlone /\ StageVerify
  \/ PubAlone /\ LocalVerify
  \/ PubAlone /\ CommitPrepare
  \/ PubAlone /\ CommitRun
  \/ PubAlone /\ TreeVerify
  \/ PubAlone /\ MetadataPrepare
  \/ PubAlone /\ MetadataRun
  \/ PubAlone /\ CatalogPublish
  \/ PubAlone /\ Published
  \/ PubAlone /\ ReleasePrepare
  \/ PubAlone /\ ReleaseUnlink
  \/ PubAlone /\ ReleaseVerify
  \/ PubAlone /\ Finish
  \/ PubAlone /\ MapPrepare
  \/ PubAlone /\ MapRun
  \/ PubAlone /\ MapVerify
  \/ PubAlone /\ PropagateBatch
  \/ PubAlone /\ CloseOperation
  \/ PubAlone /\ Refuse
  \/ PubAlone /\ PubResume
  \/ PubAlone /\ AcquireFails
  \/ PubAlone /\ AddFails
  \/ PubAlone /\ CheckoutTorn
  \/ PubAlone /\ PubCrash
  \/ PubAlone /\ ForeignWrite
  \/ \E owner \in {"cli", "session"} : PubAlone /\ PubEnter(owner)
  \/ \E f \in PubFiles : PubAlone /\ ForeignPath(f)
  \/ \E t \in SaTxs : SaAlone /\ SaApprove(t)
  \/ \E t \in SaTxs : SaAlone /\ RequestStop(t)
  \/ \E p \in SaProcs, t \in SaTxs : SaAlone /\ StartReserve(p, t)
  \/ \E p \in SaProcs : SaAlone /\ SaAgain(p)
  \/ \E p \in SaProcs : SaAlone /\ Insert(p)
  \/ \E p \in SaProcs : SaAlone /\ AcquireLease(p)
  \/ \E p \in SaProcs : SaAlone /\ Preflight(p)
  \/ \E p \in SaProcs : SaAlone /\ SaTooLate(p)
  \/ \E p \in SaProcs : SaAlone /\ ClaimRefused(p)
  \/ \E p \in SaProcs : SaAlone /\ Claim(p)
  \/ \E p \in SaProcs : SaAlone /\ CheckDestination(p)
  \/ \E p \in SaProcs : SaAlone /\ Activate(p)
  \/ \E p \in SaProcs : SaAlone /\ StopDelivery(p)
  \/ \E p \in SaProcs : SaAlone /\ AppendRecord(p)
  \/ \E p \in SaProcs : SaAlone /\ Verifying(p)
  \/ \E p \in SaProcs : SaAlone /\ CompleteRelease(p)
  \/ \E p \in SaProcs : SaAlone /\ CompleteCommit(p)
  \/ \E p \in SaProcs : SaAlone /\ CloseDelivery(p)
  \/ \E p \in SaProcs : SaAlone /\ AskAfterInterrupt(p)
  \/ \E p \in SaProcs : SaAlone /\ Unexpected(p)
  \/ \E p \in SaProcs : SaAlone /\ InterruptPreclaim(p)
  \/ \E p \in SaProcs : SaAlone /\ InterruptStart(p)
  \/ \E p \in SaProcs : SaAlone /\ SaCrash(p)
  \/ \E p \in SaProcs : SaAlone /\ WaitDelivery(p)
  \/ \E p \in SaProcs, o \in {"waiting", "failed"} : SaAlone /\ RefusePreclaim(p, o)
  \/ \E p \in SaProcs, o \in {"waiting", "failed"} : SaAlone /\ RefuseDelivery(p, o)
  \/ StAlone /\ StartSession
  \/ StAlone /\ AuditStart
  \/ StAlone /\ FirstIntent
  \/ StAlone /\ MakeDirectory
  \/ StAlone /\ CertifyDirectory
  \/ StAlone /\ OwnRecord
  \/ StAlone /\ ResumeOrRead
  \/ StAlone /\ OpenSource
  \/ StAlone /\ NoSource
  \/ StAlone /\ ClearProof
  \/ StAlone /\ DiscardOld
  \/ StAlone /\ CreateTemp
  \/ StAlone /\ WriteChunk
  \/ StAlone /\ RecordPrepared
  \/ StAlone /\ PublishObject
  \/ StAlone /\ RecordComplete
  \/ StAlone /\ DiscardTemp
  \/ StAlone /\ Step
  \/ StAlone /\ VerifyAll
  \/ StAlone /\ FinishDelivery
  \/ StAlone /\ SourceFails
  \/ StAlone /\ ReadFails
  \/ StAlone /\ StCrash
  \/ \E x \in StPaths \ {Root}, b \in {"none", "bad", "foreign"} : StAlone /\ Touch(x, b)
  \/ PlAlone /\ TargetChanged
  \/ PlAlone /\ Structural
  \/ PlAlone /\ SearchKnown
  \/ PlAlone /\ Backtrack
  \/ PlAlone /\ OutOfStates
  \/ PlAlone /\ RecordWhole
  \/ PlAlone /\ Descend
  \/ PlAlone /\ Improve
  \/ PlAlone /\ KnownTruncated
  \/ PlAlone /\ KnownInfeasible
  \/ PlAlone /\ UnknownMayHelp
  \/ PlAlone /\ SearchOptimistic
  \/ PlAlone /\ JudgeOptimistic
  \/ PlAlone /\ JudgeImproved
  \/ PlAlone /\ PublishRaw
  \/ PlAlone /\ PublishEncoded
  \/ PlAlone /\ PlanDone
  \/ PlAlone /\ PreviewAgain
  \/ PlAlone /\ Approve
  \/ PlAlone /\ EncodeSome
  \/ \E t \in plVerdict.plan : PlAlone /\ \E f \in t.missing : Download(t, f)
  \/ \E t \in plVerdict.plan : PlAlone /\ \E f \in t.missing : CapacityStop(t, f)
  \/ \E t \in plVerdict.plan : PlAlone /\ \E f \in t.missing : CopyReplica(t, f)
  \/ PlAlone /\ ShadowRead
  \/ \E held \in plWorld.contended : PlAlone /\ PreviewPlan(held)
  \/ \E held \in plWorld.contended : PlAlone /\ ShadowEvidence(held)
  \/ \E d \in Labels : PlAlone /\ Reclassify(d)
  \/ \E d \in Labels : PlAlone /\ Mount(d)

\* As active never changes, one condition serves one process of every component.
MCSpec ==
  /\ MCInit /\ [][MCNext]_<<active, pubVars, saVars, stVars, plVars>>
  /\ WF_<<active, pubVars, saVars, stVars, plVars>>(
       \/ PubAlone /\ (PubStep \/ PubResume)
       \/ SaAlone /\ SaAct("p1")
       \/ StAlone /\ StAct
       \/ PlAlone /\ PlStep)
  /\ WF_saVars(SaAlone /\ SaAct("p2"))
=============================================================================

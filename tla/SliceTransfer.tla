--------------------------- MODULE SliceTransfer ---------------------------
(***************************************************************************)
(* The delivery of one slice by one session at a time (SliceAuthority says *)
(* why): slice.transaction.Session, its journal of operations, and what    *)
(* the destination port does to the output folder.  The process may die    *)
(* between any two steps, a source may fail, and somebody else may touch   *)
(* the destination.                                                        *)
(*                                                                         *)
(* A native port (destination.UsbDestination, NativeFolderDestination)     *)
(* certifies what it creates and syncs before each call returns, so that a *)
(* call interrupted by a crash has happened or has not; creating the       *)
(* directory alone can be seen half done.  The FAT port (Fat32Destination) *)
(* owns what its open descriptors name: no later process owns it.          *)
(* Root is the chain of directories of the output.  A file has one       *)
(* chunk.                                                                  *)
(***************************************************************************)
EXTENDS Integers, FiniteSets, FiniteSetsExt

CONSTANTS
  StPlans,   \* number of files, of sources of each; on FAT or not
  StBounds   \* crashes, failing reads, acts of somebody else

ASSUME SliceTransferBounds ==
  /\ \A plan \in StPlans : plan.files \in Nat /\ plan.sources \in Nat /\ plan.fat \in BOOLEAN
  /\ StBounds \in [crashes : Nat, reads : Nat, touches : Nat]

VARIABLES
  stPlan,
  stState,   \* the transaction's state
  stOp,      \* the last operation record of each path
  stTemp,    \* the temporary of each path
  stFinal,   \* the object at each path
  stRun,     \* the session: where it is, on which path, the sources it tried
  stTouched, \* observer: final objects somebody else touched since they were last verified
  stLeft

stVars == <<stPlan, stState, stOp, stTemp, stFinal, stRun, stTouched, stLeft>>

StFiles == 1..stPlan.files
StSources == 1..stPlan.sources
Root == -2
ControlPath == -1
Receipt == 0
StPaths == {Root, ControlPath, Receipt} \cup StFiles

\* Where the bytes of an object come from: a source, or the program itself.
OwnBytes == 0
NoBytes == [bytes |-> "none", from |-> OwnBytes]
NoOp == [state |-> "none", src |-> OwnBytes, sha |-> <<>>]
StDown == [pc |-> "down", cur |-> Root, tried |-> {}, checked |-> {}]

StInit ==
  /\ stPlan \in StPlans
  /\ stState = "approved"
  /\ stOp = [x \in StPaths |-> NoOp]
  /\ stTemp = [x \in StPaths |-> NoBytes]
  /\ stFinal = [x \in StPaths |-> NoBytes]
  /\ stRun = StDown
  /\ stTouched = {}
  /\ stLeft = StBounds

StTypeOK ==
  /\ stState \in {"approved", "transferring", "verifying", "waiting", "failed", "complete"}
  /\ \A x \in StPaths :
       /\ stOp[x].state \in {"none", "intent", "prepared", "complete"}
       /\ stOp[x].src \in StSources \cup {OwnBytes}
       /\ stTemp[x].bytes \in {"none", "part", "good"}
       /\ stFinal[x].bytes \in {"none", "bare", "good", "bad", "foreign"}
  \* a session delivers, and only a session does
  /\ stRun.pc # "down" => stState \in {"transferring", "verifying"}
  /\ stRun.cur \in StPaths /\ stRun.tried \subseteq StSources
  \* only the tail of a publication has a temporary besides the object it became
  /\ \A x \in StPaths : stTemp[x].bytes # "none" /\ stFinal[x].bytes = "good" => stOp[x].state # "none"

-----------------------------------------------------------------------------
(* Helpers                                                                 *)

StAt(pc) == stRun.pc = pc
X == stRun.cur
StGo(pc) == stRun' = [stRun EXCEPT !.pc = pc]
StOn(pc, x) == stRun' = [stRun EXCEPT !.pc = pc, !.cur = x, !.tried = {}]
OnlyRun == UNCHANGED <<stPlan, stState, stOp, stTemp, stFinal, stTouched, stLeft>>

\* _record: the journal's new head.
Record(x, op) == stOp' = [stOp EXCEPT ![x] = op]

\* A refusal ends the session; the state is refusal_state of its code.
Refusal(state) ==
  /\ stState' = state /\ stRun' = StDown
  /\ UNCHANGED <<stPlan, stOp, stTemp, stFinal, stTouched, stLeft>>

\* inspect and _owned: what is not ours is a collision.
Alien(x) == stFinal[x].bytes \in {"foreign", "bare"}
OwnedFinal(x) == stFinal[x].bytes \in {"good", "bad"}
OwnedTemp(x) == stTemp[x].bytes # "none"

\* _verify_control, at the checks of every operation.
ControlHolds == stOp[ControlPath].state = "complete" => stFinal[ControlPath].bytes = "good"

\* _audit_layout: everything in the output is journalled and ours.
LayoutClean == \A x \in StPaths : ~Alien(x) /\ (OwnedFinal(x) => stOp[x].state # "none")

\* The bytes of the receipt name the source of each file.
ReceiptBytes == [f \in StFiles |-> stOp[f].src]

-----------------------------------------------------------------------------
(* Start, the output directory, the control record.                        *)

\* A FAT delivery never starts twice: its port cannot be bound again.
FatFresh == stPlan.fat => stState = "approved"

\* Mutant: a delivery that was verifying is not taken up again.
StartSession_NotVerifying ==
  /\ StAt("down") /\ stState \in {"approved", "transferring", "waiting"}
  /\ FatFresh
  /\ stState' = "transferring"
  /\ StOn("audit", Root)
  /\ UNCHANGED <<stPlan, stOp, stTemp, stFinal, stTouched, stLeft>>

\* transaction.start, once the attempt is claimed.  Nothing settled is started again.
StartSession ==
  /\ StAt("down") /\ stState \in {"approved", "transferring", "verifying", "waiting"}
  /\ FatFresh
  /\ stState' = "transferring"
  /\ StOn("audit", Root)
  /\ UNCHANGED <<stPlan, stOp, stTemp, stFinal, stTouched, stLeft>>

AuditStart ==
  /\ StAt("audit")
  /\ IF ~LayoutClean THEN Refusal("failed") ELSE StOn("op", Root) /\ OnlyRun

\* _op: the first record of a path, when nothing is there.
FirstIntent ==
  /\ StAt("op") /\ stOp[X].state = "none"
  /\ IF stFinal[X].bytes # "none" \/ ~ControlHolds THEN Refusal("failed")
     ELSE /\ Record(X, [state |-> "intent", src |-> OwnBytes, sha |-> IF X = Receipt THEN ReceiptBytes ELSE <<>>])
          /\ UNCHANGED <<stPlan, stState, stTemp, stFinal, stRun, stTouched, stLeft>>

\* A FAT directory is owned as soon as it is open.
MadeDirectory == IF stPlan.fat THEN "good" ELSE "bare"

\* create_directory: mkdir ...
MakeDirectory ==
  /\ StAt("op") /\ X = Root /\ stOp[X].state # "none"
  /\ CASE Alien(X) \/ ~ControlHolds -> Refusal("failed")
       [] OwnedFinal(X) /\ stOp[X].state = "complete" -> StOn("op", ControlPath) /\ OnlyRun
       [] OwnedFinal(X) /\ stOp[X].state = "intent" -> StGo("complete") /\ OnlyRun
       [] OTHER -> /\ stFinal' = [stFinal EXCEPT ![X].bytes = MadeDirectory]
                   /\ StGo(IF MadeDirectory = "bare" THEN "certify" ELSE "complete")
                   /\ UNCHANGED <<stPlan, stState, stOp, stTemp, stTouched, stLeft>>

\* ... then the owner mark and the certificate.
CertifyDirectory ==
  /\ StAt("certify")
  /\ stFinal' = [stFinal EXCEPT ![X].bytes = IF @ = "bare" THEN "good" ELSE @]
  /\ StGo("complete")
  /\ UNCHANGED <<stPlan, stState, stOp, stTemp, stTouched, stLeft>>

\* The control record and the receipt are published when prepared, written otherwise.  The
\* receipt of another set of sources is not the journalled one.
OwnRecord ==
  /\ StAt("op") /\ X \in {ControlPath, Receipt} /\ stOp[X].state # "none"
  /\ IF X = Receipt /\ stOp[X].sha # ReceiptBytes THEN Refusal("failed")
     ELSE StGo(IF stOp[X].state = "intent" THEN "write" ELSE "publish") /\ OnlyRun

-----------------------------------------------------------------------------
(* One file.                                                               *)

\* _file: go on from the journal and from what is there.
ResumeOrRead ==
  /\ StAt("op") /\ X \in StFiles /\ stOp[X].state # "none"
  /\ IF Alien(X) \/ (stOp[X].state = "intent" /\ stFinal[X].bytes # "none") THEN Refusal("failed")
     ELSE /\ StGo(IF stOp[X].state # "intent" /\ (OwnedFinal(X) \/ OwnedTemp(X)) THEN "publish" ELSE "source")
          /\ OnlyRun

\* The sealed sources are tried in their order.
NextSource == Cardinality(stRun.tried) + 1

\* One opens, is the approved one, and its bytes are read ...
OpenSource ==
  /\ StAt("source") /\ NextSource <= stPlan.sources
  /\ stRun' = [stRun EXCEPT !.pc = "write", !.tried = @ \cup {NextSource}]
  /\ OnlyRun

\* ... or it is busy, gone, changed, or not attached for now.
SourceFails ==
  /\ StAt("source") /\ NextSource <= stPlan.sources /\ stLeft.reads > 0
  /\ stRun' = [stRun EXCEPT !.tried = @ \cup {NextSource}]
  /\ stLeft' = [stLeft EXCEPT !.reads = @ - 1]
  /\ UNCHANGED <<stPlan, stState, stOp, stTemp, stFinal, stTouched>>

\* No source is left: an attended wait or block.
NoSource == StAt("source") /\ stRun.tried = StSources /\ Refusal("waiting")

\* Mutant: the old proof stays in the journal while new bytes are written.
ClearProof_Later ==
  /\ StAt("write")
  /\ IF stFinal[X].bytes # "none" \/ ~ControlHolds THEN Refusal("failed")
     ELSE /\ stTemp' = [stTemp EXCEPT ![X] = NoBytes]
          /\ StGo("create")
          /\ UNCHANGED <<stPlan, stState, stOp, stFinal, stTouched, stLeft>>

\* _write: the old proof is cleared before a byte of the temporary changes.
ClearProof ==
  /\ StAt("write")
  /\ IF stFinal[X].bytes # "none" \/ ~ControlHolds THEN Refusal("failed")
     ELSE Record(X, [stOp[X] EXCEPT !.state = "intent", !.src = OwnBytes])
          /\ StGo("create") /\ UNCHANGED <<stPlan, stState, stTemp, stFinal, stTouched, stLeft>>

\* The temporary of this operation is discarded and created anew.
DiscardOld ==
  /\ StAt("create") /\ OwnedTemp(X)
  /\ stTemp' = [stTemp EXCEPT ![X] = NoBytes]
  /\ UNCHANGED <<stPlan, stState, stOp, stFinal, stRun, stTouched, stLeft>>

\* The source of the bytes of this write: the last one tried.
Reading == IF X \in StFiles THEN Max(stRun.tried) ELSE OwnBytes

CreateTemp ==
  /\ StAt("create") /\ ~OwnedTemp(X)
  /\ stTemp' = [stTemp EXCEPT ![X] = [bytes |-> "part", from |-> Reading]]
  /\ StGo("chunk")
  /\ UNCHANGED <<stPlan, stState, stOp, stFinal, stTouched, stLeft>>

\* append, and the digest at the end of the stream.
WriteChunk ==
  /\ StAt("chunk")
  /\ stTemp' = [stTemp EXCEPT ![X].bytes = "good"]
  /\ StGo("prepare")
  /\ UNCHANGED <<stPlan, stState, stOp, stFinal, stTouched, stLeft>>

\* A read fails, or the digest is not the sealed one: the next source is tried.
ReadFails ==
  /\ StAt("chunk") /\ X \in StFiles /\ stLeft.reads > 0
  /\ StGo("source") /\ stLeft' = [stLeft EXCEPT !.reads = @ - 1]
  /\ UNCHANGED <<stPlan, stState, stOp, stTemp, stFinal, stTouched>>

\* Flushed and proven: the journal says from which source.
RecordPrepared ==
  /\ StAt("prepare")
  /\ Record(X, [stOp[X] EXCEPT !.state = "prepared", !.src = Reading])
  /\ StGo("publish")
  /\ UNCHANGED <<stPlan, stState, stTemp, stFinal, stTouched, stLeft>>

\* FAT publishes by renaming, the native port by a second link to the temporary.
AfterPublish == IF stPlan.fat THEN [stTemp EXCEPT ![X] = NoBytes] ELSE stTemp

\* Mutant: a rename that replaces what is there.
PublishObject_Replace ==
  /\ StAt("publish") /\ stTemp[X].bytes = "good"
  /\ stFinal' = [stFinal EXCEPT ![X] = stTemp[X]]
  /\ stTemp' = AfterPublish
  /\ StGo("complete")
  /\ UNCHANGED <<stPlan, stState, stOp, stTouched, stLeft>>

\* _publish: link (FAT: rename) without replacing, after the temporary is read again; or
\* read again what an earlier attempt published.
PublishObject ==
  /\ StAt("publish")
  /\ CASE stFinal[X].bytes = "none" /\ stTemp[X].bytes = "good" /\ ControlHolds ->
            /\ stFinal' = [stFinal EXCEPT ![X] = stTemp[X]]
            /\ stTemp' = AfterPublish
            /\ StGo("complete") /\ UNCHANGED <<stPlan, stState, stOp, stTouched, stLeft>>
       [] stFinal[X].bytes = "good" /\ ControlHolds -> StGo("complete") /\ OnlyRun
       [] OTHER -> Refusal("failed")

\* The parent is flushed, the record is complete.
RecordComplete ==
  /\ StAt("complete")
  /\ Record(X, [stOp[X] EXCEPT !.state = "complete"])
  /\ StGo("discard")
  /\ UNCHANGED <<stPlan, stState, stTemp, stFinal, stTouched, stLeft>>

\* The temporary link goes; a file just verified is not read again by this session.
DiscardTemp ==
  /\ StAt("discard")
  /\ stTemp' = [stTemp EXCEPT ![X] = NoBytes]
  /\ stRun' = [stRun EXCEPT !.pc = IF X = Receipt THEN "receipt" ELSE IF X = Root THEN "op" ELSE "step",
                            !.cur = IF X = Root THEN ControlPath ELSE X,
                            !.checked = IF X \in StFiles THEN @ \cup {X} ELSE @]
  /\ UNCHANGED <<stPlan, stState, stOp, stFinal, stTouched, stLeft>>

-----------------------------------------------------------------------------
(* Session.step: audit, the first file that is not done, or the end.       *)

StDone(f) == stOp[f].state = "complete" /\ OwnedFinal(f)

Step ==
  /\ StAt("step")
  /\ LET todo == {f \in StFiles : ~StDone(f)}
         before == {f \in StFiles : todo # {} => f < Min(todo)}
     IN CASE ~LayoutClean \/ ~ControlHolds
             \/ (\E f \in before \ stRun.checked : stFinal[f].bytes # "good") -> Refusal("failed")
          \* a link left beside a complete file
          [] \E f \in before : OwnedTemp(f) -> StOn("publish", Min({f \in before : OwnedTemp(f)})) /\ OnlyRun
          [] todo # {} -> StOn("op", Min(todo)) /\ OnlyRun
          [] OTHER -> StGo("verify") /\ OnlyRun

\* _finish: every file is read once more, then the receipt.
VerifyAll ==
  /\ StAt("verify")
  /\ IF /\ stOp[ControlPath].state = "complete" /\ ControlHolds /\ LayoutClean
        /\ \A f \in StFiles : stOp[f].state = "complete" /\ stFinal[f].bytes = "good" /\ stOp[f].src # OwnBytes
     THEN /\ stState' = "verifying" /\ StOn("op", Receipt) /\ stTouched' = stTouched \ StFiles
          /\ UNCHANGED <<stPlan, stOp, stTemp, stFinal, stLeft>>
     ELSE Refusal("failed")

\* The receipt event, then the completion of the transaction.
FinishDelivery ==
  /\ StAt("receipt") /\ stState' = "complete" /\ stRun' = StDown
  /\ UNCHANGED <<stPlan, stOp, stTemp, stFinal, stTouched, stLeft>>

-----------------------------------------------------------------------------
(* Crashes, and somebody else at the destination.                          *)

StCrash ==
  /\ ~StAt("down") /\ stLeft.crashes > 0
  /\ stRun' = StDown /\ stLeft' = [stLeft EXCEPT !.crashes = @ - 1]
  /\ UNCHANGED <<stPlan, stState, stOp, stTemp, stFinal, stTouched>>

\* An object appears where there was none, disappears, or its bytes change.
Touch(x, bytes) ==
  /\ stLeft.touches > 0 /\ stFinal[x].bytes \in {"none", "good"}
  /\ bytes = "foreign" <=> stFinal[x].bytes = "none"
  /\ stFinal' = [stFinal EXCEPT ![x] = IF bytes = "none" THEN NoBytes ELSE [@ EXCEPT !.bytes = bytes]]
  /\ stTouched' = stTouched \cup {x} /\ stLeft' = [stLeft EXCEPT !.touches = @ - 1]
  /\ UNCHANGED <<stPlan, stState, stOp, stTemp, stRun>>

StAct ==
  \/ StartSession \/ AuditStart \/ FirstIntent \/ MakeDirectory \/ CertifyDirectory \/ OwnRecord
  \/ ResumeOrRead \/ OpenSource \/ NoSource
  \/ ClearProof \/ DiscardOld \/ CreateTemp \/ WriteChunk \/ RecordPrepared \/ PublishObject
  \/ RecordComplete \/ DiscardTemp \/ Step \/ VerifyAll \/ FinishDelivery

StNext ==
  \/ StAct
  \/ SourceFails \/ ReadFails \/ StCrash
  \/ \E x \in StPaths \ {Root}, b \in {"none", "bad", "foreign"} : Touch(x, b)

StSpec == StInit /\ [][StNext]_stVars

\* The operator starts again what was interrupted, and the program goes on.
FairStSpec == StSpec /\ WF_stVars(StAct)

-----------------------------------------------------------------------------
(* Properties                                                              *)

\* What the receipt of a completed delivery says is true: every file is there, whole, and
\* its bytes were read from the source it names (Session._finish; sha256-original-bytes).
ReceiptIsTrue ==
  stState = "complete" =>
    /\ \A f \in StFiles \ stTouched : stFinal[f] = [bytes |-> "good", from |-> stOp[f].src] /\ stOp[f].src # OwnBytes
    /\ stOp[Receipt].sha = ReceiptBytes

\* A prepared or complete record attributes the bytes on the disk to the source they were
\* read from, whatever was lost and written again in between (Session._write, "a crash
\* cannot attribute new bytes to an old read").
BytesAttributed ==
  \A f \in StFiles : stOp[f].state \in {"prepared", "complete"} =>
    /\ stTemp[f].bytes = "good" => stTemp[f].from = stOp[f].src
    /\ stFinal[f].bytes = "good" => stFinal[f].from = stOp[f].src

\* Crashes alone never make a delivery fail: whatever was half done is resumed.  Only an
\* act of somebody else does, or a directory made but not yet certified, which the program
\* cannot tell from such an act (Session._publish, _file; RECOVERY_DIGEST_MISMATCH).
CrashesDoNotFail ==
  stState = "failed" /\ stFinal[Root].bytes # "bare" => stLeft.touches < StBounds.touches

\* The journal and the receipt tell what was read and where it is, after every crash.
RecordsTrue == StTypeOK /\ ReceiptIsTrue /\ BytesAttributed /\ CrashesDoNotFail

\* The program never changes, replaces or removes an object at a final path: what it
\* publishes and what others put there stays (link_fd and rename_noreplace; "FileExistsError").
FinalsOnlyAppear ==
  [][\A x \in StPaths : stFinal'[x] # stFinal[x] =>
       stFinal[x].bytes \in {"none", "bare"} \/ stLeft'.touches < stLeft.touches]_stVars

\* A delivery settles, waits for a source, or (FAT) has lost its only attempt, when the
\* operator keeps starting it: no crash leaves it unable to go on (operator.start).
DeliverySettles ==
  <>[](stState \in {"complete", "failed"} \/ (stPlan.fat /\ StAt("down")))
=============================================================================

------------------------------ MODULE Encoding ------------------------------
(***************************************************************************)
(* How one file of a Fill gets from the Hub to what is published: a        *)
(* download child, the digest of what it left, a compressing child that    *)
(* decodes its own output (the canary), and the choice between the encoded *)
(* and the raw file (fetch._download_shard, _run_monitored,                *)
(* _compress_isolated, fetch_model; compress_worker.run).  Both children   *)
(* inherit the drive's fence.  They may hang, die by a signal, or outlive  *)
(* the process; the stage directory keeps whatever they leave.             *)
(*                                                                         *)
(* A content is "A", the Hub's, or "B", a corrupt download; an encoded     *)
(* file is what it decodes to.  That hf_hub_download returns a file that   *)
(* is there as downloaded is the library's behaviour.                      *)
(***************************************************************************)
EXTENDS Naturals

CONSTANTS
  EnWorlds,  \* whether the Hub names a digest, what the codec makes of the file, and what
             \* may happen once
  EnTries    \* attempts of a download in one run (_DL_RETRIES)

EnFaults == {"die", "signal", "corrupt", "stop", "hang", "memory", "slow", "error", "transient", "refused"}
ASSUME EnWorldsAssumption ==
  /\ EnTries \in Nat
  /\ EnWorlds \subseteq [hub : BOOLEAN, codec : {"none", "sound", "flawed", "aborts", "grows"},
                        faults : SUBSET EnFaults]

VARIABLES
  enWorld,
  enStage,   \* the downloaded file, its encoded form, a temporary of a dead encoder
  enChild,   \* the child, what it reported and how it ended
  enParent,  \* the thread that fetches
  enKept     \* what was published, or "none"; history: the content last verified

enVars == <<enWorld, enStage, enChild, enParent, enKept>>

EnInit ==
  /\ enWorld \in EnWorlds
  /\ enStage = [orig |-> "none", znn |-> "none", tmp |-> FALSE]
  /\ enChild = [kind |-> "none", at |-> "ended", said |-> "nothing", code |-> "zero", hung |-> FALSE]
  /\ enParent = [at |-> "down", tries |-> 0, got |-> "none", out |-> "none", stop |-> FALSE]
  /\ enKept = [form |-> "none", of |-> "none", digest |-> "none", seen |-> "none"]

ChildAlive == enChild.at # "ended"
May(f) == f \in enWorld.faults
Once(f) == May(f) /\ enWorld' = [enWorld EXCEPT !.faults = @ \ {f}]
Calm == UNCHANGED enWorld
To(at) == enParent' = [enParent EXCEPT !.at = at]
\* Every failure, and a stop, leaves the stage as it is for the next run.
Gives == enParent' = [enParent EXCEPT !.at = "down"]
Spawn(kind) ==
  enChild' = [kind |-> kind, at |-> "start", said |-> "nothing", code |-> "zero", hung |-> FALSE]
\* A child that dies while it writes leaves its temporary behind.
ChildEnds(code) == enChild' = [enChild EXCEPT !.at = "ended", !.code = code]
Torn == enStage' = [enStage EXCEPT !.tmp = @ \/ enChild.at = "write"]

-----------------------------------------------------------------------------
(* The thread that fetches (fetch_model), for a file that is not archived. *)

\* The drive's fence is free only when no earlier child has it.
EnBegin ==
  /\ enParent.at = "down" /\ ~ChildAlive /\ enKept.form = "none"
  /\ enParent' = [at |-> "load", tries |-> 0, got |-> "none", out |-> "none", stop |-> FALSE]
  /\ UNCHANGED <<enWorld, enStage, enChild, enKept>>

EnLoad ==
  /\ enParent.at = "load"
  /\ IF enParent.stop \/ enParent.tries = EnTries
     THEN Gives /\ UNCHANGED enChild
     ELSE /\ Spawn("load")
          /\ enParent' = [enParent EXCEPT !.at = "watch", !.tries = @ + 1]
  /\ UNCHANGED <<enWorld, enStage, enKept>>

\* _run_monitored: the child's end is seen at the next sample; before that a stop, or a window
\* without growth of its file, kills it.  During the canary nothing grows.
EnExited ==
  /\ enParent.at = "watch" /\ ~ChildAlive
  /\ enParent' = [enParent EXCEPT !.at = "read", !.out = "exited"]
  /\ UNCHANGED <<enWorld, enStage, enChild, enKept>>

NoGrowth_Growing == enChild.hung /\ enChild.at \in {"part", "write"}  \* Mutant: only a file that was growing can stall.
NoGrowth == enChild.hung \/ (enChild.at = "canary" /\ May("slow"))
Killed(out) ==
  /\ enParent.at = "watch" /\ enParent' = [enParent EXCEPT !.at = "read", !.out = out]
  /\ IF ChildAlive THEN ChildEnds("signal") /\ Torn ELSE UNCHANGED <<enChild, enStage>>
  /\ UNCHANGED <<enWorld, enKept>>
EnStopped == enParent.stop /\ Killed("stopped")
EnStalled == NoGrowth /\ Killed("stalled")

Reported(said) == enParent.out = "exited" /\ enChild.code = "zero" /\ enChild.said = said
Reading(kind) == enParent.at = "read" /\ enChild.kind = kind
EnLoaded ==
  /\ Reading("load")
  /\ CASE Reported("ok") -> To("verify")
       [] Reported("refused") \/ enParent.out = "stopped" -> Gives
       [] OTHER -> To("load")
  /\ UNCHANGED <<enWorld, enStage, enChild, enKept>>

HubAgrees_Any == TRUE  \* Mutant: only the local digest is taken.
HubAgrees == enWorld.hub => enStage.orig = "A"
EnVerify ==
  /\ enParent.at = "verify"
  /\ IF ~HubAgrees
     THEN Gives /\ UNCHANGED enKept
     ELSE /\ enParent' = [enParent EXCEPT !.at = IF enWorld.codec = "none" THEN "raw" ELSE "encode",
                                          !.got = enStage.orig]
          /\ enKept' = [enKept EXCEPT !.seen = enStage.orig]
  /\ UNCHANGED <<enWorld, enStage, enChild>>

\* Refused for memory before the child, the stage is not even looked at.
EnEncode ==
  /\ enParent.at = "encode"
  /\ \/ enParent.stop /\ Gives /\ Calm /\ UNCHANGED enChild
     \/ ~enParent.stop /\ Once("memory") /\ To("raw") /\ UNCHANGED enChild
     \/ ~enParent.stop /\ Spawn("encode") /\ To("watch") /\ Calm
  /\ UNCHANGED <<enStage, enKept>>

\* What the child reported counts; what one left that did not report is swept.
Swept == [enStage EXCEPT !.tmp = FALSE, !.znn = "none"]
Left == IF enParent.out = "exited" /\ enChild.code = "zero" THEN enStage ELSE Swept
RawAfter ==
  \/ \E said \in {"cap", "resource"} : Reported(said)
  \/ enParent.out = "stalled"
  \/ enParent.out = "exited" /\ enChild.code = "signal"
Certified_Output == Reported("ok") \/ enStage.znn # "none"  \* Mutant: an output that has its name is a certified one.
Certified == Reported("ok")
EnEncoded ==
  /\ Reading("encode")
  /\ enStage' = Left
  /\ CASE Certified -> To("drop") [] RawAfter -> To("raw") [] OTHER -> Gives
  /\ UNCHANGED <<enWorld, enChild, enKept>>

\* The original goes when its encoding is certified.
EnDrop ==
  /\ enParent.at = "drop" /\ enStage' = [enStage EXCEPT !.orig = "none"] /\ To("encoded")
  /\ UNCHANGED <<enWorld, enChild, enKept>>

EnPublish ==
  /\ enParent.at \in {"raw", "encoded"} /\ Gives
  /\ LET from == IF enParent.at = "raw" THEN "orig" ELSE "znn"
     IN /\ enKept' = [enKept EXCEPT !.form = enParent.at, !.of = enStage[from], !.digest = enParent.got]
        /\ enStage' = [enStage EXCEPT ![from] = "none"]
  /\ UNCHANGED <<enWorld, enChild>>

-----------------------------------------------------------------------------
(* The download child (download_worker.run). *)
EnStarted(kind) == enChild.kind = kind /\ ~enChild.hung
EnSays(said) == enChild' = [enChild EXCEPT !.at = "ended", !.said = said]

LoadBegins ==
  /\ EnStarted("load") /\ enChild.at = "start"
  /\ IF enStage.orig = "none" THEN enChild' = [enChild EXCEPT !.at = "part"] ELSE EnSays("ok")
  /\ UNCHANGED <<enWorld, enStage, enParent, enKept>>

LoadDone ==
  /\ EnStarted("load") /\ enChild.at = "part" /\ EnSays("ok")
  /\ \/ Calm /\ enStage' = [enStage EXCEPT !.orig = "A"]
     \/ Once("corrupt") /\ enStage' = [enStage EXCEPT !.orig = "B"]
  /\ UNCHANGED <<enParent, enKept>>

LoadFails ==
  /\ EnStarted("load") /\ ChildAlive
  /\ \E f \in {"transient", "refused"} : Once(f) /\ EnSays(f)
  /\ UNCHANGED <<enStage, enParent, enKept>>

-----------------------------------------------------------------------------
(* The compressing child (compress_worker.main). *)

\* initialize_worker: bound to the parent's death, and then a look whether it came first.
OrphanSeen_No == FALSE  \* Mutant: the race before the binding is not checked.
OrphanSeen == enParent.at = "down"
EncBind ==
  /\ EnStarted("encode") /\ enChild.at = "start"
  /\ IF OrphanSeen THEN ChildEnds("error") ELSE enChild' = [enChild EXCEPT !.at = "write"]
  /\ UNCHANGED <<enWorld, enStage, enParent, enKept>>

\* The output gets its name once it is complete.
EncName ==
  /\ EnStarted("encode") /\ enChild.at = "write" /\ enWorld.codec \in {"sound", "flawed"}
  /\ enChild' = [enChild EXCEPT !.at = "canary"]
  /\ enStage' = [enStage EXCEPT !.znn = IF enWorld.codec = "sound" THEN enStage.orig ELSE "bad"]
  /\ UNCHANGED <<enWorld, enParent, enKept>>

EncCap ==
  /\ EnStarted("encode") /\ enChild.at = "write" /\ enWorld.codec = "grows" /\ EnSays("cap")
  /\ enStage' = [enStage EXCEPT !.znn = "none"]
  /\ UNCHANGED <<enWorld, enParent, enKept>>

\* A native abort, which no handler sees.
EncAbort ==
  /\ EnStarted("encode") /\ enChild.at = "write" /\ enWorld.codec = "aborts"
  /\ ChildEnds("signal") /\ Torn
  /\ UNCHANGED <<enWorld, enParent, enKept>>

RoundTrips_Complete == enStage.znn # "none"  \* Mutant: the output is complete.
RoundTrips == enStage.znn = enParent.got
EncCanary ==
  /\ EnStarted("encode") /\ enChild.at = "canary"
  /\ IF RoundTrips THEN EnSays("ok") /\ UNCHANGED enStage
     ELSE EnSays("canary") /\ enStage' = [enStage EXCEPT !.znn = "none"]
  /\ UNCHANGED <<enWorld, enParent, enKept>>

\* Memory refused by the guard, to the codec or to the canary.
EncMemory ==
  /\ EnStarted("encode") /\ ChildAlive /\ enChild.at # "start" /\ Once("memory") /\ EnSays("resource")
  /\ enStage' = [enStage EXCEPT !.znn = "none"]
  /\ UNCHANGED <<enParent, enKept>>

-----------------------------------------------------------------------------
EnHang ==
  /\ ChildAlive /\ Once("hang") /\ enChild' = [enChild EXCEPT !.hung = TRUE]
  /\ UNCHANGED <<enStage, enParent, enKept>>

\* An exception nobody expects removes the temporary, a signal does not.
EnChildDies ==
  /\ ChildAlive
  /\ \/ Once("signal") /\ ChildEnds("signal") /\ Torn
     \/ Once("error") /\ ~enChild.hung /\ ChildEnds("error") /\ UNCHANGED enStage
  /\ UNCHANGED <<enParent, enKept>>

EnStop ==
  /\ enParent.at # "down" /\ Once("stop") /\ enParent' = [enParent EXCEPT !.stop = TRUE]
  /\ UNCHANGED <<enStage, enChild, enKept>>

\* A bound encoder dies with the process, a download goes on.
EnCrash ==
  /\ enParent.at # "down" /\ Once("die") /\ Gives
  /\ IF ChildAlive /\ enChild.kind = "encode" /\ enChild.at # "start"
     THEN ChildEnds("signal") /\ Torn ELSE UNCHANGED <<enChild, enStage>>
  /\ UNCHANGED enKept

EnStep ==
  \/ EnLoad \/ EnExited \/ EnStopped \/ EnStalled \/ EnLoaded \/ EnVerify \/ EnEncode
  \/ EnEncoded \/ EnDrop \/ EnPublish
  \/ LoadBegins \/ LoadDone \/ EncBind \/ EncName \/ EncCap \/ EncAbort \/ EncCanary
EnNext == EnBegin \/ EnStep \/ LoadFails \/ EncMemory \/ EnHang \/ EnChildDies \/ EnStop \/ EnCrash
EnSpec == EnInit /\ [][EnNext]_enVars
FairEnSpec == EnSpec /\ WF_enVars(EnStep) /\ WF_enVars(EnBegin)

-----------------------------------------------------------------------------
EnTypeOK ==
  /\ enStage.orig \in {"none", "A", "B"} /\ enStage.znn \in {"none", "A", "B", "bad"}
  /\ enChild.at \in {"start", "part", "write", "canary", "ended"}
  /\ enParent.at \in {"down", "load", "watch", "read", "verify", "encode", "drop", "raw", "encoded"}
  /\ enParent.tries \in 0..EnTries

(***************************************************************************)
(* What is published decodes to the digest recorded with it, and to the    *)
(* Hub's where the Hub names one, whatever the codec did to the file and   *)
(* whatever earlier runs left in the stage (fetch_model).                  *)
(***************************************************************************)
KeptIsOriginal ==
  enKept.form # "none" => enKept.of = enKept.digest /\ (enWorld.hub => enKept.digest = "A")

\* Bytes that were verified once are not dropped before they are published: the original stays
\* until its encoding is certified (fetch.py, "safe: canary proved the round-trip").
VerifiedStays == enKept.seen # "none" => enKept.seen \in {enStage.orig, enStage.znn, enKept.of}

\* Nobody writes to the stage behind a thread that went on: an encoder only works for a process
\* that waits for it, a download also for one that died with the drive's fence in its hands.
ChildrenBelong ==
  ChildAlive => \/ enParent.at = "watch"
                \/ enParent.at = "down" /\ (enChild.kind = "encode" => enChild.at = "start")

EncodingSound == EnTypeOK /\ KeptIsOriginal /\ VerifiedStays /\ ChildrenBelong

(***************************************************************************)
(* A file whose download is repeated is published in the end (part of      *)
(* WorkersEnd), but for a corrupt download of which the Hub names the      *)
(* digest (it stays, and is found again), a codec that does not round-trip *)
(* and does not fail either, and a child that hangs with nobody left to    *)
(* watch it: it keeps the drive's fence (fetch.py:464-472).                *)
(***************************************************************************)
EncodingObstructed ==
  \/ enWorld.hub /\ enStage.orig = "B"
  \/ enWorld.codec = "flawed"
  \/ enChild.hung /\ ChildAlive /\ enParent.at = "down"
EncodingDone == enKept.form # "none" \/ EncodingObstructed

=============================================================================

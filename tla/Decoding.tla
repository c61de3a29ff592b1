------------------------------ MODULE Decoding ------------------------------
(***************************************************************************)
(* Decoding an archived artifact in guarded children: codec_supervisor.py  *)
(* feeds a child (codec_worker.py) and reads its answer through pipes that *)
(* hold little, artifact_io.py strings the frames of a container together, *)
(* and a consumer takes the original bytes as they come.                   *)
(*                                                                         *)
(* A unit is one bounded read.  "frames": a container whose frames name    *)
(* their sizes, one child each; "legacy": one child streams the whole      *)
(* artifact, whose original size nobody knows.                             *)
(***************************************************************************)
EXTENDS Naturals, Sequences

CONSTANT CdWorlds
\* mode, frames (stored and original units claimed, units there, sound), the
\* original units expected, units of noise, and the faults that may happen.
ASSUME CdWorldsAssumption ==
  \A w \in CdWorlds :
    /\ w.mode \in {"frames", "legacy"} /\ w.expected \in Nat /\ w.noise \in Nat
    /\ w.frames \in Seq([stored : Nat, orig : Nat, has : Nat, sound : BOOLEAN])

VARIABLES
  cdWorld,
  cdFrame,   \* the frame being decoded
  cdP,       \* the parent: its end of the protocol
  cdC,       \* the child
  cdIn,      \* units in the child's stdin
  cdOut,     \* packets in the result pipe
  cdNoise,   \* units in the diagnostics pipe
  cdTotal,   \* original units the consumer has
  cdProofs,  \* what on_complete was told: frames certified, units of each
  cdEnd      \* how the reader ended: "open", "eof" or the refusal

cdVars == <<cdWorld, cdFrame, cdP, cdC, cdIn, cdOut, cdNoise, cdTotal, cdProofs, cdEnd>>

Room == 1   \* what each pipe holds
Refusals == {"R", "I", "U"}
Framed == cdWorld.mode = "frames"
Frame == cdWorld.frames[cdFrame]
NoChild == [at |-> "none", read |-> 0, sent |-> 0, exit |-> 0, said |-> "", noise |-> 0]
NoSession == [at |-> "idle", fed |-> 0, closed |-> FALSE, runtime |-> FALSE, status |-> "", left |-> 0,
            got |-> 0, eof |-> FALSE, holds |-> FALSE]

CdInit ==
  /\ cdWorld \in CdWorlds
  /\ cdFrame = 1 /\ cdP = NoSession /\ cdC = NoChild /\ cdIn = 0 /\ cdOut = <<>> /\ cdNoise = 0
  /\ cdTotal = 0 /\ cdProofs = <<>> /\ cdEnd = "open"

Fault(f) == f \in cdWorld.faults
Alive == cdC.at \notin {"none", "gone"}

\* The session's context exits: the child is killed and reaped, the pipes closed.
\* Mutant: a child that still runs is left to itself.
Reaped_Left == cdC
Reaped == [NoChild EXCEPT !.said = cdC.said]
EndWith(why) ==
  /\ cdEnd' = why /\ cdP' = [cdP EXCEPT !.at = "idle"]
  /\ cdC' = Reaped /\ cdIn' = 0 /\ cdOut' = <<>> /\ cdNoise' = 0

-----------------------------------------------------------------------------
(***************************************************************************)
(* iter_decompress and _OriginalStream: frame by frame, each admitted      *)
(* against what is left, and the total checked at the end.                 *)
(***************************************************************************)
\* admit() samples the memory; the child installs the same limits in itself.
NoHeadroom == Fault("memory")
GuardFails == Fault("guard")

CdOpen ==
  /\ cdP.at = "idle" /\ cdEnd = "open" /\ cdFrame <= Len(cdWorld.frames)
  /\ \/ /\ Framed /\ Frame.orig > cdWorld.expected - cdTotal
        /\ EndWith("LIMIT")
     \/ /\ NoHeadroom /\ EndWith("RESOURCE")
     \/ /\ Framed => Frame.orig <= cdWorld.expected - cdTotal
        /\ cdP' = [NoSession EXCEPT !.at = "on"]
        /\ cdC' = [NoChild EXCEPT !.at = "fresh", !.noise = cdWorld.noise]
        /\ UNCHANGED <<cdIn, cdOut, cdNoise, cdEnd>>
  /\ UNCHANGED <<cdWorld, cdFrame, cdTotal, cdProofs>>

\* Mutant: the end of the container is the end of the artifact.
SizeKept_Unchecked == TRUE
SizeKept == Framed => cdTotal = cdWorld.expected

CdEof ==
  /\ cdP.at = "idle" /\ cdEnd = "open" /\ cdFrame > Len(cdWorld.frames)
  /\ cdEnd' = IF SizeKept THEN "eof" ELSE "INVALID"
  /\ UNCHANGED <<cdWorld, cdFrame, cdP, cdC, cdIn, cdOut, cdNoise, cdTotal, cdProofs>>

\* The consumer takes the piece it was given, or gives up.
CdTaken ==
  /\ cdP.holds /\ cdP' = [cdP EXCEPT !.holds = FALSE]
  /\ UNCHANGED <<cdWorld, cdFrame, cdC, cdIn, cdOut, cdNoise, cdTotal, cdProofs, cdEnd>>

CdGivesUp ==
  /\ Fault("close") /\ cdP.at = "on" /\ cdP.holds
  /\ EndWith("closed") /\ UNCHANGED <<cdWorld, cdFrame, cdTotal, cdProofs>>

\* check() raises: polled at every turn of the loop.
CdCancel ==
  /\ Fault("cancel") /\ cdP.at = "on" /\ ~cdP.holds
  /\ EndWith("cancelled") /\ UNCHANGED <<cdWorld, cdFrame, cdTotal, cdProofs>>

-----------------------------------------------------------------------------
(***************************************************************************)
(* _transfer: one loop over three pipes, driven by the consumer.           *)
(***************************************************************************)
AtTurn == cdP.at = "on" /\ ~cdP.holds
Rest == UNCHANGED <<cdWorld, cdFrame, cdTotal, cdProofs>>

\* The child is gone: what it said may still be read.
\* Mutant: a broken pipe ends the session.
Broken_Ends == EndWith("WORKER_FAILED")
Broken ==
  cdP' = [cdP EXCEPT !.closed = TRUE] /\ UNCHANGED <<cdC, cdIn, cdOut, cdNoise, cdEnd>>

CdFeed ==
  /\ AtTurn /\ ~cdP.closed /\ cdP.fed < Frame.stored
  /\ \/ cdP.fed = Frame.has /\ EndWith("INVALID")
     \/ /\ cdP.fed < Frame.has /\ Alive /\ cdIn < Room
        /\ cdIn' = cdIn + 1 /\ cdP' = [cdP EXCEPT !.fed = @ + 1]
        /\ UNCHANGED <<cdC, cdOut, cdNoise, cdEnd>>
     \/ cdP.fed < Frame.has /\ ~Alive /\ Broken
  /\ Rest

CdCloseIn ==
  /\ AtTurn /\ ~cdP.closed /\ cdP.fed = Frame.stored
  /\ IF ~Framed /\ Frame.has > Frame.stored THEN EndWith("INVALID")
     ELSE cdP' = [cdP EXCEPT !.closed = TRUE] /\ UNCHANGED <<cdC, cdIn, cdOut, cdNoise, cdEnd>>
  /\ Rest

\* Mutant: diagnostics are left for the end.
Drains_Late == cdP.eof
Drains == TRUE
CdDrain ==
  /\ AtTurn /\ cdNoise > 0 /\ Drains
  /\ cdNoise' = 0 /\ UNCHANGED <<cdP, cdC, cdIn, cdOut, cdEnd>> /\ Rest

\* What the parent accepts next.
Acceptable(p) ==
  /\ cdP.status \in {"", "O"}
  /\ CASE p.k = "d" -> cdP.status = "O" /\ cdP.left > 0
       [] p.k = "torn" -> TRUE
       [] p.k = "M" -> cdP.status = "" /\ ~cdP.runtime /\ (Framed => cdP.closed)
       [] p.k = "D" -> cdP.status = "" /\ ~Framed /\ cdP.runtime
       [] p.k = "E" -> cdP.status = "" /\ ~Framed /\ cdP.runtime /\ p.n = cdP.got /\ cdP.closed
       [] p.k = "O" -> cdP.status = "" /\ Framed /\ cdP.runtime /\ p.n = Frame.orig /\ cdP.closed
       [] OTHER -> cdP.status = "" /\ ~(Framed /\ cdP.runtime)

CdReceive ==
  /\ AtTurn /\ cdOut # <<>>
  /\ LET p == Head(cdOut)
     IN IF ~Acceptable(p) THEN EndWith("INVALID") /\ UNCHANGED cdTotal
        ELSE /\ cdOut' = Tail(cdOut)
             /\ cdP' = CASE p.k = "M" -> [cdP EXCEPT !.runtime = TRUE]
                         [] p.k = "O" -> [cdP EXCEPT !.status = "O", !.left = p.n]
                         [] p.k = "d" -> [cdP EXCEPT !.left = @ - 1, !.got = @ + 1, !.holds = TRUE]
                         [] p.k = "D" -> [cdP EXCEPT !.got = @ + 1, !.holds = TRUE]
                         [] OTHER -> [cdP EXCEPT !.status = p.k]
             /\ cdTotal' = IF p.k \in {"d", "D"} THEN cdTotal + 1 ELSE cdTotal
             /\ UNCHANGED <<cdC, cdIn, cdNoise, cdEnd>>
  /\ UNCHANGED <<cdWorld, cdFrame, cdProofs>>

CdOutEof ==
  /\ AtTurn /\ ~Alive /\ cdOut = <<>> /\ ~cdP.eof
  /\ cdP' = [cdP EXCEPT !.eof = TRUE]
  /\ UNCHANGED <<cdC, cdIn, cdOut, cdNoise, cdEnd>> /\ Rest

Kind(k) == CASE k = "R" -> "RESOURCE" [] k = "U" -> "UNSUPPORTED" [] OTHER -> "INVALID"

Succeeded == cdP.status \in {"O", "E"} /\ cdP.left = 0 /\ cdC.exit = 0

CdFinish ==
  /\ AtTurn /\ ~Alive /\ cdP.eof
  /\ IF Succeeded
     THEN /\ cdProofs' = Append(cdProofs, cdP.got) /\ cdFrame' = cdFrame + 1
          /\ cdP' = NoSession /\ cdC' = NoChild /\ cdIn' = 0 /\ cdOut' = <<>> /\ cdNoise' = 0
          /\ UNCHANGED <<cdWorld, cdTotal, cdEnd>>
     ELSE /\ EndWith(IF cdP.status \in Refusals THEN Kind(cdP.status) ELSE "WORKER_FAILED")
          /\ Rest

\* The parent dies: a child that is bound to it is killed by the kernel.
CdParentDies ==
  /\ Fault("die") /\ cdP.at = "on"
  /\ cdEnd' = "dead" /\ cdP' = [cdP EXCEPT !.at = "idle"]
  /\ cdC' = IF cdC.at = "fresh" THEN cdC ELSE Reaped
  /\ cdIn' = 0 /\ cdOut' = <<>> /\ cdNoise' = 0 /\ UNCHANGED <<cdWorld, cdFrame, cdTotal, cdProofs>>

-----------------------------------------------------------------------------
(***************************************************************************)
(* The child: bound to its parent and to its memory before anything else;  *)
(* metadata, then bytes, or one refusal.  It writes only while there is    *)
(* room, and noise of the native code goes before its work.                *)
(***************************************************************************)
ChildOnly == UNCHANGED <<cdWorld, cdFrame, cdP, cdTotal, cdProofs, cdEnd>>
Silent == UNCHANGED <<cdIn, cdOut, cdNoise>>
Say(k, n) == Len(cdOut) < Room /\ cdOut' = Append(cdOut, [k |-> k, n |-> n])

\* Mutant: the parent's death before the binding goes unnoticed.
ParentLives_Assumed == TRUE
ParentLives == cdEnd # "dead"

CdBind ==
  /\ cdC.at = "fresh"
  /\ \/ /\ ParentLives
        /\ cdC' = [cdC EXCEPT !.at = IF Framed THEN "take" ELSE "meta"]
     \/ /\ ~ParentLives /\ cdC' = [cdC EXCEPT !.at = "gone", !.exit = 1]
     \/ \E k \in {"R", IF Framed THEN "I" ELSE "U"} :
          /\ GuardFails /\ (k = "R" => ParentLives)
          /\ cdC' = [cdC EXCEPT !.at = "fail", !.said = k]
  /\ Silent /\ ChildOnly

CdMeta ==
  /\ cdC.at = "meta" /\ Say("M", 0)
  /\ cdC' = [cdC EXCEPT !.at = IF Framed THEN "size" ELSE "stream"]
  /\ UNCHANGED <<cdIn, cdNoise>> /\ ChildOnly

\* A frame is read whole, to the end of stdin, before any work on it.
CdTake ==
  /\ cdC.at = "take"
  /\ \/ /\ cdIn > 0 /\ cdIn' = cdIn - 1 /\ cdC' = [cdC EXCEPT !.read = @ + 1]
     \/ /\ cdIn = 0 /\ cdP.closed /\ UNCHANGED cdIn
        /\ cdC' = IF cdC.read = Frame.stored THEN [cdC EXCEPT !.at = "work"]
                  ELSE [cdC EXCEPT !.at = "fail", !.said = "I"]
  /\ UNCHANGED <<cdOut, cdNoise>> /\ ChildOnly

CdNoisy ==
  /\ cdC.at \in {"work", "stream"} /\ cdC.noise > 0 /\ cdNoise < Room
  /\ cdNoise' = cdNoise + 1 /\ cdC' = [cdC EXCEPT !.noise = @ - 1]
  /\ UNCHANGED <<cdIn, cdOut>> /\ ChildOnly

CdWork ==
  /\ cdC.at = "work" /\ cdC.noise = 0
  /\ \/ cdC' = IF Frame.sound THEN [cdC EXCEPT !.at = "meta"]
               ELSE [cdC EXCEPT !.at = "fail", !.said = "I"]
     \/ Fault("hang") /\ cdC' = [cdC EXCEPT !.at = "hung"]
  /\ Silent /\ ChildOnly

CdSend ==
  /\ \/ /\ cdC.at = "size" /\ Say("O", Frame.orig) /\ cdC' = [cdC EXCEPT !.at = "send"]
     \/ /\ cdC.at = "send" /\ cdC.sent < Frame.orig /\ Say("d", 1)
        /\ cdC' = [cdC EXCEPT !.sent = @ + 1]
  /\ UNCHANGED <<cdIn, cdNoise>> /\ ChildOnly

\* Legacy: reads and pieces in any order, a failure at any point.
MayYield == cdC.sent < cdC.read /\ cdC.sent < Frame.orig
CdStream ==
  /\ cdC.at = "stream" /\ cdC.noise = 0
  /\ \/ /\ cdIn > 0 /\ cdIn' = cdIn - 1 /\ cdC' = [cdC EXCEPT !.read = @ + 1] /\ UNCHANGED cdOut
     \/ /\ MayYield /\ Say("D", 1)
        /\ cdC' = [cdC EXCEPT !.sent = @ + 1] /\ UNCHANGED cdIn
     \/ /\ ~Frame.sound
        /\ cdC' = [cdC EXCEPT !.at = "fail", !.said = "I"] /\ UNCHANGED <<cdIn, cdOut>>
     \/ /\ Frame.sound /\ cdC.read = Frame.stored /\ cdC.sent = Frame.orig /\ cdIn = 0 /\ cdP.closed
        /\ Say("E", cdC.sent) /\ cdC' = [cdC EXCEPT !.at = "send"] /\ UNCHANGED cdIn
  /\ UNCHANGED cdNoise /\ ChildOnly

CdFailure ==
  /\ cdC.at = "fail" /\ Say(cdC.said, 0) /\ cdC' = [cdC EXCEPT !.at = "gone", !.exit = 1]
  /\ UNCHANGED <<cdIn, cdNoise>> /\ ChildOnly

CdExit ==
  /\ cdC.at = "send" /\ cdC.sent = Frame.orig
  /\ cdC' = [cdC EXCEPT !.at = "gone"] /\ Silent /\ ChildOnly

\* A signal or a failed write ends it, perhaps inside a packet.
CdCrash ==
  /\ Fault("crash") /\ Alive /\ cdC.at # "fresh" /\ ParentLives
  /\ cdC' = [cdC EXCEPT !.at = "gone", !.exit = 1, !.said = ""]
  /\ cdOut' \in {cdOut} \cup
       (IF Len(cdOut) < Room /\ cdC.at \in {"meta", "stream"} THEN {Append(cdOut, [k |-> "torn", n |-> 0])} ELSE {})
  /\ UNCHANGED <<cdIn, cdNoise>> /\ ChildOnly

CdParent == CdOpen \/ CdEof \/ CdTaken \/ CdFeed \/ CdCloseIn \/ CdDrain \/ CdReceive \/ CdOutEof \/ CdFinish
CdChild == CdBind \/ CdMeta \/ CdTake \/ CdNoisy \/ CdWork \/ CdSend \/ CdStream \/ CdFailure \/ CdExit
CdNext == CdParent \/ CdChild \/ CdGivesUp \/ CdCancel \/ CdParentDies \/ CdCrash
\* The loop polls check() for as long as the consumer waits in it.
CdProgress == CdParent \/ CdChild \/ (cdC.at = "hung" /\ CdCancel)
CdSpec == CdInit /\ [][CdNext]_cdVars
FairCdSpec == CdSpec /\ WF_cdVars(CdProgress)

-----------------------------------------------------------------------------
CdTypeOK ==
  /\ cdIn \in 0..Room /\ cdNoise \in 0..Room /\ Len(cdOut) <= Room
  /\ cdP.at \in {"idle", "on"} /\ cdFrame \in 1..(Len(cdWorld.frames) + 1)
  /\ cdEnd \in {"open", "eof", "LIMIT", "RESOURCE", "INVALID", "UNSUPPORTED", "WORKER_FAILED",
                "cancelled", "closed", "dead"}

FrameProven(f) ==
  /\ cdWorld.frames[f].sound /\ cdProofs[f] = cdWorld.frames[f].orig
  /\ cdWorld.frames[f].has >= cdWorld.frames[f].stored
\* By running totals.
AddUp(parts, total) ==
  \E upto \in [0..Len(parts) -> 0..total] :
    /\ upto[0] = 0 /\ upto[Len(parts)] = total
    /\ \A i \in 1..Len(parts) : upto[i] = upto[i - 1] + parts[i]

(***************************************************************************)
(* A clean end means the whole artifact: every frame certified with the    *)
(* original units it really has, all of it with the consumer, and as much  *)
(* as was expected (original_stream, on_complete).                         *)
(***************************************************************************)
EofIsWhole ==
  cdEnd = "eof" =>
    /\ Len(cdProofs) = Len(cdWorld.frames)
    /\ \A f \in DOMAIN cdProofs : FrameProven(f)
    /\ AddUp(cdProofs, cdTotal)
    /\ Framed => cdTotal = cdWorld.expected

\* The consumer is never handed more than was expected of a sized artifact.
NeverTooMuch == Framed => cdTotal <= cdWorld.expected

(***************************************************************************)
(* A refusal the child could still write is the refusal reported: memory   *)
(* refused is never taken for corruption, nor for a broken worker.         *)
(***************************************************************************)
RefusalKept ==
  cdEnd = "WORKER_FAILED" \/ (cdEnd = "INVALID" /\ cdC.said \in {"R", "U"})
    => cdC.said = "" \/ \E f \in DOMAIN cdWorld.frames : cdWorld.frames[f].has # cdWorld.frames[f].stored

\* No child outlives its session, nor its parent once it is bound to it.
\* (One that could not bind itself says so and ends.)
NoOrphan ==
  cdP.at = "idle" => cdC.at \in {"none", "gone"} \/ (cdC.at \in {"fresh", "fail"} /\ cdEnd = "dead")

DecodingSound == CdTypeOK /\ EofIsWhole /\ NeverTooMuch /\ RefusalKept /\ NoOrphan

\* A session ends; one whose decoder hangs, by cancellation (part of WorkersEnd).
DecodingDue == cdEnd = "open" /\ (Fault("hang") => Fault("cancel"))
DecodingDone == cdEnd # "open"

=============================================================================

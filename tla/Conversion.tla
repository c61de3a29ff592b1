----------------------------- MODULE Conversion -----------------------------
(***************************************************************************)
(* Converting archived copies that are plain Git blobs into annexed ones   *)
(* (publication_migrate.py): a sealed plan, then file by file the copy     *)
(* under its new name, git-annex, a commit, the catalog row, and the       *)
(* retirement of the old path.  Any step may fail or be the last one, and  *)
(* apply or resume begins again at the plan.                               *)
(*                                                                         *)
(* One drive.  Contents are "A" or "B" and stand for their digest, size    *)
(* and key; a file in "same" keeps its path.                               *)
(***************************************************************************)
EXTENDS Naturals, FiniteSetsExt

CONSTANTS CvFiles,   \* a subset of Nat: the order of the candidates
          CvWorlds   \* the situations explored, each with its bounds

ASSUME CvNamesAssumption == CvFiles \subseteq Nat
\* archived.orig_sha256 is a digest or null.
ASSUME CvWorldsAssumption == \A w \in CvWorlds : w.orig \in [CvFiles -> {"none", "A", "B"}]

VARIABLES
  cvWorld,   \* files whose path stays, what may happen
  cvRow,     \* archived: annex_key and orig_sha256 of a file
  cvSrc,     \* the old path: work tree, index, HEAD
  cvDst,     \* the new path: nothing, a plain file or an annex link; in HEAD?
  cvPlans,   \* the two plan files there may be
  cvRun,     \* the conversion under way
  cvSession, \* a Fill session is live
  cvLeft     \* how many more events the bounds allow

cvVars == <<cvWorld, cvRow, cvSrc, cvDst, cvPlans, cvRun, cvSession, cvLeft>>

CvPlanIds == {1, 2}
CvHalted == [at |-> "idle", plan |-> 1, todo |-> {}, data |-> "none"]
Nowhere == [is |-> "none", has |-> "none", head |-> FALSE]
NoPlan == [is |-> "none", orig |-> <<>>]

CvInit ==
  /\ cvWorld \in CvWorlds
  /\ cvRow = [f \in CvFiles |-> [key |-> "none", orig |-> cvWorld.orig[f]]]
  /\ cvSrc = [f \in CvFiles |-> [work |-> "A", index |-> TRUE, head |-> TRUE]]
  /\ cvDst = [f \in CvFiles |-> IF f \in cvWorld.same THEN [Nowhere EXCEPT !.is = "plain", !.has = "A"]
                                ELSE Nowhere]
  /\ cvPlans = [n \in CvPlanIds |-> NoPlan]
  /\ cvRun = CvHalted /\ cvSession = FALSE /\ cvLeft = cvWorld.left

-----------------------------------------------------------------------------
(***************************************************************************)
(* The plan: what an inspection finds convertible, with the facts each row *)
(* had, sealed by a digest and kept in a file of its own.                  *)
(***************************************************************************)
\* Mutant: a row nothing vouches for is converted like the others.
Convertible_Unproven(f) == cvRow[f].key = "none"
Convertible(f) == cvRow[f].key = "none" /\ cvRow[f].orig # "none"

Census == [f \in {g \in CvFiles : Convertible(g)} |-> cvRow[f].orig]
CvBegin(n) == [at |-> "next", plan |-> n, todo |-> DOMAIN cvPlans'[n].orig, data |-> "none"]

CvApply(n) ==
  /\ cvRun.at = "idle" /\ cvPlans[n].is = "none" /\ \A m \in CvPlanIds : m < n => cvPlans[m].is # "none"
  /\ cvPlans' = [cvPlans EXCEPT ![n] = [is |-> "sealed", orig |-> Census]]
  /\ \E archives \in BOOLEAN : cvRun' = IF archives THEN CvBegin(n) ELSE cvRun
  /\ UNCHANGED <<cvWorld, cvRow, cvSrc, cvDst, cvSession, cvLeft>>

\* Mutant: the seal is not recomputed.
Sealed_Trusted(n) == cvPlans[n].is \in {"sealed", "edited"}
Sealed(n) == cvPlans[n].is = "sealed"

CvResume(n) ==
  /\ cvRun.at = "idle" /\ Sealed(n)
  /\ UNCHANGED cvPlans /\ cvRun' = CvBegin(n)
  /\ UNCHANGED <<cvWorld, cvRow, cvSrc, cvDst, cvSession, cvLeft>>

-----------------------------------------------------------------------------
(***************************************************************************)
(* _convert_archives: the candidates in order; the first refusal ends it.  *)
(***************************************************************************)
CvFile == Min(cvRun.todo)
Frozen == cvPlans[cvRun.plan].orig[CvFile]
CvAt(step) == cvRun.at = step /\ cvRun.todo # {}
CvGo(step) == cvRun' = [cvRun EXCEPT !.at = step]
CvRefuses == cvRun' = CvHalted
CvDone == cvRun' = [cvRun EXCEPT !.at = "next", !.todo = @ \ {CvFile}]
CvKept == UNCHANGED <<cvWorld, cvPlans, cvSession, cvLeft>>

\* Mutant: a keyed row is done.
Keyed_Skips == CvDone
Keyed == CvGo("retire")

CvNext ==
  /\ cvRun.at = "next"
  /\ \/ cvRun.todo = {} /\ CvRefuses
     \/ cvRun.todo # {} /\ cvRow[CvFile].key # "none" /\ Keyed
     \/ cvRun.todo # {} /\ cvRow[CvFile].key = "none" /\ CvGo("read")
  /\ UNCHANGED <<cvRow, cvSrc, cvDst>> /\ CvKept

Source == IF CvFile \in cvWorld.same THEN cvDst[CvFile].has ELSE cvSrc[CvFile].work

CvRead ==
  /\ CvAt("read")
  /\ IF Frozen \in {"none", Source} THEN cvRun' = [cvRun EXCEPT !.at = "write", !.data = Source] ELSE CvRefuses
  /\ UNCHANGED <<cvRow, cvSrc, cvDst>> /\ CvKept

\* A file that is there already is left as it is; one write carries no more
\* than 2 GiB, and nobody asks how much of a bigger file it took.
Carried == IF CvFile \in cvWorld.big THEN "torn" ELSE cvRun.data
CvWrite ==
  /\ CvAt("write") /\ CvGo("add")
  /\ cvDst' = [cvDst EXCEPT ![CvFile] = IF @.is = "none" THEN [Nowhere EXCEPT !.is = "plain", !.has = Carried] ELSE @]
  /\ UNCHANGED <<cvRow, cvSrc>> /\ CvKept

\* git annex add; one that is committed as a plain blob may be passed over.
CvAdd ==
  /\ CvAt("add") /\ CvGo("prove")
  /\ cvDst' \in {[cvDst EXCEPT ![CvFile].is = "link"]} \cup (IF CvFile \in cvWorld.same THEN {cvDst} ELSE {})
  /\ UNCHANGED <<cvRow, cvSrc>> /\ CvKept

\* Mutant: what was added is what was meant.
KeyProven_Assumed == cvDst[CvFile].is = "link"
KeyProven == cvDst[CvFile].is = "link" /\ cvDst[CvFile].has = cvRun.data

CvProve ==
  /\ CvAt("prove") /\ (IF KeyProven THEN CvGo("commit") ELSE CvRefuses)
  /\ UNCHANGED <<cvRow, cvSrc, cvDst>> /\ CvKept

\* Git refuses a commit that would change nothing.
CvCommit ==
  /\ CvAt("commit") /\ (IF cvDst[CvFile].head THEN CvRefuses ELSE CvGo("publish"))
  /\ cvDst' = [cvDst EXCEPT ![CvFile].head = TRUE]
  /\ UNCHANGED <<cvRow, cvSrc>> /\ CvKept

\* Mutant: only the key is compared with the plan.
AsFrozen_KeyOnly == cvRow[CvFile].key = "none"
AsFrozen == cvRow[CvFile].key = "none" /\ cvRow[CvFile].orig = Frozen

CvPublish ==
  /\ CvAt("publish")
  /\ IF ~cvSession /\ AsFrozen
     THEN cvRow' = [cvRow EXCEPT ![CvFile].key = cvDst[CvFile].has] /\ CvGo("retire")
     ELSE UNCHANGED cvRow /\ CvRefuses
  /\ UNCHANGED <<cvSrc, cvDst>> /\ CvKept

\* git rm refuses a file with changes of its own.
CvRetire ==
  /\ CvAt("retire")
  /\ \/ (CvFile \in cvWorld.same \/ ~cvSrc[CvFile].head) /\ CvDone /\ UNCHANGED cvSrc
     \/ CvFile \notin cvWorld.same /\ cvSrc[CvFile].head /\ cvSrc[CvFile].index /\ cvSrc[CvFile].work = "B" /\ CvRefuses /\ UNCHANGED cvSrc
     \/ /\ CvFile \notin cvWorld.same /\ cvSrc[CvFile].head /\ (cvSrc[CvFile].index => cvSrc[CvFile].work # "B") /\ CvGo("retired")
        /\ cvSrc' = [cvSrc EXCEPT ![CvFile] = [work |-> "none", index |-> FALSE, head |-> cvSrc[CvFile].head]]
  /\ UNCHANGED <<cvRow, cvDst>> /\ CvKept

CvRetired ==
  /\ CvAt("retired") /\ cvSrc' = [cvSrc EXCEPT ![CvFile].head = FALSE] /\ CvDone
  /\ UNCHANGED <<cvRow, cvDst>> /\ CvKept

-----------------------------------------------------------------------------
(***************************************************************************)
(* What else happens: a crash or a failing command, a file half written, a *)
(* plan half written or edited, and writers that were not stopped.         *)
(***************************************************************************)
Happens(k) == k \in cvWorld.kinds /\ cvLeft > 0 /\ cvLeft' = cvLeft - 1 /\ UNCHANGED cvWorld

CvCrash ==
  /\ Happens("crash") /\ cvRun.at # "idle" /\ CvRefuses
  /\ cvDst' \in {cvDst} \cup
       (IF CvAt("write") /\ cvDst[CvFile].is = "none"
        THEN {[cvDst EXCEPT ![CvFile] = [is |-> "plain", has |-> "torn", head |-> cvDst[CvFile].head]]} ELSE {})
  /\ UNCHANGED <<cvRow, cvSrc, cvPlans, cvSession>>

CvSpoil(n) ==
  /\ Happens("plan") /\ cvRun.at = "idle"
  /\ \/ cvPlans[n].is = "none" /\ n = 1 /\ cvPlans' = [cvPlans EXCEPT ![n].is = "torn"]
     \/ /\ cvPlans[n].is = "sealed"
        /\ cvPlans' = [cvPlans EXCEPT ![n] = [is |-> "edited", orig |-> cvWorld.orig]]
  /\ UNCHANGED <<cvRow, cvSrc, cvDst, cvRun, cvSession>>

CvRewrite(f) ==
  /\ Happens("write") /\ cvRow[f].key = "none"
  /\ \E o \in {"A", "B"} \ {cvRow[f].orig} : cvRow' = [cvRow EXCEPT ![f].orig = o]
  /\ UNCHANGED <<cvSrc, cvDst, cvPlans, cvRun, cvSession>>

CvRot(f) ==
  /\ Happens("rot") /\ f \notin cvWorld.same /\ cvSrc[f].work = "A"
  /\ cvSrc' = [cvSrc EXCEPT ![f].work = "B"]
  /\ UNCHANGED <<cvRow, cvDst, cvPlans, cvRun, cvSession>>

CvSessionMoves ==
  /\ Happens("fill") /\ cvSession' = ~cvSession
  /\ UNCHANGED <<cvRow, cvSrc, cvDst, cvPlans, cvRun>>

CvStep == CvNext \/ CvRead \/ CvWrite \/ CvAdd \/ CvProve \/ CvCommit \/ CvPublish \/ CvRetire \/ CvRetired
CvAny ==
  \/ CvStep \/ CvCrash \/ CvSessionMoves
  \/ \E n \in CvPlanIds : CvApply(n) \/ CvResume(n) \/ CvSpoil(n)
  \/ \E f \in CvFiles : CvRewrite(f) \/ CvRot(f)

CvSpec == CvInit /\ [][CvAny]_cvVars
\* A command returns; an operator who has a plan comes back to it.
FairCvSpec == CvSpec /\ WF_cvVars(CvStep) /\ SF_cvVars(CvResume(1))

-----------------------------------------------------------------------------
CvTypeOK ==
  /\ cvRow \in [CvFiles -> [key : {"none", "A", "B", "torn"}, orig : {"none", "A", "B"}]]
  /\ cvRun.todo \subseteq CvFiles
  /\ cvRun.at \in {"idle", "next", "read", "write", "add", "prove", "commit", "publish", "retire", "retired"}

(***************************************************************************)
(* At every moment, and so after every crash, the row names bytes that are *)
(* committed: the old path until the row moves, the annexed one after.     *)
(***************************************************************************)
RowNamesBytes ==
  \A f \in CvFiles :
    IF cvRow[f].key = "none" THEN f \in cvWorld.same \/ (cvSrc[f].head /\ cvSrc[f].index)
    ELSE cvDst[f].is = "link" /\ cvDst[f].head /\ cvDst[f].has = cvRow[f].key

\* A key is the digest the row vouches for, now and when it was inspected.
KeysHaveEvidence == \A f \in CvFiles : cvRow[f].key \in {"none", cvRow[f].orig}

ConversionSound == CvTypeOK /\ RowNamesBytes /\ KeysHaveEvidence

(***************************************************************************)
(* With a plan to come back to, a file is converted and its old path       *)
(* retired, or it or one before it is kept back: by bytes at either path   *)
(* that are not the plan's or not HEAD's, a row that changed, a path that  *)
(* git-annex passes over, a live session, or a commit that a crash left    *)
(* without its row.                                                        *)
(***************************************************************************)
Converted(f) == cvRow[f].key # "none" /\ (f \in cvWorld.same \/ ~cvSrc[f].head)
Obstructed(f) ==
  \/ cvSession \/ f \in cvWorld.same \/ cvSrc[f].work = "B"
  \/ ~({cvSrc[f].work, cvDst[f].has, cvRow[f].orig} \subseteq {"none", cvPlans[1].orig[f]})
  \/ cvDst[f].head /\ cvRow[f].key = "none"

ConversionTried == Sealed(1)
ConversionSettled ==
  \/ ~Sealed(1)
  \/ \A f \in DOMAIN cvPlans[1].orig :
       Converted(f) \/ \E g \in DOMAIN cvPlans[1].orig : g <= f /\ Obstructed(g)

=============================================================================

------------------------------ MODULE Recovery ------------------------------
(***************************************************************************)
(* What an archived repository is worth once something was lost: restoring *)
(* it (restore.py), judging its copies (verifier.py) and repairing rows    *)
(* that have no digest to restore by (hash_repair.py), while drives come   *)
(* and go, Fill writes, bytes rot and somebody else uses the output.       *)
(*                                                                         *)
(* One repository.  A digest is "A" or "B"; a copy is a slot <<file,       *)
(* drive>>; sizes, paths and Git objects agree exactly when the contents   *)
(* do.  The verifier's reads are one step.                                 *)
(***************************************************************************)
EXTENDS Naturals, FiniteSets

CONSTANTS RcFiles, RcDrives,  \* subsets of Nat: the order of names and labels
          RcWorlds            \* the situations explored, each with its bounds

RcSlots == RcFiles \X RcDrives
Digests == {"A", "B"}

ASSUME RcNamesAssumption ==
  RcFiles \subseteq Nat /\ IsFiniteSet(RcFiles) /\ RcDrives \subseteq Nat /\ IsFiniteSet(RcDrives)

\* What a catalog and its drives may hold.  A known manifest has weights
\* (archive_manifest._select).
ASSUME RcWorldsAssumption ==
  \A w \in RcWorlds :
    /\ w.rows \in [RcSlots -> Digests \cup {"none", "norow"}]
    /\ w.held \in [RcSlots -> Digests \cup {"gone", "never"}]
    /\ w.drive \in [RcDrives -> [up : BOOLEAN, auth : BOOLEAN, clean : BOOLEAN, pub : BOOLEAN,
                                lost : BOOLEAN, busy : BOOLEAN]]
    /\ w.cat \in [RcFiles -> Digests \cup {"none", "absent"}]
    /\ w.key \in [RcSlots -> Digests \cup {"none"}] /\ w.head \in [RcSlots -> Digests \cup {"none"}]
    /\ w.packed \subseteq RcSlots /\ w.plan \subseteq RcFiles /\ (w.policy => w.plan # {})
    /\ w.policy \in BOOLEAN /\ w.v9 \in BOOLEAN /\ w.need \in Nat /\ w.left \in Nat

VARIABLES
  rcWorld,    \* what does not change: catalog digests, annex keys, committed
              \* contents, packed slots, the manifest, copies needed, schema
  rcRows,     \* archived.orig_sha256 of a slot; "norow" without a row
  rcHeld,     \* the slot's content; "gone" when dropped but retrievable
  rcDrive,    \* mounted, authoritative, clean, publishing, lost, fenced by Fill
  rcRs,       \* the restore under way
  rcDest,     \* what stands at the destination
  rcRp,       \* the repository repair under way
  rcState,    \* drive_hash_repair_state of every drive
  rcVerdict,  \* the last verification, "stale" once anything changed
  rcSession,  \* a Fill session is live
  rcLeft      \* how many more events the bounds allow

rcVars == <<rcWorld, rcRows, rcHeld, rcDrive, rcRs, rcDest, rcRp, rcState, rcVerdict, rcSession,
            rcLeft>>

First(S) == CHOOSE x \in S : \A y \in S : x <= y
Recorded(rows) == {s \in RcSlots : rows[s] # "norow"}
CopiesOf(f, S) == {s \in S : s[1] = f}
Archived(rows) == {s[1] : s \in Recorded(rows)}

RcInit ==
  /\ rcWorld \in RcWorlds
  /\ rcRows = rcWorld.rows /\ rcHeld = rcWorld.held /\ rcDrive = rcWorld.drive
  /\ rcRs = [at |-> "idle", snap |-> rcWorld.rows, todo |-> {}, tried |-> {}, drive |-> 0,
             auth |-> FALSE, fence |-> FALSE, got |-> <<>>, sure |-> FALSE]
  /\ rcDest = [is |-> "free", got |-> <<>>]
  /\ rcRp = [at |-> "idle", repairs |-> {}]
  /\ rcState = [d \in RcDrives |-> "none"]
  /\ rcVerdict = "stale"
  /\ rcSession = FALSE /\ rcLeft = rcWorld.left

-----------------------------------------------------------------------------
(***************************************************************************)
(* archive_hash.py: the digest a copy must have, from three sources that   *)
(* have to agree.                                                          *)
(***************************************************************************)
Sources(s, orig) ==
  {rcWorld.cat[s[1]], orig} \cup (IF s \in rcWorld.packed THEN {} ELSE {rcWorld.key[s]})

Agreed(named) ==
  IF Cardinality(named) > 1 THEN "conflict"
  ELSE IF named = {} THEN "none" ELSE CHOOSE e \in named : TRUE

Expected(s, orig) == Agreed(Sources(s, orig) \cap Digests)

(***************************************************************************)
(* verifier.reverify, if U were the mounted drives and N the packed copies *)
(* whose decoder cannot run.                                               *)
(***************************************************************************)
\* Mutant: a shelved drive counts as one whose bytes are missing.
Check_Shelved(s, U, N) ==
  IF s[2] \notin U \/ rcHeld[s] \notin Digests THEN "bad"
  ELSE CASE Expected(s, rcRows[s]) = "conflict" -> "bad"
         [] Expected(s, rcRows[s]) = "none" \/ s \in N -> "unknown"
         [] OTHER -> IF rcHeld[s] = Expected(s, rcRows[s]) THEN "good" ELSE "bad"

\* Mutant: a copy nothing can be checked against passes.
Check_Unproven(s, U, N) ==
  IF s[2] \notin U THEN "offline"
  ELSE IF rcHeld[s] \notin Digests THEN "bad"
  ELSE CASE Expected(s, rcRows[s]) = "conflict" -> "bad"
         [] s \in N -> "unknown"
         [] OTHER -> IF Expected(s, rcRows[s]) \in {"none", rcHeld[s]} THEN "good" ELSE "bad"

Check(s, U, N) ==
  IF s[2] \notin U THEN "offline"
  ELSE IF rcHeld[s] \notin Digests THEN "bad"
  ELSE CASE Expected(s, rcRows[s]) = "conflict" -> "bad"
         [] Expected(s, rcRows[s]) = "none" \/ s \in N -> "unknown"
         [] OTHER -> IF rcHeld[s] = Expected(s, rcRows[s]) THEN "good" ELSE "bad"

Verdict(U, N) ==
  LET rows == Recorded(rcRows)
      Copies(f, kinds) == Cardinality({s \in CopiesOf(f, rows) : Check(s, U, N) \in kinds})
      mismatch == \E s \in rows : {rcRows[s], rcWorld.cat[s[1]]} = Digests
      short == \E f \in (IF rcWorld.policy THEN rcWorld.plan ELSE Archived(rcRows)) :
                 Copies(f, {"good", "unknown", "offline"}) < rcWorld.need
      missing == rcWorld.policy /\ ~(rcWorld.plan \subseteq Archived(rcRows))
      wrong == missing \/ mismatch \/ short \/ \E s \in rows : Check(s, U, N) = "bad"
  IN CASE rows = {} -> "not-archived"
       [] rows # {} /\ wrong -> "failed"
       [] OTHER ->
            IF /\ rcWorld.policy
               /\ \A s \in rows : Check(s, U, N) = "good"
               /\ \A f \in rcWorld.plan : Copies(f, {"good"}) >= rcWorld.need
            THEN "verified" ELSE "unknown"

Mounted == {d \in RcDrives : rcDrive[d].up}
Unreadable == SUBSET (rcWorld.packed \cap Recorded(rcRows))

RcReverify ==
  /\ "verify" \in rcWorld.ops
  /\ \E N \in Unreadable : rcVerdict' = Verdict(Mounted, N)
  /\ UNCHANGED <<rcWorld, rcRows, rcHeld, rcDrive, rcRs, rcDest, rcRp, rcState, rcSession, rcLeft>>

\* verifier.suspects: drives that hold only a part of a known manifest.
Suspects ==
  {d \in RcDrives : LET names == {s[1] : s \in {x \in Recorded(rcRows) : x[2] = d}}
                    IN rcWorld.policy /\ names # {} /\ ~(rcWorld.plan \subseteq names)}

-----------------------------------------------------------------------------
(***************************************************************************)
(* restore_repo: rows and manifest once, then file by file and copy by     *)
(* copy into a hidden tree, which becomes the destination in one rename.   *)
(***************************************************************************)
\* The recovery manifest; the archived names where no policy can name one.
\* Mutant: always the archived names.
Planned_Recorded(rows) == Archived(rows)
Planned(rows) == IF rcWorld.policy THEN rcWorld.plan ELSE Archived(rows)

Undisturbed == ~rcWorld.v9 \/ \A d \in RcDrives : rcDrive[d].clean /\ ~rcDrive[d].pub /\ ~rcDrive[d].busy

RcRestore ==
  /\ "restore" \in rcWorld.ops /\ rcRs.at = "idle"
  /\ rcRs' = [rcRs EXCEPT !.snap = rcRows, !.todo = Planned(rcRows),
               !.sure = (rcVerdict = "verified" /\ Undisturbed),
               !.at = IF /\ Planned(rcRows) # {} /\ Archived(rcRows) # {}
                         /\ Planned(rcRows) \subseteq Archived(rcRows) /\ rcDest.is = "free"
                      THEN "copy"
                      ELSE IF rcDest.is # "free" THEN "occupied" ELSE "incomplete"]
  /\ UNCHANGED <<rcWorld, rcRows, rcHeld, rcDrive, rcDest, rcRp, rcState, rcVerdict, rcSession, rcLeft>>

Current == First(rcRs.todo)
Untried == {d \in RcDrives : rcRs.snap[<<Current, d>>] # "norow"} \ rcRs.tried
Slot == <<Current, rcRs.drive>>

\* The next copy is looked at; a copy that fails is remembered as tried.
NextCopy == [rcRs EXCEPT !.at = "copy", !.tried = @ \cup {rcRs.drive}, !.fence = FALSE]
RsOnly == UNCHANGED <<rcWorld, rcRows, rcDrive, rcDest, rcRp, rcState, rcVerdict, rcSession, rcLeft>>

\* _publication_source: on a v9 catalog the drive's fence is held and the row
\* is still the one read at the start.
Fit(d) ==
  rcWorld.v9 => /\ ~rcDrive[d].busy /\ ~rcDrive[d].pub /\ rcDrive[d].clean
                /\ rcRows[<<Current, d>>] = rcRs.snap[<<Current, d>>]

RcAdmit ==
  /\ rcRs.at = "copy" /\ rcRs.todo # {} /\ Untried # {}
  /\ LET d == First(Untried)
     IN rcRs' = IF rcDrive[d].up /\ Fit(d)
                THEN [rcRs EXCEPT !.at = "read", !.drive = d, !.auth = rcDrive[d].auth,
                                  !.fence = rcWorld.v9]
                ELSE [rcRs EXCEPT !.tried = @ \cup {d}]
  /\ UNCHANGED rcHeld /\ RsOnly

\* Mutant: a dropped copy is fetched wherever it is recorded.
MayMutate_Always == TRUE
MayMutate == ~rcWorld.v9 /\ ~rcRs.auth

\* _annex_content
RcFetch ==
  /\ rcRs.at = "read"
  /\ \/ /\ rcHeld[Slot] \in Digests
        /\ rcRs' = [rcRs EXCEPT !.at = "write"] /\ UNCHANGED rcHeld
     \/ /\ rcHeld[Slot] = "gone" /\ MayMutate
        /\ \E c \in Digests :
             /\ Slot \notin rcWorld.packed /\ rcWorld.key[Slot] \in Digests => c = rcWorld.key[Slot]
             /\ rcHeld' = [rcHeld EXCEPT ![Slot] = c]
        /\ rcRs' = [rcRs EXCEPT !.at = "write"]
     \/ /\ rcHeld[Slot] \notin Digests
        /\ rcRs' = NextCopy /\ UNCHANGED rcHeld
  /\ RsOnly

\* Mutant: the bytes written are not hashed.
Genuine_Unhashed(e) == TRUE
Genuine(e) == rcHeld[Slot] = e

\* _materialize; conflicting evidence is a ValueError, which ends the restore.
RcWrite ==
  /\ rcRs.at = "write"
  /\ LET e == Expected(Slot, rcRs.snap[Slot])
     IN \/ /\ e = "conflict"
           /\ rcRs' = [rcRs EXCEPT !.at = "failed", !.fence = FALSE]
        \/ /\ e # "conflict" /\ (e \in Digests => rcHeld[Slot] \notin Digests \/ ~Genuine(e))
           /\ rcRs' = NextCopy
        \/ /\ e \in Digests /\ Slot \in rcWorld.packed
           /\ rcRs' = [NextCopy EXCEPT !.sure = FALSE]
        \/ /\ e \in Digests /\ rcHeld[Slot] \in Digests /\ Genuine(e)
           /\ rcRs' = [rcRs EXCEPT !.at = "copy", !.todo = @ \ {Current}, !.tried = {}, !.fence = FALSE,
                        !.got = [f \in DOMAIN @ \cup {Current} |->
                                   IF f = Current THEN rcHeld[Slot] ELSE @[f]]]
  /\ UNCHANGED rcHeld /\ RsOnly

RcGiveUp ==
  /\ rcRs.at = "copy" /\ rcRs.todo # {} /\ Untried = {}
  /\ rcRs' = [rcRs EXCEPT !.at = "failed"]
  /\ UNCHANGED rcHeld /\ RsOnly

\* os.replace of a directory onto what may stand there by now.
\* Mutant: it takes the place of whatever is there.
Replaceable_Any == TRUE
Replaceable == rcDest.is \in {"free", "empty"}

RcPublish ==
  /\ rcRs.at = "copy" /\ rcRs.todo = {}
  /\ rcRs' = [rcRs EXCEPT !.at = IF Replaceable THEN "done" ELSE "occupied"]
  /\ rcDest' = IF Replaceable THEN [is |-> "ours", got |-> rcRs.got] ELSE rcDest
  /\ UNCHANGED <<rcWorld, rcRows, rcHeld, rcDrive, rcRp, rcState, rcVerdict, rcSession, rcLeft>>

-----------------------------------------------------------------------------
(***************************************************************************)
(* repair_hashes: audit, recovery copy, and a second audit inside the      *)
(* writing transaction.                                                    *)
(***************************************************************************)
\* The committed raw file proves the bytes on a mounted drive.
Committed(s) ==
  IF /\ rcDrive[s[2]].up /\ s \notin rcWorld.packed
     /\ rcWorld.head[s] \in Digests /\ rcHeld[s] = rcWorld.head[s]
  THEN rcHeld[s] ELSE "none"

Joined == {s \in Recorded(rcRows) : rcWorld.cat[s[1]] # "absent"}
Unproven == {s \in Joined : Expected(s, rcRows[s]) = "none"}
Known(f) == {Expected(s, rcRows[s]) : s \in CopiesOf(f, Joined)} \ {"none"}

\* A candidate whose proof no other copy of the file contradicts.
\* Mutant: copies of one file need not agree.
Provable_Alone(s) == Committed(s) # "none"
Provable(s) ==
  /\ Committed(s) # "none" /\ Known(s[1]) \subseteq {Committed(s)}
  /\ \A t \in CopiesOf(s[1], Unproven) : Committed(t) \in {"none", Committed(s)}

ProvenRows == {<<s, Committed(s)>> : s \in {t \in Unproven : Provable(t)}}
Auditable ==
  /\ rcWorld.v9 => \A s \in Joined : ~rcDrive[s[2]].pub
  /\ \A s \in Joined : Expected(s, rcRows[s]) # "conflict"
  /\ \A s \in Unproven : Provable(s)

RpOnly == UNCHANGED <<rcWorld, rcHeld, rcDrive, rcRs, rcDest, rcState, rcSession, rcLeft>>

RcAudit ==
  /\ "repair" \in rcWorld.ops /\ rcRp.at = "idle"
  /\ rcRp' = IF ~rcSession /\ Auditable /\ Unproven # {}
             THEN [at |-> "audited", repairs |-> ProvenRows] ELSE [rcRp EXCEPT !.at = "refused"]
  /\ UNCHANGED <<rcRows, rcVerdict>> /\ RpOnly

RcBackup ==
  /\ rcRp.at = "audited"
  /\ rcRp' \in {[rcRp EXCEPT !.at = "backed"], [rcRp EXCEPT !.at = "refused"]}
  /\ UNCHANGED <<rcRows, rcVerdict>> /\ RpOnly

\* Mutant: the audit made before the backup is good enough.
Confirmed_Once == TRUE
Confirmed == Auditable /\ ProvenRows = rcRp.repairs

\* Mutant: the revision is not bumped, which is what a live session refuses.
Bumpable_Always == TRUE
Bumpable == ~rcSession

RcApply ==
  /\ rcRp.at = "backed"
  /\ IF Confirmed /\ Bumpable
     THEN /\ rcRows' = [s \in RcSlots |-> IF \E r \in rcRp.repairs : r[1] = s
                                          THEN (CHOOSE r \in rcRp.repairs : r[1] = s)[2] ELSE rcRows[s]]
          /\ rcRp' = [rcRp EXCEPT !.at = "done"] /\ rcVerdict' = "stale"
     ELSE rcRp' = [rcRp EXCEPT !.at = "refused"] /\ UNCHANGED <<rcRows, rcVerdict>>
  /\ RpOnly

(***************************************************************************)
(* run_explicit_drive_repair: one transaction for one drive.  "same" says  *)
(* that the identity the caller proved is the one on record.               *)
(***************************************************************************)
DriveRows(d, rows) == {s \in Recorded(rows) : s[2] = d}
Unresolved(d) == {s \in DriveRows(d, rcRows) : rcRows[s] = "none" /\ rcWorld.cat[s[1]] # "absent"}
Digest(s) ==
  IF s \notin rcWorld.packed /\ rcWorld.key[s] \in Digests THEN rcWorld.key[s] ELSE Committed(s)

\* Mutant: a digest the Hub contradicts is written all the same.
HubDisagrees_Never(d) == FALSE
HubDisagrees(d) ==
  \E s \in Unresolved(d) : Digest(s) # "none" /\ {Digest(s), rcWorld.cat[s[1]]} = Digests

RcDriveRepair(d) ==
  /\ "drive" \in rcWorld.ops /\ (rcWorld.v9 => ~rcDrive[d].pub)
  /\ ~(rcDrive[d].lost /\ DriveRows(d, rcRows) = {})
  /\ \E same \in BOOLEAN :
       IF ~same \/ HubDisagrees(d)
       THEN rcState' = [rcState EXCEPT ![d] = "halted"] /\ UNCHANGED <<rcRows, rcRs, rcVerdict>>
       ELSE /\ rcRows' = [s \in RcSlots |-> IF s \in Unresolved(d) THEN Digest(s) ELSE rcRows[s]]
            /\ LET left == {s \in DriveRows(d, rcRows') : rcRows'[s] = "none"}
               IN rcState' = [rcState EXCEPT ![d] =
                    IF left = {} /\ (rcDrive[d].up \/ DriveRows(d, rcRows) # {}) THEN "complete"
                    ELSE IF ~rcDrive[d].up /\ ~rcDrive[d].lost THEN "blocked_absent"
                    ELSE "needs_refetch"]
            /\ rcVerdict' = "stale" /\ rcRs' = [rcRs EXCEPT !.sure = (rcRs.sure /\ rcRows' = rcRows)]
  /\ UNCHANGED <<rcWorld, rcHeld, rcDrive, rcDest, rcRp, rcSession, rcLeft>>

-----------------------------------------------------------------------------
(***************************************************************************)
(* What goes on around: each event is one of those the world allows.       *)
(***************************************************************************)
Event(k) ==
  /\ k \in rcWorld.kinds /\ rcLeft > 0
  /\ rcRs' = [rcRs EXCEPT !.sure = FALSE] /\ rcLeft' = rcLeft - 1
  /\ rcVerdict' = "stale" /\ UNCHANGED <<rcWorld, rcState>>

RcMount(d) ==
  /\ Event("mount") /\ rcDrive' = [rcDrive EXCEPT ![d].up = ~@]
  /\ UNCHANGED <<rcRows, rcHeld, rcDest, rcRp, rcSession>>

RcRot(s) ==
  /\ Event("rot") /\ rcHeld[s] = "A" /\ rcHeld' = [rcHeld EXCEPT ![s] = "B"]
  /\ UNCHANGED <<rcRows, rcDrive, rcDest, rcRp, rcSession>>

RcDrop(s) ==
  /\ Event("drop") /\ rcHeld[s] \in Digests /\ rcHeld' = [rcHeld EXCEPT ![s] = "gone"]
  /\ UNCHANGED <<rcRows, rcDrive, rcDest, rcRp, rcSession>>

\* A bootstrap makes the drive authoritative; it does not know of a restore.
RcPromote(d) ==
  /\ Event("promote") /\ rcDrive[d].up /\ ~rcDrive[d].auth
  /\ rcDrive' = [rcDrive EXCEPT ![d].auth = TRUE]
  /\ UNCHANGED <<rcRows, rcHeld, rcDest, rcRp, rcSession>>

RcRival ==
  /\ Event("rival") /\ rcDest.is = "free"
  /\ \E k \in {"empty", "full"} : rcDest' = [rcDest EXCEPT !.is = k]
  /\ UNCHANGED <<rcRows, rcHeld, rcDrive, rcRp, rcSession>>

RcFill(d) ==
  /\ Event("fill") /\ rcDrive[d].up /\ ~(rcRs.fence /\ rcRs.drive = d)
  /\ ~rcDrive[d].busy /\ rcDrive' = [rcDrive EXCEPT ![d].busy = TRUE]
  /\ rcSession' = TRUE
  /\ UNCHANGED <<rcRows, rcHeld, rcDest, rcRp>>

\* Fill replaces a copy, records its digest, and lets go of the drive.
RcFilled(s) ==
  /\ rcDrive[s[2]].busy
  /\ rcHeld' = [rcHeld EXCEPT ![s] = "A"] /\ rcRows' = [rcRows EXCEPT ![s] = "A"]
  /\ rcDrive' = [rcDrive EXCEPT ![s[2]].busy = FALSE]
  /\ rcSession' = FALSE /\ rcVerdict' = "stale" /\ rcRs' = [rcRs EXCEPT !.sure = FALSE]
  /\ UNCHANGED <<rcWorld, rcDest, rcRp, rcState, rcLeft>>

RcFillDies(d) ==
  /\ Event("die") /\ rcDrive[d].busy
  /\ rcDrive' = [rcDrive EXCEPT ![d].busy = FALSE, ![d].clean = FALSE]
  /\ UNCHANGED <<rcRows, rcHeld, rcDest, rcRp, rcSession>>

\* The restoring process dies: its hidden tree stays; a later run is new.
RcCrash ==
  /\ "crash" \in rcWorld.kinds /\ rcLeft > 0 /\ rcRs.at \notin {"idle", "done"}
  /\ rcLeft' = rcLeft - 1
  /\ rcRs' = [rcRs EXCEPT !.at = "idle", !.fence = FALSE, !.got = <<>>,
                          !.tried = {}, !.todo = {}, !.sure = FALSE]
  /\ UNCHANGED <<rcWorld, rcRows, rcHeld, rcDrive, rcDest, rcRp, rcState, rcVerdict, rcSession>>

RcStep == RcAdmit \/ RcFetch \/ RcWrite \/ RcGiveUp \/ RcPublish \/ RcBackup \/ RcApply

RcNext ==
  \/ RcStep \/ RcReverify \/ RcRestore \/ RcAudit \/ RcRival \/ RcCrash
  \/ \E d \in RcDrives : RcDriveRepair(d) \/ RcMount(d) \/ RcPromote(d) \/ RcFill(d) \/ RcFillDies(d)
  \/ \E s \in RcSlots : RcRot(s) \/ RcDrop(s) \/ RcFilled(s)

RcSpec == RcInit /\ [][RcNext]_rcVars
FairRcSpec == RcSpec /\ WF_rcVars(RcStep)

-----------------------------------------------------------------------------
RcTypeOK ==
  /\ rcRows \in [RcSlots -> Digests \cup {"none", "norow"}]
  /\ rcHeld \in [RcSlots -> Digests \cup {"gone", "never"}]
  /\ rcRs.at \in {"idle", "copy", "read", "write", "done", "failed", "occupied", "incomplete"}
  /\ rcRs.fence => rcWorld.v9 /\ ~rcDrive[rcRs.drive].busy
  /\ rcDest.is \in {"free", "empty", "full", "ours"}
  /\ rcRp.at \in {"idle", "audited", "backed", "done", "refused"}

(***************************************************************************)
(* What is published is the whole manifest, every file proven by a digest  *)
(* on record for it: the catalog's where it has one (restore_repo).        *)
(***************************************************************************)
TreeProven ==
  rcDest.is = "ours" =>
    /\ IF rcWorld.policy THEN rcWorld.plan = DOMAIN rcDest.got ELSE Archived(rcRs.snap) = DOMAIN rcDest.got
    /\ \A f \in DOMAIN rcDest.got :
         /\ rcWorld.cat[f] \in Digests => rcDest.got[f] = rcWorld.cat[f]
         /\ \E s \in CopiesOf(f, Recorded(rcRs.snap)) : rcDest.got[f] \in Sources(s, rcRs.snap[s])

(***************************************************************************)
(* "verified" is a promise: with nothing changed since, a restore does not *)
(* fail (reverify and restore_repo judge copies separately).               *)
(***************************************************************************)
VerifiedRestores == rcRs.sure => rcRs.at \notin {"failed", "incomplete"}

(***************************************************************************)
(* A shelved drive or a decoder that cannot run is no verdict on bytes:    *)
(* whatever fails then fails with everything at hand (reverify's unknown). *)
(***************************************************************************)
AbsenceIsNoVerdict ==
  \A U \in SUBSET RcDrives, N \in Unreadable :
    Verdict(U, N) = "failed" => Verdict(RcDrives, {}) = "failed"

\* A restore refused for a file nobody holds is among the suspects.
RefusalSurfaces ==
  rcRs.at = "incomplete" /\ rcRows = rcRs.snap /\ rcWorld.policy /\ Archived(rcRows) # {} /\ rcWorld.plan # {}
    => Suspects # {}

\* Existing destinations are never overwritten (an empty directory is).
TreeKept == rcDest.is \in {"full", "ours"} => rcDest' = rcDest

\* A restore fetches nothing onto a drive it found authoritative, nor on v9.
AnchorsUntouched ==
  \A s \in RcSlots : rcHeld[s] = "gone" /\ rcHeld'[s] \in Digests /\ rcRs.at = "read" /\ rcRs'.at = "write"
    => ~rcWorld.v9 /\ ~rcRs.auth

\* The slots a repair writes; Fill writes its own.
Repaired == {s \in RcSlots : rcRows'[s] # rcRows[s] /\ rcDrive' = rcDrive}

(***************************************************************************)
(* A repair writes only where nothing stood, outside a live session if it  *)
(* is the repository's, and what it writes is the bytes there or their     *)
(* annex key, agreeing with the Hub.                                       *)
(***************************************************************************)
EvidenceGrounded ==
  \A s \in Repaired :
    /\ rcRows[s] = "none" /\ (rcRp' # rcRp => ~rcSession)
    /\ rcRows'[s] \in {rcHeld[s], rcWorld.key[s]}
    /\ {rcRows'[s], rcWorld.cat[s[1]]} # Digests

\* repair_hashes proves every row or writes none, and a file's copies agree;
\* a drive that halts is left as it was, a complete one owes nothing.
RepairWhole ==
  /\ rcRp'.at = "done" /\ rcRp.at # "done" =>
       \A s \in Repaired : \A t \in CopiesOf(s[1], Joined) : Expected(t, rcRows'[t]) = rcRows'[s]
  /\ rcRp'.at = "done" /\ rcRp.at # "done" => \A s \in Joined : Expected(s, rcRows'[s]) # "none"
  /\ \A d \in RcDrives : rcState'[d] # rcState[d] =>
       /\ rcState'[d] = "halted" => rcRows' = rcRows
       /\ rcState'[d] = "complete" => \A s \in DriveRows(d, rcRows') : rcRows'[s] # "none"

(***************************************************************************)
(* All of it: what comes back from the archive is what its evidence names, *)
(* and evidence only comes from bytes.                                     *)
(***************************************************************************)
RecoverySound ==
  /\ [](RcTypeOK /\ TreeProven /\ VerifiedRestores /\ AbsenceIsNoVerdict /\ RefusalSurfaces)
  /\ [][TreeKept /\ AnchorsUntouched /\ EvidenceGrounded /\ RepairWhole]_rcVars

\* A restore and a repair return (part of OperationsEnd).
RecoveryDue == rcRs.at \in {"copy", "read", "write"} \/ rcRp.at \in {"audited", "backed"}

=============================================================================

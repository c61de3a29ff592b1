--------------------------- MODULE DriveEvidence ---------------------------
(***************************************************************************)
(* What a clean anchor promises, with no locks, no generations, no         *)
(* sessions and no crashes.  A drive is either covered by a clean anchor   *)
(* or not.  Bytes change only on a drive that is not covered, and a drive  *)
(* becomes covered only when everything written to it has been seen by the *)
(* observation the anchor records.  Several drives can change together.    *)
(***************************************************************************)
CONSTANT Drives

VARIABLES
  clean,      \* clean[d]: the current generation of d has a clean anchor
  unseen      \* unseen[d]: d holds bytes no observation has accounted for

evidenceVars == <<clean, unseen>>

EvidenceInit ==
  /\ clean = [d \in Drives |-> FALSE]
  /\ unseen \in [Drives -> BOOLEAN]

\* The dirty advance: evidence is withdrawn before any allocation.
Open(D) ==
  /\ clean' = [d \in Drives |-> clean[d] /\ d \notin D]
  /\ UNCHANGED unseen

Write(d) ==
  /\ ~clean[d]
  /\ unseen' = [unseen EXCEPT ![d] = TRUE]
  /\ UNCHANGED clean

Observe(D) ==
  /\ unseen' = [d \in Drives |-> unseen[d] /\ d \notin D]
  /\ UNCHANGED clean

\* The clean anchors of one envelope are published together.
Publish(D) ==
  /\ \A d \in D : ~unseen[d]
  /\ clean' = [d \in Drives |-> clean[d] \/ d \in D]
  /\ UNCHANGED unseen

EvidenceNext ==
  \/ \E D \in SUBSET Drives : Open(D) \/ Observe(D) \/ Publish(D)
  \/ \E d \in Drives : Write(d)

EvidenceSpec == EvidenceInit /\ [][EvidenceNext]_evidenceVars

\* A covered drive holds nothing the anchor does not account for: the fact on which
\* offline admission of a drive by its anchor rests.
AnchorsAreTrue == \A d \in Drives : clean[d] => ~unseen[d]

=============================================================================

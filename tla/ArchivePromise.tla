--------------------------- MODULE ArchivePromise ---------------------------
(***************************************************************************)
(* What a publication operation promises to whoever reads the catalog, the *)
(* map and the anchors of the drives: files appear one by one while the    *)
(* drives are dirty, the map shows a batch whole or not at all, and the    *)
(* drives are clean again only when everything has been published.         *)
(***************************************************************************)
EXTENDS FiniteSets

VARIABLES files, published, mapped, clean, state

promiseVars == <<files, published, mapped, clean, state>>

PromiseInit == published = {} /\ mapped = FALSE /\ clean = TRUE /\ state = "none"

Open ==
  /\ state = "none" /\ state' = "PREPARED" /\ clean' = FALSE
  /\ UNCHANGED <<files, published, mapped>>

PublishFile(f) ==
  /\ state = "PREPARED" /\ published' = published \cup {f}
  /\ UNCHANGED <<files, mapped, clean, state>>

ShowBatch ==
  /\ state = "PREPARED" /\ published = files /\ ~mapped /\ mapped' = TRUE
  /\ UNCHANGED <<files, published, clean, state>>

Close ==
  /\ state = "PREPARED" /\ mapped /\ state' = "CLOSED" /\ clean' = TRUE
  /\ UNCHANGED <<files, published, mapped>>

PromiseNext == Open \/ (\E f \in files \ published : PublishFile(f)) \/ ShowBatch \/ Close

PromiseSpec == PromiseInit /\ [][PromiseNext]_promiseVars
=============================================================================

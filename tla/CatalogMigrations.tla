------------------------ MODULE CatalogMigrations ------------------------
(***************************************************************************)
(* What changes the form of a catalog: the ladder when it is opened        *)
(* (db.connect), the move to a new home (publish_provenance_migration),    *)
(* and that of its archived copies into git-annex (_convert_archives).     *)
(***************************************************************************)
EXTENDS CatalogLadder, CatalogCutover, Conversion

\* The catalog survives its migrations, in whatever order and however interrupted.
CatalogKept == [](LadderSound /\ ConversionSound) /\ CutoverSound
=============================================================================

--------------------------- MODULE CatalogLadder ---------------------------
(***************************************************************************)
(* core/db.py: opening the catalog and migrating it in place, one schema   *)
(* version after the other, with a recovery copy before each step, while   *)
(* the process may die anywhere.  The next run starts from what is on disk.*)
(*                                                                         *)
(* A catalog is its user_version, the parts of its schema, and its rows;   *)
(* of each column that a step converts or checks there is one value.       *)
(***************************************************************************)
EXTENDS Naturals

CONSTANT LdWorlds  \* the catalog to start with, the entry used, and crashes

Layout == 7
Newest == 9
Steps == 1..Layout
Parts == {"tables", "fk", "mode", "drives3", "evidence", "drives4", "proposals", "hash",
          "dangling", "digests", "dmode", "repair", "views"}
\* What the versions add that their stamps promise.
PartsOf == <<{"fk"}, {"mode"}, {"drives3"}, {"drives4"}, {"proposals"}, {"hash"},
             {"digests", "dmode", "repair"}>>

LdRows ==
  [plan : {"none", "bad", "compressed", "uncompressed", "guaranteed", "compression_aware", "ark"},
   path : {"none", "missing", "unsafe", "recovered"}, status : {"verified", "inspected"},
   orphan : BOOLEAN, kids : BOOLEAN, hash : {"none", "short", "full"}, dmode : {"ok", "bad"},
   digest : {"null", "hub", "unlisted", "other"},
   prov : {"none", "hub_confirmed", "legacy_unknown", "refused"}]
LdCatalogs ==
  [there : BOOLEAN, ver : 0..Newest + 1, has : SUBSET Parts, contract : BOOLEAN, rows : LdRows]
\* What a schema says of its rows: a stamp of 6 may be an earlier build's, without its check;
\* a column is checked from the step that adds it on, and an empty file holds no row.
Lawful(c) ==
  /\ \A k \in Steps \ {6} : k <= c.ver => PartsOf[k] \subseteq c.has
  /\ "dmode" \in c.has => "hash" \in c.has
  /\ "mode" \in c.has => c.rows.plan \notin {"bad", "compressed", "uncompressed"}
  /\ ("proposals" \notin c.has \/ "dmode" \in c.has) => c.rows.dmode # "bad" /\ c.rows.hash # "short"
  /\ c.has = {} => c.rows.plan = "none"
ASSUME LdWorldsAssumption ==
  \A w \in LdWorlds : /\ w.cat \in LdCatalogs /\ Lawful(w.cat) /\ w.crashes \in Nat
                      /\ w.entry \in {"connect", "read", "ladder", "clone"}

VARIABLES
  ldCat,   \* catalog.sqlite: its stamp, schema parts and rows
  ldBak,   \* recovery copies by the version they precede: "none", "torn", or the "copy" of a catalog
  ldRun,   \* the process: where it is, its local version, how it last ended
  ldWorld, \* the world chosen
  ldLeft   \* crashes left

ldVars == <<ldCat, ldBak, ldRun, ldWorld, ldLeft>>

Closed == [pc |-> "closed", ver |-> 0, out |-> "none"]

LdTypeOK ==
  /\ ldCat.ver \in 0..Newest + 1 /\ ldCat.has \subseteq Parts
  /\ DOMAIN ldBak = Steps
  /\ ldRun.pc \in {"closed", "tables", "step", "copying", "legacy", "write", "views"}
  /\ ldRun.ver \in 0..Newest /\ ldRun.out \in {"none", "ok", "refused"}

LdInit ==
  \E w \in LdWorlds :
    /\ ldWorld = w /\ ldCat = w.cat /\ ldLeft = w.crashes
    /\ ldBak = [k \in Steps |-> [is |-> "none"]] /\ ldRun = Closed

-----------------------------------------------------------------------------
(* The conversions                                                         *)

\* PRAGMA foreign_key_check: rows of a child table whose parent is not there.
Orphaned(c) == c.rows.orphan \/ ("dangling" \in c.has /\ c.rows.kids)

Mode(plan) == CASE plan = "uncompressed" -> "guaranteed"
                [] plan = "compressed" -> "compression_aware"
                [] OTHER -> plan

\* Mutant: a digest the Hub disagrees with is classified as merely unconfirmed.
Provenance_Lenient(r) ==
  CASE r.digest = "null" -> "none" [] r.digest = "hub" -> "hub_confirmed" [] OTHER -> "legacy_unknown"
\* _apply_provenance_backfill: equal to the Hub's digest, contradicting it, or unconfirmed.
Provenance(r) ==
  CASE r.digest = "null" -> "none"
    [] r.digest = "hub" -> "hub_confirmed"
    [] r.digest = "unlisted" -> "legacy_unknown"
    [] r.digest = "other" -> "refused"

With(c, k, parts, rows) ==
  [there |-> c.there, ver |-> k, has |-> c.has \cup parts, contract |-> c.contract, rows |-> rows]
Refused(c) == c

(***************************************************************************)
(* One transaction each; a row that violates the new schema, or            *)
(* foreign_key_check, rolls it back.                                       *)
(***************************************************************************)
RebuildIntegrity(c) ==
  IF "fk" \in c.has THEN With(c, 1, {}, c.rows)
  ELSE IF c.rows.plan = "bad" \/ Orphaned(c) THEN Refused(c)
  ELSE With(c, 1, {"fk", "mode", "digests"}, [c.rows EXCEPT !.plan = Mode(@)])

CapacityMode(c) ==
  IF c.rows.plan = "bad" \/ Orphaned(c) THEN Refused(c)
  ELSE With(c, 2, {"mode"}, IF "mode" \in c.has THEN c.rows ELSE [c.rows EXCEPT !.plan = Mode(@)])

Evidence3(c) == IF Orphaned(c) THEN Refused(c) ELSE With(c, 3, {"drives3", "evidence"}, c.rows)
Lifecycle4(c) == IF Orphaned(c) THEN Refused(c) ELSE With(c, 4, {"drives4"}, c.rows)
\* The packaged CREATE TABLE has the checks of versions 6 and 7 already.
ProposalControl(c) ==
  IF Orphaned(c) THEN Refused(c) ELSE With(c, 5, {"proposals", "hash", "dmode"}, c.rows)

\* What a version-six CREATE TABLE adds, and what renaming takes away.
HashParts == {"hash", "dangling"}
\* Renaming the parent first makes the children's foreign keys name the dropped table;
\* the probe leaves an active plan behind if there was none.
ConfigHash(c) ==
  LET plan == IF c.rows.plan = "none" THEN "ark" ELSE c.rows.plan
      hash == IF c.rows.hash = "short" THEN "none" ELSE c.rows.hash
  IN With(c, 6, HashParts, [c.rows EXCEPT !.hash = hash, !.plan = plan])

\* _placement_has_derivation_check: the table has its last shape already.
DerivationChecked(c) == "dmode" \in c.has
\* The CHECKs of the version-seven CREATE TABLE.
RowsFit(c) == c.rows.dmode # "bad" /\ c.rows.hash # "short"
ProvenanceParts == {"digests", "dmode", "repair"}
\* _apply_provenance_schema_objects: the rebuilt table checks the configuration hash too.
Rebuilt(c) == ProvenanceParts \cup (IF DerivationChecked(c) THEN {} ELSE {"hash"})
ProvenanceSchema(c) ==
  IF (~DerivationChecked(c) /\ ~RowsFit(c)) \/ Provenance(c.rows) = "refused" \/ Orphaned(c)
  THEN Refused(c)
  ELSE With(c, 7, Rebuilt(c), [c.rows EXCEPT !.prov = Provenance(c.rows)])

\* Mutant: what was not migrated is not looked at.
SoundClone_Migrated(c) == c.ver > Layout \/ ProvenanceParts \subseteq c.has
\* _validate_migrated_clone, also of a clone that needed no migration.
SoundClone(c) ==
  /\ ~Orphaned(c) /\ c.ver \in Layout..Newest /\ (c.ver > Layout => c.contract)
  /\ ProvenanceParts \subseteq c.has /\ c.rows.dmode # "bad"

Convert(k, c) ==
  CASE k = 1 -> RebuildIntegrity(c)
    [] k = 2 -> CapacityMode(c)
    [] k = 3 -> Evidence3(c)
    [] k = 4 -> Lifecycle4(c)
    [] k = 5 -> ProposalControl(c)
    [] k = 6 -> ConfigHash(c)
    [] k = 7 -> ProvenanceSchema(c)

\* The early returns that only stamp, without a copy.
Shaped(k, c) ==
  \/ k = 3 /\ "drives3" \in c.has
  \/ k = 4 /\ "drives4" \in c.has
  \/ k = 5 /\ "proposals" \in c.has
  \/ k = 6 /\ "hash" \in c.has

-----------------------------------------------------------------------------
(* Entries: connect, migrate_existing_catalog, the ladder on a clone       *)

Entry == ldWorld.entry
\* Mutant: only the newest catalogs are refused, as before clone-first.
Admitted_Ladder(e, c) == c.ver <= Newest
\* connect refuses an existing catalog below version 7, whatever it holds.
Admitted(e, c) ==
  /\ c.ver <= Newest /\ (c.ver > 7 => c.contract)
  /\ e = "connect" => (c.there => c.ver >= Layout)
  /\ e = "read" => c.there /\ c.ver >= Layout

\* Mutant: a stamp of 6 is believed.
LocalVersion_Stamp(c) == c.ver
\* A stamp of 6 without the check is an earlier build's: its step runs again, except on a
\* clone, which goes from 6 straight to the provenance schema.
LocalVersion(c) ==
  IF Entry # "clone" /\ c.ver = 6 /\ "hash" \notin c.has THEN 5 ELSE c.ver
Running == ldRun.pc # "closed"
End(out) == ldRun' = [Closed EXCEPT !.out = out]

LdOpen ==
  /\ ~Running /\ Admitted(Entry, ldCat)
  /\ ldRun.out # "refused" /\ (ldRun.out = "none" \/ ldCat.ver < Layout)
  /\ \/ Entry = "read" /\ End("ok") /\ UNCHANGED ldCat
     \/ /\ Entry # "read"
        /\ ldCat' = [ldCat EXCEPT !.there = TRUE]
        /\ ldRun' = [Closed EXCEPT !.pc = IF Entry = "clone" THEN "step" ELSE "tables",
                                   !.ver = LocalVersion(ldCat)]
  /\ UNCHANGED <<ldBak, ldWorld, ldLeft>>

LdRefuse ==
  /\ ~Running /\ ~Admitted(Entry, ldCat) /\ ldRun.out # "refused"
  /\ End("refused") /\ UNCHANGED <<ldCat, ldBak, ldWorld, ldLeft>>

\* _apply_schema(tables_only): in a new file every table has its last shape already.
LdTables ==
  /\ ldRun.pc = "tables" /\ ldRun' = [ldRun EXCEPT !.pc = "step"]
  /\ ldCat' = [ldCat EXCEPT !.has = @ \cup
                 (IF @ = {} THEN {"tables", "fk", "mode", "drives3", "drives4", "digests"}
                  ELSE {"tables"})]
  /\ UNCHANGED <<ldBak, ldWorld, ldLeft>>

-----------------------------------------------------------------------------
(* One step of the ladder                                                  *)

Step == ldRun.ver + 1
Climbing(pc) == ldRun.pc = pc /\ ldRun.ver < Layout
Climb(pc) == ldRun' = [ldRun EXCEPT !.pc = pc]

\* Shaped already: only the stamp is written.
LdStamp ==
  /\ Climbing("step") /\ Shaped(Step, ldCat)
  /\ ldCat' = [ldCat EXCEPT !.ver = Step]
  /\ ldRun' = [ldRun EXCEPT !.ver = Step]
  /\ UNCHANGED <<ldBak, ldWorld, ldLeft>>

\* Mutant: no recovery copy before the step.
CopyDue_Never(k) == FALSE
\* _backup_before_migration: a copy that exists is kept, whatever it holds.
CopyDue(k) == Entry = "ladder" /\ ldBak[k].is = "none"
LdCopy ==
  /\ Climbing("step") /\ ~Shaped(Step, ldCat) /\ CopyDue(Step)
  /\ ldBak' = [ldBak EXCEPT ![Step] = [is |-> "torn"]] /\ Climb("copying")
  /\ UNCHANGED <<ldCat, ldWorld, ldLeft>>
LdCopied ==
  /\ ldRun.pc = "copying"
  /\ ldBak' = [ldBak EXCEPT ![Step] = [is |-> "copy", of |-> ldCat]]
  /\ Climb("write")
  /\ UNCHANGED <<ldCat, ldWorld, ldLeft>>
LdNoCopy ==
  /\ Climbing("step") /\ ~Shaped(Step, ldCat) /\ ~CopyDue(Step)
  /\ Climb("write") /\ UNCHANGED <<ldCat, ldBak, ldWorld, ldLeft>>

\* What the legacy columns become.
Recoverable(r) ==
  LET path == IF r.path = "missing" THEN "recovered" ELSE r.path
  IN [r EXCEPT !.path = path, !.status = "inspected"]
\* _migrate_legacy_columns: outside any transaction, before the rebuild of version 1.
LdLegacy ==
  /\ ldRun.pc = "write" /\ Step = 1
  /\ IF ldCat.rows.path = "unsafe"
     THEN End("refused") /\ UNCHANGED ldCat
     ELSE /\ ldCat' = [ldCat EXCEPT !.rows = Recoverable(ldCat.rows)]
          /\ Climb("legacy")
  /\ UNCHANGED <<ldBak, ldWorld, ldLeft>>

LdWrite ==
  /\ ldRun.pc = "legacy" \/ (ldRun.pc = "write" /\ Step > 1)
  /\ ldCat' = Convert(Step, ldCat)
  /\ IF ldCat'.ver = Step THEN ldRun' = [ldRun EXCEPT !.pc = "step", !.ver = Step]
     ELSE End("refused")
  /\ UNCHANGED <<ldBak, ldWorld, ldLeft>>

\* The final _apply_schema; a clone is validated instead.
LdViews ==
  /\ ldRun.pc = "step" /\ ldRun.ver >= Layout
  /\ IF Entry = "clone"
     THEN End(IF SoundClone(ldCat) THEN "ok" ELSE "refused") /\ UNCHANGED ldCat
     ELSE /\ ldCat' = [ldCat EXCEPT !.has = @ \cup {"evidence", "repair", "views"}]
          /\ End("ok")
  /\ UNCHANGED <<ldBak, ldWorld, ldLeft>>

\* The process dies; a clone half migrated is never opened again.
LdCrash ==
  /\ Running /\ ldLeft > 0 /\ ldLeft' = ldLeft - 1
  /\ End(IF Entry = "clone" THEN "refused" ELSE "none")
  /\ UNCHANGED <<ldCat, ldBak, ldWorld>>

LdStep == LdTables \/ LdStamp \/ LdCopy \/ LdCopied \/ LdNoCopy \/ LdLegacy \/ LdWrite \/ LdViews
LdNext == LdOpen \/ LdRefuse \/ LdStep \/ LdCrash
LdSpec == LdInit /\ [][LdNext]_ldVars
FairLdSpec == LdSpec /\ WF_ldVars(LdStep \/ LdOpen \/ LdRefuse)

-----------------------------------------------------------------------------
(* Properties                                                              *)

Start == ldWorld.cat
Crashed == ldLeft < ldWorld.crashes

(***************************************************************************)
(* A stamp is a promise: whatever run stamped it, the parts of that        *)
(* version and of all before it are there.                                 *)
(***************************************************************************)
StampKept ==
  \A k \in Steps : (ldCat.ver >= k /\ ldCat.ver > Start.ver) => PartsOf[k] \subseteq ldCat.has

(***************************************************************************)
(* In a migrated catalog every value is the old one's, or what the new     *)
(* schema says of it; provenance is claimed only on the Hub's digest.      *)
(***************************************************************************)
RowsKept ==
  LET old == Start.rows  new == ldCat.rows IN
  /\ new.orphan = old.orphan /\ new.kids = old.kids /\ new.digest = old.digest /\ new.dmode = old.dmode
  /\ new.plan \in {old.plan, Mode(old.plan)} \cup (IF old.plan = "none" THEN {"ark"} ELSE {})
  /\ (ldCat.ver >= Layout /\ Start.ver < Layout) =>
        /\ ~new.orphan /\ new.plan \notin {"bad", "compressed", "uncompressed"}
        /\ new.dmode # "bad" /\ new.hash # "short"
        /\ (new.prov = "hub_confirmed") = (old.digest = "hub")
        /\ (new.prov = "legacy_unknown") = (old.digest = "unlisted")

(***************************************************************************)
(* Backup first: what a migration in place has converted can be had back   *)
(* from the copy taken before that version, unless the process died while  *)
(* it was being written (the next run takes the torn file for the copy).   *)
(* Before the first copy there were only stamps on what was there already. *)
(***************************************************************************)
CopyKept ==
  Entry = "ladder" =>
    /\ ldRun.pc \in {"write", "legacy"} =>
         \/ ldBak[Step].is = "copy" /\ ldBak[Step].of \in {ldCat, [ldCat EXCEPT !.rows = Start.rows]}
         \/ ldBak[Step].is = "torn" /\ Crashed
    /\ \A k \in Steps :
         (ldBak[k].is = "copy" /\ \A j \in 1..k - 1 : ldBak[j].is = "none")
           => /\ ldBak[k].of.rows = Start.rows /\ ldBak[k].of.ver >= Start.ver
              /\ \A j \in Start.ver + 1..ldBak[k].of.ver : Shaped(j, ldBak[k].of)

\* A clone that is handed on, migrated or not, has every part and no orphan.
ClonesSound ==
  (Entry = "clone" /\ ldRun.out = "ok") =>
    /\ ~Orphaned(ldCat) /\ ldCat.ver >= Layout
    /\ \A k \in Steps : PartsOf[k] \subseteq ldCat.has

\* Clone first: connect leaves an existing catalog below version 7, or a newer one, as it is.
RefusedUntouched ==
  (Start.there /\ \/ Entry = "read"
                  \/ Entry = "connect" /\ Start.ver \notin Layout..Newest) => ldCat = Start

(***************************************************************************)
(* However often it dies, a migration of sound rows is finished by running *)
(* it again; and a first connect that does not die opens a new catalog.    *)
(***************************************************************************)
SoundRows(c) ==
  /\ c.rows.plan # "bad" /\ c.rows.path # "unsafe" /\ ~c.rows.orphan
  /\ c.rows.digest # "other" /\ c.rows.dmode # "bad"
  /\ c.rows.kids => c.ver < 5 \/ "hash" \in c.has
LadderDue == SoundRows(Start) /\ Start.ver <= Layout /\ (Entry = "ladder" \/ ~Start.there)
LadderDone == (ldCat.ver = Layout /\ ldRun.out = "ok") \/ (Entry # "ladder" /\ Crashed)

LadderSound == LdTypeOK /\ StampKept /\ RowsKept /\ CopyKept /\ ClonesSound /\ RefusedUntouched
=============================================================================

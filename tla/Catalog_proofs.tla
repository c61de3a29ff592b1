--------------------------- MODULE Catalog_proofs ---------------------------
(***************************************************************************)
(* Proofs about what keeps the catalog: for every catalog, library and     *)
(* drive a world may start from, however crashes, errors, other writers    *)
(* and other hands interleave.                                             *)
(*                                                                         *)
(* The ladder (CatalogLadder): the stamp of a version follows its parts,   *)
(* and what was copied before a step is the catalog as it was.             *)
(*                                                                         *)
(* The cutover (CatalogCutover): what is under the lock is what was        *)
(* rehearsed, and what was read file by file lies between two states of    *)
(* the source; as long as nothing interferes every check succeeds.         *)
(*                                                                         *)
(* Conversion: a row changes only when its bytes are committed, and a      *)
(* sealed plan vouches for the digest of each of its files.                *)
(*                                                                         *)
(* Recovery: what a restore is copying was admitted by its row, what a     *)
(* repair is sure of was proven from rows that still stand, and a copy it  *)
(* knows to be good is one whose bytes were read.                          *)
(***************************************************************************)
EXTENDS CatalogMigrations, Recovery, FiniteSetTheorems, WellFoundedInduction, TLAPS

-----------------------------------------------------------------------------
(* The schema ladder                                                       *)

\* The version the run believes in, and the parts that stamps promise one by one.
LdLocal == LocalVersion(ldCat)
Promised(c) ==
  /\ c.ver >= 1 => "fk" \in c.has
  /\ c.ver >= 2 => "mode" \in c.has
  /\ c.ver >= 3 => "drives3" \in c.has
  /\ c.ver >= 4 => "drives4" \in c.has
  /\ c.ver >= 5 => "proposals" \in c.has
  /\ c.ver >= 7 => "digests" \in c.has /\ "dmode" \in c.has /\ "repair" \in c.has

LdTyped ==
  /\ ldWorld \in LdWorlds /\ ldLeft \in Nat /\ ldLeft <= ldWorld.crashes
  /\ ldCat \in LdCatalogs
  /\ ldRun \in [pc : {"closed", "tables", "step", "copying", "legacy", "write", "views"},
                ver : 0..Newest, out : {"none", "ok", "refused"}]
  /\ DOMAIN ldBak = Steps

\* Where a run may be: on the step after its version, with that step still to do.
LdPlace ==
  /\ Running => ldRun.ver = LdLocal /\ Entry # "read" /\ ldCat.there /\ ldCat.ver <= Newest
  /\ ldRun.pc \in {"copying", "legacy", "write"} => ldRun.ver < Layout /\ ~Shaped(Step, ldCat)
  /\ ldRun.pc = "legacy" => ldRun.ver = 0
  /\ ldRun.pc = "tables" => Entry # "clone"
  /\ (ldRun.pc \notin {"closed", "tables"} /\ Entry # "clone") => "tables" \in ldCat.has
  /\ (Start.there /\ \/ Entry = "read"
                     \/ Entry = "connect" /\ Start.ver \notin Layout..Newest) => ~Running

\* The check of version 6 is there once a run has stamped past it.
HashKept == (ldCat.ver > Start.ver /\ ldCat.ver >= 6) => "hash" \in ldCat.has

\* No copy yet below the version reached: nothing but stamps so far.
Fresh == \A j \in Steps : j <= LdLocal => ldBak[j].is = "none"
OnlyStamped(c) == c.ver >= Start.ver /\ \A j \in Start.ver + 1..c.ver : Shaped(j, c)

LdCopies ==
  /\ \A k \in Steps : ldBak[k].is # "none" => k - 1 <= LdLocal /\ "tables" \in ldCat.has /\ ldCat.there
  /\ \A k \in Steps : (ldBak[k].is = "copy" /\ k - 1 = LdLocal) =>
       ldBak[k].of = IF k = 1 THEN [ldCat EXCEPT !.rows = Start.rows] ELSE ldCat
  /\ \A k \in Steps : ldBak[k].is \in {"none", "torn", "copy"}
  /\ \A k \in Steps : ldBak[k].is = "torn" => Crashed \/ (ldRun.pc = "copying" /\ k = Step)
  /\ ldRun.pc \in {"copying", "write", "legacy"} => ldBak[Step].is # "none"
  /\ Fresh => /\ OnlyStamped(ldCat)
              /\ ldCat.rows = Start.rows \/ (ldBak[1].is # "none" /\ ldRun.pc # "copying")
  /\ \A k \in Steps : (ldBak[k].is = "copy" /\ \A j \in 1..k - 1 : ldBak[j].is = "none") =>
       ldBak[k].of.rows = Start.rows /\ OnlyStamped(ldBak[k].of)

LdInv ==
  /\ LdTyped /\ Lawful(ldCat) /\ LdPlace /\ RowsKept /\ HashKept /\ ClonesSound /\ RefusedUntouched
  /\ Entry = "ladder" => LdCopies

\* What the stamps below 6 and the last promise, spelled out.
LEMMA PromisedParts ==
  ASSUME NEW c, c.ver \in Nat, c.ver <= 10
  PROVE  (\A k \in Steps \ {6} : k <= c.ver => PartsOf[k] \subseteq c.has) <=> Promised(c)
<1>1. /\ PartsOf[1] = {"fk"} /\ PartsOf[2] = {"mode"} /\ PartsOf[3] = {"drives3"} /\ PartsOf[4] = {"drives4"}
      /\ PartsOf[5] = {"proposals"} /\ PartsOf[7] = {"digests", "dmode", "repair"}
  BY DEF PartsOf
<1>2. \A k \in Steps \ {6} : k \in {1, 2, 3, 4, 5, 7}
  BY DEF Steps, Layout
<1>3. ASSUME \A k \in Steps \ {6} : k <= c.ver => PartsOf[k] \subseteq c.has
      PROVE  Promised(c)
  <2>1. \A k \in {1, 2, 3, 4, 5, 7} : k <= c.ver => PartsOf[k] \subseteq c.has
    BY <1>3 DEF Steps, Layout
  <2>2. /\ 1 <= c.ver => PartsOf[1] \subseteq c.has
        /\ 2 <= c.ver => PartsOf[2] \subseteq c.has
        /\ 3 <= c.ver => PartsOf[3] \subseteq c.has
        /\ 4 <= c.ver => PartsOf[4] \subseteq c.has
        /\ 5 <= c.ver => PartsOf[5] \subseteq c.has
        /\ 7 <= c.ver => PartsOf[7] \subseteq c.has
    BY <2>1
  <2> QED
    BY <1>1, <2>2 DEF Promised
<1>4. ASSUME Promised(c), NEW k \in Steps \ {6}, k <= c.ver
      PROVE  PartsOf[k] \subseteq c.has
  BY <1>1, <1>2, <1>4 DEF Promised
<1> QED
  BY <1>3, <1>4

\* The catalog to start with.
LEMMA LdInitInv == LdInit => LdInv
<1> SUFFICES ASSUME LdInit PROVE LdInv
  OBVIOUS
<1>1. PICK w \in LdWorlds : ldWorld = w /\ ldCat = w.cat /\ ldLeft = w.crashes
  BY DEF LdInit
<1>2. ldBak = [k \in Steps |-> [is |-> "none"]] /\ ldRun = Closed
  BY DEF LdInit
<1>3. LdTyped /\ Lawful(ldCat)
  BY <1>1, <1>2, LdWorldsAssumption DEF LdTyped, Closed, Newest
<1>4. LdPlace
  BY <1>2 DEF LdPlace, Closed, Running
<1>5. RowsKept /\ HashKept /\ ClonesSound /\ RefusedUntouched
  BY <1>1, <1>2, <1>3 DEF LdTyped, LdCatalogs, LdRows, RowsKept, HashKept, ClonesSound, RefusedUntouched, Start, Closed, Layout, Newest
<1>6. LdCopies
  <2>1. OnlyStamped(ldCat)
    BY <1>1, <1>3 DEF OnlyStamped, Start, LdTyped, LdCatalogs, Newest
  <2> QED
    BY <1>1, <1>2, <2>1 DEF LdCopies, Closed, Start
<1> QED
  BY <1>3, <1>4, <1>5, <1>6 DEF LdInv

\* Mode says the same of what it said.
LEMMA ModeIdempotent ==
  ASSUME NEW plan \in {"none", "bad", "compressed", "uncompressed", "guaranteed", "compression_aware", "ark"}
  PROVE  /\ Mode(plan) \in {"none", "bad", "guaranteed", "compression_aware", "ark"} /\ Mode(Mode(plan)) = Mode(plan)
         /\ (Mode(plan) = "bad" <=> plan = "bad") /\ (Mode(plan) = "none" <=> plan = "none")
         /\ Mode("ark") = "ark" /\ Mode("none") = "none"
BY DEF Mode

\* What a conversion may do to the rows.
Converts(r, s) ==
  /\ s.orphan = r.orphan /\ s.kids = r.kids /\ s.digest = r.digest /\ s.dmode = r.dmode
  /\ s.plan \in {r.plan, Mode(r.plan)} \cup (IF r.plan = "none" THEN {"ark"} ELSE {})

\* A step of the ladder gives a lawful catalog of its version, or leaves it as it is.
LEMMA ConvertKeeps ==
  ASSUME NEW c \in LdCatalogs, Lawful(c), NEW k \in Steps, ~Shaped(k, c), c.ver = k - 1 \/ (k = 6 /\ c.ver = 6),
         NEW d, d = Convert(k, c)
  PROVE  \/ d = c /\ k # 6
         \/ /\ d \in LdCatalogs /\ Lawful(d) /\ d.ver = k /\ d.there = c.there
            /\ c.has \subseteq d.has /\ Converts(c.rows, d.rows)
            /\ (k = 6 => "hash" \in d.has)
            /\ (k = 7 => "hash" \in d.has /\ ~d.rows.orphan /\ d.rows.prov = Provenance(c.rows))
<1>0. k \in 1..7 /\ c.rows \in LdRows /\ c.ver \in 0..10 /\ c.has \subseteq Parts /\ c.there \in BOOLEAN /\ c.contract \in BOOLEAN
  BY DEF Steps, Layout, LdCatalogs, Newest
<1>p. Promised(c)
  BY <1>0, PromisedParts DEF Lawful
<1>l. /\ "dmode" \in c.has => "hash" \in c.has
      /\ "mode" \in c.has => c.rows.plan \notin {"bad", "compressed", "uncompressed"}
      /\ ("proposals" \notin c.has \/ "dmode" \in c.has) => c.rows.dmode # "bad" /\ c.rows.hash # "short"
      /\ c.has = {} => c.rows.plan = "none"
  BY DEF Lawful
<1>m. /\ Mode(c.rows.plan) \in {"none", "bad", "guaranteed", "compression_aware", "ark"}
      /\ (Mode(c.rows.plan) = "bad" <=> c.rows.plan = "bad") /\ (Mode(c.rows.plan) = "none" <=> c.rows.plan = "none")
  BY <1>0, ModeIdempotent DEF LdRows
<1>w. ASSUME NEW P \in SUBSET Parts, NEW r \in LdRows, d = With(c, k, P, r)
      PROVE  /\ d \in LdCatalogs /\ d.ver = k /\ d.there = c.there /\ d.has = c.has \cup P /\ d.rows = r
  BY <1>0, <1>w DEF With, LdCatalogs, Newest
<1>v. ASSUME NEW P \in SUBSET Parts, NEW r \in LdRows, d = With(c, k, P, r), Promised(d),
             "dmode" \in d.has => "hash" \in d.has,
             "mode" \in d.has => r.plan \notin {"bad", "compressed", "uncompressed"},
             ("proposals" \notin d.has \/ "dmode" \in d.has) => r.dmode # "bad" /\ r.hash # "short",
             d.has = {} => r.plan = "none"
      PROVE  Lawful(d)
  <2>1. d.ver = k /\ d.rows = r
    BY <1>v, <1>w
  <2>2. \A j \in Steps \ {6} : j <= d.ver => PartsOf[j] \subseteq d.has
    BY <1>0, <1>v, <2>1, PromisedParts
  <2> QED
    BY <1>v, <2>1, <2>2 DEF Lawful
<1>1. CASE k = 1
  <2>0. d = RebuildIntegrity(c)
    BY <1>1 DEF Convert
  <2>1. CASE "fk" \in c.has
    <3>1. d = With(c, k, {}, c.rows)
      BY <1>1, <2>0, <2>1 DEF RebuildIntegrity
    <3>0. {} \in SUBSET Parts /\ c.has \cup {} = c.has
      OBVIOUS
    <3>2. d \in LdCatalogs /\ d.ver = k /\ d.there = c.there /\ d.has = c.has /\ d.rows = c.rows
      BY <1>0, <1>w, <3>0, <3>1
    <3>3. Promised(d)
      BY <1>1, <1>p, <2>1, <3>2 DEF Promised
    <3>4. Lawful(d)
      BY <1>0, <1>l, <1>v, <3>1, <3>2, <3>3
    <3> QED
      BY <1>1, <3>2, <3>4 DEF Converts
  <2>2. CASE "fk" \notin c.has /\ (c.rows.plan = "bad" \/ Orphaned(c))
    BY <1>1, <2>0, <2>2 DEF RebuildIntegrity, Refused
  <2>3. CASE "fk" \notin c.has /\ ~(c.rows.plan = "bad" \/ Orphaned(c))
    <3> DEFINE r == [c.rows EXCEPT !.plan = Mode(c.rows.plan)]
               P == {"fk", "mode", "digests"}
    <3>0. r \in LdRows /\ P \in SUBSET Parts /\ Converts(c.rows, r) /\ r.plan = Mode(c.rows.plan)
          /\ r.dmode = c.rows.dmode /\ r.hash = c.rows.hash
      BY <1>0, <1>m DEF LdRows, Parts, Converts
    <3>1. d = With(c, k, P, r)
      BY <1>1, <2>0, <2>3 DEF RebuildIntegrity
    <3> HIDE DEF r, P
    <3>2. d \in LdCatalogs /\ d.ver = k /\ d.there = c.there /\ d.has = c.has \cup P /\ d.rows = r
      BY <1>w, <3>0, <3>1
    <3>3. Promised(d)
      BY <1>1, <1>p, <3>2 DEF Promised, P
    <3>4. Lawful(d)
      BY <1>l, <1>m, <1>v, <2>3, <3>0, <3>1, <3>2, <3>3 DEF P
    <3> QED
      BY <1>1, <3>0, <3>2, <3>4
  <2> QED
    BY <2>1, <2>2, <2>3

<1>2. CASE k = 2
  <2>0. d = CapacityMode(c)
    BY <1>2 DEF Convert
  <2>1. CASE c.rows.plan = "bad" \/ Orphaned(c)
    BY <1>2, <2>0, <2>1 DEF CapacityMode, Refused
  <2>2. CASE ~(c.rows.plan = "bad" \/ Orphaned(c))
    <3> DEFINE r == IF "mode" \in c.has THEN c.rows ELSE [c.rows EXCEPT !.plan = Mode(c.rows.plan)]
               P == {"mode"}
    <3>0. r \in LdRows /\ P \in SUBSET Parts /\ Converts(c.rows, r)
          /\ r.dmode = c.rows.dmode /\ r.hash = c.rows.hash /\ r.plan \notin {"bad", "compressed", "uncompressed"}
      <4>1. CASE "mode" \in c.has
        BY <1>0, <1>l, <4>1 DEF Parts, Converts
      <4>2. CASE "mode" \notin c.has
        BY <1>0, <1>m, <2>2, <4>2 DEF LdRows, Parts, Converts
      <4> QED
        BY <4>1, <4>2
    <3>1. d = With(c, k, P, r)
      BY <1>2, <2>0, <2>2 DEF CapacityMode
    <3> HIDE DEF r, P
    <3>2. d \in LdCatalogs /\ d.ver = k /\ d.there = c.there /\ d.has = c.has \cup P /\ d.rows = r
      BY <1>w, <3>0, <3>1
    <3>3. Promised(d)
      BY <1>2, <1>p, <3>2 DEF Promised, P
    <3>4. Lawful(d)
      BY <1>l, <1>v, <3>0, <3>1, <3>2, <3>3 DEF P
    <3> QED
      BY <1>2, <3>0, <3>2, <3>4
  <2> QED
    BY <2>1, <2>2
<1>3. CASE k \in {3, 4}
  <2> DEFINE P == IF k = 3 THEN {"drives3", "evidence"} ELSE {"drives4"}
  <2>0. d = IF Orphaned(c) THEN c ELSE With(c, k, P, c.rows)
    BY <1>3 DEF Convert, Evidence3, Lifecycle4, Refused
  <2>1. P \in SUBSET Parts
    BY DEF Parts
  <2>2. CASE Orphaned(c)
    BY <1>3, <2>0, <2>2
  <2>3. CASE ~Orphaned(c)
    <3>2. d \in LdCatalogs /\ d.ver = k /\ d.there = c.there /\ d.has = c.has \cup P /\ d.rows = c.rows
      BY <1>0, <1>w, <2>0, <2>1, <2>3
    <3>3. Promised(d)
      BY <1>3, <1>p, <3>2 DEF Promised
    <3>4. Lawful(d)
      BY <1>0, <1>l, <1>v, <2>0, <2>1, <2>3, <3>2, <3>3
    <3> QED
      BY <1>3, <3>2, <3>4 DEF Converts
  <2> QED
    BY <2>2, <2>3
<1>5. CASE k = 5
  <2> DEFINE P == {"proposals", "hash", "dmode"}
  <2>0. d = IF Orphaned(c) THEN c ELSE With(c, k, P, c.rows)
    BY <1>5 DEF Convert, ProposalControl, Refused
  <2>1. P \in SUBSET Parts /\ "proposals" \notin c.has
    BY <1>5 DEF Parts, Shaped
  <2>2. CASE Orphaned(c)
    BY <1>5, <2>0, <2>2
  <2>3. CASE ~Orphaned(c)
    <3>2. d \in LdCatalogs /\ d.ver = k /\ d.there = c.there /\ d.has = c.has \cup P /\ d.rows = c.rows
      BY <1>0, <1>w, <2>0, <2>1, <2>3
    <3>3. Promised(d)
      BY <1>5, <1>p, <3>2 DEF Promised
    <3>4. Lawful(d)
      BY <1>0, <1>l, <1>v, <2>0, <2>1, <2>3, <3>2, <3>3
    <3> QED
      BY <1>5, <3>2, <3>4 DEF Converts
  <2> QED
    BY <2>2, <2>3
<1>6. CASE k = 6
  <2> DEFINE plan == IF c.rows.plan = "none" THEN "ark" ELSE c.rows.plan
             hash == IF c.rows.hash = "short" THEN "none" ELSE c.rows.hash
             r == [c.rows EXCEPT !.hash = hash, !.plan = plan]
  <2>1. d = With(c, k, HashParts, r) /\ "hash" \notin c.has
    BY <1>6 DEF Convert, ConfigHash, Shaped
  <2>2. /\ r \in LdRows /\ HashParts \in SUBSET Parts /\ Converts(c.rows, r)
        /\ r.dmode = c.rows.dmode /\ r.hash # "short"
        /\ r.plan = plan
    BY <1>0 DEF LdRows, Parts, HashParts, Converts
  <2> HIDE DEF r
  <2>3. d \in LdCatalogs /\ d.ver = k /\ d.there = c.there /\ d.has = c.has \cup HashParts /\ d.rows = r
    BY <1>w, <2>1, <2>2
  <2>4. Promised(d)
    BY <1>6, <1>p, <2>3 DEF Promised
  <2>5. Lawful(d)
    BY <1>0, <1>l, <1>v, <2>1, <2>2, <2>3, <2>4 DEF HashParts
  <2> QED
    BY <1>6, <2>2, <2>3, <2>5 DEF HashParts
<1>7. CASE k = 7
  <2> DEFINE refused == (~DerivationChecked(c) /\ ~RowsFit(c)) \/ Provenance(c.rows) = "refused" \/ Orphaned(c)
             r == [c.rows EXCEPT !.prov = Provenance(c.rows)]
  <2>0. d = ProvenanceSchema(c)
    BY <1>7 DEF Convert
  <2>1. CASE refused
    BY <1>7, <2>0, <2>1 DEF ProvenanceSchema, Refused
  <2>2. CASE ~refused
    <3>1. d = With(c, k, Rebuilt(c), r)
      BY <1>7, <2>0, <2>2 DEF ProvenanceSchema
    <3>0. Provenance(c.rows) \in {"none", "hub_confirmed", "legacy_unknown", "refused"}
      BY <1>0 DEF LdRows, Provenance
    <3>2. /\ r \in LdRows /\ Rebuilt(c) \in SUBSET Parts /\ Converts(c.rows, r)
          /\ r.plan = c.rows.plan /\ r.dmode = c.rows.dmode /\ r.hash = c.rows.hash
          /\ r.orphan = c.rows.orphan /\ r.prov = Provenance(c.rows) /\ ~r.orphan
      BY <1>0, <2>2, <3>0 DEF LdRows, Parts, Rebuilt, ProvenanceParts, Converts, Orphaned
    <3> HIDE DEF r
    <3>3. d \in LdCatalogs /\ d.ver = k /\ d.there = c.there /\ d.has = c.has \cup Rebuilt(c) /\ d.rows = r
      BY <1>w, <3>1, <3>2
    <3>4. Promised(d) /\ "hash" \in d.has
      BY <1>0, <1>7, <1>p, <1>l, <3>3 DEF Promised, Rebuilt, ProvenanceParts, DerivationChecked
    <3>5. r.dmode # "bad" /\ r.hash # "short"
      BY <1>l, <2>2, <3>2 DEF DerivationChecked, RowsFit
    <3>6. ("mode" \in d.has => "mode" \in c.has) /\ d.has # {}
      BY <3>3 DEF Rebuilt, ProvenanceParts
    <3>7. Lawful(d)
      BY <1>l, <1>v, <3>1, <3>2, <3>4, <3>5, <3>6
    <3> QED
      BY <1>7, <3>2, <3>3, <3>4, <3>7
  <2> QED
    BY <2>1, <2>2
<1> QED
  BY <1>0, <1>1, <1>2, <1>3, <1>5, <1>6, <1>7

\* A step that leaves the catalog alone leaves alone what is said of it.
LEMMA CatStays ==
  ASSUME LdInv, ldCat' = ldCat, ldWorld' = ldWorld
  PROVE  /\ LdLocal' = LdLocal /\ Start' = Start /\ Entry' = Entry
         /\ Lawful(ldCat)' /\ RowsKept' /\ HashKept' /\ RefusedUntouched'
<1>1. LdLocal' = LdLocal /\ Start' = Start /\ Entry' = Entry
  BY DEF LdLocal, LocalVersion, Start, Entry
<1>2. Lawful(ldCat)'
  BY DEF LdInv, Lawful
<1>3. RowsKept' /\ HashKept' /\ RefusedUntouched'
  BY <1>1 DEF LdInv, RowsKept, HashKept, RefusedUntouched
<1> QED
  BY <1>1, <1>2, <1>3

\* The version a run believes in is in range.
LEMMA LocalRange ==
  ASSUME LdInv
  PROVE  /\ LdLocal \in 0..10 /\ (ldCat.ver <= Newest => LdLocal \in 0..Newest) /\ LdLocal <= ldCat.ver
         /\ ldCat.ver \in Nat /\ Start.ver \in Nat
         /\ (LdLocal = ldCat.ver \/ (LdLocal = 5 /\ ldCat.ver = 6 /\ "hash" \notin ldCat.has))
<1>1. ldCat.ver \in 0..10
  BY DEF LdInv, LdTyped, LdCatalogs, Newest
<1>2. Start.ver \in Nat
  BY LdWorldsAssumption DEF LdInv, LdTyped, LdCatalogs, Start, Newest
<1> QED
  BY <1>1, <1>2 DEF LdLocal, LocalVersion, Newest

\* A run is begun, or refused at once.
LEMMA LdOpenInv ==
  ASSUME LdInv, LdOpen
  PROVE  LdInv'
<1> USE DEF LdInv
<1>1. UNCHANGED <<ldBak, ldWorld, ldLeft>> /\ ~Running /\ Admitted(Entry, ldCat) /\ ldCat.ver <= Newest
  BY DEF LdOpen, Admitted
<1>2. CASE Entry = "read" /\ End("ok") /\ ldCat' = ldCat
  <2>1. LdTyped'
    BY <1>1, <1>2 DEF LdTyped, End, Closed, Newest
  <2>2. ldRun' = [pc |-> "closed", ver |-> 0, out |-> "ok"]
    BY <1>2 DEF End, Closed
  <2>3. LdPlace' /\ ClonesSound'
    BY <1>1, <1>2, <2>2, CatStays DEF LdPlace, ClonesSound, Running
  <2>4. Entry' # "ladder"
    BY <1>2, <1>1, CatStays
  <2> QED
    BY <1>1, <1>2, <2>1, <2>3, <2>4, CatStays
<1>3. CASE Entry # "read"
  <2>1. /\ ldCat' = [ldCat EXCEPT !.there = TRUE]
        /\ ldRun' = [Closed EXCEPT !.pc = IF Entry = "clone" THEN "step" ELSE "tables", !.ver = LocalVersion(ldCat)]
    BY <1>3 DEF LdOpen
  <2>2. /\ ldCat' \in LdCatalogs /\ ldCat'.there = TRUE /\ ldCat'.ver = ldCat.ver /\ ldCat'.has = ldCat.has
        /\ ldCat'.rows = ldCat.rows
    BY <2>1 DEF LdTyped, LdCatalogs
  <2>3. /\ ldRun' \in [pc : {"closed", "tables", "step", "copying", "legacy", "write", "views"},
                       ver : 0..Newest, out : {"none", "ok", "refused"}]
        /\ ldRun'.pc = (IF Entry = "clone" THEN "step" ELSE "tables") /\ ldRun'.ver = LdLocal /\ ldRun'.out = "none"
    BY <1>1, <2>1, LocalRange DEF Closed, LdLocal
  <2>4. LdLocal' = LdLocal /\ Start' = Start /\ Entry' = Entry
    BY <1>1, <2>2 DEF LdLocal, LocalVersion, Start, Entry
  <2>5. LdTyped' /\ Lawful(ldCat)' /\ HashKept' /\ ClonesSound'
    BY <1>1, <2>2, <2>3, <2>4 DEF LdTyped, Lawful, HashKept, ClonesSound
  <2>6. ~(Start.there /\ \/ Entry = "read"
                         \/ Entry = "connect" /\ Start.ver \notin Layout..Newest)
    <3> SUFFICES ASSUME Start.there, Entry = "connect", Start.ver \notin Layout..Newest PROVE FALSE
      BY <1>3
    <3>1. ldCat = Start
      BY DEF RefusedUntouched
    <3> QED
      BY <1>1, <3>1, LocalRange DEF Admitted, Layout, Newest
  <2>7. RefusedUntouched'
    BY <2>4, <2>6 DEF RefusedUntouched
  <2>8. LdPlace'
    BY <1>1, <1>3, <2>2, <2>3, <2>4, <2>6 DEF LdPlace
  <2>9. RowsKept'
    BY <2>2, <2>4 DEF RowsKept
  <2>10. ASSUME Entry = "ladder" PROVE LdCopies'
    <3>1. Fresh' <=> Fresh
      BY <1>1, <2>4 DEF Fresh
    <3>2. \A k \in Steps : ldBak[k].is # "none" => ldCat' = ldCat
      <4> SUFFICES ASSUME NEW k \in Steps, ldBak[k].is # "none" PROVE ldCat' = ldCat
        OBVIOUS
      <4>1. ldCat.there
        BY <2>10 DEF LdCopies
      <4> QED
        BY <2>1, <4>1 DEF LdTyped, LdCatalogs
    <3>3. OnlyStamped(ldCat) => OnlyStamped(ldCat)'
      BY <2>2, <2>4 DEF OnlyStamped, Shaped
    <3>4. \A k \in Steps : (ldBak[k].is = "copy" /\ k - 1 = LdLocal)' =>
            (ldBak[k].of = IF k = 1 THEN [ldCat EXCEPT !.rows = Start.rows] ELSE ldCat)'
      BY <1>1, <2>4, <2>10, <3>2 DEF LdCopies
    <3>5. \A k \in Steps : (ldBak[k].is = "torn" => Crashed \/ (ldRun.pc = "copying" /\ k = Step))'
      BY <1>1, <2>10 DEF LdCopies, Crashed, Running
    <3>6. (Fresh => OnlyStamped(ldCat) /\ (ldCat.rows = Start.rows \/ (ldBak[1].is # "none" /\ ldRun.pc # "copying")))'
      BY <1>1, <2>2, <2>3, <2>4, <2>10, <3>1, <3>3 DEF LdCopies
    <3>7. (\A k \in Steps : (ldBak[k].is = "copy" /\ \A j \in 1..k - 1 : ldBak[j].is = "none") =>
             ldBak[k].of.rows = Start.rows /\ OnlyStamped(ldBak[k].of))'
      BY <1>1, <2>4, <2>10 DEF LdCopies, OnlyStamped
    <3> QED
      BY <1>1, <2>2, <2>3, <2>4, <2>10, <3>4, <3>5, <3>6, <3>7 DEF LdCopies
  <2> QED
    BY <2>4, <2>5, <2>7, <2>8, <2>9, <2>10
<1> QED
  BY <1>1, <1>2, <1>3 DEF LdOpen

\* What is said of the copies survives a step that writes none and does not touch the catalog.
LEMMA CopiesStay ==
  ASSUME LdInv, LdCopies, UNCHANGED <<ldCat, ldBak, ldWorld>>, Crashed => Crashed',
         ldRun.pc = "copying" => Crashed', ldRun'.pc # "copying",
         ldRun'.pc \in {"write", "legacy"} => ldBak[Step'].is # "none"
  PROVE  LdCopies'
<1>1. LdLocal' = LdLocal /\ Start' = Start
  BY CatStays
<1>2. Fresh' <=> Fresh
  BY <1>1 DEF Fresh
<1>3. OnlyStamped(ldCat) => OnlyStamped(ldCat)'
  BY <1>1 DEF OnlyStamped, Shaped
<1>4. (\A k \in Steps : ldBak[k].is = "torn" => Crashed \/ (ldRun.pc = "copying" /\ k = Step))'
  BY DEF LdCopies
<1>5. (\A k \in Steps : (ldBak[k].is = "copy" /\ k - 1 = LdLocal) =>
         ldBak[k].of = IF k = 1 THEN [ldCat EXCEPT !.rows = Start.rows] ELSE ldCat)'
  BY <1>1 DEF LdCopies
<1>6. (\A k \in Steps : (ldBak[k].is = "copy" /\ \A j \in 1..k - 1 : ldBak[j].is = "none") =>
         ldBak[k].of.rows = Start.rows /\ OnlyStamped(ldBak[k].of))'
  BY <1>1 DEF LdCopies, OnlyStamped
<1>7. (Fresh => OnlyStamped(ldCat) /\ (ldCat.rows = Start.rows \/ (ldBak[1].is # "none" /\ ldRun.pc # "copying")))'
  BY <1>1, <1>2, <1>3 DEF LdCopies
<1> QED
  BY <1>1, <1>4, <1>5, <1>6, <1>7 DEF LdCopies

\* A run that ends, by refusal, death or a failed conversion.
LEMMA LdEnds ==
  ASSUME LdInv, UNCHANGED <<ldCat, ldBak, ldWorld>>, NEW out \in {"none", "refused"}, End(out),
         \/ ldLeft' = ldLeft /\ ldRun.pc # "copying"
         \/ ldLeft > 0 /\ ldLeft' = ldLeft - 1
  PROVE  LdInv'
<1> USE DEF LdInv
<1>1. ldRun' = [pc |-> "closed", ver |-> 0, out |-> out]
  BY DEF End, Closed
<1>2. LdTyped'
  <2>1. ldRun' \in [pc : {"closed", "tables", "step", "copying", "legacy", "write", "views"},
                    ver : 0..Newest, out : {"none", "ok", "refused"}]
    BY <1>1 DEF Newest
  <2>2. ldLeft' \in Nat /\ ldLeft' <= ldWorld.crashes
    BY LdWorldsAssumption DEF LdTyped
  <2> QED
    BY <2>1, <2>2 DEF LdTyped
<1>3. LdPlace' /\ ClonesSound'
  BY <1>1, CatStays DEF LdPlace, ClonesSound, Running
<1>4. Entry = "ladder" => LdCopies'
  <2> SUFFICES ASSUME Entry = "ladder" PROVE LdCopies'
    OBVIOUS
  <2>1. ldWorld.crashes \in Nat
    BY LdWorldsAssumption DEF LdTyped
  <2>2. (Crashed => Crashed') /\ (ldRun.pc = "copying" => Crashed')
    BY <2>1 DEF Crashed, LdTyped
  <2> QED
    BY <1>1, <2>2, CopiesStay
<1> QED
  BY <1>2, <1>3, <1>4, CatStays

\* A catalog that is refused is left alone.
LEMMA LdRefuseInv ==
  ASSUME LdInv, LdRefuse
  PROVE  LdInv'
<1>1. UNCHANGED <<ldCat, ldBak, ldWorld, ldLeft>> /\ End("refused") /\ ldRun.pc # "copying"
  BY DEF LdRefuse, Running
<1> QED
  BY <1>1, LdEnds

\* A crash leaves a catalog that may be opened again.
LEMMA LdCrashInv ==
  ASSUME LdInv, LdCrash
  PROVE  LdInv'
<1>1. UNCHANGED <<ldCat, ldBak, ldWorld>> /\ ldLeft > 0 /\ ldLeft' = ldLeft - 1
      /\ End(IF Entry = "clone" THEN "refused" ELSE "none")
  BY DEF LdCrash
<1> QED
  BY <1>1, LdEnds

\* The catalog gains parts that no stamp waits for.
LEMMA PartsGrow ==
  ASSUME LdInv, UNCHANGED <<ldBak, ldWorld, ldLeft>>, Running, NEW P \in SUBSET Parts,
         ldCat' = [ldCat EXCEPT !.has = ldCat.has \cup P],
         P \cap {"hash", "dmode", "proposals"} = {},
         "mode" \in P => "mode" \in ldCat.has \/ ldCat.rows.plan = "none"
  PROVE  /\ ldCat' \in LdCatalogs /\ Lawful(ldCat)' /\ HashKept' /\ RowsKept' /\ RefusedUntouched'
         /\ ldCat'.ver = ldCat.ver /\ ldCat'.there = ldCat.there /\ ldCat'.rows = ldCat.rows
         /\ ldCat'.has = ldCat.has \cup P
         /\ LdLocal' = LdLocal /\ Start' = Start /\ Entry' = Entry
         /\ (OnlyStamped(ldCat) => OnlyStamped(ldCat)')
<1> USE DEF LdInv
<1>1. /\ ldCat' \in LdCatalogs /\ ldCat'.ver = ldCat.ver /\ ldCat'.there = ldCat.there /\ ldCat'.rows = ldCat.rows
      /\ ldCat'.has = ldCat.has \cup P
  BY DEF LdTyped, LdCatalogs
<1>2. LdLocal' = LdLocal /\ Start' = Start /\ Entry' = Entry
  BY <1>1 DEF LdLocal, LocalVersion, Start, Entry
<1>3. Lawful(ldCat)'
  <2>1. (\A k \in Steps \ {6} : k <= ldCat.ver => PartsOf[k] \subseteq ldCat.has)'
    BY <1>1 DEF Lawful
  <2>2. ("dmode" \in ldCat.has => "hash" \in ldCat.has)'
    BY <1>1 DEF Lawful
  <2>3. ("mode" \in ldCat.has => ldCat.rows.plan \notin {"bad", "compressed", "uncompressed"})'
    BY <1>1 DEF Lawful
  <2>4. (("proposals" \notin ldCat.has \/ "dmode" \in ldCat.has) => ldCat.rows.dmode # "bad" /\ ldCat.rows.hash # "short")'
    BY <1>1 DEF Lawful
  <2>5. (ldCat.has = {} => ldCat.rows.plan = "none")'
    BY <1>1 DEF Lawful
  <2> QED
    BY <2>1, <2>2, <2>3, <2>4, <2>5 DEF Lawful
<1>4. HashKept' /\ RowsKept'
  BY <1>1, <1>2 DEF HashKept, RowsKept
<1>5. RefusedUntouched'
  BY <1>2 DEF RefusedUntouched, LdPlace
<1>6. OnlyStamped(ldCat) => OnlyStamped(ldCat)'
  BY <1>1, <1>2 DEF OnlyStamped, Shaped
<1> QED
  BY <1>1, <1>2, <1>3, <1>4, <1>5, <1>6

\* The tables are there before a step of the ladder is tried.
LEMMA LdTablesInv ==
  ASSUME LdInv, LdTables
  PROVE  LdInv'
<1> USE DEF LdInv
<1> DEFINE P == IF ldCat.has = {} THEN {"tables", "fk", "mode", "drives3", "drives4", "digests"} ELSE {"tables"}
<1>1. /\ UNCHANGED <<ldBak, ldWorld, ldLeft>> /\ ldRun.pc = "tables" /\ Running
      /\ ldRun' = [ldRun EXCEPT !.pc = "step"]
      /\ ldCat' = [ldCat EXCEPT !.has = ldCat.has \cup P]
  BY DEF LdTables, Running
<1>2. P \in SUBSET Parts /\ P \cap {"hash", "dmode", "proposals"} = {} /\ "tables" \in P
      /\ ("mode" \in P => "mode" \in ldCat.has \/ ldCat.rows.plan = "none")
  BY DEF Parts, Lawful
<1>3. "tables" \in ldCat.has => ldCat' = ldCat
  <2>1. "tables" \in ldCat.has => ldCat.has \cup P = ldCat.has
    OBVIOUS
  <2> QED
    BY <1>1, <2>1 DEF LdTyped, LdCatalogs
<1> HIDE DEF P
<1>4. /\ ldCat' \in LdCatalogs /\ Lawful(ldCat)' /\ HashKept' /\ RowsKept' /\ RefusedUntouched'
      /\ ldCat'.ver = ldCat.ver /\ ldCat'.there = ldCat.there /\ ldCat'.rows = ldCat.rows
      /\ ldCat'.has = ldCat.has \cup P
      /\ LdLocal' = LdLocal /\ Start' = Start /\ Entry' = Entry
      /\ (OnlyStamped(ldCat) => OnlyStamped(ldCat)')
  BY <1>1, <1>2, PartsGrow
<1>5. /\ ldRun' \in [pc : {"closed", "tables", "step", "copying", "legacy", "write", "views"},
                     ver : 0..Newest, out : {"none", "ok", "refused"}]
      /\ ldRun'.pc = "step" /\ ldRun'.ver = ldRun.ver /\ ldRun'.out = ldRun.out
  BY <1>1 DEF LdTyped
<1>6. LdTyped' /\ ClonesSound'
  <2>1. Entry # "clone"
    BY <1>1 DEF LdPlace
  <2> QED
    BY <1>1, <1>4, <1>5, <2>1 DEF LdTyped, ClonesSound
<1>7. LdPlace'
  BY <1>1, <1>2, <1>4, <1>5 DEF LdPlace, Running
<1>8. Entry = "ladder" => LdCopies'
  <2> SUFFICES ASSUME Entry = "ladder" PROVE LdCopies'
    OBVIOUS
  <2>1. LdCopies
    OBVIOUS
  <2>2. Fresh' <=> Fresh
    BY <1>1, <1>4 DEF Fresh
  <2>3. \A k \in Steps : ldBak[k].is # "none" => ldCat' = ldCat
    BY <1>3, <2>1 DEF LdCopies
  <2>4. (\A k \in Steps : (ldBak[k].is = "copy" /\ k - 1 = LdLocal) =>
           ldBak[k].of = IF k = 1 THEN [ldCat EXCEPT !.rows = Start.rows] ELSE ldCat)'
    BY <1>1, <1>4, <2>1, <2>3 DEF LdCopies
  <2>5. (\A k \in Steps : ldBak[k].is = "torn" => Crashed \/ (ldRun.pc = "copying" /\ k = Step))'
    BY <1>1, <2>1 DEF LdCopies, Crashed
  <2>6. (Fresh => OnlyStamped(ldCat) /\ (ldCat.rows = Start.rows \/ (ldBak[1].is # "none" /\ ldRun.pc # "copying")))'
    BY <1>1, <1>4, <1>5, <2>1, <2>2 DEF LdCopies
  <2>7. (\A k \in Steps : (ldBak[k].is = "copy" /\ \A j \in 1..k - 1 : ldBak[j].is = "none") =>
           ldBak[k].of.rows = Start.rows /\ OnlyStamped(ldBak[k].of))'
    BY <1>1, <1>4, <2>1 DEF LdCopies, OnlyStamped
  <2> QED
    BY <1>1, <1>4, <1>5, <2>1, <2>4, <2>5, <2>6, <2>7 DEF LdCopies
<1> QED
  BY <1>4, <1>6, <1>7, <1>8

\* What is there already is stamped.
LEMMA LdStampInv ==
  ASSUME LdInv, LdStamp
  PROVE  LdInv'
<1> USE DEF LdInv
<1>1. /\ UNCHANGED <<ldBak, ldWorld, ldLeft>> /\ ldRun.pc = "step" /\ Running /\ ldRun.ver < Layout /\ Shaped(Step, ldCat)
      /\ ldCat' = [ldCat EXCEPT !.ver = Step] /\ ldRun' = [ldRun EXCEPT !.ver = Step]
  BY DEF LdStamp, Climbing, Running
<1>2. ldRun.ver \in 0..6 /\ ldRun.ver = LdLocal
  BY <1>1 DEF LdTyped, LdPlace, Layout
<1>3. Step \in Steps /\ ldCat.ver = Step - 1 /\ Step \in {3, 4, 5, 6}
  BY <1>1, <1>2, LocalRange DEF Step, Steps, Layout, Shaped
<1>4. /\ ldCat' \in LdCatalogs /\ ldCat'.ver = Step /\ ldCat'.there = ldCat.there /\ ldCat'.rows = ldCat.rows
      /\ ldCat'.has = ldCat.has
  BY <1>1, <1>3 DEF LdTyped, LdCatalogs, Newest
<1>5. /\ ldRun' \in [pc : {"closed", "tables", "step", "copying", "legacy", "write", "views"},
                     ver : 0..Newest, out : {"none", "ok", "refused"}]
      /\ ldRun'.pc = "step" /\ ldRun'.ver = Step /\ ldRun'.out = ldRun.out
  BY <1>1, <1>3 DEF LdTyped, Newest
<1>6. Start' = Start /\ Entry' = Entry /\ LdLocal' = Step
  <2>1. Start' = Start /\ Entry' = Entry
    BY <1>1 DEF Start, Entry
  <2>2. Step = 6 => "hash" \in ldCat.has
    BY <1>1 DEF Shaped
  <2> QED
    BY <1>3, <1>4, <2>1, <2>2 DEF LdLocal, LocalVersion
<1>7. Lawful(ldCat)'
  <2>1. Promised(ldCat)
    BY LocalRange, <1>3, PromisedParts DEF Lawful
  <2>2. Promised(ldCat')
    BY <1>1, <1>3, <1>4, <2>1 DEF Promised, Shaped
  <2>3. \A k \in Steps \ {6} : k <= ldCat'.ver => PartsOf[k] \subseteq ldCat'.has
    <3>1. PICK c : c = ldCat'
      OBVIOUS
    <3>2. c.ver \in Nat /\ c.ver <= 10
      BY <1>3, <1>4, <3>1
    <3>3. \A k \in Steps \ {6} : k <= c.ver => PartsOf[k] \subseteq c.has
      BY <2>2, <3>1, <3>2, PromisedParts
    <3> QED
      BY <3>1, <3>3
  <2> QED
    BY <1>4, <2>3 DEF Lawful
<1>8. HashKept' /\ RowsKept' /\ RefusedUntouched'
  <2>1. HashKept'
    BY <1>1, <1>3, <1>4 DEF HashKept, Shaped
  <2>2. RowsKept'
    BY <1>3, <1>4, <1>6 DEF RowsKept, Layout
  <2>3. RefusedUntouched'
    BY <1>1, <1>6 DEF RefusedUntouched, LdPlace
  <2> QED
    BY <2>1, <2>2, <2>3
<1>9. LdTyped' /\ ClonesSound'
  BY <1>1, <1>3, <1>4, <1>5, <1>6 DEF LdTyped, ClonesSound, Layout, Orphaned
<1>10. LdPlace'
  BY <1>1, <1>3, <1>4, <1>5, <1>6 DEF LdPlace, Running, Newest
<1>11. Entry = "ladder" => LdCopies'
  <2> SUFFICES ASSUME Entry = "ladder" PROVE LdCopies'
    OBVIOUS
  <2>1. LdCopies
    OBVIOUS
  <2>2. Fresh' => Fresh
    <3> SUFFICES ASSUME Fresh', NEW j \in Steps, j <= LdLocal PROVE ldBak[j].is = "none"
      BY DEF Fresh
    <3>1. j <= LdLocal'
      BY <1>2, <1>6 DEF Step, Steps
    <3> QED
      BY <1>1, <3>1 DEF Fresh
  <2>3. OnlyStamped(ldCat) => OnlyStamped(ldCat)'
    BY <1>1, <1>3, <1>4, <1>6, LocalRange DEF OnlyStamped, Shaped
  <2>4. (\A k \in Steps : (ldBak[k].is = "copy" /\ k - 1 = LdLocal) =>
           ldBak[k].of = IF k = 1 THEN [ldCat EXCEPT !.rows = Start.rows] ELSE ldCat)'
    BY <1>1, <1>2, <1>6, <2>1 DEF LdCopies, Step, Steps
  <2>5. (\A k \in Steps : ldBak[k].is = "torn" => Crashed \/ (ldRun.pc = "copying" /\ k = Step))'
    BY <1>1, <2>1 DEF LdCopies, Crashed
  <2>6. (Fresh => OnlyStamped(ldCat) /\ (ldCat.rows = Start.rows \/ (ldBak[1].is # "none" /\ ldRun.pc # "copying")))'
    BY <1>1, <1>4, <1>5, <1>6, <2>1, <2>2, <2>3 DEF LdCopies
  <2>7. (\A k \in Steps : (ldBak[k].is = "copy" /\ \A j \in 1..k - 1 : ldBak[j].is = "none") =>
           ldBak[k].of.rows = Start.rows /\ OnlyStamped(ldBak[k].of))'
    BY <1>1, <1>6, <2>1 DEF LdCopies, OnlyStamped
  <2>8. (\A k \in Steps : ldBak[k].is # "none" => k - 1 <= LdLocal /\ "tables" \in ldCat.has /\ ldCat.there)'
    BY <1>1, <1>2, <1>4, <1>6, <2>1 DEF LdCopies, Step, Steps
  <2> QED
    BY <1>1, <1>5, <2>1, <2>4, <2>5, <2>6, <2>7, <2>8 DEF LdCopies
<1> QED
  BY <1>6, <1>7, <1>8, <1>9, <1>10, <1>11

\* A copy is begun, written, or there already.
LEMMA LdCopyInv ==
  ASSUME LdInv, LdCopy \/ LdCopied \/ LdNoCopy
  PROVE  LdInv'
<1> USE DEF LdInv
<1>1. /\ UNCHANGED <<ldCat, ldWorld, ldLeft>> /\ Running
      /\ ldRun.pc \in {"step", "copying"} /\ ldRun.ver < Layout /\ ~Shaped(Step, ldCat)
      /\ \E pc \in {"copying", "write"} : ldRun' = [ldRun EXCEPT !.pc = pc]
  BY DEF LdCopy, LdCopied, LdNoCopy, Climbing, Climb, Running, LdPlace
<1>2. ldRun.ver \in 0..6 /\ ldRun.ver = LdLocal /\ Step \in Steps
  BY <1>1 DEF LdTyped, LdPlace, Layout, Step, Steps
<1>3. /\ ldRun' \in [pc : {"closed", "tables", "step", "copying", "legacy", "write", "views"},
                     ver : 0..Newest, out : {"none", "ok", "refused"}]
      /\ ldRun'.pc \in {"copying", "write"} /\ ldRun'.ver = ldRun.ver /\ ldRun'.out = ldRun.out
  BY <1>1 DEF LdTyped
<1>4. DOMAIN ldBak' = Steps
  BY DEF LdTyped, LdCopy, LdCopied, LdNoCopy
<1>5. LdTyped'
  BY <1>1, <1>3, <1>4 DEF LdTyped
<1>6. LdPlace'
  <2>1. Step' = Step /\ (Shaped(Step, ldCat))' = Shaped(Step, ldCat)
    BY <1>1, <1>3 DEF Step, Shaped
  <2> QED
    BY <1>1, <1>3, <2>1, CatStays DEF LdPlace, Running
<1>7. ClonesSound'
  BY <1>1, <1>3, CatStays DEF ClonesSound, Orphaned
<1>8. Entry = "ladder" => LdCopies'
  <2> SUFFICES ASSUME Entry = "ladder" PROVE LdCopies'
    OBVIOUS
  <2>0. LdCopies
    OBVIOUS
  <2>s. Step' = Step /\ LdLocal' = LdLocal /\ Start' = Start /\ (Crashed' <=> Crashed)
    BY <1>1, <1>3, CatStays DEF Step, Crashed
  <2>o. OnlyStamped(ldCat) => OnlyStamped(ldCat)'
    BY <1>1, <2>s DEF OnlyStamped, Shaped
  <2>1. CASE LdNoCopy
    <3>1. UNCHANGED ldBak /\ ldBak[Step].is # "none" /\ ldRun'.pc = "write" /\ ldRun.pc = "step"
      BY <1>3, <2>1 DEF LdNoCopy, CopyDue, Climb, Climbing, LdTyped
    <3> QED
      BY <1>1, <2>s, <3>1, CopiesStay
  <2>2. CASE LdCopy
    <3>1. /\ ldBak' = [ldBak EXCEPT ![Step] = [is |-> "torn"]] /\ ldBak[Step].is = "none"
          /\ ldRun'.pc = "copying" /\ ldRun.pc = "step"
      BY <2>2 DEF LdCopy, CopyDue, Climb, Climbing, LdTyped
    <3>2. /\ ldBak'[Step].is = "torn" /\ \A k \in Steps : k # Step => ldBak'[k] = ldBak[k]
      BY <1>2, <3>1 DEF LdTyped
    <3>3. Fresh' <=> Fresh
      BY <1>2, <2>s, <3>2 DEF Fresh, Step
    <3>4. Fresh => ldCat.rows = Start.rows
      <4> SUFFICES ASSUME Fresh, ldBak[1].is # "none" PROVE FALSE
        BY <2>0 DEF LdCopies
      <4>1. Step # 1
        BY <3>1
      <4>2. 1 <= LdLocal /\ 1 \in Steps
        BY <1>2, <4>1 DEF Step, Steps, Layout
      <4> QED
        BY <4>2 DEF Fresh
    <3>5. (\A k \in Steps : ldBak[k].is # "none" => k - 1 <= LdLocal /\ "tables" \in ldCat.has /\ ldCat.there)'
      <4>1. "tables" \in ldCat.has /\ ldCat.there
        BY <1>1, <3>1 DEF LdPlace
      <4> QED
        BY <1>1, <1>2, <2>0, <2>s, <3>2, <4>1 DEF LdCopies, Step
    <3>6. (\A k \in Steps : (ldBak[k].is = "copy" /\ k - 1 = LdLocal) =>
             ldBak[k].of = IF k = 1 THEN [ldCat EXCEPT !.rows = Start.rows] ELSE ldCat)'
      BY <1>1, <1>2, <2>0, <2>s, <3>2 DEF LdCopies
    <3>7. (\A k \in Steps : ldBak[k].is = "torn" => Crashed \/ (ldRun.pc = "copying" /\ k = Step))'
      BY <2>0, <2>s, <3>1, <3>2 DEF LdCopies
    <3>8. (Fresh => OnlyStamped(ldCat) /\ (ldCat.rows = Start.rows \/ (ldBak[1].is # "none" /\ ldRun.pc # "copying")))'
      BY <1>1, <2>0, <2>s, <2>o, <3>3, <3>4 DEF LdCopies
    <3>9. (\A k \in Steps : (ldBak[k].is = "copy" /\ \A j \in 1..k - 1 : ldBak[j].is = "none") =>
             ldBak[k].of.rows = Start.rows /\ OnlyStamped(ldBak[k].of))'
      <4> SUFFICES ASSUME NEW k \in Steps, ldBak'[k].is = "copy", \A j \in 1..k - 1 : ldBak'[j].is = "none"
                   PROVE  ldBak'[k].of.rows = Start'.rows /\ OnlyStamped(ldBak[k].of)'
        OBVIOUS
      <4>1. k # Step /\ ldBak'[k] = ldBak[k]
        BY <3>2
      <4>2. \A j \in 1..k - 1 : ldBak[j].is = "none"
        BY <3>1, <3>2 DEF Steps
      <4>3. ldBak[k].of.rows = Start.rows /\ OnlyStamped(ldBak[k].of)
        BY <2>0, <4>1, <4>2 DEF LdCopies
      <4> QED
        BY <2>s, <4>1, <4>3 DEF OnlyStamped
    <3>10. (\A k \in Steps : ldBak[k].is \in {"none", "torn", "copy"})'
      BY <2>0, <3>2 DEF LdCopies
    <3>11. (ldRun.pc \in {"copying", "write", "legacy"} => ldBak[Step].is # "none")'
      BY <2>s, <3>2
    <3> QED
      BY <3>5, <3>6, <3>7, <3>8, <3>9, <3>10, <3>11 DEF LdCopies
  <2>3. CASE LdCopied
    <3>1. /\ ldBak' = [ldBak EXCEPT ![Step] = [is |-> "copy", of |-> ldCat]] /\ ldBak[Step].is # "none"
          /\ ldRun'.pc = "write" /\ ldRun.pc = "copying"
      BY <2>0, <2>3 DEF LdCopied, Climb, LdTyped, LdCopies
    <3>2. /\ ldBak'[Step].is = "copy" /\ ldBak'[Step].of = ldCat
          /\ \A k \in Steps : k # Step => ldBak'[k] = ldBak[k]
      BY <1>2, <3>1 DEF LdTyped
    <3>3. Fresh' <=> Fresh
      BY <1>2, <2>s, <3>2 DEF Fresh, Step
    <3>4. Fresh => ldCat.rows = Start.rows /\ OnlyStamped(ldCat)
      BY <2>0, <3>1 DEF LdCopies
    <3>5. (\A k \in Steps : ldBak[k].is # "none" => k - 1 <= LdLocal /\ "tables" \in ldCat.has /\ ldCat.there)'
      BY <1>1, <2>0, <2>s, <3>1, <3>2 DEF LdCopies
    <3>6. (\A k \in Steps : (ldBak[k].is = "copy" /\ k - 1 = LdLocal) =>
             ldBak[k].of = IF k = 1 THEN [ldCat EXCEPT !.rows = Start.rows] ELSE ldCat)'
      <4>1. Step = 1 => ldCat = [ldCat EXCEPT !.rows = Start.rows]
        <5>1. Step = 1 => Fresh
          BY <1>2 DEF Fresh, Steps, Step
        <5>2. Step = 1 => ldCat.rows = Start.rows
          BY <3>4, <5>1
        <5> QED
          BY <5>2 DEF LdTyped, LdCatalogs
      <4>2. \A k \in Steps : k - 1 = LdLocal => k = Step
        BY <1>2 DEF Steps, Step
      <4> QED
        BY <1>1, <2>s, <3>2, <4>1, <4>2
    <3>7. (\A k \in Steps : ldBak[k].is = "torn" => Crashed \/ (ldRun.pc = "copying" /\ k = Step))'
      BY <2>0, <2>s, <3>2 DEF LdCopies
    <3>8. (Fresh => OnlyStamped(ldCat) /\ (ldCat.rows = Start.rows \/ (ldBak[1].is # "none" /\ ldRun.pc # "copying")))'
      BY <1>1, <2>s, <2>o, <3>3, <3>4
    <3>9. (\A k \in Steps : (ldBak[k].is = "copy" /\ \A j \in 1..k - 1 : ldBak[j].is = "none") =>
             ldBak[k].of.rows = Start.rows /\ OnlyStamped(ldBak[k].of))'
      <4> SUFFICES ASSUME NEW k \in Steps, ldBak'[k].is = "copy", \A j \in 1..k - 1 : ldBak'[j].is = "none"
                   PROVE  ldBak'[k].of.rows = Start'.rows /\ OnlyStamped(ldBak[k].of)'
        OBVIOUS
      <4>1. \A j \in 1..k - 1 : ldBak[j].is = "none"
        BY <1>2, <3>2 DEF Steps, Layout
      <4>2. CASE k = Step
        <5>1. Fresh
          BY <1>2, <4>1, <4>2 DEF Fresh, Step, Steps
        <5> QED
          BY <1>1, <2>s, <3>2, <3>4, <4>2, <5>1 DEF OnlyStamped
      <4>3. CASE k # Step
        BY <2>0, <2>s, <3>2, <4>1, <4>3 DEF LdCopies, OnlyStamped
      <4> QED
        BY <4>2, <4>3
    <3>10. (\A k \in Steps : ldBak[k].is \in {"none", "torn", "copy"})'
      BY <2>0, <3>2 DEF LdCopies
    <3>11. (ldRun.pc \in {"copying", "write", "legacy"} => ldBak[Step].is # "none")'
      BY <2>s, <3>2
    <3> QED
      BY <3>5, <3>6, <3>7, <3>8, <3>9, <3>10, <3>11 DEF LdCopies
  <2> QED
    BY <2>1, <2>2, <2>3
<1> QED
  BY <1>1, <1>5, <1>6, <1>7, <1>8, CatStays

\* The legacy columns, outside any transaction.
LEMMA LdLegacyInv ==
  ASSUME LdInv, LdLegacy
  PROVE  LdInv'
<1> USE DEF LdInv
<1>1. UNCHANGED <<ldBak, ldWorld, ldLeft>> /\ ldRun.pc = "write" /\ Step = 1 /\ Running
  BY DEF LdLegacy, Running
<1>2. CASE End("refused") /\ ldCat' = ldCat
  BY <1>1, <1>2, LdEnds
<1>3. CASE ldCat' = [ldCat EXCEPT !.rows = Recoverable(ldCat.rows)] /\ ldRun' = [ldRun EXCEPT !.pc = "legacy"]
  <2> DEFINE r == Recoverable(ldCat.rows)
  <2>1. ldRun.ver = 0 /\ LdLocal = 0 /\ ldCat.ver = 0
    BY <1>1, LocalRange DEF LdTyped, LdPlace, Step, Newest
  <2>2. /\ r \in LdRows /\ r.orphan = ldCat.rows.orphan /\ r.kids = ldCat.rows.kids /\ r.digest = ldCat.rows.digest
        /\ r.dmode = ldCat.rows.dmode /\ r.plan = ldCat.rows.plan /\ r.hash = ldCat.rows.hash
    BY DEF LdTyped, LdCatalogs, LdRows, Recoverable
  <2> HIDE DEF r
  <2>3. /\ ldCat' \in LdCatalogs /\ ldCat'.ver = ldCat.ver /\ ldCat'.there = ldCat.there /\ ldCat'.has = ldCat.has
        /\ ldCat'.rows = r
    BY <1>3, <2>2 DEF LdTyped, LdCatalogs, r
  <2>4. LdLocal' = LdLocal /\ Start' = Start /\ Entry' = Entry
    BY <1>1, <2>3 DEF LdLocal, LocalVersion, Start, Entry
  <2>5. /\ ldRun' \in [pc : {"closed", "tables", "step", "copying", "legacy", "write", "views"},
                       ver : 0..Newest, out : {"none", "ok", "refused"}]
        /\ ldRun'.pc = "legacy" /\ ldRun'.ver = 0 /\ ldRun'.out = ldRun.out
    BY <1>3, <2>1 DEF LdTyped
  <2>6. LdTyped' /\ Lawful(ldCat)' /\ HashKept'
    BY <1>1, <2>2, <2>3, <2>4, <2>5 DEF LdTyped, Lawful, HashKept
  <2>7. RowsKept'
    BY <2>1, <2>2, <2>3, <2>4 DEF RowsKept, Layout
  <2>8. RefusedUntouched'
    BY <1>1, <2>4 DEF RefusedUntouched, LdPlace
  <2>9. ClonesSound'
    BY <2>1, <2>2, <2>3, <2>4, <2>5 DEF ClonesSound, Orphaned, Layout
  <2>10. LdPlace'
    <3>1. Step' = Step /\ (Shaped(Step, ldCat))' = Shaped(Step, ldCat)
      BY <2>1, <2>3, <2>5 DEF Step, Shaped
    <3> QED
      BY <1>1, <2>1, <2>3, <2>4, <2>5, <3>1 DEF LdPlace, Running
  <2>11. Entry = "ladder" => LdCopies'
    <3> SUFFICES ASSUME Entry = "ladder" PROVE LdCopies'
      OBVIOUS
    <3>1. LdCopies /\ Step' = Step
      BY <2>1, <2>5 DEF Step
    <3>2. ldBak[1].is # "none"
      BY <1>1, <3>1 DEF LdCopies
    <3>3. [ldCat' EXCEPT !.rows = Start.rows] = [ldCat EXCEPT !.rows = Start.rows]
      BY <1>3 DEF LdTyped, LdCatalogs
    <3>4. (\A k \in Steps : (ldBak[k].is = "copy" /\ k - 1 = LdLocal) =>
             ldBak[k].of = IF k = 1 THEN [ldCat EXCEPT !.rows = Start.rows] ELSE ldCat)'
      BY <1>1, <2>1, <2>4, <3>1, <3>3 DEF LdCopies, Steps
    <3>5. (\A k \in Steps : ldBak[k].is = "torn" => Crashed \/ (ldRun.pc = "copying" /\ k = Step))'
      BY <1>1, <3>1 DEF LdCopies, Crashed
    <3>6. (Fresh => OnlyStamped(ldCat) /\ (ldCat.rows = Start.rows \/ (ldBak[1].is # "none" /\ ldRun.pc # "copying")))'
      <4>1. Fresh' <=> Fresh
        BY <1>1, <2>4 DEF Fresh
      <4>2. OnlyStamped(ldCat) => OnlyStamped(ldCat)'
        BY <2>3, <2>4 DEF OnlyStamped, Shaped
      <4> QED
        BY <1>1, <2>5, <3>1, <3>2, <4>1, <4>2 DEF LdCopies
    <3>7. (\A k \in Steps : (ldBak[k].is = "copy" /\ \A j \in 1..k - 1 : ldBak[j].is = "none") =>
             ldBak[k].of.rows = Start.rows /\ OnlyStamped(ldBak[k].of))'
      BY <1>1, <2>4, <3>1 DEF LdCopies, OnlyStamped
    <3> QED
      BY <1>1, <2>3, <2>4, <2>5, <3>1, <3>4, <3>5, <3>6, <3>7 DEF LdCopies
  <2> QED
    BY <2>4, <2>6, <2>7, <2>8, <2>9, <2>10, <2>11
<1> QED
  BY <1>1, <1>2, <1>3 DEF LdLegacy, Climb

\* Rows that are kept and then converted are kept.
LEMMA RowsKeptThrough ==
  ASSUME LdInv, NEW s, Converts(ldCat.rows, s)
  PROVE  s.plan \in {Start.rows.plan, Mode(Start.rows.plan)} \cup (IF Start.rows.plan = "none" THEN {"ark"} ELSE {})
<1>1. Start.rows \in LdRows /\ ldCat.rows \in LdRows
  BY LdWorldsAssumption DEF LdInv, LdTyped, LdCatalogs, Start
<1>2. ldCat.rows.plan \in {Start.rows.plan, Mode(Start.rows.plan)} \cup (IF Start.rows.plan = "none" THEN {"ark"} ELSE {})
  BY DEF LdInv, RowsKept
<1>3. s.plan \in {ldCat.rows.plan, Mode(ldCat.rows.plan)} \cup (IF ldCat.rows.plan = "none" THEN {"ark"} ELSE {})
  BY DEF Converts
<1>4. /\ Mode(Mode(Start.rows.plan)) = Mode(Start.rows.plan) /\ (Mode(Start.rows.plan) = "none" <=> Start.rows.plan = "none")
      /\ Mode("ark") = "ark"
  BY <1>1, ModeIdempotent DEF LdRows
<1> QED
  BY <1>2, <1>3, <1>4

\* A step of the ladder is taken, in one transaction, or rolled back.
LEMMA LdWriteInv ==
  ASSUME LdInv, LdWrite
  PROVE  LdInv'
<1> USE DEF LdInv
<1>1. /\ UNCHANGED <<ldBak, ldWorld, ldLeft>> /\ ldRun.pc \in {"legacy", "write"} /\ Running
      /\ ldRun.ver < Layout /\ ~Shaped(Step, ldCat)
      /\ ldCat' = Convert(Step, ldCat)
      /\ IF ldCat'.ver = Step THEN ldRun' = [ldRun EXCEPT !.pc = "step", !.ver = Step] ELSE End("refused")
  BY DEF LdWrite, LdPlace, Running
<1>2. ldRun.ver \in 0..6 /\ ldRun.ver = LdLocal /\ Step \in Steps /\ Step = LdLocal + 1
  BY <1>1 DEF LdTyped, LdPlace, Layout, Step, Steps
<1>3. ldCat.ver = Step - 1 \/ (Step = 6 /\ ldCat.ver = 6)
  BY <1>2, LocalRange
<1>4. \/ ldCat' = ldCat /\ Step # 6
      \/ /\ ldCat' \in LdCatalogs /\ Lawful(ldCat') /\ ldCat'.ver = Step /\ ldCat'.there = ldCat.there
         /\ ldCat.has \subseteq ldCat'.has /\ Converts(ldCat.rows, ldCat'.rows)
         /\ (Step = 6 => "hash" \in ldCat'.has)
         /\ (Step = 7 => "hash" \in ldCat'.has /\ ~ldCat'.rows.orphan /\ ldCat'.rows.prov = Provenance(ldCat.rows))
  BY <1>1, <1>2, <1>3, ConvertKeeps DEF LdTyped
<1>5. CASE ldCat' = ldCat /\ Step # 6
  <2>1. End("refused")
    BY <1>1, <1>2, <1>3, <1>5, LocalRange
  <2> QED
    BY <1>1, <1>5, <2>1, LdEnds
<1>6. CASE /\ ldCat' \in LdCatalogs /\ Lawful(ldCat') /\ ldCat'.ver = Step /\ ldCat'.there = ldCat.there
           /\ ldCat.has \subseteq ldCat'.has /\ Converts(ldCat.rows, ldCat'.rows)
           /\ (Step = 6 => "hash" \in ldCat'.has)
           /\ (Step = 7 => "hash" \in ldCat'.has /\ ~ldCat'.rows.orphan /\ ldCat'.rows.prov = Provenance(ldCat.rows))
  <2>1. /\ ldRun' \in [pc : {"closed", "tables", "step", "copying", "legacy", "write", "views"},
                       ver : 0..Newest, out : {"none", "ok", "refused"}]
        /\ ldRun'.pc = "step" /\ ldRun'.ver = Step /\ ldRun'.out = ldRun.out
    <3>1. ldRun' = [ldRun EXCEPT !.pc = "step", !.ver = Step] /\ Step \in 0..Newest
      BY <1>1, <1>2, <1>6 DEF Newest, Steps, Layout
    <3>2. ldRun' = [pc |-> "step", ver |-> Step, out |-> ldRun.out]
      BY <3>1 DEF LdTyped
    <3> QED
      BY <3>1, <3>2 DEF LdTyped
  <2>2. Start' = Start /\ Entry' = Entry /\ LdLocal' = Step
    BY <1>1, <1>6 DEF Start, Entry, LdLocal, LocalVersion
  <2>3. LdTyped' /\ Lawful(ldCat)' /\ HashKept'
    <3>1. LdTyped' /\ Lawful(ldCat)'
      BY <1>1, <1>6, <2>1 DEF LdTyped, Lawful
    <3>2. Step >= 6 => Step \in {6, 7}
      BY <1>2 DEF Steps, Layout
    <3> QED
      BY <1>6, <3>1, <3>2 DEF HashKept
  <2>4. RowsKept'
    <3>1. ldCat'.rows.plan \in {Start.rows.plan, Mode(Start.rows.plan)} \cup (IF Start.rows.plan = "none" THEN {"ark"} ELSE {})
      BY <1>6, RowsKeptThrough
    <3>2. /\ ldCat'.rows.orphan = Start.rows.orphan /\ ldCat'.rows.kids = Start.rows.kids
          /\ ldCat'.rows.digest = Start.rows.digest /\ ldCat'.rows.dmode = Start.rows.dmode
          /\ ldCat.rows.digest = Start.rows.digest
      BY <1>6 DEF RowsKept, Converts
    <3>3. ASSUME Step = 7
          PROVE  /\ ~ldCat'.rows.orphan /\ ldCat'.rows.plan \notin {"bad", "compressed", "uncompressed"}
                 /\ ldCat'.rows.dmode # "bad" /\ ldCat'.rows.hash # "short"
                 /\ (ldCat'.rows.prov = "hub_confirmed") = (Start.rows.digest = "hub")
                 /\ (ldCat'.rows.prov = "legacy_unknown") = (Start.rows.digest = "unlisted")
      <4>1. Promised(ldCat')
        BY <1>2, <1>6, PromisedParts DEF Lawful, Steps, Layout
      <4>2. "mode" \in ldCat'.has /\ "dmode" \in ldCat'.has
        BY <1>6, <3>3, <4>1 DEF Promised
      <4>3. ldCat'.rows.prov = Provenance(ldCat.rows) /\ ldCat.rows.digest \in {"null", "hub", "unlisted", "other"}
        BY <1>6, <3>3 DEF LdTyped, LdCatalogs, LdRows
      <4>4. /\ (ldCat'.rows.prov = "hub_confirmed") = (Start.rows.digest = "hub")
            /\ (ldCat'.rows.prov = "legacy_unknown") = (Start.rows.digest = "unlisted")
        BY <3>2, <4>3 DEF Provenance
      <4> QED
        BY <1>6, <3>3, <4>2, <4>4 DEF Lawful
    <3>4. Step >= Layout => Step = 7
      BY <1>2 DEF Steps, Layout
    <3> QED
      BY <1>6, <2>2, <3>1, <3>2, <3>3, <3>4 DEF RowsKept
  <2>5. RefusedUntouched'
    BY <1>1, <2>2 DEF RefusedUntouched, LdPlace
  <2>6. LdPlace'
    BY <1>1, <1>2, <1>6, <2>1, <2>2 DEF LdPlace, Running, Newest, Steps, Layout
  <2>7. ClonesSound'
    <3>1. Entry = "clone" => ldRun.out # "ok"
      BY <1>1, <1>2, <1>3, LocalRange DEF ClonesSound, Layout, LdPlace, LdTyped
    <3> QED
      BY <2>1, <2>2, <3>1 DEF ClonesSound
  <2>8. Entry = "ladder" => LdCopies'
    <3> SUFFICES ASSUME Entry = "ladder" PROVE LdCopies'
      OBVIOUS
    <3>1. LdCopies
      OBVIOUS
    <3>2. ldBak[Step].is # "none"
      BY <1>1, <3>1 DEF LdCopies
    <3>3. ~Fresh'
      BY <1>1, <1>2, <2>2, <3>2 DEF Fresh
    <3>4. (\A k \in Steps : (ldBak[k].is = "copy" /\ k - 1 = LdLocal) =>
             ldBak[k].of = IF k = 1 THEN [ldCat EXCEPT !.rows = Start.rows] ELSE ldCat)'
      <4>1. ASSUME NEW k \in Steps, ldBak[k].is = "copy" PROVE k - 1 <= LdLocal
        BY <3>1, <4>1 DEF LdCopies
      <4> QED
        BY <1>1, <1>2, <2>2, <4>1 DEF Steps
    <3>5. (\A k \in Steps : ldBak[k].is = "torn" => Crashed \/ (ldRun.pc = "copying" /\ k = Step))'
      BY <1>1, <3>1 DEF LdCopies, Crashed
    <3>6. (\A k \in Steps : (ldBak[k].is = "copy" /\ \A j \in 1..k - 1 : ldBak[j].is = "none") =>
             ldBak[k].of.rows = Start.rows /\ OnlyStamped(ldBak[k].of))'
      BY <1>1, <2>2, <3>1 DEF LdCopies, OnlyStamped
    <3>7. (\A k \in Steps : ldBak[k].is # "none" => k - 1 <= LdLocal /\ "tables" \in ldCat.has /\ ldCat.there)'
      BY <1>1, <1>2, <1>6, <2>2, <3>1 DEF LdCopies, Steps
    <3> QED
      BY <1>1, <2>1, <3>1, <3>3, <3>4, <3>5, <3>6, <3>7 DEF LdCopies
  <2> QED
    BY <2>2, <2>3, <2>4, <2>5, <2>6, <2>7, <2>8
<1> QED
  BY <1>4, <1>5, <1>6

\* The views last, or the validation of a clone.
LEMMA LdViewsInv ==
  ASSUME LdInv, LdViews
  PROVE  LdInv'
<1> USE DEF LdInv
<1>1. /\ UNCHANGED <<ldBak, ldWorld, ldLeft>> /\ ldRun.pc = "step" /\ Running /\ ldRun.ver >= Layout
      /\ ldRun.ver = LdLocal /\ LdLocal >= 7
  BY DEF LdViews, Running, LdPlace, Layout
<1>2. CASE Entry = "clone" /\ ldCat' = ldCat
  <2>1. PICK out \in {"ok", "refused"} : ldRun' = [pc |-> "closed", ver |-> 0, out |-> out]
                                         /\ (out = "ok" => SoundClone(ldCat))
    BY <1>2 DEF LdViews, End, Closed
  <2>2. LdTyped'
    <3>1. ldRun' \in [pc : {"closed", "tables", "step", "copying", "legacy", "write", "views"},
                      ver : 0..Newest, out : {"none", "ok", "refused"}]
      BY <2>1 DEF Newest
    <3> QED
      BY <1>1, <1>2, <3>1 DEF LdTyped
  <2>3. LdPlace'
    BY <1>2, <2>1, <1>1, CatStays DEF LdPlace, Running
  <2>4. ClonesSound'
    <3> SUFFICES ASSUME ldRun'.out = "ok" PROVE (~Orphaned(ldCat) /\ ldCat.ver >= Layout /\ \A k \in Steps : PartsOf[k] \subseteq ldCat.has)'
      BY DEF ClonesSound
    <3>1. SoundClone(ldCat)
      BY <2>1
    <3>2. ~Orphaned(ldCat) /\ ldCat.ver >= Layout /\ "dmode" \in ldCat.has
      BY <3>1 DEF SoundClone, ProvenanceParts, Layout, Newest
    <3>3. PartsOf[6] \subseteq ldCat.has
      BY <3>2 DEF Lawful, PartsOf
    <3>4. \A k \in Steps \ {6} : PartsOf[k] \subseteq ldCat.has
      BY <3>2, LocalRange DEF Lawful, Steps, Layout
    <3>5. \A k \in Steps : PartsOf[k] \subseteq ldCat.has
      BY <3>3, <3>4
    <3> QED
      BY <1>2, <3>2, <3>5 DEF Orphaned
  <2>5. Entry' # "ladder"
    BY <1>1, <1>2, CatStays
  <2> QED
    BY <1>1, <1>2, <2>2, <2>3, <2>4, <2>5, CatStays
<1>3. CASE Entry # "clone"
  <2> DEFINE P == {"evidence", "repair", "views"}
  <2>1. /\ ldCat' = [ldCat EXCEPT !.has = ldCat.has \cup P] /\ ldRun' = [pc |-> "closed", ver |-> 0, out |-> "ok"]
    BY <1>3 DEF LdViews, End, Closed
  <2>2. P \in SUBSET Parts /\ P \cap {"hash", "dmode", "proposals"} = {} /\ "mode" \notin P
    BY DEF Parts
  <2> HIDE DEF P
  <2>3. /\ ldCat' \in LdCatalogs /\ Lawful(ldCat)' /\ HashKept' /\ RowsKept' /\ RefusedUntouched'
        /\ ldCat'.ver = ldCat.ver /\ ldCat'.there = ldCat.there /\ ldCat'.rows = ldCat.rows
        /\ ldCat'.has = ldCat.has \cup P
        /\ LdLocal' = LdLocal /\ Start' = Start /\ Entry' = Entry
        /\ (OnlyStamped(ldCat) => OnlyStamped(ldCat)')
    BY <1>1, <2>1, <2>2, PartsGrow
  <2>4. ldRun' \in [pc : {"closed", "tables", "step", "copying", "legacy", "write", "views"},
                    ver : 0..Newest, out : {"none", "ok", "refused"}]
    BY <2>1 DEF Newest
  <2>5. LdTyped' /\ ClonesSound' /\ LdPlace'
    BY <1>1, <1>3, <2>1, <2>3, <2>4 DEF LdTyped, ClonesSound, LdPlace, Running
  <2>6. Entry = "ladder" => LdCopies'
    <3> SUFFICES ASSUME Entry = "ladder" PROVE LdCopies'
      OBVIOUS
    <3>1. LdCopies
      OBVIOUS
    <3>2. Fresh' <=> Fresh
      BY <1>1, <2>3 DEF Fresh
    <3>3. \A k \in Steps : k - 1 # LdLocal
      BY <1>1, LocalRange DEF Steps, Layout
    <3>4. (\A k \in Steps : ldBak[k].is = "torn" => Crashed \/ (ldRun.pc = "copying" /\ k = Step))'
      BY <1>1, <3>1 DEF LdCopies, Crashed
    <3>5. (\A k \in Steps : (ldBak[k].is = "copy" /\ \A j \in 1..k - 1 : ldBak[j].is = "none") =>
             ldBak[k].of.rows = Start.rows /\ OnlyStamped(ldBak[k].of))'
      BY <1>1, <2>3, <3>1 DEF LdCopies, OnlyStamped
    <3>6. (Fresh => OnlyStamped(ldCat) /\ (ldCat.rows = Start.rows \/ (ldBak[1].is # "none" /\ ldRun.pc # "copying")))'
      BY <1>1, <2>1, <2>3, <3>1, <3>2 DEF LdCopies
    <3> QED
      BY <1>1, <2>1, <2>3, <3>1, <3>3, <3>4, <3>5, <3>6 DEF LdCopies
  <2> QED
    BY <2>3, <2>5, <2>6
<1> QED
  BY <1>2, <1>3 DEF LdViews

\* Every step of a run, and a crash in it, keeps the invariant.
LEMMA LdStepInv == LdInv /\ [LdNext]_ldVars => LdInv'
<1> SUFFICES ASSUME LdInv, [LdNext]_ldVars PROVE LdInv'
  OBVIOUS
<1>1. CASE UNCHANGED ldVars
  <2>1. UNCHANGED <<ldCat, ldBak, ldRun, ldWorld, ldLeft>>
    BY <1>1 DEF ldVars
  <2>2. Lawful(ldCat)' /\ RowsKept' /\ HashKept' /\ RefusedUntouched' /\ Entry' = Entry /\ LdLocal' = LdLocal /\ Start' = Start
    BY <2>1, CatStays
  <2>3. LdTyped' /\ LdPlace' /\ ClonesSound'
    BY <2>1, <2>2 DEF LdInv, LdTyped, LdPlace, ClonesSound, Running, Step, Shaped, Orphaned
  <2>4. LdCopies => LdCopies'
    BY <2>1, <2>2 DEF LdCopies, Fresh, OnlyStamped, Shaped, Crashed, Step
  <2> QED
    BY <2>2, <2>3, <2>4 DEF LdInv
<1>2. CASE LdStep
  BY <1>2, LdTablesInv, LdStampInv, LdCopyInv, LdLegacyInv, LdWriteInv, LdViewsInv DEF LdStep
<1> QED
  BY <1>1, <1>2, LdOpenInv, LdRefuseInv, LdCrashInv DEF LdNext

\* The invariant says what the ladder promises.
LEMMA LdInvIsEnough == LdInv => LadderSound
<1> SUFFICES ASSUME LdInv PROVE LadderSound
  OBVIOUS
<1> USE DEF LdInv
<1>1. LdTypeOK
  BY DEF LdTyped, LdTypeOK, LdCatalogs, Newest
<1>2. StampKept
  <2> SUFFICES ASSUME NEW k \in Steps, ldCat.ver >= k, ldCat.ver > Start.ver PROVE PartsOf[k] \subseteq ldCat.has
    BY DEF StampKept
  <2>1. CASE k = 6
    BY <2>1 DEF HashKept, PartsOf
  <2>2. CASE k # 6
    BY <2>2, LocalRange DEF Lawful, Steps, Layout
  <2> QED
    BY <2>1, <2>2
<1>3. CopyKept
  <2> SUFFICES ASSUME Entry = "ladder" PROVE CopyKept
    BY DEF CopyKept
  <2>1. LdCopies
    OBVIOUS
  <2>2. ldRun.pc \in {"write", "legacy"} =>
          \/ ldBak[Step].is = "copy" /\ ldBak[Step].of \in {ldCat, [ldCat EXCEPT !.rows = Start.rows]}
          \/ ldBak[Step].is = "torn" /\ Crashed
    <3> SUFFICES ASSUME ldRun.pc \in {"write", "legacy"}
                 PROVE  \/ ldBak[Step].is = "copy" /\ ldBak[Step].of \in {ldCat, [ldCat EXCEPT !.rows = Start.rows]}
                        \/ ldBak[Step].is = "torn" /\ Crashed
      OBVIOUS
    <3>1. Step \in Steps /\ Step - 1 = LdLocal
      BY DEF LdPlace, LdTyped, Running, Step, Steps, Layout
    <3>2. ldBak[Step].is \in {"torn", "copy"}
      BY <2>1, <3>1 DEF LdCopies
    <3> QED
      BY <2>1, <3>1, <3>2 DEF LdCopies
  <2> QED
    BY <2>1, <2>2 DEF CopyKept, LdCopies, OnlyStamped
<1> QED
  BY <1>1, <1>2, <1>3 DEF LadderSound

\* Whatever catalog is opened, and however often a migration dies, stamps are promises, rows are the
\* old ones, a copy precedes what is converted, and clones are sound (db.py, _migrate).
THEOREM LadderKeepsCatalog == LdSpec => []LadderSound
BY LdInitInv, LdStepInv, LdInvIsEnough, PTL DEF LdSpec

-----------------------------------------------------------------------------
(* Rehearsal and publication                                               *)

Reading == {"main", "wal", "again", "again wal", "migrate"}
Preparing == {"bundle main", "bundle wal", "lock"}
Holding == {"stage", "copy", "library", "locator", "link", "verify", "confirm"}
Created == Holding \ {"stage"}
Recording == {"record", "recorded"}
CtLibs == {"none", "a", "b"}
CtDests == [cat : {"none", "ours", "rival"}, side : BOOLEAN, lib : {"none", "partial", "a", "b", "rival"},
            stage : {"none", "ours", "rival"}]

CtTyped ==
  /\ ctWorld \in CtWorlds
  /\ ctSrc \in [main : Nat \ {0}, wal : Nat, lib : {"none", "a", "b", "bad"}, ver : Nat]
  /\ ctSrc.wal = 0 \/ ctSrc.wal >= ctSrc.main
  /\ ctLeft \in [src : Nat, rival : Nat, crash : Nat, fail : Nat, dispose : Nat]
  /\ ctDest \in [1..ctWorld.dests -> CtDests]
  /\ ctRun = [r \in 1..ctWorld.runs |->
                [made |-> ctRun[r].made, ok |-> ctRun[r].ok, lib |-> ctRun[r].lib, snap |-> ctRun[r].snap,
                 clone |-> ctRun[r].clone, bundle |-> ctRun[r].bundle, slot |-> ctRun[r].slot]]
  /\ \A r \in 1..ctWorld.runs :
       ctRun[r].made \in BOOLEAN /\ ctRun[r].ok \in BOOLEAN /\ ctRun[r].lib \in CtLibs
       /\ ctRun[r].slot.is \in {"none", "torn", "record"} /\ (ctRun[r].ok => ctRun[r].made)

CtToolTyped ==
  /\ ctTool = [pc |-> ctTool.pc, run |-> ctTool.run, dest |-> ctTool.dest, lib |-> ctTool.lib, read |-> ctTool.read,
               since |-> ctTool.since, created |-> ctTool.created, staged |-> ctTool.staged, rec |-> ctTool.rec,
               end |-> ctTool.end, out |-> ctTool.out]
  /\ ctTool.pc \in {"idle"} \cup Reading \cup Preparing \cup Holding \cup Recording
  /\ ctTool.created \in BOOLEAN
  /\ ctTool.out \in {"none", "rehearsed", "published", "refused", "unrecorded", "died"}

\* Bounds only go down.
CtSpent ==
  /\ ctLeft.src <= ctWorld.left.src /\ ctLeft.rival <= ctWorld.left.rival /\ ctLeft.crash <= ctWorld.left.crash
  /\ ctLeft.fail <= ctWorld.left.fail /\ ctLeft.dispose <= ctWorld.left.dispose

\* What an operation has in hand at each of its steps.
CtPlace ==
  /\ ctTool.pc # "idle" => ctTool.run \in 1..ctWorld.runs /\ ctTool.out = "none" /\ Mine.made
  /\ ctTool.pc \in Preparing \cup Holding => Mine.ok
  /\ ctTool.pc \in Preparing \cup Holding => ctTool.dest \in 1..ctWorld.dests /\ ctTool.lib = Mine.lib /\ ctTool.lib \in CtLibs
  /\ ctTool.pc \in Reading \cup Preparing \cup {"stage"} => ~ctTool.created
  /\ ctTool.pc \in Created => ctTool.created
  /\ ctTool.created => ctTool.run \in 1..ctWorld.runs
  /\ ctTool.pc \notin Recording => ctTool.end = "none"
  /\ ctTool.pc \in Recording => ctTool.rec.is = "record" /\ ctTool.end \in {"refused", "published"}

\* What was read, against what the source holds.
CtReadings ==
  /\ ctTool.pc = "wal" =>
       /\ ctTool.read = <<ctTool.read[1], 0>> /\ ctTool.read[1] \in Nat /\ ctTool.read[1] <= ctSrc.main
       /\ ctTool.since \in Nat /\ ctTool.since <= Content
  /\ ctTool.pc \in {"again", "again wal"} =>
       /\ ctTool.read = <<ctTool.read[1], ctTool.read[2]>> /\ ctTool.read[1] \in Nat /\ ctTool.read[2] \in Nat
       /\ ctTool.read[1] <= ctSrc.main /\ ctTool.since \in Nat
  /\ ctTool.pc = "again wal" \/ (ctTool.pc = "again" /\ ctTool.read[1] = ctSrc.main) =>
       ctTool.since <= Recovered(ctTool.read) /\ Recovered(ctTool.read) <= Content
  /\ ctTool.pc = "bundle wal" => ctTool.read = <<ctTool.read[1], 0>>

\* What is locked is what was rehearsed, and can be had back.
CtLocks ==
  /\ ctTool.pc \in {"lock"} \cup Holding => Recovered(Mine.bundle) = Mine.snap
  /\ ctTool.pc \in Holding => Content = Mine.snap
  /\ ctTool.pc \in {"library", "locator", "link", "verify", "confirm"} => ctTool.staged = Mine.snap /\ ctSrc.ver < 7
  /\ ctTool.pc \in {"link", "verify", "confirm"} => Target.lib \in {ctTool.lib, "rival"}

\* Where nothing interferes: the source and the runs, and the operation under way.
QuietRuns ==
  Quiet =>
    /\ ctSrc = ctWorld.src
    /\ \A r \in 1..ctWorld.runs :
         /\ ctRun[r].made => ctRun[r].lib = ctSrc.lib
         /\ ctRun[r].ok => ctRun[r].snap = Content /\ ctRun[r].clone = ctRun[r].snap
Stands(cat, lib, stage) == Target.cat = cat /\ ~Target.side /\ Target.lib = lib /\ Target.stage = stage
QuietTool ==
  Quiet =>
    /\ ctTool.pc \in {"wal", "bundle wal"} => ctTool.read[1] = ctSrc.main
    /\ ctTool.pc \in {"again", "again wal"} => ctTool.read = <<ctSrc.main, ctSrc.wal>>
    /\ ctTool.pc = "migrate" => Mine.snap = Content
    /\ ctTool.pc \in Preparing \cup {"stage"} => Stands("none", "none", "none")
    /\ ctTool.pc \in {"copy", "library"} => Stands("none", "none", "ours")
    /\ ctTool.pc = "locator" => Stands("none", "partial", "ours")
    /\ ctTool.pc = "link" => Stands("none", ctTool.lib, "ours")
    /\ ctTool.pc \in {"verify", "confirm"} => Stands("ours", ctTool.lib, "ours")

CtInv == CtTyped /\ CtToolTyped /\ CtSpent /\ CtPlace /\ CtReadings /\ CtLocks /\ QuietRuns /\ QuietTool /\ LeftoverListed

\* A source and nothing else.
LEMMA CtInitInv == CtInit => CtInv
<1> SUFFICES ASSUME CtInit PROVE CtInv
  OBVIOUS
<1>1. PICK w \in CtWorlds :
        /\ ctWorld = w /\ ctSrc = w.src /\ ctLeft = w.left /\ ctTool = Resting
        /\ ctRun = [r \in 1..w.runs |-> NoRun] /\ ctDest = [d \in 1..w.dests |-> Vacant]
  BY DEF CtInit
<1>2. CtTyped
  BY <1>1, CtWorldsAssumption DEF CtTyped, CtDests, Vacant, NoRun, NoSlot, CtLibs
<1>3. CtToolTyped /\ CtPlace /\ CtReadings /\ CtLocks
  BY <1>1 DEF CtToolTyped, CtPlace, CtReadings, CtLocks, Resting, Reading, Preparing, Holding, Recording, Created, NoSlot, NoBundle
<1>4. CtSpent
  BY <1>1, CtWorldsAssumption DEF CtSpent
<1>5. QuietRuns /\ QuietTool
  BY <1>1 DEF QuietRuns, QuietTool, Stands, Resting, NoRun, Reading, Preparing, Holding
<1>6. LeftoverListed
  BY <1>1 DEF LeftoverListed, Resting, NoRun, NoSlot, CtAt
<1> QED
  BY <1>2, <1>3, <1>4, <1>5, <1>6 DEF CtInv

\* An operation that is over has nothing in hand.
LEMMA CtIdles ==
  ASSUME ctTool'.pc = "idle", ctTool'.end = "none", ~ctTool'.created \/ ctTool'.run \in 1..ctWorld'.runs
  PROVE  CtPlace' /\ CtReadings' /\ CtLocks' /\ QuietTool'
BY DEF CtPlace, CtReadings, CtLocks, QuietTool, Stands, Reading, Preparing, Holding, Recording, Created

\* One that ends with a record has the record.
LEMMA CtRecords ==
  ASSUME ctTool'.pc \in Recording, ctTool'.run \in 1..ctWorld'.runs, ctTool'.out = "none", Mine'.made,
         ctTool'.rec.is = "record", ctTool'.end \in {"refused", "published"}
  PROVE  CtPlace' /\ CtReadings' /\ CtLocks' /\ QuietTool'
BY DEF CtPlace, CtReadings, CtLocks, QuietTool, Stands, Reading, Preparing, Holding, Recording, Created

\* Leaving, field by field.
LEMMA LeaveFields ==
  ASSUME NEW out, Leave(out)
  PROVE  /\ ctTool' = [pc |-> ctTool'.pc, run |-> ctTool'.run, dest |-> ctTool'.dest, lib |-> ctTool'.lib, read |-> ctTool'.read,
                       since |-> ctTool'.since, created |-> ctTool'.created, staged |-> ctTool'.staged, rec |-> ctTool'.rec,
                       end |-> ctTool'.end, out |-> ctTool'.out]
         /\ ctTool'.pc = "idle" /\ ctTool'.end = "none" /\ ctTool'.out = out /\ ctTool'.run = ctTool.run
         /\ ctTool'.created = ctTool.created
BY DEF Leave, Resting

\* Leaving keeps the operation in order.
LEMMA LeaveKeeps ==
  ASSUME CtInv, NEW out \in {"none", "rehearsed", "published", "refused", "unrecorded", "died"}, Leave(out),
         ctWorld' = ctWorld
  PROVE  /\ CtToolTyped' /\ CtPlace' /\ CtReadings' /\ CtLocks' /\ QuietTool'
         /\ ctTool'.pc = "idle" /\ ctTool'.out = out /\ ctTool'.run = ctTool.run /\ ctTool'.created = ctTool.created
         /\ ctTool'.end = "none"
<1>1. CtToolTyped'
  BY LeaveFields DEF CtInv, CtToolTyped
<1>2. ~ctTool'.created \/ ctTool'.run \in 1..ctWorld'.runs
  BY LeaveFields DEF CtInv, CtPlace
<1> QED
  BY <1>1, <1>2, LeaveFields, CtIdles

\* A refusal, with a record once the slot was created.
LEMMA RefuseKeeps ==
  ASSUME CtInv, Refuse, ctWorld' = ctWorld, ctTool.pc # "idle", ctRun'[ctTool.run].made
  PROVE  /\ CtToolTyped' /\ CtPlace' /\ CtReadings' /\ CtLocks' /\ QuietTool' /\ ctTool'.run = ctTool.run
         /\ \/ ctTool'.pc = "idle" /\ ~ctTool'.created /\ ctTool'.out = "refused" /\ ctTool'.end = "none"
            \/ ctTool'.pc = "record" /\ ctTool.created /\ ctTool'.end = "refused"
<1>1. CASE ctTool.created
  <2>1. /\ ctTool' = [pc |-> "record", run |-> ctTool.run, dest |-> ctTool.dest, lib |-> ctTool.lib, read |-> ctTool.read,
                      since |-> ctTool.since, created |-> ctTool.created, staged |-> ctTool.staged,
                      rec |-> StagingReport(ctTool.dest), end |-> "refused", out |-> ctTool.out]
    BY <1>1 DEF Refuse, Review, CtInv, CtToolTyped
  <2>2. StagingReport(ctTool.dest).is = "record"
    BY DEF StagingReport
  <2>3. ctTool.run \in 1..ctWorld.runs /\ ctTool.out = "none" /\ Mine.made
    BY DEF CtInv, CtPlace
  <2>4. CtToolTyped'
    BY <2>1, <1>1 DEF CtInv, CtToolTyped, Recording
  <2>5. CtPlace' /\ CtReadings' /\ CtLocks' /\ QuietTool'
    BY <2>1, <2>2, <2>3, CtRecords DEF Recording, Mine
  <2> QED
    BY <1>1, <2>1, <2>4, <2>5
<1>2. CASE ~ctTool.created
  <2>1. Leave("refused")
    BY <1>2 DEF Refuse
  <2> QED
    BY <1>2, <2>1, LeaveKeeps
<1> QED
  BY <1>1, <1>2 DEF CtInv, CtToolTyped

\* Slots are untouched: so is what is listed, unless the operation is just over.
LEMMA ListedKeeps ==
  ASSUME CtInv, ctWorld' = ctWorld, CtTyped', CtSpent',
         \A r \in 1..ctWorld.runs : ctRun'[r].slot = ctRun[r].slot,
         ctLeft'.crash <= ctLeft.crash, ctLeft'.fail <= ctLeft.fail,
         ctTool.pc = "recorded" =>
           \/ ctTool'.pc = "recorded" /\ ctTool'.run = ctTool.run
           \/ ctLeft'.crash < ctWorld.left.crash
           \/ ctLeft'.fail < ctWorld.left.fail,
         (ctTool'.pc = "idle" /\ ctTool'.created) =>
            ctTool' = ctTool \/ ctTool'.out \notin {"published", "refused"}
  PROVE  LeftoverListed'
<1>1. DOMAIN ctRun = 1..ctWorld.runs /\ DOMAIN ctRun' = 1..ctWorld.runs
  BY DEF CtInv, CtTyped
<1>2. ctLeft.crash \in Nat /\ ctLeft'.crash \in Nat /\ ctLeft.fail \in Nat /\ ctLeft'.fail \in Nat
      /\ ctWorld.left.crash \in Nat /\ ctWorld.left.fail \in Nat
  BY CtWorldsAssumption DEF CtInv, CtTyped
<1>3. ((CtAt("idle") /\ ctTool.created /\ ctTool.out \in {"published", "refused"}) => Listable(ctTool.run))'
  <2> SUFFICES ASSUME ctTool'.pc = "idle", ctTool'.created, ctTool'.out \in {"published", "refused"}
               PROVE  ctRun'[ctTool'.run].slot.is = "record"
    BY DEF CtAt, Listable
  <2>1. ctTool' = ctTool
    OBVIOUS
  <2>2. ctRun[ctTool.run].slot.is = "record" /\ ctTool.run \in 1..ctWorld.runs
    BY <2>1 DEF CtInv, LeftoverListed, CtAt, Listable, CtPlace
  <2> QED
    BY <2>1, <2>2
<1>4. (\A r \in DOMAIN ctRun : ctRun[r].slot.is = "torn" =>
         (CtAt("recorded") /\ ctTool.run = r) \/ ctLeft.crash < ctWorld.left.crash
                                              \/ ctLeft.fail < ctWorld.left.fail)'
  BY <1>1, <1>2 DEF CtInv, LeftoverListed, CtAt
<1> QED
  BY <1>3, <1>4 DEF LeftoverListed

\* A step of the tool in its own memory leaves the rest as it is.
LEMMA WorldStays ==
  ASSUME CtInv, UNCHANGED <<ctSrc, ctRun, ctDest, ctWorld, ctLeft>>
  PROVE  CtTyped' /\ CtSpent' /\ QuietRuns' /\ Content' = Content /\ (Quiet' <=> Quiet)
<1>1. Content' = Content /\ (Quiet' <=> Quiet)
  BY DEF Content, Quiet
<1>2. CtTyped' /\ CtSpent'
  BY DEF CtInv, CtTyped, CtSpent
<1>3. QuietRuns'
  BY <1>1 DEF CtInv, QuietRuns
<1> QED
  BY <1>1, <1>2, <1>3

\* A refusal, whatever is refused.
LEMMA RefusedInv ==
  ASSUME CtInv, UNCHANGED <<ctSrc, ctRun, ctDest, ctWorld, ctLeft>>, Refuse, ctTool.pc \notin {"idle", "record", "recorded"}
  PROVE  CtInv'
<1>0. ctRun'[ctTool.run].made
  BY DEF CtInv, CtPlace, Mine
<1>1. LeftoverListed'
  <2>1. ctLeft'.crash <= ctLeft.crash /\ ctLeft'.fail <= ctLeft.fail
    BY DEF CtInv, CtTyped
  <2> QED
    BY <1>0, <2>1, RefuseKeeps, WorldStays, ListedKeeps
<1> QED
  BY <1>0, <1>1, RefuseKeeps, WorldStays DEF CtInv

\* The next step of an operation, with what it must have in hand.
LEMMA EnterInv ==
  ASSUME CtInv, UNCHANGED <<ctSrc, ctRun, ctDest, ctWorld, ctLeft>>, CtToolTyped', CtPlace', CtReadings', CtLocks', QuietTool',
         ctTool'.pc # "idle", ctTool.pc # "recorded"
  PROVE  CtInv'
<1>1. LeftoverListed'
  <2>1. ctLeft'.crash <= ctLeft.crash /\ ctLeft'.fail <= ctLeft.fail
    BY DEF CtInv, CtTyped
  <2> QED
    BY <2>1, WorldStays, ListedKeeps
<1> QED
  BY <1>1, WorldStays DEF CtInv

\* Entering a step, field by field.
LEMMA EnterFields ==
  ASSUME CtToolTyped, NEW pc, Enter(pc)
  PROVE  ctTool' = [pc |-> pc, run |-> ctTool.run, dest |-> ctTool.dest, lib |-> ctTool.lib, read |-> ctTool.read,
                    since |-> ctTool.since, created |-> ctTool.created, staged |-> ctTool.staged, rec |-> ctTool.rec,
                    end |-> ctTool.end, out |-> ctTool.out]
BY DEF Enter, CtToolTyped

\* The main file is read.
LEMMA CtReadMainInv ==
  ASSUME CtInv, CtReadMain
  PROVE  CtInv'
<1>0. UNCHANGED <<ctSrc, ctRun, ctDest, ctWorld, ctLeft>> /\ ctTool.pc \in {"main", "bundle main"}
  BY DEF CtReadMain, CtKeep
<1> DEFINE next == IF ctTool.pc = "main" THEN "wal" ELSE "bundle wal"
<1>1. ctTool' = [pc |-> next, run |-> ctTool.run, dest |-> ctTool.dest, lib |-> ctTool.lib, read |-> <<ctSrc.main, 0>>,
                 since |-> Content, created |-> ctTool.created, staged |-> ctTool.staged, rec |-> ctTool.rec,
                 end |-> ctTool.end, out |-> ctTool.out]
  BY DEF CtReadMain, CtInv, CtToolTyped
<1>2. Content \in Nat /\ Content' = Content /\ ctSrc.main \in Nat
  BY <1>0, WorldStays DEF CtInv, CtTyped, Content, Recovered
<1>3. CtToolTyped'
  BY <1>0, <1>1 DEF CtInv, CtToolTyped, Reading, Preparing
<1>4. CtPlace'
  BY <1>0, <1>1 DEF CtInv, CtPlace, Reading, Preparing, Holding, Recording, Created, Mine
<1>5. CtReadings' /\ CtLocks'
  <2>1. /\ ctTool'.pc \in {"wal", "bundle wal"} /\ ctTool'.read = <<ctSrc.main, 0>>
        /\ ctTool'.since = Content /\ ctSrc'.main = ctSrc.main
    BY <1>0, <1>1
  <2>2. <<ctSrc.main, 0>>[1] = ctSrc.main
    OBVIOUS
  <2>3. ctTool'.read[1] = ctSrc.main /\ ctTool'.read = <<ctTool'.read[1], 0>>
    BY <2>1, <2>2
  <2>a. ctSrc.main \in Nat /\ Content \in Nat /\ Content' = Content
    BY <1>2
  <2>b. ctSrc.main <= ctSrc.main /\ Content <= Content
    BY <2>a
  <2>4. ctTool'.read[1] \in Nat /\ ctTool'.read[1] <= ctSrc'.main
    BY <2>a, <2>b, <2>1, <2>3
  <2>5. ctTool'.since \in Nat /\ ctTool'.since <= Content'
    BY <2>a, <2>b, <2>1
  <2> QED
    BY <2>1, <2>3, <2>4, <2>5 DEF CtReadings, CtLocks, Holding
<1>6. QuietTool'
  BY <1>0, <1>1, <1>2, WorldStays DEF CtInv, QuietTool, Stands, Reading, Preparing, Holding, Mine, Target
<1> QED
  BY <1>0, <1>1, <1>3, <1>4, <1>5, <1>6, EnterInv

\* Then the WAL.
LEMMA CtReadWalInv ==
  ASSUME CtInv, CtReadWal
  PROVE  CtInv'
<1>0. UNCHANGED <<ctSrc, ctRun, ctDest, ctWorld, ctLeft>> /\ ctTool.pc = "wal"
  BY DEF CtReadWal, CtKeep, CtAt
<1>1. ctTool' = [pc |-> "again", run |-> ctTool.run, dest |-> ctTool.dest, lib |-> ctTool.lib, read |-> <<ctTool.read[1], ctSrc.wal>>,
                 since |-> ctTool.since, created |-> ctTool.created, staged |-> ctTool.staged, rec |-> ctTool.rec,
                 end |-> ctTool.end, out |-> ctTool.out]
  BY DEF CtReadWal, CtInv, CtToolTyped
<1>2. Content \in Nat /\ Content' = Content /\ ctSrc.main \in Nat /\ ctSrc.wal \in Nat
  BY <1>0, WorldStays DEF CtInv, CtTyped, Content, Recovered
<1>3. CtToolTyped'
  BY <1>0, <1>1 DEF CtInv, CtToolTyped, Reading, Preparing
<1>4. CtPlace'
  BY <1>0, <1>1 DEF CtInv, CtPlace, Reading, Preparing, Holding, Recording, Created, Mine
<1>5. CtReadings' /\ CtLocks'
  <2>1. /\ ctTool.read[1] \in Nat /\ ctTool.read[1] <= ctSrc.main /\ ctTool.since \in Nat /\ ctTool.since <= Content
    BY <1>0 DEF CtInv, CtReadings
  <2>2. ctTool.read[1] = ctSrc.main => Recovered(<<ctTool.read[1], ctSrc.wal>>) = Content
    BY DEF Content, Recovered
  <2> QED
    BY <1>0, <1>1, <1>2, <2>1, <2>2 DEF CtReadings, CtLocks, Holding
<1>6. QuietTool'
  BY <1>0, <1>1, <1>2, WorldStays DEF CtInv, QuietTool, Stands, Reading, Preparing, Holding, Mine, Target
<1> QED
  BY <1>0, <1>1, <1>3, <1>4, <1>5, <1>6, EnterInv

\* A name for the step that follows: what the operation has in hand stays in its hands.
LEMMA NextInv ==
  ASSUME CtInv, UNCHANGED <<ctSrc, ctRun, ctDest, ctWorld, ctLeft>>, NEW pc, Enter(pc), ctTool.pc # "idle",
         pc \in Reading \cup Preparing \cup Holding, ctTool.pc \in Reading <=> pc \in Reading,
         ctTool.pc \notin Recording, ctTool.pc \in Created <=> pc \in Created, CtReadings', CtLocks', QuietTool'
  PROVE  CtInv'
<1>1. ctTool' = [pc |-> pc, run |-> ctTool.run, dest |-> ctTool.dest, lib |-> ctTool.lib, read |-> ctTool.read,
                 since |-> ctTool.since, created |-> ctTool.created, staged |-> ctTool.staged, rec |-> ctTool.rec,
                 end |-> ctTool.end, out |-> ctTool.out]
  BY EnterFields DEF CtInv
<1>2. CtToolTyped' /\ ctTool'.pc # "idle"
  BY <1>1 DEF CtInv, CtToolTyped, Reading, Preparing, Holding
<1>3. CtPlace'
  BY <1>1 DEF CtInv, CtToolTyped, CtPlace, Reading, Preparing, Holding, Recording, Created, Mine
<1>4. ctTool.pc # "recorded"
  BY DEF Recording
<1> QED
  BY <1>2, <1>3, <1>4, EnterInv

\* The source is read once more.
LEMMA CtCompareMainInv ==
  ASSUME CtInv, CtCompareMain
  PROVE  CtInv'
<1>0. UNCHANGED <<ctSrc, ctRun, ctDest, ctWorld, ctLeft>> /\ ctTool.pc = "again"
  BY DEF CtCompareMain, CtKeep, CtAt
<1>1. CASE Refuse
  BY <1>0, <1>1, RefusedInv
<1>2. CASE ctSrc.main = ctTool.read[1] /\ Enter("again wal")
  <2>1. ctTool' = [pc |-> "again wal", run |-> ctTool.run, dest |-> ctTool.dest, lib |-> ctTool.lib, read |-> ctTool.read,
                   since |-> ctTool.since, created |-> ctTool.created, staged |-> ctTool.staged, rec |-> ctTool.rec,
                   end |-> ctTool.end, out |-> ctTool.out]
    BY <1>2, EnterFields DEF CtInv
  <2>2. Content' = Content
    BY <1>0, WorldStays
  <2>3. CtReadings' /\ CtLocks'
    BY <1>0, <1>2, <2>1, <2>2 DEF CtInv, CtReadings, CtLocks, Holding
  <2>4. QuietTool'
    BY <1>0, <2>1, <2>2, WorldStays DEF CtInv, QuietTool, Stands, Reading, Preparing, Holding, Mine, Target
  <2> QED
    BY <1>0, <1>2, <2>3, <2>4, NextInv DEF Reading, Preparing, Holding, Recording, Created
<1> QED
  BY <1>1, <1>2 DEF CtCompareMain, Checked, SameMain

\* The source is locked, and still what was rehearsed.
LEMMA CtLockInv ==
  ASSUME CtInv, CtLock
  PROVE  CtInv'
<1>0. UNCHANGED <<ctSrc, ctRun, ctDest, ctWorld, ctLeft>> /\ ctTool.pc = "lock"
  BY DEF CtLock, CtKeep, CtAt
<1>1. CASE Refuse
  BY <1>0, <1>1, RefusedInv
<1>2. CASE Content = Mine.snap /\ Enter("stage")
  <2>1. ctTool' = [pc |-> "stage", run |-> ctTool.run, dest |-> ctTool.dest, lib |-> ctTool.lib, read |-> ctTool.read,
                   since |-> ctTool.since, created |-> ctTool.created, staged |-> ctTool.staged, rec |-> ctTool.rec,
                   end |-> ctTool.end, out |-> ctTool.out]
    BY <1>2, EnterFields DEF CtInv
  <2>2. Content' = Content
    BY <1>0, WorldStays
  <2>3. CtReadings' /\ CtLocks'
    BY <1>0, <1>2, <2>1, <2>2 DEF CtInv, CtReadings, CtLocks, Holding, Mine
  <2>4. QuietTool'
    BY <1>0, <2>1, <2>2, WorldStays DEF CtInv, QuietTool, Stands, Reading, Preparing, Holding, Mine, Target
  <2> QED
    BY <1>0, <1>2, <2>3, <2>4, NextInv DEF Reading, Preparing, Holding, Recording, Created
<1> QED
  BY <1>1, <1>2 DEF CtLock, Checked, SourceStands

\* The clone is copied into the slot.
LEMMA CtCopyInv ==
  ASSUME CtInv, CtCopy
  PROVE  CtInv'
<1>0. UNCHANGED <<ctSrc, ctRun, ctDest, ctWorld, ctLeft>> /\ ctTool.pc = "copy"
  BY DEF CtCopy, CtKeep, CtAt
<1>1. CASE Refuse
  BY <1>0, <1>1, RefusedInv
<1>2. CASE /\ Target.stage = "ours" /\ Mine.clone = Mine.snap /\ ctSrc.ver < 7
           /\ ctTool' = [ctTool EXCEPT !.pc = "library", !.staged = Mine.clone]
  <2>1. ctTool' = [pc |-> "library", run |-> ctTool.run, dest |-> ctTool.dest, lib |-> ctTool.lib, read |-> ctTool.read,
                   since |-> ctTool.since, created |-> ctTool.created, staged |-> Mine.snap, rec |-> ctTool.rec,
                   end |-> ctTool.end, out |-> ctTool.out]
    BY <1>2 DEF CtInv, CtToolTyped
  <2>2. Content' = Content
    BY <1>0, WorldStays
  <2>3. CtReadings' /\ CtLocks'
    BY <1>0, <1>2, <2>1, <2>2 DEF CtInv, CtReadings, CtLocks, Holding, Mine
  <2>4. QuietTool'
    BY <1>0, <2>1, <2>2, WorldStays DEF CtInv, QuietTool, Stands, Reading, Preparing, Holding, Mine, Target
  <2>5. CtToolTyped' /\ ctTool'.pc # "idle"
    BY <2>1 DEF CtInv, CtToolTyped, Holding
  <2>6. CtPlace'
    BY <1>0, <2>1 DEF CtInv, CtPlace, Reading, Preparing, Holding, Recording, Created, Mine
  <2> QED
    BY <1>0, <2>3, <2>4, <2>5, <2>6, EnterInv
<1> QED
  BY <1>1, <1>2 DEF CtCopy, CloneIsExpected, SameCatalog

\* The destination is looked at.
LEMMA CtVerifyInv ==
  ASSUME CtInv, CtVerify
  PROVE  CtInv'
<1>0. UNCHANGED <<ctSrc, ctRun, ctDest, ctWorld, ctLeft>> /\ ctTool.pc = "verify"
  BY DEF CtVerify, CtKeep, CtAt
<1>1. CASE Refuse
  BY <1>0, <1>1, RefusedInv
<1>2. CASE Enter("confirm")
  <2>1. ctTool' = [pc |-> "confirm", run |-> ctTool.run, dest |-> ctTool.dest, lib |-> ctTool.lib, read |-> ctTool.read,
                   since |-> ctTool.since, created |-> ctTool.created, staged |-> ctTool.staged, rec |-> ctTool.rec,
                   end |-> ctTool.end, out |-> ctTool.out]
    BY <1>2, EnterFields DEF CtInv
  <2>2. Content' = Content
    BY <1>0, WorldStays
  <2>3. CtReadings' /\ CtLocks'
    BY <1>0, <2>1, <2>2 DEF CtInv, CtReadings, CtLocks, Holding, Mine, Target
  <2>4. QuietTool'
    BY <1>0, <2>1, <2>2, WorldStays DEF CtInv, QuietTool, Stands, Reading, Preparing, Holding, Mine, Target
  <2> QED
    BY <1>0, <1>2, <2>3, <2>4, NextInv DEF Reading, Preparing, Holding, Recording, Created
<1> QED
  BY <1>1, <1>2 DEF CtVerify, Checked

\* And once more, to report success.
LEMMA CtConfirmInv ==
  ASSUME CtInv, CtConfirm
  PROVE  CtInv'
<1>0. UNCHANGED <<ctSrc, ctRun, ctDest, ctWorld, ctLeft>> /\ ctTool.pc = "confirm"
  BY DEF CtConfirm, CtKeep, CtAt
<1>1. CASE Refuse
  BY <1>0, <1>1, RefusedInv
<1>2. CASE ctTool' = [ctTool EXCEPT !.pc = "record", !.end = "published", !.rec = StagingReport(ctTool.dest)]
  <2>1. ctTool' = [pc |-> "record", run |-> ctTool.run, dest |-> ctTool.dest, lib |-> ctTool.lib, read |-> ctTool.read,
                   since |-> ctTool.since, created |-> ctTool.created, staged |-> ctTool.staged,
                   rec |-> StagingReport(ctTool.dest), end |-> "published", out |-> ctTool.out]
    BY <1>2 DEF CtInv, CtToolTyped
  <2>2. StagingReport(ctTool.dest).is = "record"
    BY DEF StagingReport
  <2>3. ctTool.run \in 1..ctWorld.runs /\ ctTool.out = "none" /\ Mine'.made
    BY <1>0, <2>1 DEF CtInv, CtPlace, Mine
  <2>4. CtToolTyped' /\ ctTool'.pc # "idle"
    BY <2>1 DEF CtInv, CtToolTyped, Recording
  <2>5. CtPlace' /\ CtReadings' /\ CtLocks' /\ QuietTool'
    BY <1>0, <2>1, <2>2, <2>3, CtRecords DEF Recording
  <2> QED
    BY <1>0, <2>4, <2>5, EnterInv
<1> QED
  BY <1>1, <1>2 DEF CtConfirm, Checked

\* A bound is spent: nothing is quiet any more.
LEMMA Spent ==
  ASSUME CtTyped, CtSpent,
         Allowed("src") \/ Allowed("rival") \/ Allowed("crash") \/ Allowed("fail") \/ Allowed("dispose")
  PROVE  /\ ctLeft' \in [src : Nat, rival : Nat, crash : Nat, fail : Nat, dispose : Nat]
         /\ ctLeft'.crash <= ctLeft.crash /\ ctLeft'.fail <= ctLeft.fail
         /\ CtSpent' /\ ~Quiet' /\ ctWorld' = ctWorld
         /\ Allowed("crash") => ctLeft'.crash < ctWorld.left.crash
         /\ Allowed("fail") => ctLeft'.fail < ctWorld.left.fail
<1>1. ctLeft \in [src : Nat, rival : Nat, crash : Nat, fail : Nat, dispose : Nat] /\ ctWorld \in CtWorlds
  BY DEF CtTyped
<1>2. CASE Allowed("src")
  <2>1. ctLeft.src > 0 /\ ctLeft' = [ctLeft EXCEPT !.src = ctLeft.src - 1] /\ ctWorld' = ctWorld
    BY <1>2 DEF Allowed
  <2> QED
    BY <1>1, <2>1, CtWorldsAssumption DEF CtSpent, Quiet, Allowed
<1>3. CASE Allowed("rival")
  <2>1. ctLeft.rival > 0 /\ ctLeft' = [ctLeft EXCEPT !.rival = ctLeft.rival - 1] /\ ctWorld' = ctWorld
    BY <1>3 DEF Allowed
  <2> QED
    BY <1>1, <2>1, CtWorldsAssumption DEF CtSpent, Quiet, Allowed
<1>4. CASE Allowed("crash")
  <2>1. ctLeft.crash > 0 /\ ctLeft' = [ctLeft EXCEPT !.crash = ctLeft.crash - 1] /\ ctWorld' = ctWorld
    BY <1>4 DEF Allowed
  <2> QED
    BY <1>1, <2>1, CtWorldsAssumption DEF CtSpent, Quiet, Allowed
<1>5. CASE Allowed("fail")
  <2>1. ctLeft.fail > 0 /\ ctLeft' = [ctLeft EXCEPT !.fail = ctLeft.fail - 1] /\ ctWorld' = ctWorld
    BY <1>5 DEF Allowed
  <2> QED
    BY <1>1, <2>1, CtWorldsAssumption DEF CtSpent, Quiet, Allowed
<1>6. CASE Allowed("dispose")
  <2>1. ctLeft.dispose > 0 /\ ctLeft' = [ctLeft EXCEPT !.dispose = ctLeft.dispose - 1] /\ ctWorld' = ctWorld
    BY <1>6 DEF Allowed
  <2> QED
    BY <1>1, <2>1, CtWorldsAssumption DEF CtSpent, Quiet, Allowed
<1> QED
  BY <1>2, <1>3, <1>4, <1>5, <1>6

\* A run's directory is written, and nothing else outside the tool.
LEMMA RunWritten ==
  ASSUME CtInv, UNCHANGED <<ctSrc, ctDest, ctWorld, ctLeft>>, NEW r \in 1..ctWorld.runs, NEW m,
         ctRun' = [ctRun EXCEPT ![r] = m],
         m = [made |-> m.made, ok |-> m.ok, lib |-> m.lib, snap |-> m.snap, clone |-> m.clone, bundle |-> m.bundle, slot |-> m.slot],
         m.made \in BOOLEAN, m.ok \in BOOLEAN, m.lib \in CtLibs, m.slot.is \in {"none", "torn", "record"}, m.ok => m.made,
         Quiet => (m.made => m.lib = ctSrc.lib) /\ (m.ok => m.snap = Content /\ m.clone = m.snap)
  PROVE  /\ CtTyped' /\ CtSpent' /\ QuietRuns' /\ Content' = Content /\ (Quiet' <=> Quiet)
         /\ DOMAIN ctRun = 1..ctWorld.runs /\ DOMAIN ctRun' = 1..ctWorld.runs
         /\ ctRun'[r] = m /\ \A q \in 1..ctWorld.runs \ {r} : ctRun'[q] = ctRun[q]
<1>1. Content' = Content /\ (Quiet' <=> Quiet)
  BY DEF Content, Quiet
<1>2. DOMAIN ctRun = 1..ctWorld.runs
  BY DEF CtInv, CtTyped
<1>3. DOMAIN ctRun' = 1..ctWorld.runs /\ ctRun'[r] = m /\ \A q \in 1..ctWorld.runs \ {r} : ctRun'[q] = ctRun[q]
  BY <1>2
<1>4. \A q \in 1..ctWorld.runs :
        ctRun[q] = [made |-> ctRun[q].made, ok |-> ctRun[q].ok, lib |-> ctRun[q].lib, snap |-> ctRun[q].snap,
                    clone |-> ctRun[q].clone, bundle |-> ctRun[q].bundle, slot |-> ctRun[q].slot]
  BY DEF CtInv, CtTyped
<1>5. \A q \in 1..ctWorld.runs :
        ctRun'[q] = [made |-> ctRun'[q].made, ok |-> ctRun'[q].ok, lib |-> ctRun'[q].lib, snap |-> ctRun'[q].snap,
                     clone |-> ctRun'[q].clone, bundle |-> ctRun'[q].bundle, slot |-> ctRun'[q].slot]
  BY <1>3, <1>4
<1>6. ctRun' = [q \in 1..ctWorld.runs |-> ctRun'[q]]
  BY <1>2
<1>7. ctRun' = [q \in 1..ctWorld.runs |->
        [made |-> ctRun'[q].made, ok |-> ctRun'[q].ok, lib |-> ctRun'[q].lib, snap |-> ctRun'[q].snap,
         clone |-> ctRun'[q].clone, bundle |-> ctRun'[q].bundle, slot |-> ctRun'[q].slot]]
  BY <1>5, <1>6
<1>8. \A q \in 1..ctWorld.runs :
        /\ ctRun'[q].made \in BOOLEAN /\ ctRun'[q].ok \in BOOLEAN /\ ctRun'[q].lib \in CtLibs
        /\ ctRun'[q].slot.is \in {"none", "torn", "record"} /\ (ctRun'[q].ok => ctRun'[q].made)
  BY <1>3 DEF CtInv, CtTyped
<1>9. CtTyped'
  BY <1>7, <1>8 DEF CtInv, CtTyped
<1>10. CtSpent'
  BY DEF CtInv, CtSpent
<1>11. QuietRuns'
  BY <1>1, <1>3 DEF CtInv, QuietRuns
<1> QED
  BY <1>1, <1>2, <1>3, <1>9, <1>10, <1>11

\* A slot that is torn was torn before, and nothing ends here.
LEMMA RunListed ==
  ASSUME CtInv, UNCHANGED <<ctWorld, ctLeft>>, NEW r \in 1..ctWorld.runs,
         DOMAIN ctRun = 1..ctWorld.runs, DOMAIN ctRun' = 1..ctWorld.runs,
         ctRun'[r].slot.is = "torn" => ctRun[r].slot.is = "torn",
         \A q \in 1..ctWorld.runs \ {r} : ctRun'[q] = ctRun[q], ctTool.pc # "recorded",
         ctTool'.pc = "idle" => ~ctTool'.created \/ ctTool'.out \notin {"published", "refused"}
  PROVE  LeftoverListed'
<1>1. \A q \in 1..ctWorld.runs : ctRun'[q].slot.is = "torn" => ctRun[q].slot.is = "torn"
  OBVIOUS
<1>2. (\A q \in DOMAIN ctRun : ctRun[q].slot.is = "torn" =>
         (CtAt("recorded") /\ ctTool.run = q) \/ ctLeft.crash < ctWorld.left.crash
                                              \/ ctLeft.fail < ctWorld.left.fail)'
  BY <1>1 DEF CtInv, LeftoverListed, CtAt
<1> QED
  BY <1>2 DEF LeftoverListed, CtAt

\* A rehearsal begins in a directory of its own.
LEMMA CtRehearseInv ==
  ASSUME CtInv, CtRehearse
  PROVE  CtInv'
<1>0. UNCHANGED <<ctSrc, ctDest, ctWorld, ctLeft>> /\ ctTool.pc = "idle" /\ DOMAIN ctRun = 1..ctWorld.runs
  BY DEF CtRehearse, CtKeep, CtAt, CtInv, CtTyped
<1>1. PICK r \in 1..ctWorld.runs :
        /\ ~ctRun[r].made
        /\ IF LocatorReads(ctSrc.lib)
           THEN /\ ctRun' = [ctRun EXCEPT ![r] = [NoRun EXCEPT !.made = TRUE, !.lib = ctSrc.lib]]
                /\ ctTool' = [Resting EXCEPT !.pc = "main", !.run = r]
           ELSE ctTool' = [Resting EXCEPT !.out = "refused"] /\ UNCHANGED ctRun
  BY <1>0 DEF CtRehearse
<1>2. CASE LocatorReads(ctSrc.lib)
  <2> DEFINE m == [made |-> TRUE, ok |-> FALSE, lib |-> ctSrc.lib, snap |-> 0, clone |-> 0, bundle |-> NoBundle, slot |-> NoSlot]
  <2>1. ctRun' = [ctRun EXCEPT ![r] = m]
    BY <1>1, <1>2 DEF NoRun
  <2>2. ctSrc.lib \in CtLibs
    BY <1>2 DEF CtInv, CtTyped, LocatorReads, CtLibs
  <2>3. /\ CtTyped' /\ CtSpent' /\ QuietRuns' /\ Content' = Content /\ (Quiet' <=> Quiet)
        /\ DOMAIN ctRun = 1..ctWorld.runs /\ DOMAIN ctRun' = 1..ctWorld.runs
        /\ ctRun'[r] = m /\ \A q \in 1..ctWorld.runs \ {r} : ctRun'[q] = ctRun[q]
    <3>1. /\ m = [made |-> m.made, ok |-> m.ok, lib |-> m.lib, snap |-> m.snap, clone |-> m.clone, bundle |-> m.bundle, slot |-> m.slot]
          /\ m.made /\ ~m.ok /\ m.made \in BOOLEAN /\ m.ok \in BOOLEAN /\ m.lib = ctSrc.lib
        /\ m.slot.is = "none"
      BY DEF NoSlot
    <3> HIDE DEF m
    <3> QED
      BY <1>0, <2>1, <2>2, <3>1, RunWritten
  <2>4. ctTool' = [pc |-> "main", run |-> r, dest |-> 0, lib |-> "none", read |-> NoBundle, since |-> 0,
                   created |-> FALSE, staged |-> 0, rec |-> NoSlot, end |-> "none", out |-> "none"]
    BY <1>1, <1>2 DEF Resting
  <2>5. CtToolTyped'
    BY <2>4 DEF CtToolTyped, Reading
  <2>6. CtPlace' /\ CtReadings' /\ CtLocks' /\ QuietTool'
    BY <1>0, <2>3, <2>4 DEF CtPlace, CtReadings, CtLocks, QuietTool, Stands, Reading, Preparing, Holding, Recording, Created, Mine
  <2>7. LeftoverListed'
    <3>1. ctRun'[r].slot.is = "none"
      BY <2>3 DEF NoSlot
    <3> QED
      BY <1>0, <2>3, <2>4, <3>1, RunListed
  <2> QED
    BY <2>3, <2>5, <2>6, <2>7 DEF CtInv
<1>3. CASE ~LocatorReads(ctSrc.lib)
  <2>1. UNCHANGED ctRun
    BY <1>1, <1>3
  <2>2. ctTool' = [pc |-> "idle", run |-> 0, dest |-> 0, lib |-> "none", read |-> NoBundle, since |-> 0,
                   created |-> FALSE, staged |-> 0, rec |-> NoSlot, end |-> "none", out |-> "refused"]
    BY <1>1, <1>3 DEF Resting
  <2>3. CtToolTyped'
    BY <2>2 DEF CtToolTyped
  <2>4. CtPlace' /\ CtReadings' /\ CtLocks' /\ QuietTool'
    BY <2>2, CtIdles
  <2>5. LeftoverListed'
    BY <1>0, <2>1, <2>2, WorldStays, RunListed
  <2> QED
    BY <1>0, <2>1, <2>3, <2>4, <2>5, WorldStays DEF CtInv
<1> QED
  BY <1>2, <1>3

\* A publication begins on a run that was rehearsed.
LEMMA CtPublishInv ==
  ASSUME CtInv, CtPublish
  PROVE  CtInv'
<1>0. UNCHANGED <<ctSrc, ctRun, ctDest, ctWorld, ctLeft>> /\ ctTool.pc = "idle"
      /\ DOMAIN ctRun = 1..ctWorld.runs /\ DOMAIN ctDest = 1..ctWorld.dests
  BY DEF CtPublish, CtKeep, CtAt, CtInv, CtTyped
<1> DEFINE t(r, d) == [Resting EXCEPT !.run = r, !.dest = d, !.lib = ctSrc.lib]
           taken(r, d) == \/ ctSrc.lib # ctRun[r].lib \/ ctDest[d].cat # "none" 
                          \/ ctDest[d].side \/ ctDest[d].lib # "none"
<1>a. PICK r \in DOMAIN ctRun, d \in DOMAIN ctDest :
        /\ Validated(r)
        /\ LET tt == [Resting EXCEPT !.run = r, !.dest = d, !.lib = ctSrc.lib]
               v == ctDest[d] IN
           ctTool' = IF ctSrc.lib # ctRun[r].lib \/ v.cat # "none" \/ v.side \/ v.lib # "none"
                     THEN [tt EXCEPT !.lib = "none", !.out = "refused"]
                     ELSE IF v.stage # "none"
                     THEN [tt EXCEPT !.pc = "record", !.end = "refused", !.rec = StagingReport(d)]
                     ELSE [tt EXCEPT !.pc = "bundle main"]
  BY DEF CtPublish
<1>1. /\ r \in 1..ctWorld.runs /\ d \in 1..ctWorld.dests
      /\ ctRun[r].ok
      /\ ctTool' = IF taken(r, d) THEN [t(r, d) EXCEPT !.lib = "none", !.out = "refused"]
                     ELSE IF ctDest[d].stage # "none"
                     THEN [t(r, d) EXCEPT !.pc = "record", !.end = "refused", !.rec = StagingReport(d)]
                     ELSE [t(r, d) EXCEPT !.pc = "bundle main"]
  BY <1>0, <1>a DEF Validated
<1>2. ctRun[r].made /\ ctRun[r].lib \in CtLibs
  BY <1>1 DEF CtInv, CtTyped
<1>3. CASE taken(r, d)
  <2>1. ctTool' = [pc |-> "idle", run |-> r, dest |-> d, lib |-> "none", read |-> NoBundle, since |-> 0,
                   created |-> FALSE, staged |-> 0, rec |-> NoSlot, end |-> "none", out |-> "refused"]
    BY <1>1, <1>3 DEF Resting
  <2>2. CtToolTyped' /\ CtPlace' /\ CtReadings' /\ CtLocks' /\ QuietTool'
    BY <2>1, CtIdles DEF CtToolTyped
  <2>3. LeftoverListed'
    BY <1>0, <2>1, RunListed
  <2> QED
    BY <1>0, <2>2, <2>3, WorldStays DEF CtInv
<1>4. CASE ~taken(r, d) /\ ctDest[d].stage # "none"
  <2>1. ctTool' = [pc |-> "record", run |-> r, dest |-> d, lib |-> ctSrc.lib, read |-> NoBundle, since |-> 0,
                   created |-> FALSE, staged |-> 0, rec |-> StagingReport(d), end |-> "refused", out |-> "none"]
    BY <1>1, <1>4 DEF Resting
  <2>2. StagingReport(d).is = "record"
    BY DEF StagingReport
  <2>3. CtToolTyped'
    BY <2>1 DEF CtToolTyped, Recording
  <2>4. CtPlace' /\ CtReadings' /\ CtLocks' /\ QuietTool'
    BY <1>0, <1>2, <2>1, <2>2, CtRecords DEF Recording, Mine
  <2> QED
    BY <1>0, <2>1, <2>3, <2>4, EnterInv
<1>5. CASE ~taken(r, d) /\ ctDest[d].stage = "none"
  <2>1. ctTool' = [pc |-> "bundle main", run |-> r, dest |-> d, lib |-> ctSrc.lib, read |-> NoBundle, since |-> 0,
                   created |-> FALSE, staged |-> 0, rec |-> NoSlot, end |-> "none", out |-> "none"]
    BY <1>1, <1>5 DEF Resting
  <2>2. CtToolTyped'
    BY <2>1 DEF CtToolTyped, Preparing
  <2>a. ctSrc.lib = ctRun[r].lib
    BY <1>5
  <2>b. ctRun' = ctRun /\ ctWorld' = ctWorld /\ r \in 1..ctWorld.runs /\ d \in 1..ctWorld.dests /\ ctRun[r].ok
    BY <1>0, <1>1
  <2>3. CtPlace' /\ CtReadings' /\ CtLocks'
    BY <1>2, <2>1, <2>a, <2>b DEF CtPlace, CtReadings, CtLocks, Reading, Preparing, Holding, Recording, Created, Mine
  <2>4. ctDest[d].cat = "none" /\ ~ctDest[d].side /\ ctDest[d].lib = "none" /\ ctDest[d].stage = "none"
    BY <1>5
  <2>5. QuietTool'
    BY <1>0, <2>1, <2>4 DEF QuietTool, Stands, Reading, Preparing, Holding, Mine, Target
  <2> QED
    BY <1>0, <2>1, <2>2, <2>3, <2>5, EnterInv
<1> QED
  BY <1>3, <1>4, <1>5

\* The directory of the run in hand, field by field.
LEMMA MineFields ==
  ASSUME CtInv, ctTool.pc # "idle"
  PROVE  /\ ctTool.run \in 1..ctWorld.runs /\ DOMAIN ctRun = 1..ctWorld.runs
         /\ Mine = [made |-> Mine.made, ok |-> Mine.ok, lib |-> Mine.lib, snap |-> Mine.snap,
                    clone |-> Mine.clone, bundle |-> Mine.bundle, slot |-> Mine.slot]
         /\ Mine.made \in BOOLEAN /\ Mine.ok \in BOOLEAN /\ Mine.made /\ Mine.lib \in CtLibs
         /\ Mine.slot.is \in {"none", "torn", "record"}
         /\ Quiet => Mine.lib = ctSrc.lib /\ (Mine.ok => Mine.snap = Content /\ Mine.clone = Mine.snap)
<1>1. ctTool.run \in 1..ctWorld.runs /\ DOMAIN ctRun = 1..ctWorld.runs /\ Mine.made
  BY DEF CtInv, CtPlace, CtTyped
<1> QED
  BY <1>1 DEF CtInv, CtTyped, QuietRuns, Mine

\* One field of a directory written.
LEMMA RunFields ==
  ASSUME NEW x, NEW v,
         x = [made |-> x.made, ok |-> x.ok, lib |-> x.lib, snap |-> x.snap, clone |-> x.clone, bundle |-> x.bundle, slot |-> x.slot]
  PROVE  /\ [x EXCEPT !.snap = v] = [made |-> x.made, ok |-> x.ok, lib |-> x.lib, snap |-> v,
                                     clone |-> x.clone, bundle |-> x.bundle, slot |-> x.slot]
         /\ [x EXCEPT !.bundle = v] = [made |-> x.made, ok |-> x.ok, lib |-> x.lib, snap |-> x.snap,
                                       clone |-> x.clone, bundle |-> v, slot |-> x.slot]
         /\ [x EXCEPT !.slot = v] = [made |-> x.made, ok |-> x.ok, lib |-> x.lib, snap |-> x.snap,
                                     clone |-> x.clone, bundle |-> x.bundle, slot |-> v]
<1>1. [x EXCEPT !.snap = v] = [made |-> x.made, ok |-> x.ok, lib |-> x.lib, snap |-> v,
                               clone |-> x.clone, bundle |-> x.bundle, slot |-> x.slot]
  OBVIOUS
<1>2. [x EXCEPT !.bundle = v] = [made |-> x.made, ok |-> x.ok, lib |-> x.lib, snap |-> x.snap,
                                 clone |-> x.clone, bundle |-> v, slot |-> x.slot]
  OBVIOUS
<1>3. [x EXCEPT !.slot = v] = [made |-> x.made, ok |-> x.ok, lib |-> x.lib, snap |-> x.snap,
                               clone |-> x.clone, bundle |-> x.bundle, slot |-> v]
  OBVIOUS
<1> QED
  BY <1>1, <1>2, <1>3

\* The WAL as well: the snapshot is taken.
LEMMA CtCompareWalInv ==
  ASSUME CtInv, CtCompareWal
  PROVE  CtInv'
<1>0. UNCHANGED <<ctSrc, ctDest, ctWorld, ctLeft>> /\ ctTool.pc = "again wal"
  BY DEF CtCompareWal, CtKeep, CtAt
<1>1. CASE Refuse /\ UNCHANGED ctRun
  BY <1>0, <1>1, RefusedInv
<1>2. CASE SameWal /\ InRun([Mine EXCEPT !.snap = Recovered(ctTool.read)]) /\ Enter("migrate")
  <2> DEFINE m == [made |-> Mine.made, ok |-> Mine.ok, lib |-> Mine.lib, snap |-> Recovered(ctTool.read),
                   clone |-> Mine.clone, bundle |-> Mine.bundle, slot |-> Mine.slot]
  <2>a. [Mine EXCEPT !.snap = Recovered(ctTool.read)] = m
    BY <1>0, MineFields, RunFields
  <2>b. ctRun' = [ctRun EXCEPT ![ctTool.run] = [Mine EXCEPT !.snap = Recovered(ctTool.read)]]
    BY <1>2 DEF InRun
  <2>1. ctRun' = [ctRun EXCEPT ![ctTool.run] = m]
    BY <2>a, <2>b
  <2>c. /\ m = [made |-> m.made, ok |-> m.ok, lib |-> m.lib, snap |-> m.snap, clone |-> m.clone, bundle |-> m.bundle, slot |-> m.slot]
        /\ m.made = Mine.made /\ m.ok = Mine.ok /\ m.lib = Mine.lib /\ m.slot = Mine.slot
        /\ m.snap = Recovered(ctTool.read) /\ m.clone = Mine.clone
    OBVIOUS
  <2> HIDE DEF m
  <2>2. Quiet => Recovered(ctTool.read) = Content
    BY <1>0 DEF CtInv, QuietTool, Stands, Content
  <2>3. /\ CtTyped' /\ CtSpent' /\ QuietRuns' /\ Content' = Content /\ (Quiet' <=> Quiet)
        /\ DOMAIN ctRun = 1..ctWorld.runs /\ DOMAIN ctRun' = 1..ctWorld.runs
        /\ ctRun'[ctTool.run] = m /\ \A q \in 1..ctWorld.runs \ {ctTool.run} : ctRun'[q] = ctRun[q]
    <3>2. ctTool.run \in 1..ctWorld.runs /\ Mine.made
      BY <1>0, MineFields
    <3>3. Quiet => (m.made => m.lib = ctSrc.lib) /\ (m.ok => m.snap = Content /\ m.clone = m.snap)
      BY <1>0, <2>2, <2>c, MineFields
    <3>4. /\ m.made \in BOOLEAN /\ m.ok \in BOOLEAN /\ m.lib \in CtLibs /\ m.slot.is \in {"none", "torn", "record"}
          /\ m.ok => m.made
      BY <1>0, <2>c, MineFields
    <3> QED
      BY <1>0, <2>1, <2>c, <3>2, <3>3, <3>4, RunWritten
  <2>4. ctTool' = [pc |-> "migrate", run |-> ctTool.run, dest |-> ctTool.dest, lib |-> ctTool.lib, read |-> ctTool.read,
                   since |-> ctTool.since, created |-> ctTool.created, staged |-> ctTool.staged, rec |-> ctTool.rec,
                   end |-> ctTool.end, out |-> ctTool.out]
    BY <1>2, EnterFields DEF CtInv
  <2>5. CtToolTyped'
    BY <2>4 DEF CtInv, CtToolTyped, Reading
  <2>6. Mine'.made /\ Mine'.snap = Recovered(ctTool.read)
    BY <1>0, <2>c, <2>3, <2>4, MineFields DEF Mine
  <2>7. CtPlace'
    BY <1>0, <2>4, <2>6 DEF CtInv, CtPlace, Reading, Preparing, Holding, Recording, Created
  <2>8. CtReadings' /\ CtLocks'
    BY <2>4 DEF CtReadings, CtLocks, Holding
  <2>9. QuietTool'
    BY <2>2, <2>3, <2>4, <2>6 DEF QuietTool, Stands, Preparing, Holding
  <2>10. LeftoverListed'
    <3>1. ctRun'[ctTool.run].slot = ctRun[ctTool.run].slot /\ ctTool.run \in 1..ctWorld.runs
      BY <1>0, <2>c, <2>3, MineFields DEF Mine
    <3> QED
      BY <1>0, <2>3, <2>4, <3>1, RunListed
  <2> QED
    BY <2>3, <2>5, <2>7, <2>8, <2>9, <2>10 DEF CtInv
<1> QED
  BY <1>1, <1>2 DEF CtCompareWal

\* The clone is the snapshot, migrated.
LEMMA CtMigrateInv ==
  ASSUME CtInv, CtMigrate
  PROVE  CtInv'
<1>0. UNCHANGED <<ctSrc, ctDest, ctWorld, ctLeft>> /\ ctTool.pc = "migrate"
      /\ InRun([Mine EXCEPT !.clone = Mine.snap, !.ok = TRUE]) /\ Leave("rehearsed")
  BY DEF CtMigrate, CtKeep, CtAt
<1> DEFINE m == [made |-> Mine.made, ok |-> TRUE, lib |-> Mine.lib, snap |-> Mine.snap,
                 clone |-> Mine.snap, bundle |-> Mine.bundle, slot |-> Mine.slot]
<1>a. [Mine EXCEPT !.clone = Mine.snap, !.ok = TRUE] = m
  <2>1. PICK x : x = Mine
    OBVIOUS
  <2>2. x = [made |-> x.made, ok |-> x.ok, lib |-> x.lib, snap |-> x.snap, clone |-> x.clone, bundle |-> x.bundle, slot |-> x.slot]
    BY <1>0, <2>1, MineFields
  <2>3. PICK w : w = TRUE
    OBVIOUS
  <2>4. PICK v : v = x.snap
    OBVIOUS
  <2>5. PICK y : y = [x EXCEPT !.clone = v]
    OBVIOUS
  <2>6. y = [made |-> x.made, ok |-> x.ok, lib |-> x.lib, snap |-> x.snap, clone |-> v, bundle |-> x.bundle, slot |-> x.slot]
    BY <2>2, <2>5
  <2>7. [y EXCEPT !.ok = w] = [made |-> x.made, ok |-> w, lib |-> x.lib, snap |-> x.snap,
                               clone |-> v, bundle |-> x.bundle, slot |-> x.slot]
    BY <2>6
  <2>8. [x EXCEPT !.clone = v, !.ok = w] = [y EXCEPT !.ok = w]
    BY <2>5
  <2>9. [Mine EXCEPT !.clone = Mine.snap, !.ok = TRUE] = [x EXCEPT !.clone = v, !.ok = w]
    BY <2>1, <2>3, <2>4
  <2> QED
    BY <2>1, <2>3, <2>4, <2>7, <2>8, <2>9
<1>b. ctRun' = [ctRun EXCEPT ![ctTool.run] = [Mine EXCEPT !.clone = Mine.snap, !.ok = TRUE]]
  BY <1>0 DEF InRun
<1>1. ctRun' = [ctRun EXCEPT ![ctTool.run] = m]
  BY <1>a, <1>b
<1>2. Quiet => Mine.snap = Content
  BY <1>0 DEF CtInv, QuietTool, Stands
<1>3. /\ CtTyped' /\ CtSpent' /\ QuietRuns' /\ Content' = Content /\ (Quiet' <=> Quiet)
      /\ DOMAIN ctRun = 1..ctWorld.runs /\ DOMAIN ctRun' = 1..ctWorld.runs
      /\ ctRun'[ctTool.run] = m /\ \A q \in 1..ctWorld.runs \ {ctTool.run} : ctRun'[q] = ctRun[q]
  <2>1. /\ m = [made |-> m.made, ok |-> m.ok, lib |-> m.lib, snap |-> m.snap, clone |-> m.clone, bundle |-> m.bundle, slot |-> m.slot]
        /\ m.made = Mine.made /\ m.ok /\ m.ok \in BOOLEAN /\ m.lib = Mine.lib /\ m.slot = Mine.slot
        /\ m.snap = Mine.snap /\ m.clone = Mine.snap
    OBVIOUS
  <2>2. ctTool.run \in 1..ctWorld.runs /\ Mine.made
    BY <1>0, MineFields
  <2> HIDE DEF m
  <2>3. Quiet => (m.made => m.lib = ctSrc.lib) /\ (m.ok => m.snap = Content /\ m.clone = m.snap)
    BY <1>0, <1>2, <2>1, MineFields
  <2>4. m.made \in BOOLEAN /\ m.lib \in CtLibs /\ m.slot.is \in {"none", "torn", "record"} /\ (m.ok => m.made)
    BY <1>0, <2>1, MineFields
  <2> QED
    BY <1>0, <1>1, <2>1, <2>2, <2>3, <2>4, RunWritten
<1>4. /\ CtToolTyped' /\ CtPlace' /\ CtReadings' /\ CtLocks' /\ QuietTool'
      /\ ctTool'.pc = "idle" /\ ctTool'.out = "rehearsed"
  BY <1>0, LeaveKeeps
<1>5. LeftoverListed'
  <2>1. ctRun'[ctTool.run].slot = ctRun[ctTool.run].slot /\ ctTool.run \in 1..ctWorld.runs
    BY <1>0, <1>3, MineFields DEF Mine
  <2> QED
    BY <1>0, <1>3, <1>4, <2>1, RunListed
<1> QED
  BY <1>3, <1>4, <1>5 DEF CtInv

\* What can bring the source back is kept, if it is what was rehearsed.
LEMMA CtBundleInv ==
  ASSUME CtInv, CtBundle
  PROVE  CtInv'
<1> DEFINE b == <<ctTool.read[1], ctSrc.wal>>
           m == [made |-> Mine.made, ok |-> Mine.ok, lib |-> Mine.lib, snap |-> Mine.snap,
                 clone |-> Mine.clone, bundle |-> b, slot |-> Mine.slot]
<1>0. UNCHANGED <<ctSrc, ctDest, ctWorld, ctLeft>> /\ ctTool.pc = "bundle wal"
      /\ InRun([Mine EXCEPT !.bundle = b]) /\ Checked(BundleRecovers(b), Enter("lock"))
  BY DEF CtBundle, CtKeep, CtAt
<1>a. [Mine EXCEPT !.bundle = b] = m
  BY <1>0, MineFields, RunFields
<1>b. ctRun' = [ctRun EXCEPT ![ctTool.run] = [Mine EXCEPT !.bundle = b]]
  BY <1>0 DEF InRun
<1>1. ctRun' = [ctRun EXCEPT ![ctTool.run] = m]
  BY <1>a, <1>b
<1>c. m.made = Mine.made /\ m.ok = Mine.ok /\ m.slot = Mine.slot
  OBVIOUS
<1>2. /\ CtTyped' /\ CtSpent' /\ QuietRuns' /\ Content' = Content /\ (Quiet' <=> Quiet)
      /\ DOMAIN ctRun = 1..ctWorld.runs /\ DOMAIN ctRun' = 1..ctWorld.runs
      /\ ctRun'[ctTool.run] = m /\ \A q \in 1..ctWorld.runs \ {ctTool.run} : ctRun'[q] = ctRun[q]
  <2>1. /\ m = [made |-> m.made, ok |-> m.ok, lib |-> m.lib, snap |-> m.snap, clone |-> m.clone, bundle |-> m.bundle, slot |-> m.slot]
        /\ m.made = Mine.made /\ m.ok = Mine.ok /\ m.lib = Mine.lib /\ m.slot = Mine.slot
        /\ m.snap = Mine.snap /\ m.clone = Mine.clone
    OBVIOUS
  <2>2. ctTool.run \in 1..ctWorld.runs /\ Mine.made
    BY <1>0, MineFields
  <2> HIDE DEF m
  <2>3. Quiet => (m.made => m.lib = ctSrc.lib) /\ (m.ok => m.snap = Content /\ m.clone = m.snap)
    BY <1>0, <2>1, MineFields
  <2>4. /\ m.made \in BOOLEAN /\ m.ok \in BOOLEAN /\ m.lib \in CtLibs /\ m.slot.is \in {"none", "torn", "record"}
        /\ m.ok => m.made
    BY <1>0, <2>1, MineFields
  <2> QED
    BY <1>0, <1>1, <2>1, <2>2, <2>3, <2>4, RunWritten
<1>3. ctRun'[ctTool.run].slot = ctRun[ctTool.run].slot /\ ctTool.run \in 1..ctWorld.runs /\ ctRun'[ctTool.run].made
  BY <1>0, <1>c, <1>2, MineFields DEF Mine
<1>4. CASE Refuse
  <2>1. /\ CtToolTyped' /\ CtPlace' /\ CtReadings' /\ CtLocks' /\ QuietTool'
        /\ \/ ctTool'.pc = "idle" /\ ~ctTool'.created /\ ctTool'.out = "refused" /\ ctTool'.end = "none"
           \/ ctTool'.pc = "record" /\ ctTool.created /\ ctTool'.end = "refused"
    BY <1>0, <1>3, <1>4, RefuseKeeps
  <2>2. LeftoverListed'
    BY <1>0, <1>2, <1>3, <2>1, RunListed
  <2> QED
    BY <1>2, <2>1, <2>2 DEF CtInv
<1>5. CASE BundleRecovers(b) /\ Enter("lock")
  <2>1. ctTool' = [pc |-> "lock", run |-> ctTool.run, dest |-> ctTool.dest, lib |-> ctTool.lib, read |-> ctTool.read,
                   since |-> ctTool.since, created |-> ctTool.created, staged |-> ctTool.staged, rec |-> ctTool.rec,
                   end |-> ctTool.end, out |-> ctTool.out]
    BY <1>5, EnterFields DEF CtInv
  <2>2. CtToolTyped'
    BY <2>1 DEF CtInv, CtToolTyped, Preparing
  <2>3. Mine'.made = Mine.made /\ Mine'.ok = Mine.ok /\ Mine'.lib = Mine.lib /\ Mine'.snap = Mine.snap /\ Mine'.bundle = b
    BY <1>2, <2>1 DEF Mine
  <2>4. CtPlace'
    BY <1>0, <2>1, <2>3 DEF CtInv, CtPlace, Reading, Preparing, Holding, Recording, Created
  <2>5. CtReadings' /\ CtLocks'
    BY <1>5, <2>1, <2>3 DEF CtReadings, CtLocks, Holding, BundleRecovers
  <2>6. QuietTool'
    BY <1>0, <1>2, <2>1 DEF CtInv, QuietTool, Stands, Preparing, Holding, Target
  <2>7. LeftoverListed'
    BY <1>0, <1>2, <1>3, <2>1, RunListed
  <2> QED
    BY <1>2, <2>2, <2>4, <2>5, <2>6, <2>7 DEF CtInv
<1> QED
  BY <1>0, <1>4, <1>5 DEF Checked

\* The slot of the run in hand is written, and nothing else there.
LEMMA SlotKeeps ==
  ASSUME CtInv, ctTool.pc # "idle", NEW v, InRun([Mine EXCEPT !.slot = v]), v.is \in {"none", "torn", "record"},
         UNCHANGED <<ctSrc, ctDest, ctWorld, ctLeft>>
  PROVE  /\ CtTyped' /\ CtSpent' /\ QuietRuns' /\ Content' = Content /\ (Quiet' <=> Quiet)
         /\ ctTool.run \in 1..ctWorld.runs /\ DOMAIN ctRun = 1..ctWorld.runs /\ DOMAIN ctRun' = 1..ctWorld.runs
         /\ ctRun'[ctTool.run].slot = v /\ ctRun'[ctTool.run].made
         /\ \A q \in 1..ctWorld.runs \ {ctTool.run} : ctRun'[q] = ctRun[q]
<1> DEFINE m == [made |-> Mine.made, ok |-> Mine.ok, lib |-> Mine.lib, snap |-> Mine.snap,
                 clone |-> Mine.clone, bundle |-> Mine.bundle, slot |-> v]
<1>a. [Mine EXCEPT !.slot = v] = m
  BY MineFields, RunFields
<1>b. ctRun' = [ctRun EXCEPT ![ctTool.run] = [Mine EXCEPT !.slot = v]]
  BY DEF InRun
<1>1. ctRun' = [ctRun EXCEPT ![ctTool.run] = m]
  BY <1>a, <1>b
<1>2. /\ m = [made |-> m.made, ok |-> m.ok, lib |-> m.lib, snap |-> m.snap, clone |-> m.clone, bundle |-> m.bundle, slot |-> m.slot]
      /\ m.made = Mine.made /\ m.ok = Mine.ok /\ m.lib = Mine.lib /\ m.slot = v
      /\ m.snap = Mine.snap /\ m.clone = Mine.clone
  OBVIOUS
<1>3. ctTool.run \in 1..ctWorld.runs /\ Mine.made
  BY MineFields
<1> HIDE DEF m
<1>4. Quiet => (m.made => m.lib = ctSrc.lib) /\ (m.ok => m.snap = Content /\ m.clone = m.snap)
  BY <1>2, MineFields
<1>5. /\ m.made \in BOOLEAN /\ m.ok \in BOOLEAN /\ m.lib \in CtLibs /\ m.slot.is \in {"none", "torn", "record"}
      /\ m.ok => m.made
  BY <1>2, MineFields
<1>6. /\ CtTyped' /\ CtSpent' /\ QuietRuns' /\ Content' = Content /\ (Quiet' <=> Quiet)
      /\ DOMAIN ctRun = 1..ctWorld.runs /\ DOMAIN ctRun' = 1..ctWorld.runs
      /\ ctRun'[ctTool.run] = m /\ \A q \in 1..ctWorld.runs \ {ctTool.run} : ctRun'[q] = ctRun[q]
  BY <1>1, <1>2, <1>3, <1>4, <1>5, RunWritten
<1> QED
  BY <1>2, <1>3, <1>6

\* The record is opened: for a moment it is torn.
LEMMA CtRecordInv ==
  ASSUME CtInv, CtRecord
  PROVE  CtInv'
<1>0. /\ UNCHANGED <<ctSrc, ctDest, ctWorld, ctLeft>> /\ ctTool.pc = "record"
      /\ InRun([Mine EXCEPT !.slot = [is |-> "torn"]]) /\ Enter("recorded")
  BY DEF CtRecord, CtKeep, CtAt
<1>1. PICK v : v = [is |-> "torn"]
  OBVIOUS
<1>2. v.is = "torn" /\ InRun([Mine EXCEPT !.slot = v])
  BY <1>0, <1>1
<1>3. /\ CtTyped' /\ CtSpent' /\ QuietRuns' /\ Content' = Content /\ (Quiet' <=> Quiet)
      /\ ctTool.run \in 1..ctWorld.runs /\ DOMAIN ctRun = 1..ctWorld.runs /\ DOMAIN ctRun' = 1..ctWorld.runs
      /\ ctRun'[ctTool.run].slot = v /\ ctRun'[ctTool.run].made
      /\ \A q \in 1..ctWorld.runs \ {ctTool.run} : ctRun'[q] = ctRun[q]
  BY <1>0, <1>2, SlotKeeps
<1>4. ctTool' = [pc |-> "recorded", run |-> ctTool.run, dest |-> ctTool.dest, lib |-> ctTool.lib, read |-> ctTool.read,
                 since |-> ctTool.since, created |-> ctTool.created, staged |-> ctTool.staged, rec |-> ctTool.rec,
                 end |-> ctTool.end, out |-> ctTool.out]
  BY <1>0, EnterFields DEF CtInv
<1>5. CtToolTyped'
  BY <1>4 DEF CtInv, CtToolTyped, Recording
<1>6. CtPlace' /\ CtReadings' /\ CtLocks' /\ QuietTool'
  <2>1. ctTool.rec.is = "record" /\ ctTool.end \in {"refused", "published"} /\ ctTool.out = "none"
    BY <1>0 DEF CtInv, CtPlace, Recording
  <2> QED
    BY <1>0, <1>3, <1>4, <2>1, CtRecords DEF Recording, Mine
<1>7. LeftoverListed'
  BY <1>0, <1>3, <1>4 DEF CtInv, LeftoverListed, CtAt
<1> QED
  BY <1>3, <1>5, <1>6, <1>7 DEF CtInv

\* The record is whole, and the operation over.
LEMMA CtRecordedInv ==
  ASSUME CtInv, CtRecorded
  PROVE  CtInv'
<1>0. /\ UNCHANGED <<ctSrc, ctDest, ctWorld, ctLeft>> /\ ctTool.pc = "recorded"
      /\ InRun([Mine EXCEPT !.slot = ctTool.rec]) /\ Leave(ctTool.end)
  BY DEF CtRecorded, CtKeep, CtAt
<1>1. ctTool.rec.is = "record" /\ ctTool.end \in {"refused", "published"}
  BY <1>0 DEF CtInv, CtPlace, Recording
<1>2. /\ CtTyped' /\ CtSpent' /\ QuietRuns' /\ Content' = Content /\ (Quiet' <=> Quiet)
      /\ ctTool.run \in 1..ctWorld.runs /\ DOMAIN ctRun = 1..ctWorld.runs /\ DOMAIN ctRun' = 1..ctWorld.runs
      /\ ctRun'[ctTool.run].slot = ctTool.rec /\ ctRun'[ctTool.run].made
      /\ \A q \in 1..ctWorld.runs \ {ctTool.run} : ctRun'[q] = ctRun[q]
  BY <1>0, <1>1, SlotKeeps
<1>3. /\ CtToolTyped' /\ CtPlace' /\ CtReadings' /\ CtLocks' /\ QuietTool'
      /\ ctTool'.pc = "idle" /\ ctTool'.run = ctTool.run
  BY <1>0, <1>1, LeaveKeeps
<1>4. LeftoverListed'
  BY <1>0, <1>1, <1>2, <1>3 DEF CtInv, LeftoverListed, CtAt, Listable
<1> QED
  BY <1>2, <1>3, <1>4 DEF CtInv

\* A destination is written, and nothing else outside the tool.
LEMMA DestWritten ==
  ASSUME CtInv, UNCHANGED <<ctSrc, ctRun, ctWorld, ctLeft>>, NEW v \in CtDests, InDest(v), ctTool.dest \in 1..ctWorld.dests,
         ctTool'.dest = ctTool.dest
  PROVE  /\ CtTyped' /\ CtSpent' /\ QuietRuns' /\ Content' = Content /\ (Quiet' <=> Quiet)
         /\ Target' = v /\ \A d \in 1..ctWorld.dests \ {ctTool.dest} : ctDest'[d] = ctDest[d]
         /\ DOMAIN ctDest = 1..ctWorld.dests
<1>1. Content' = Content /\ (Quiet' <=> Quiet)
  BY DEF Content, Quiet
<1>2. ctDest \in [1..ctWorld.dests -> CtDests] /\ ctDest' = [ctDest EXCEPT ![ctTool.dest] = v]
  BY DEF CtInv, CtTyped, InDest
<1>3. ctDest' \in [1..ctWorld.dests -> CtDests] /\ ctDest'[ctTool.dest] = v
      /\ \A d \in 1..ctWorld.dests \ {ctTool.dest} : ctDest'[d] = ctDest[d]
  BY <1>2
<1>4. CtTyped'
  BY <1>3 DEF CtInv, CtTyped
<1>5. CtSpent' /\ QuietRuns'
  BY <1>1 DEF CtInv, CtSpent, QuietRuns
<1> QED
  BY <1>1, <1>2, <1>3, <1>4, <1>5 DEF Target

\* The destination in hand.
LEMMA TargetFields ==
  ASSUME CtInv, ctTool.pc \in Preparing \cup Holding
  PROVE  /\ ctTool.dest \in 1..ctWorld.dests /\ Target \in CtDests /\ ctTool.lib \in CtLibs /\ ctTool.lib = Mine.lib
         /\ Target = [cat |-> Target.cat, side |-> Target.side, lib |-> Target.lib, stage |-> Target.stage]
<1>1. ctTool.dest \in 1..ctWorld.dests /\ Target \in CtDests /\ ctTool.lib \in CtLibs /\ ctTool.lib = Mine.lib
  BY DEF CtInv, CtPlace, CtTyped, Target
<1> QED
  BY <1>1 DEF CtDests

\* The next step, with the destination written on the way.
LEMMA WrittenInv ==
  ASSUME CtInv, UNCHANGED <<ctSrc, ctRun, ctWorld, ctLeft>>, NEW v \in CtDests, InDest(v), ctTool.dest \in 1..ctWorld.dests,
         ctTool'.dest = ctTool.dest, CtToolTyped', CtPlace', CtReadings', CtLocks', QuietTool',
         ctTool'.pc # "idle", ctTool.pc # "recorded"
  PROVE  CtInv'
<1>1. CtTyped' /\ CtSpent' /\ QuietRuns'
  BY DestWritten
<1>2. LeftoverListed'
  <2>1. ctLeft'.crash <= ctLeft.crash /\ ctLeft'.fail <= ctLeft.fail
    BY DEF CtInv, CtTyped
  <2> QED
    BY <1>1, <2>1, ListedKeeps
<1> QED
  BY <1>1, <1>2 DEF CtInv

\* One field of a destination written.
LEMMA DestFields ==
  ASSUME NEW x \in CtDests
  PROVE  /\ [x EXCEPT !.stage = "ours"] = [cat |-> x.cat, side |-> x.side, lib |-> x.lib, stage |-> "ours"]
         /\ \A l : [x EXCEPT !.lib = l] = [cat |-> x.cat, side |-> x.side, lib |-> l, stage |-> x.stage]
         /\ [x EXCEPT !.cat = "ours"] = [cat |-> "ours", side |-> x.side, lib |-> x.lib, stage |-> x.stage]
         /\ [x EXCEPT !.stage = "ours"] \in CtDests /\ [x EXCEPT !.cat = "ours"] \in CtDests
         /\ \A l \in {"partial", "none", "a", "b"} : [x EXCEPT !.lib = l] \in CtDests
<1>0. x = [cat |-> x.cat, side |-> x.side, lib |-> x.lib, stage |-> x.stage]
  BY DEF CtDests
<1>1. [x EXCEPT !.stage = "ours"] = [cat |-> x.cat, side |-> x.side, lib |-> x.lib, stage |-> "ours"]
  BY <1>0
<1>2. ASSUME NEW l PROVE [x EXCEPT !.lib = l] = [cat |-> x.cat, side |-> x.side, lib |-> l, stage |-> x.stage]
  BY <1>0
<1>3. [x EXCEPT !.cat = "ours"] = [cat |-> "ours", side |-> x.side, lib |-> x.lib, stage |-> x.stage]
  BY <1>0
<1>4. [x EXCEPT !.stage = "ours"] \in CtDests /\ [x EXCEPT !.cat = "ours"] \in CtDests
  BY DEF CtDests
<1>5. ASSUME NEW l \in {"partial", "none", "a", "b"} PROVE [x EXCEPT !.lib = l] \in CtDests
  BY DEF CtDests
<1> QED
  BY <1>1, <1>2, <1>3, <1>4, <1>5

\* The slot is taken, exclusively.
LEMMA CtStageInv ==
  ASSUME CtInv, CtStage
  PROVE  CtInv'
<1>0. UNCHANGED <<ctSrc, ctRun, ctWorld, ctLeft>> /\ ctTool.pc = "stage"
  BY DEF CtStage, CtKeep, CtAt
<1>1. CASE Review /\ UNCHANGED ctDest
  <2>1. ctTool' = [pc |-> "record", run |-> ctTool.run, dest |-> ctTool.dest, lib |-> ctTool.lib, read |-> ctTool.read,
                   since |-> ctTool.since, created |-> ctTool.created, staged |-> ctTool.staged,
                   rec |-> StagingReport(ctTool.dest), end |-> "refused", out |-> ctTool.out]
    BY <1>1 DEF Review, CtInv, CtToolTyped
  <2>2. StagingReport(ctTool.dest).is = "record"
    BY DEF StagingReport
  <2>3. ctTool.run \in 1..ctWorld.runs /\ ctTool.out = "none" /\ Mine'.made
    BY <1>0, <2>1 DEF CtInv, CtPlace, Mine
  <2>4. CtToolTyped'
    BY <2>1 DEF CtInv, CtToolTyped, Recording
  <2>5. CtPlace' /\ CtReadings' /\ CtLocks' /\ QuietTool'
    BY <1>0, <2>1, <2>2, <2>3, CtRecords DEF Recording
  <2> QED
    BY <1>0, <1>1, <2>1, <2>4, <2>5, EnterInv
<1>2. CASE /\ Target.stage = "none" /\ InDest([Target EXCEPT !.stage = "ours"])
           /\ ctTool' = [ctTool EXCEPT !.pc = "copy", !.created = TRUE]
  <2>1. ctTool' = [pc |-> "copy", run |-> ctTool.run, dest |-> ctTool.dest, lib |-> ctTool.lib, read |-> ctTool.read,
                   since |-> ctTool.since, created |-> TRUE, staged |-> ctTool.staged, rec |-> ctTool.rec,
                   end |-> ctTool.end, out |-> ctTool.out]
    BY <1>2 DEF CtInv, CtToolTyped
  <2>2. /\ [Target EXCEPT !.stage = "ours"] \in CtDests /\ ctTool.dest \in 1..ctWorld.dests
        /\ [Target EXCEPT !.stage = "ours"] = [cat |-> Target.cat, side |-> Target.side, lib |-> Target.lib, stage |-> "ours"]
    BY <1>0, TargetFields, DestFields DEF Holding
  <2>3. Target' = [Target EXCEPT !.stage = "ours"] /\ Content' = Content /\ (Quiet' <=> Quiet)
    BY <1>0, <1>2, <2>1, <2>2, DestWritten
  <2>4. CtToolTyped'
    BY <2>1 DEF CtInv, CtToolTyped, Holding
  <2>5. CtPlace'
    BY <1>0, <2>1 DEF CtInv, CtPlace, Reading, Preparing, Holding, Recording, Created, Mine
  <2>6. CtReadings' /\ CtLocks'
    BY <1>0, <2>1, <2>3 DEF CtInv, CtReadings, CtLocks, Holding, Mine
  <2>7. QuietTool'
    <3>1. Quiet => Stands("none", "none", "none")
      BY <1>0 DEF CtInv, QuietTool, Stands
    <3>2. Quiet => Target'.cat = "none" /\ ~Target'.side /\ Target'.lib = "none" /\ Target'.stage = "ours"
      BY <2>2, <2>3, <3>1 DEF Stands
    <3> QED
      BY <2>1, <2>3, <3>2 DEF QuietTool, Stands, Reading, Preparing, Holding
  <2> QED
    BY <1>0, <1>2, <2>1, <2>2, <2>4, <2>5, <2>6, <2>7, WrittenInv
<1> QED
  BY <1>1, <1>2 DEF CtStage

\* library.json is begun, or needs not be.
LEMMA CtLibraryInv ==
  ASSUME CtInv, CtLibrary
  PROVE  CtInv'
<1>0. UNCHANGED <<ctSrc, ctRun, ctWorld, ctLeft>> /\ ctTool.pc = "library"
  BY DEF CtLibrary, CtKeep, CtAt
<1>1. CASE Refuse /\ UNCHANGED ctDest
  BY <1>0, <1>1, RefusedInv
<1>2. CASE Target.lib = "none" /\ ctTool.lib = "none" /\ Enter("link") /\ UNCHANGED ctDest
  <2>1. ctTool' = [pc |-> "link", run |-> ctTool.run, dest |-> ctTool.dest, lib |-> ctTool.lib, read |-> ctTool.read,
                   since |-> ctTool.since, created |-> ctTool.created, staged |-> ctTool.staged, rec |-> ctTool.rec,
                   end |-> ctTool.end, out |-> ctTool.out]
    BY <1>2, EnterFields DEF CtInv
  <2>2. Content' = Content
    BY <1>0, <1>2, WorldStays
  <2>3. CtReadings' /\ CtLocks'
    BY <1>0, <1>2, <2>1, <2>2 DEF CtInv, CtReadings, CtLocks, Holding, Mine, Target
  <2>4. QuietTool'
    <3>1. Quiet => Stands("none", "none", "ours")
      BY <1>0 DEF CtInv, QuietTool, Stands, Vacant
    <3> QED
      BY <1>0, <1>2, <2>1, <3>1, WorldStays DEF QuietTool, Stands, Reading, Preparing, Holding, Target
  <2> QED
    BY <1>0, <1>2, <2>3, <2>4, NextInv DEF Reading, Preparing, Holding, Recording, Created
<1>3. CASE InDest([Target EXCEPT !.lib = "partial"]) /\ Enter("locator")
  <2>1. ctTool' = [pc |-> "locator", run |-> ctTool.run, dest |-> ctTool.dest, lib |-> ctTool.lib, read |-> ctTool.read,
                   since |-> ctTool.since, created |-> ctTool.created, staged |-> ctTool.staged, rec |-> ctTool.rec,
                   end |-> ctTool.end, out |-> ctTool.out]
    BY <1>3, EnterFields DEF CtInv
  <2>2. /\ [Target EXCEPT !.lib = "partial"] \in CtDests /\ ctTool.dest \in 1..ctWorld.dests
        /\ [Target EXCEPT !.lib = "partial"] = [cat |-> Target.cat, side |-> Target.side, lib |-> "partial", stage |-> Target.stage]
    BY <1>0, TargetFields, DestFields DEF Holding
  <2>3. Target' = [Target EXCEPT !.lib = "partial"] /\ Content' = Content /\ (Quiet' <=> Quiet)
    BY <1>0, <1>3, <2>1, <2>2, DestWritten
  <2>4. CtToolTyped'
    BY <2>1 DEF CtInv, CtToolTyped, Holding
  <2>5. CtPlace'
    BY <1>0, <2>1 DEF CtInv, CtPlace, Reading, Preparing, Holding, Recording, Created, Mine
  <2>6. CtReadings' /\ CtLocks'
    BY <1>0, <2>1, <2>3 DEF CtInv, CtReadings, CtLocks, Holding, Mine
  <2>7. QuietTool'
    <3>1. Quiet => Stands("none", "none", "ours")
      BY <1>0 DEF CtInv, QuietTool, Stands, Vacant
    <3>2. Quiet => Target'.cat = "none" /\ ~Target'.side /\ Target'.lib = "partial" /\ Target'.stage = "ours"
      BY <2>2, <2>3, <3>1 DEF Stands
    <3> QED
      BY <2>1, <2>3, <3>2 DEF QuietTool, Stands, Reading, Preparing, Holding
  <2> QED
    BY <1>0, <1>3, <2>1, <2>2, <2>4, <2>5, <2>6, <2>7, WrittenInv
<1> QED
  BY <1>1, <1>2, <1>3 DEF CtLibrary

\* And is written.
LEMMA CtLocatorInv ==
  ASSUME CtInv, CtLocator
  PROVE  CtInv'
<1>0. UNCHANGED <<ctSrc, ctRun, ctWorld, ctLeft>> /\ ctTool.pc = "locator"
  BY DEF CtLocator, CtKeep, CtAt
<1>1. CASE Refuse /\ UNCHANGED ctDest
  BY <1>0, <1>1, RefusedInv
<1>2. CASE InDest([Target EXCEPT !.lib = ctTool.lib]) /\ Enter("link")
  <2>1. ctTool' = [pc |-> "link", run |-> ctTool.run, dest |-> ctTool.dest, lib |-> ctTool.lib, read |-> ctTool.read,
                   since |-> ctTool.since, created |-> ctTool.created, staged |-> ctTool.staged, rec |-> ctTool.rec,
                   end |-> ctTool.end, out |-> ctTool.out]
    BY <1>2, EnterFields DEF CtInv
  <2>2. /\ [Target EXCEPT !.lib = ctTool.lib] \in CtDests /\ ctTool.dest \in 1..ctWorld.dests
        /\ [Target EXCEPT !.lib = ctTool.lib] = [cat |-> Target.cat, side |-> Target.side, lib |-> ctTool.lib, stage |-> Target.stage]
    BY <1>0, TargetFields, DestFields DEF Holding, CtLibs
  <2>3. Target' = [Target EXCEPT !.lib = ctTool.lib] /\ Content' = Content /\ (Quiet' <=> Quiet)
    BY <1>0, <1>2, <2>1, <2>2, DestWritten
  <2>4. CtToolTyped'
    BY <2>1 DEF CtInv, CtToolTyped, Holding
  <2>5. CtPlace'
    BY <1>0, <2>1 DEF CtInv, CtPlace, Reading, Preparing, Holding, Recording, Created, Mine
  <2>6. CtReadings' /\ CtLocks'
    <3>1. Target'.lib = ctTool'.lib
      BY <2>1, <2>2, <2>3
    <3> QED
      BY <1>0, <2>1, <2>3, <3>1 DEF CtInv, CtReadings, CtLocks, Holding, Mine
  <2>7. QuietTool'
    <3>1. Quiet => Stands("none", "partial", "ours")
      BY <1>0 DEF CtInv, QuietTool, Stands
    <3>2. Quiet => Target'.cat = "none" /\ ~Target'.side /\ Target'.lib = ctTool.lib /\ Target'.stage = "ours"
      BY <2>2, <2>3, <3>1 DEF Stands
    <3> QED
      BY <2>1, <2>3, <3>2 DEF QuietTool, Stands, Reading, Preparing, Holding
  <2> QED
    BY <1>0, <1>2, <2>1, <2>2, <2>4, <2>5, <2>6, <2>7, WrittenInv
<1> QED
  BY <1>1, <1>2 DEF CtLocator

\* The catalog becomes visible.
LEMMA CtLinkInv ==
  ASSUME CtInv, CtLink
  PROVE  CtInv'
<1>0. UNCHANGED <<ctSrc, ctRun, ctWorld, ctLeft>> /\ ctTool.pc = "link"
  BY DEF CtLink, CtKeep, CtAt
<1>1. CASE Refuse /\ UNCHANGED ctDest
  BY <1>0, <1>1, RefusedInv
<1>2. CASE InDest([Target EXCEPT !.cat = "ours"]) /\ Enter("verify")
  <2>1. ctTool' = [pc |-> "verify", run |-> ctTool.run, dest |-> ctTool.dest, lib |-> ctTool.lib, read |-> ctTool.read,
                   since |-> ctTool.since, created |-> ctTool.created, staged |-> ctTool.staged, rec |-> ctTool.rec,
                   end |-> ctTool.end, out |-> ctTool.out]
    BY <1>2, EnterFields DEF CtInv
  <2>2. /\ [Target EXCEPT !.cat = "ours"] \in CtDests /\ ctTool.dest \in 1..ctWorld.dests
        /\ [Target EXCEPT !.cat = "ours"] = [cat |-> "ours", side |-> Target.side, lib |-> Target.lib, stage |-> Target.stage]
    BY <1>0, TargetFields, DestFields DEF Holding
  <2>3. Target' = [Target EXCEPT !.cat = "ours"] /\ Content' = Content /\ (Quiet' <=> Quiet)
    BY <1>0, <1>2, <2>1, <2>2, DestWritten
  <2>4. CtToolTyped'
    BY <2>1 DEF CtInv, CtToolTyped, Holding
  <2>5. CtPlace'
    BY <1>0, <2>1 DEF CtInv, CtPlace, Reading, Preparing, Holding, Recording, Created, Mine
  <2>6. CtReadings' /\ CtLocks'
    <3>1. Target'.lib = Target.lib
      BY <2>2, <2>3
    <3> QED
      BY <1>0, <2>1, <2>3, <3>1 DEF CtInv, CtReadings, CtLocks, Holding, Mine
  <2>7. QuietTool'
    <3>1. Quiet => Stands("none", ctTool.lib, "ours")
      BY <1>0 DEF CtInv, QuietTool, Stands
    <3>2. Quiet => Target'.cat = "ours" /\ ~Target'.side /\ Target'.lib = ctTool.lib /\ Target'.stage = "ours"
      BY <2>2, <2>3, <3>1 DEF Stands
    <3> QED
      BY <2>1, <2>3, <3>2 DEF QuietTool, Stands, Reading, Preparing, Holding
  <2> QED
    BY <1>0, <1>2, <2>1, <2>2, <2>4, <2>5, <2>6, <2>7, WrittenInv
<1> QED
  BY <1>1, <1>2 DEF CtLink

\* With a bound spent, the tool where it was and the runs with their slots.
LEMMA SpentInv ==
  ASSUME CtInv, Allowed("src") \/ Allowed("rival") \/ Allowed("dispose"), UNCHANGED ctTool, CtTyped',
         CtPlace', CtReadings', CtLocks', \A r \in 1..ctWorld.runs : ctRun'[r].slot = ctRun[r].slot
  PROVE  CtInv'
<1>1. /\ ctLeft'.crash <= ctLeft.crash /\ ctLeft'.fail <= ctLeft.fail
      /\ CtSpent' /\ ~Quiet' /\ ctWorld' = ctWorld
  BY Spent DEF CtInv
<1>2. LeftoverListed'
  BY <1>1, ListedKeeps
<1>3. QuietRuns' /\ QuietTool' /\ CtToolTyped'
  BY <1>1 DEF QuietRuns, QuietTool, CtInv, CtToolTyped
<1> QED
  BY <1>1, <1>2, <1>3 DEF CtInv

\* An error: a refusal, or no record.
LEMMA CtFailInv ==
  ASSUME CtInv, CtFail
  PROVE  CtInv'
<1>0. UNCHANGED <<ctSrc, ctRun, ctDest>> /\ ctTool.pc # "idle" /\ Allowed("fail")
  BY DEF CtFail, CtAt
<1>1. /\ ctLeft' \in [src : Nat, rival : Nat, crash : Nat, fail : Nat, dispose : Nat]
      /\ CtSpent' /\ ~Quiet' /\ ctWorld' = ctWorld /\ ctLeft'.fail < ctWorld.left.fail
  BY <1>0, Spent DEF CtInv
<1>2. CtTyped' /\ QuietRuns'
  BY <1>0, <1>1 DEF CtInv, CtTyped, QuietRuns
<1>3. ctRun'[ctTool.run].made
  BY <1>0 DEF CtInv, CtPlace, Mine
<1>4. /\ CtToolTyped' /\ CtPlace' /\ CtReadings' /\ CtLocks' /\ QuietTool'
      /\ (ctTool'.pc = "idle" /\ ctTool'.created) => ctTool'.out \notin {"published", "refused"}
  <2>1. CASE ctTool.pc \in {"record", "recorded"} /\ ctTool.created
    <3>1. Leave("unrecorded")
      BY <2>1 DEF CtFail
    <3> QED
      BY <1>1, <3>1, LeaveKeeps
  <2>2. CASE ctTool.pc \in {"record", "recorded"} /\ ~ctTool.created
    <3>1. Leave("refused")
      BY <2>2 DEF CtFail
    <3> QED
      BY <1>1, <2>2, <3>1, LeaveKeeps
  <2>3. CASE ctTool.pc \notin {"record", "recorded"}
    <3>1. Refuse
      BY <2>3 DEF CtFail
    <3> QED
      BY <1>0, <1>1, <1>3, <3>1, RefuseKeeps
  <2> QED
    BY <2>1, <2>2, <2>3
<1>5. LeftoverListed'
  BY <1>1, <1>4 DEF LeftoverListed, CtAt
<1> QED
  BY <1>1, <1>2, <1>4, <1>5 DEF CtInv

\* The process dies.
LEMMA CtCrashInv ==
  ASSUME CtInv, CtCrash
  PROVE  CtInv'
<1>0. UNCHANGED <<ctSrc, ctRun, ctDest>> /\ ctTool.pc # "idle" /\ Allowed("crash") /\ Leave("died")
  BY DEF CtCrash, CtAt
<1>1. /\ ctLeft' \in [src : Nat, rival : Nat, crash : Nat, fail : Nat, dispose : Nat]
      /\ CtSpent' /\ ~Quiet' /\ ctWorld' = ctWorld /\ ctLeft'.crash < ctWorld.left.crash
  BY <1>0, Spent DEF CtInv
<1>2. CtTyped' /\ QuietRuns'
  BY <1>0, <1>1 DEF CtInv, CtTyped, QuietRuns
<1>3. CtToolTyped' /\ CtPlace' /\ CtReadings' /\ CtLocks' /\ QuietTool' /\ ctTool'.out = "died"
  BY <1>0, <1>1, LeaveKeeps
<1>4. LeftoverListed'
  BY <1>1, <1>3 DEF LeftoverListed, CtAt
<1> QED
  BY <1>1, <1>2, <1>3, <1>4 DEF CtInv

\* The source, in numbers.
LEMMA SourceFields ==
  ASSUME CtInv
  PROVE  /\ ctSrc = [main |-> ctSrc.main, wal |-> ctSrc.wal, lib |-> ctSrc.lib, ver |-> ctSrc.ver]
         /\ ctSrc.main \in Nat \ {0} /\ ctSrc.wal \in Nat /\ Content \in Nat /\ Content >= ctSrc.main
         /\ Content = IF ctSrc.wal # 0 THEN ctSrc.wal ELSE ctSrc.main
         /\ ctSrc.lib \in {"none", "a", "b", "bad"} /\ ctSrc.ver \in Nat
BY DEF CtInv, CtTyped, Content, Recovered

\* A commit comes after all that was read.
LEMMA CtCommitInv ==
  ASSUME CtInv, CtCommit
  PROVE  CtInv'
<1>0. /\ UNCHANGED <<ctRun, ctDest, ctTool>> /\ Allowed("src") /\ ctTool.pc \notin Holding
      /\ ctSrc' = [ctSrc EXCEPT !.wal = Content + 1]
  BY DEF CtCommit, Locked, Holding
<1>1. ctWorld' = ctWorld /\ ctLeft' \in [src : Nat, rival : Nat, crash : Nat, fail : Nat, dispose : Nat]
  BY <1>0, Spent DEF CtInv
<1>2. ctSrc' = [main |-> ctSrc.main, wal |-> Content + 1, lib |-> ctSrc.lib, ver |-> ctSrc.ver]
  BY <1>0, SourceFields
<1>3. Content' = Content + 1 /\ Content <= Content' /\ Content' \in Nat
  BY <1>2, SourceFields DEF Content, Recovered
<1>4. CtTyped'
  <2>1. ctSrc' \in [main : Nat \ {0}, wal : Nat, lib : {"none", "a", "b", "bad"}, ver : Nat]
    BY <1>2, SourceFields
  <2>2. ctSrc'.wal >= ctSrc'.main
    BY <1>2, SourceFields
  <2> QED
    BY <1>0, <1>1, <2>1, <2>2 DEF CtInv, CtTyped
<1>5. CtPlace'
  BY <1>0, <1>1 DEF CtInv, CtPlace, Mine
<1>6. CtLocks'
  BY <1>0, <1>1, <1>2 DEF CtInv, CtLocks, Mine, Target, Holding
<1>7. CtReadings'
  <2>1. Content \in Nat /\ Content' \in Nat /\ Content <= Content' /\ ctSrc'.main = ctSrc.main
    BY <1>2, <1>3, SourceFields
  <2>2. \A n \in Nat : n <= Content => n <= Content'
    BY <2>1
  <2>3. ctTool.pc \in {"again", "again wal"} => Recovered(ctTool.read) \in Nat
    BY DEF CtInv, CtReadings, Recovered
  <2> QED
    BY <1>0, <2>1, <2>2, <2>3 DEF CtInv, CtReadings
<1> QED
  BY <1>0, <1>4, <1>5, <1>6, <1>7, SpentInv

\* A checkpoint moves the content into the main file.
LEMMA CtCheckpointInv ==
  ASSUME CtInv, CtCheckpoint
  PROVE  CtInv'
<1>0. /\ UNCHANGED <<ctRun, ctDest, ctTool>> /\ Allowed("src") /\ ctSrc.wal # 0
      /\ ctSrc' = [ctSrc EXCEPT !.main = Content, !.wal = 0]
  BY DEF CtCheckpoint
<1>1. ctWorld' = ctWorld /\ ctLeft' \in [src : Nat, rival : Nat, crash : Nat, fail : Nat, dispose : Nat]
  BY <1>0, Spent DEF CtInv
<1>2. ctSrc' = [main |-> Content, wal |-> 0, lib |-> ctSrc.lib, ver |-> ctSrc.ver]
  BY <1>0, SourceFields
<1>3. Content' = Content
  BY <1>2 DEF Content, Recovered
<1>4. CtTyped'
  <2>1. ctSrc' \in [main : Nat \ {0}, wal : Nat, lib : {"none", "a", "b", "bad"}, ver : Nat]
    <3>1. Content \in Nat \ {0}
      BY SourceFields
    <3> QED
      BY <1>2, <3>1, SourceFields
  <2>2. ctSrc'.wal = 0
    BY <1>2
  <2> QED
    BY <1>0, <1>1, <2>1, <2>2 DEF CtInv, CtTyped
<1>5. CtPlace'
  BY <1>0, <1>1 DEF CtInv, CtPlace, Mine
<1>6. CtLocks'
  BY <1>0, <1>1, <1>2, <1>3 DEF CtInv, CtLocks, Mine, Target, Holding
<1>7. CtReadings'
  <2>1. ctSrc'.main = Content /\ Content \in Nat /\ ctSrc.main \in Nat /\ ctSrc.main <= Content
    BY <1>2, SourceFields
  <2>2. \A n \in Nat : n <= ctSrc.main => n <= ctSrc'.main /\ (n = ctSrc'.main => n = ctSrc.main)
    BY <2>1
  <2> QED
    BY <1>0, <1>3, <2>1, <2>2 DEF CtInv, CtReadings
<1> QED
  BY <1>0, <1>4, <1>5, <1>6, <1>7, SpentInv

\* The library moves; nothing read here depends on it.
LEMMA CtRelocateInv ==
  ASSUME CtInv, CtRelocate
  PROVE  CtInv'
<1>0. UNCHANGED <<ctRun, ctDest, ctTool>> /\ Allowed("src")
  BY DEF CtRelocate
<1>1. ctWorld' = ctWorld /\ ctLeft' \in [src : Nat, rival : Nat, crash : Nat, fail : Nat, dispose : Nat]
  BY <1>0, Spent DEF CtInv
<1>2. PICK l \in {"none", "a", "b", "bad"} : ctSrc' = [ctSrc EXCEPT !.lib = l]
  BY DEF CtRelocate
<1>3. ctSrc' = [main |-> ctSrc.main, wal |-> ctSrc.wal, lib |-> l, ver |-> ctSrc.ver]
  BY <1>2, SourceFields
<1>4. Content' = Content
  BY <1>3 DEF Content, Recovered
<1>5. CtTyped'
  BY <1>0, <1>1, <1>3, SourceFields DEF CtInv, CtTyped
<1>6. CtPlace' /\ CtReadings' /\ CtLocks'
  <2>1. ctSrc'.main = ctSrc.main /\ ctSrc'.ver = ctSrc.ver
    BY <1>3
  <2>2. CtPlace'
    BY <1>0, <1>1 DEF CtInv, CtPlace, Mine
  <2>3. CtReadings'
    BY <1>0, <1>4, <2>1 DEF CtInv, CtReadings
  <2>4. CtLocks'
    BY <1>0, <1>4, <2>1 DEF CtInv, CtLocks, Mine, Target
  <2> QED
    BY <2>2, <2>3, <2>4
<1> QED
  BY <1>0, <1>5, <1>6, SpentInv

\* Another hand in a destination.
LEMMA CtRivalInv ==
  ASSUME CtInv, CtRival
  PROVE  CtInv'
<1>0. UNCHANGED <<ctSrc, ctRun, ctTool>> /\ Allowed("rival") /\ DOMAIN ctDest = 1..ctWorld.dests
  BY DEF CtRival, CtInv, CtTyped
<1>1. ctWorld' = ctWorld /\ ctLeft' \in [src : Nat, rival : Nat, crash : Nat, fail : Nat, dispose : Nat]
  BY <1>0, Spent DEF CtInv
<1>2. PICK d \in 1..ctWorld.dests :
        LET v == ctDest[d] IN
        \E t \in {[v EXCEPT !.cat = "rival"], [v EXCEPT !.lib = "rival"], [v EXCEPT !.stage = "rival"],
                  [v EXCEPT !.side = TRUE], [v EXCEPT !.cat = "none"]} : ctDest' = [ctDest EXCEPT ![d] = t]
  BY <1>0 DEF CtRival
<1>3. PICK t : /\ ctDest' = [ctDest EXCEPT ![d] = t]
               /\ \/ t = [ctDest[d] EXCEPT !.cat = "rival"] \/ t = [ctDest[d] EXCEPT !.lib = "rival"]
                  \/ t = [ctDest[d] EXCEPT !.stage = "rival"] \/ t = [ctDest[d] EXCEPT !.side = TRUE]
                  \/ t = [ctDest[d] EXCEPT !.cat = "none"]
  BY <1>2
<1>4. ctDest[d] \in CtDests
  BY DEF CtInv, CtTyped
<1>5. t \in CtDests /\ t.lib \in {ctDest[d].lib, "rival"}
  BY <1>3, <1>4 DEF CtDests
<1>6. CtTyped'
  BY <1>0, <1>1, <1>3, <1>5 DEF CtInv, CtTyped
<1>7. Content' = Content /\ CtPlace'
  BY <1>0, <1>1 DEF CtInv, CtPlace, Mine, Content
<1>8. CtReadings'
  BY <1>0, <1>7 DEF CtInv, CtReadings
<1>9. CtLocks'
  <2>1. \A q \in 1..ctWorld.dests : ctDest'[q].lib \in {ctDest[q].lib, "rival"}
    BY <1>0, <1>3, <1>5
  <2>2. ctTool.pc \in {"link", "verify", "confirm"} => Target'.lib \in {Target.lib, "rival"}
    BY <1>0, <2>1 DEF CtInv, CtPlace, Target, Holding
  <2> QED
    BY <1>0, <1>7, <2>2 DEF CtInv, CtLocks, Mine
<1> QED
  BY <1>0, <1>6, <1>7, <1>8, <1>9, SpentInv

\* Another hand in a clone that is not locked.
LEMMA CtTamperInv ==
  ASSUME CtInv, CtTamper
  PROVE  CtInv'
<1>0. UNCHANGED <<ctSrc, ctDest, ctTool>> /\ Allowed("rival") /\ DOMAIN ctRun = 1..ctWorld.runs /\ ctTool.pc \notin Holding
  BY DEF CtTamper, CtInv, CtTyped, Locked, Holding
<1>1. ctWorld' = ctWorld /\ ctLeft' \in [src : Nat, rival : Nat, crash : Nat, fail : Nat, dispose : Nat]
  BY <1>0, Spent DEF CtInv
<1>2. PICK r \in 1..ctWorld.runs : ctRun' = [ctRun EXCEPT ![r].clone = 0]
  BY <1>0 DEF CtTamper
<1>3. \A q \in 1..ctWorld.runs :
        ctRun[q] = [made |-> ctRun[q].made, ok |-> ctRun[q].ok, lib |-> ctRun[q].lib, snap |-> ctRun[q].snap,
                    clone |-> ctRun[q].clone, bundle |-> ctRun[q].bundle, slot |-> ctRun[q].slot]
  BY DEF CtInv, CtTyped
<1>4. \A q \in 1..ctWorld.runs :
        ctRun'[q] = [made |-> ctRun[q].made, ok |-> ctRun[q].ok, lib |-> ctRun[q].lib, snap |-> ctRun[q].snap,
                     clone |-> ctRun'[q].clone, bundle |-> ctRun[q].bundle, slot |-> ctRun[q].slot]
  <2> TAKE q \in 1..ctWorld.runs
  <2>1. CASE q = r
    <3>1. ctRun'[q] = [ctRun[q] EXCEPT !.clone = 0]
      BY <1>0, <1>2, <2>1
    <3> QED
      BY <1>3, <3>1
  <2>2. CASE q # r
    <3>1. ctRun'[q] = ctRun[q]
      BY <1>0, <1>2, <2>2
    <3> QED
      BY <1>3, <3>1
  <2> QED
    BY <2>1, <2>2
<1>5. ctRun' = [q \in 1..ctWorld.runs |-> ctRun'[q]]
  BY <1>0, <1>2
<1>6. \A q \in 1..ctWorld.runs :
        /\ ctRun'[q].made = ctRun[q].made /\ ctRun'[q].ok = ctRun[q].ok /\ ctRun'[q].lib = ctRun[q].lib
        /\ ctRun'[q].snap = ctRun[q].snap /\ ctRun'[q].bundle = ctRun[q].bundle /\ ctRun'[q].slot = ctRun[q].slot
        /\ ctRun'[q] = [made |-> ctRun'[q].made, ok |-> ctRun'[q].ok, lib |-> ctRun'[q].lib, snap |-> ctRun'[q].snap,
                        clone |-> ctRun'[q].clone, bundle |-> ctRun'[q].bundle, slot |-> ctRun'[q].slot]
  <2> TAKE q \in 1..ctWorld.runs
  <2>1. ctRun'[q] = [made |-> ctRun[q].made, ok |-> ctRun[q].ok, lib |-> ctRun[q].lib, snap |-> ctRun[q].snap,
                     clone |-> ctRun'[q].clone, bundle |-> ctRun[q].bundle, slot |-> ctRun[q].slot]
    BY <1>4
  <2>2. /\ ctRun'[q].made = ctRun[q].made /\ ctRun'[q].ok = ctRun[q].ok /\ ctRun'[q].lib = ctRun[q].lib
        /\ ctRun'[q].snap = ctRun[q].snap /\ ctRun'[q].bundle = ctRun[q].bundle /\ ctRun'[q].slot = ctRun[q].slot
    BY <2>1
  <2> QED
    BY <2>1, <2>2, Zenon
<1>7. CtTyped'
  <2>1. ctRun' = [q \in 1..ctWorld.runs |->
          [made |-> ctRun'[q].made, ok |-> ctRun'[q].ok, lib |-> ctRun'[q].lib, snap |-> ctRun'[q].snap,
           clone |-> ctRun'[q].clone, bundle |-> ctRun'[q].bundle, slot |-> ctRun'[q].slot]]
    BY <1>5, <1>6
  <2>2. \A q \in 1..ctWorld.runs :
          /\ ctRun'[q].made \in BOOLEAN /\ ctRun'[q].ok \in BOOLEAN /\ ctRun'[q].lib \in CtLibs
          /\ ctRun'[q].slot.is \in {"none", "torn", "record"} /\ (ctRun'[q].ok => ctRun'[q].made)
    BY <1>6 DEF CtInv, CtTyped
  <2> QED
    BY <1>0, <1>1, <2>1, <2>2 DEF CtInv, CtTyped
<1>8. Content' = Content
  BY <1>0 DEF Content
<1>9. CtPlace'
  <2>1. ctTool.pc # "idle" => ctTool.run \in 1..ctWorld.runs
    BY DEF CtInv, CtPlace
  <2>2. ctTool.pc # "idle" => Mine'.made = Mine.made /\ Mine'.ok = Mine.ok /\ Mine'.lib = Mine.lib
    BY <1>0, <1>6, <2>1, Zenon DEF Mine
  <2> QED
    BY <1>0, <1>1, <2>2 DEF CtInv, CtPlace, Preparing, Holding
<1>10. CtReadings'
  BY <1>0, <1>8 DEF CtInv, CtReadings
<1>11. CtLocks'
  <2>1. ctTool.pc = "lock" => ctTool.run \in 1..ctWorld.runs
    BY DEF CtInv, CtPlace
  <2> QED
    BY <1>0, <1>6, <2>1 DEF CtInv, CtLocks, Mine, Holding
<1> QED
  BY <1>0, <1>6, <1>7, <1>9, <1>10, <1>11, SpentInv

\* A leftover is disposed of.
LEMMA CtDisposeInv ==
  ASSUME CtInv, CtDispose
  PROVE  CtInv'
<1>0. UNCHANGED <<ctSrc, ctRun, ctTool>> /\ Allowed("dispose") /\ ctTool.pc = "idle" /\ DOMAIN ctDest = 1..ctWorld.dests
  BY DEF CtDispose, CtInv, CtTyped, CtAt
<1>1. ctWorld' = ctWorld /\ ctLeft' \in [src : Nat, rival : Nat, crash : Nat, fail : Nat, dispose : Nat]
  BY <1>0, Spent DEF CtInv
<1>2. PICK d \in 1..ctWorld.dests : ctDest' = [ctDest EXCEPT ![d].stage = "none"]
  BY <1>0 DEF CtDispose
<1>3. [ctDest[d] EXCEPT !.stage = "none"] \in CtDests
  BY DEF CtInv, CtTyped, CtDests
<1>4. CtTyped'
  BY <1>0, <1>1, <1>2, <1>3 DEF CtInv, CtTyped
<1>5. CtPlace' /\ CtReadings' /\ CtLocks'
  <2>1. ctTool'.pc = "idle" /\ ctTool'.end = "none" /\ (~ctTool'.created \/ ctTool'.run \in 1..ctWorld'.runs)
    BY <1>0, <1>1 DEF CtInv, CtPlace, Recording
  <2> QED
    BY <2>1, CtIdles
<1> QED
  BY <1>0, <1>4, <1>5, SpentInv

\* Every step keeps it.
LEMMA CtStepInv == CtInv /\ [CtNext]_ctVars => CtInv'
<1> SUFFICES ASSUME CtInv, [CtNext]_ctVars
             PROVE  CtInv'
  OBVIOUS
<1>1. CASE CtStep
  BY <1>1, CtReadMainInv, CtReadWalInv, CtCompareMainInv, CtCompareWalInv, CtMigrateInv, CtBundleInv, CtLockInv, CtStageInv,
     CtCopyInv, CtLibraryInv, CtLocatorInv, CtLinkInv, CtVerifyInv, CtConfirmInv, CtRecordInv, CtRecordedInv DEF CtStep
<1>2. CASE CtOther
  BY <1>2, CtFailInv, CtCrashInv, CtCommitInv, CtCheckpointInv, CtRelocateInv, CtRivalInv, CtTamperInv, CtDisposeInv DEF CtOther
<1>3. CASE UNCHANGED ctVars
  <2>1. UNCHANGED <<ctSrc, ctRun, ctDest, ctTool, ctWorld, ctLeft>>
    BY <1>3 DEF ctVars
  <2>2. CtToolTyped' /\ CtPlace' /\ LeftoverListed'
    BY <2>1 DEF CtInv, CtToolTyped, CtPlace, Mine, LeftoverListed, CtAt, Listable
  <2>3. CtReadings'
    BY <2>1, WorldStays DEF CtInv, CtReadings
  <2>4. CtLocks'
    BY <2>1, WorldStays DEF CtInv, CtLocks, Mine, Target
  <2>5. QuietTool'
    BY <2>1, WorldStays DEF CtInv, QuietTool, Stands, Mine, Target
  <2> QED
    BY <2>1, <2>2, <2>3, <2>4, <2>5, WorldStays DEF CtInv
<1> QED
  BY <1>1, <1>2, <1>3, CtRehearseInv, CtPublishInv DEF CtNext

\* A refusal does not go on, nor end as anything else.
LEMMA RefuseEnds ==
  ASSUME CtInv, Refuse
  PROVE  ctTool'.pc \in {"idle", "record"} /\ ctTool'.end # "published"
<1>1. CASE ctTool.created
  <2>1. ctTool' = [pc |-> "record", run |-> ctTool.run, dest |-> ctTool.dest, lib |-> ctTool.lib, read |-> ctTool.read,
                   since |-> ctTool.since, created |-> ctTool.created, staged |-> ctTool.staged,
                   rec |-> StagingReport(ctTool.dest), end |-> "refused", out |-> ctTool.out]
    BY <1>1 DEF Refuse, Review, CtInv, CtToolTyped
  <2> QED
    BY <2>1
<1>2. CASE ~ctTool.created
  BY <1>2, LeaveFields DEF Refuse
<1> QED
  BY <1>1, <1>2 DEF CtInv, CtToolTyped

\* What was captured is a state of the source.
LEMMA SnapshotHolds == CtInv => SnapshotIsState
<1> SUFFICES ASSUME CtInv, CtCompareWal, ctTool'.pc = "migrate"
             PROVE  ctRun'[ctTool.run].snap \in ctTool.since..Content
  BY DEF SnapshotIsState
<1>1. ctTool.pc = "again wal" /\ InRun([Mine EXCEPT !.snap = Recovered(ctTool.read)])
  BY RefuseEnds DEF CtCompareWal, CtAt
<1>2. [Mine EXCEPT !.snap = Recovered(ctTool.read)].snap = Recovered(ctTool.read)
  BY <1>1, MineFields, RunFields
<1>3. ctRun'[ctTool.run].snap = Recovered(ctTool.read)
  BY <1>1, <1>2, MineFields DEF InRun
<1>4. Recovered(ctTool.read) \in Nat /\ ctTool.since \in Nat /\ ctTool.since <= Recovered(ctTool.read) /\ Recovered(ctTool.read) <= Content
  BY <1>1 DEF CtInv, CtReadings, Recovered
<1> QED
  BY <1>3, <1>4, SourceFields

\* What becomes visible is the source, migrated.
LEMMA PublishedHolds == CtInv => PublishedIsSource
<1> SUFFICES ASSUME CtInv, CtLink, ctTool'.pc = "verify"
             PROVE  /\ ctTool.staged = Content /\ Recovered(Mine.bundle) = Content /\ ctSrc.ver < 7
                    /\ Target.lib \in {Mine.lib, "rival", "none"}
                    /\ Target.lib = "none" => Mine.lib = "none" \/ ~Quiet
  BY DEF PublishedIsSource
<1>1. ctTool.pc = "link"
  BY DEF CtLink, CtAt
<1>2. /\ ctTool.staged = Mine.snap /\ ctSrc.ver < 7 /\ Recovered(Mine.bundle) = Mine.snap /\ Content = Mine.snap
      /\ Target.lib \in {ctTool.lib, "rival"}
  BY <1>1 DEF CtInv, CtLocks, Holding
<1> QED
  BY <1>1, <1>2, TargetFields DEF Holding

\* Success is told of what is there.
LEMMA SuccessHolds == CtInv /\ [CtNext]_ctVars => SuccessTrue
<1> SUFFICES ASSUME CtInv, [CtNext]_ctVars, ctTool.pc = "confirm", ctTool'.end = "published"
             PROVE  /\ Target.cat = "ours" /\ ~Target.side /\ ctTool.staged = Content
                    /\ Target.lib \in {Mine.lib, "rival"}
  BY DEF SuccessTrue
<1>1. ctTool.end = "none"
  BY DEF CtInv, CtPlace, Recording
<1>2. CtConfirm
  <2>1. ~UNCHANGED ctTool
    BY <1>1
  <2>2. ~(\E out : Leave(out)) /\ ~Refuse
    BY LeaveFields, RefuseEnds
  <2>3. ~CtOther
    BY <2>1, <2>2 DEF CtOther, CtFail, CtCrash, CtCommit, CtCheckpoint, CtRelocate, CtRival, CtTamper, CtDispose
  <2>4. ~CtRehearse /\ ~CtPublish
    BY DEF CtRehearse, CtPublish, CtAt
  <2>5. CtStep
    BY <2>1, <2>3, <2>4 DEF CtNext, ctVars
  <2> QED
    BY <2>5 DEF CtStep, CtReadMain, CtReadWal, CtCompareMain, CtCompareWal, CtMigrate, CtBundle, CtLock, CtStage, CtCopy, CtLibrary,
                CtLocator, CtLink, CtVerify, CtRecord, CtRecorded, CtAt
<1>3. StillOurs
  BY <1>2, RefuseEnds DEF CtConfirm, Checked
<1>4. ctTool.staged = Mine.snap /\ Content = Mine.snap /\ Target.lib \in {ctTool.lib, "rival"}
  BY DEF CtInv, CtLocks, Holding
<1> QED
  BY <1>3, <1>4, TargetFields DEF StillOurs, Holding

\* The tool writes in a destination what no other hand put there.
LEMMA NoClobberHolds == CtInv => NoClobber
<1> SUFFICES ASSUME CtInv, CtStep, NEW d \in DOMAIN ctDest
             PROVE  /\ ctDest'[d].cat # ctDest[d].cat => ctDest[d].cat = "none"
                    /\ ctDest'[d].stage # ctDest[d].stage => ctDest[d].stage = "none"
                    /\ ctDest'[d].lib # ctDest[d].lib => ctDest[d].lib \in {"none", "partial"}
  BY DEF NoClobber
<1>1. DOMAIN ctDest = 1..ctWorld.dests
  BY DEF CtInv, CtTyped
<1>2. CASE UNCHANGED ctDest
  BY <1>2
<1>3. CASE ctTool.pc = "stage" /\ Target.stage = "none" /\ InDest([Target EXCEPT !.stage = "ours"])
  <2>1. [Target EXCEPT !.stage = "ours"] = [cat |-> Target.cat, side |-> Target.side, lib |-> Target.lib, stage |-> "ours"]
    BY <1>3, TargetFields, DestFields DEF Holding
  <2> QED
    BY <1>1, <1>3, <2>1 DEF InDest, Target
<1>4. CASE ctTool.pc = "library" /\ Target.lib = "none" /\ InDest([Target EXCEPT !.lib = "partial"])
  <2>1. [Target EXCEPT !.lib = "partial"] = [cat |-> Target.cat, side |-> Target.side, lib |-> "partial", stage |-> Target.stage]
    BY <1>4, TargetFields, DestFields DEF Holding
  <2> QED
    BY <1>1, <1>4, <2>1 DEF InDest, Target
<1>5. CASE ctTool.pc = "locator" /\ Target.lib = "partial" /\ InDest([Target EXCEPT !.lib = ctTool.lib])
  <2>1. [Target EXCEPT !.lib = ctTool.lib] = [cat |-> Target.cat, side |-> Target.side, lib |-> ctTool.lib, stage |-> Target.stage]
    BY <1>5, TargetFields, DestFields DEF Holding
  <2> QED
    BY <1>1, <1>5, <2>1 DEF InDest, Target
<1>6. CASE ctTool.pc = "link" /\ Target.cat = "none" /\ InDest([Target EXCEPT !.cat = "ours"])
  <2>1. [Target EXCEPT !.cat = "ours"] = [cat |-> "ours", side |-> Target.side, lib |-> Target.lib, stage |-> Target.stage]
    BY <1>6, TargetFields, DestFields DEF Holding
  <2> QED
    BY <1>1, <1>6, <2>1 DEF InDest, Target
<1> QED
  <2>1. \/ CtStage \/ CtLibrary \/ CtLocator \/ CtLink \/ UNCHANGED ctDest
    BY DEF CtStep, CtReadMain, CtReadWal, CtCompareMain, CtCompareWal, CtMigrate, CtBundle, CtLock, CtCopy, CtVerify, CtConfirm, CtRecord, CtRecorded
  <2>2. CtStage => UNCHANGED ctDest \/ (ctTool.pc = "stage" /\ Target.stage = "none" /\ InDest([Target EXCEPT !.stage = "ours"]))
    BY DEF CtStage, CtAt
  <2>3. CtLibrary => UNCHANGED ctDest \/ (ctTool.pc = "library" /\ Target.lib = "none" /\ InDest([Target EXCEPT !.lib = "partial"]))
    BY DEF CtLibrary, CtAt
  <2>4. CtLocator => UNCHANGED ctDest \/ (ctTool.pc = "locator" /\ Target.lib = "partial" /\ InDest([Target EXCEPT !.lib = ctTool.lib]))
    BY DEF CtLocator, CtAt
  <2>5. CtLink => UNCHANGED ctDest \/ (ctTool.pc = "link" /\ Target.cat = "none" /\ InDest([Target EXCEPT !.cat = "ours"]))
    BY DEF CtLink, CtAt, Linkable
  <2> QED
    BY <1>2, <1>3, <1>4, <1>5, <1>6, <2>1, <2>2, <2>3, <2>4, <2>5

\* A step of the tool goes on, or ends in something else than a refusal.
LEMMA EnterOn ==
  ASSUME CtInv, NEW pc, Enter(pc)
  PROVE  ctTool'.end = ctTool.end /\ ctTool'.out = ctTool.out
<1>1. ctTool' = [pc |-> pc, run |-> ctTool.run, dest |-> ctTool.dest, lib |-> ctTool.lib, read |-> ctTool.read,
                 since |-> ctTool.since, created |-> ctTool.created, staged |-> ctTool.staged, rec |-> ctTool.rec,
                 end |-> ctTool.end, out |-> ctTool.out]
  BY EnterFields DEF CtInv
<1> QED
  BY <1>1

\* Where nothing interferes no check fails.
LEMMA ChecksHold ==
  ASSUME CtInv, Quiet, ctSrc.ver < 7
  PROVE  /\ CtAt("again") => SameMain
         /\ CtAt("again wal") => SameWal
         /\ CtAt("bundle wal") => BundleRecovers(<<ctTool.read[1], ctSrc.wal>>)
         /\ CtAt("lock") => SourceStands
         /\ CtAt("stage") => Target.stage = "none"
         /\ CtAt("copy") => Target.stage = "ours" /\ CloneIsExpected
         /\ CtAt("library") => ~Target.side /\ LibraryStands /\ Target.lib = "none"
         /\ CtAt("locator") => Target.lib = "partial"
         /\ CtAt("link") => Linkable
         /\ CtAt("verify") => ~Target.side /\ Target.cat = "ours" /\ Target.lib = ctTool.lib
         /\ CtAt("confirm") => StillOurs
<1>1. ctTool.pc \in Preparing \cup Holding => Mine.ok
  BY DEF CtInv, CtPlace
<1>2. ctTool.pc # "idle" => Mine.lib = ctSrc.lib /\ (Mine.ok => Mine.snap = Content /\ Mine.clone = Mine.snap)
  BY MineFields
<1>3. CtAt("again") => SameMain
  BY DEF CtAt, SameMain, CtInv, QuietTool
<1>4. CtAt("again wal") => SameWal
  <2>1. CtAt("again wal") => ctTool.read = <<ctSrc.main, ctSrc.wal>>
    BY DEF CtAt, CtInv, QuietTool
  <2>2. <<ctSrc.main, ctSrc.wal>>[2] = ctSrc.wal
    OBVIOUS
  <2> QED
    BY <1>2, <2>1, <2>2 DEF CtAt, SameWal
<1>5. CtAt("bundle wal") => BundleRecovers(<<ctTool.read[1], ctSrc.wal>>)
  <2>1. CtAt("bundle wal") => ctTool.read[1] = ctSrc.main
    BY DEF CtAt, CtInv, QuietTool
  <2>2. Recovered(<<ctSrc.main, ctSrc.wal>>) = Content
    BY DEF Content
  <2> QED
    BY <1>1, <1>2, <2>1, <2>2 DEF CtAt, BundleRecovers, Preparing
<1>6. CtAt("lock") => SourceStands
  BY <1>1, <1>2 DEF CtAt, SourceStands, Preparing
<1>7. CtAt("copy") => CloneIsExpected
  BY <1>1, <1>2 DEF CtAt, CloneIsExpected, SameCatalog, Holding
<1>8. CtAt("library") => LibraryStands
  BY <1>2 DEF CtAt, LibraryStands
<1>9. /\ CtAt("stage") => Target.stage = "none"
      /\ CtAt("copy") => Target.stage = "ours"
      /\ CtAt("library") => ~Target.side /\ Target.lib = "none"
      /\ CtAt("locator") => Target.lib = "partial"
      /\ CtAt("link") => Linkable
      /\ CtAt("verify") => ~Target.side /\ Target.cat = "ours" /\ Target.lib = ctTool.lib
      /\ CtAt("confirm") => StillOurs
  BY DEF CtAt, CtInv, QuietTool, Stands, Linkable, StillOurs
<1> QED
  BY <1>3, <1>4, <1>5, <1>6, <1>7, <1>8, <1>9

\* So nothing is refused.
LEMMA NoRefusalHolds == CtInv => NoFalseRefusal
<1> SUFFICES ASSUME CtInv, Quiet, CtStep, ctTool.end # "refused", ctSrc.ver < 7
             PROVE  ctTool'.end # "refused" /\ ctTool'.out # "refused"
  BY DEF NoFalseRefusal
<1>1. ctTool.pc # "idle"
  BY DEF CtStep, CtReadMain, CtReadWal, CtCompareMain, CtCompareWal, CtMigrate, CtBundle, CtLock, CtStage, CtCopy, CtLibrary,
         CtLocator, CtLink, CtVerify, CtConfirm, CtRecord, CtRecorded, CtAt
<1>2. ctTool.out = "none"
  BY <1>1 DEF CtInv, CtPlace
<1>3. CASE \E pc : Enter(pc)
  BY <1>2, <1>3, EnterOn
<1>4. CASE CtReadMain \/ CtReadWal
  <2>1. ctTool'.end = ctTool.end /\ ctTool'.out = ctTool.out
    BY <1>4 DEF CtReadMain, CtReadWal, CtInv, CtToolTyped
  <2> QED
    BY <1>2, <2>1
<1>5. CASE CtMigrate
  BY <1>5, LeaveFields DEF CtMigrate
<1>6. CASE CtStage
  <2>1. ctTool' = [ctTool EXCEPT !.pc = "copy", !.created = TRUE]
    BY <1>6, ChecksHold DEF CtStage
  <2>2. ctTool'.end = ctTool.end /\ ctTool'.out = ctTool.out
    BY <2>1 DEF CtInv, CtToolTyped
  <2> QED
    BY <1>2, <2>2
<1>7. CASE CtCopy
  <2>1. ctTool' = [ctTool EXCEPT !.pc = "library", !.staged = Mine.clone]
    BY <1>7, ChecksHold DEF CtCopy
  <2>2. ctTool'.end = ctTool.end /\ ctTool'.out = ctTool.out
    BY <2>1 DEF CtInv, CtToolTyped
  <2> QED
    BY <1>2, <2>2
<1>8. CASE CtConfirm
  <2>1. ctTool' = [ctTool EXCEPT !.pc = "record", !.end = "published", !.rec = StagingReport(ctTool.dest)]
    BY <1>8, ChecksHold DEF CtConfirm, Checked
  <2>2. ctTool'.end = "published" /\ ctTool'.out = ctTool.out
    BY <2>1 DEF CtInv, CtToolTyped
  <2> QED
    BY <1>2, <2>2
<1>9. CASE CtRecorded
  <2>1. Leave(ctTool.end)
    BY <1>9 DEF CtRecorded
  <2> QED
    BY <2>1, LeaveFields
<1> QED
  <2>1. CtCompareMain \/ CtCompareWal \/ CtBundle \/ CtLock \/ CtLibrary \/ CtLocator \/ CtLink \/ CtVerify \/ CtRecord => \E pc : Enter(pc)
    <3>1. CtCompareMain => Enter("again wal")
      BY ChecksHold DEF CtCompareMain, Checked
    <3>2. CtCompareWal => Enter("migrate")
      BY ChecksHold DEF CtCompareWal
    <3>3. CtBundle => Enter("lock")
      BY ChecksHold DEF CtBundle, Checked
    <3>4. CtLock => Enter("stage")
      BY ChecksHold DEF CtLock, Checked
    <3>5. CtLibrary => Enter("link") \/ Enter("locator")
      BY ChecksHold DEF CtLibrary
    <3>6. CtLocator => Enter("link")
      BY ChecksHold DEF CtLocator
    <3>7. CtLink => Enter("verify")
      BY ChecksHold DEF CtLink
    <3>8. CtVerify => Enter("confirm")
      BY ChecksHold DEF CtVerify, Checked
    <3>9. CtRecord => Enter("recorded")
      BY DEF CtRecord
    <3> QED
      BY <3>1, <3>2, <3>3, <3>4, <3>5, <3>6, <3>7, <3>8, <3>9
  <2> QED
    BY <1>3, <1>4, <1>5, <1>6, <1>7, <1>8, <1>9, <2>1 DEF CtStep

\* A catalog that is published is the migration of a state its source was in, over nobody's
\* file, reported as what it is, and every leftover is listed: however the writers, other hands,
\* errors and crashes interleave with rehearse_ and publish_provenance_migration.
THEOREM CutoverKeepsCatalog == CtSpec => CutoverSound
<1>1. CtInv => CtTypeOK /\ LeftoverListed
  <2> SUFFICES ASSUME CtInv PROVE CtTypeOK
    BY DEF CtInv
  <2>1. \A d \in DOMAIN ctDest : ctDest[d] \in CtDests
    BY DEF CtInv, CtTyped
  <2>2. \A r \in DOMAIN ctRun : ctRun[r].slot.is \in {"none", "torn", "record"}
    <3>1. DOMAIN ctRun = 1..ctWorld.runs
      BY DEF CtInv, CtTyped
    <3> QED
      BY <3>1 DEF CtInv, CtTyped
  <2>3. ctSrc.lib \in {"none", "a", "b", "bad"} /\ ctSrc.main > 0
    BY SourceFields
  <2> QED
    BY <2>1, <2>2, <2>3 DEF CtTypeOK, CtDests, CtInv, CtToolTyped
<1>2. CtInv /\ [CtNext]_ctVars => SnapshotIsState /\ PublishedIsSource /\ SuccessTrue /\ NoClobber /\ NoFalseRefusal
  BY SnapshotHolds, PublishedHolds, SuccessHolds, NoClobberHolds, NoRefusalHolds
<1> QED
  BY <1>1, <1>2, CtInitInv, CtStepInv, PTL DEF CtSpec, CutoverSound

-----------------------------------------------------------------------------
(* Converting archived copies                                              *)

CvKeys == {"none", "A", "B", "torn"}
CvRowSet == [key : CvKeys, orig : {"none", "A", "B"}]
CvSrcSet == [work : {"none", "A", "B"}, index : BOOLEAN, head : BOOLEAN]
CvDstSet == [is : {"none", "plain", "link"}, has : CvKeys, head : BOOLEAN]
CvPhases == {"idle", "next", "read", "write", "add", "prove", "commit", "publish", "retire", "retired"}

CvTyped ==
  /\ cvWorld \in CvWorlds
  /\ cvRow \in [CvFiles -> CvRowSet] /\ cvSrc \in [CvFiles -> CvSrcSet] /\ cvDst \in [CvFiles -> CvDstSet]
  /\ cvPlans = [n \in CvPlanIds |-> [is |-> cvPlans[n].is, orig |-> cvPlans[n].orig]]
  /\ cvRun = [at |-> cvRun.at, plan |-> cvRun.plan, todo |-> cvRun.todo, data |-> cvRun.data]
  /\ cvRun.at \in CvPhases /\ cvRun.plan \in CvPlanIds /\ cvRun.todo \subseteq CvFiles

\* A sealed plan names a digest for each of its files.
PlansVouch ==
  \A n \in CvPlanIds : cvPlans[n].is = "sealed" =>
    /\ DOMAIN cvPlans[n].orig \subseteq CvFiles
    /\ \A f \in DOMAIN cvPlans[n].orig : cvPlans[n].orig[f] \in {"A", "B"}

\* Whoever converts has a sealed plan, and no row is touched before its bytes are committed.
CvKnows ==
  /\ cvRun.at # "idle" => cvPlans[cvRun.plan].is = "sealed" /\ cvRun.todo \subseteq DOMAIN cvPlans[cvRun.plan].orig
  /\ cvRun.at \notin {"idle", "next"} => cvRun.todo # {}
  /\ cvRun.at \in {"read", "write", "add", "prove", "commit", "publish"} => cvRow[CvFile].key = "none"
  /\ cvRun.at \in {"write", "add", "prove", "commit", "publish"} => cvRun.data = Frozen
  /\ cvRun.at \in {"commit", "publish"} => cvDst[CvFile].is = "link" /\ cvDst[CvFile].has = cvRun.data
  /\ cvRun.at = "publish" => cvDst[CvFile].head
  /\ cvRun.at \in {"retire", "retired"} => cvRow[CvFile].key # "none"

CvInv == CvTyped /\ PlansVouch /\ CvKnows /\ RowNamesBytes /\ KeysHaveEvidence

\* The candidate at hand is one of those left.
LEMMA CvFileIsLeft ==
  ASSUME CvTyped, cvRun.todo # {}
  PROVE  CvFile \in cvRun.todo /\ CvFile \in CvFiles
<1> DEFINE S == cvRun.todo
<1>1. S \subseteq Nat /\ S # {} /\ S \subseteq CvFiles
  BY CvNamesAssumption DEF CvTyped
<1> HIDE DEF S
<1>2. PICK m \in S : \A k \in S : <<k, m>> \notin OpToRel(<, Nat)
  BY <1>1, WFMin, NatLessThanWellFounded, Zenon
<1>3. \A k \in S : ~(k < m)
  BY <1>1, <1>2, Zenon DEF OpToRel
<1>4. \A k \in S : m <= k
  <2> TAKE k \in S
  <2>1. k \in Nat /\ m \in Nat
    BY <1>1
  <2>2. ~(k < m)
    BY <1>3
  <2> QED
    BY <2>1, <2>2
<1>5. Min(S) \in S
  BY <1>2, <1>4 DEF Min
<1> QED
  BY <1>1, <1>5 DEF CvFile, S

\* A catalog of plain copies satisfies the invariant.
LEMMA CvInitInv == CvInit => CvInv
<1> SUFFICES ASSUME CvInit PROVE CvInv
  OBVIOUS
<1>0. cvWorld.orig \in [CvFiles -> {"none", "A", "B"}]
  BY CvWorldsAssumption DEF CvInit
<1>1. cvRow \in [CvFiles -> CvRowSet] /\ cvSrc \in [CvFiles -> CvSrcSet]
  BY <1>0 DEF CvInit, CvRowSet, CvSrcSet, CvKeys
<1>2. cvDst \in [CvFiles -> CvDstSet]
  BY DEF CvInit, CvDstSet, CvKeys, Nowhere
<1>3. CvTyped
  BY <1>1, <1>2 DEF CvInit, CvTyped, CvHalted, CvPhases, CvPlanIds, NoPlan
<1>4. PlansVouch /\ CvKnows
  BY DEF CvInit, PlansVouch, CvKnows, CvHalted, NoPlan
<1>5. RowNamesBytes /\ KeysHaveEvidence
  BY DEF CvInit, RowNamesBytes, KeysHaveEvidence
<1> QED
  BY <1>3, <1>4, <1>5 DEF CvInv

\* A halted run knows nothing and needs nothing.
LEMMA CvHaltedKnows ==
  ASSUME CvTyped, cvRun' = CvHalted
  PROVE  CvKnows' /\ cvRun' = [at |-> cvRun'.at, plan |-> cvRun'.plan, todo |-> cvRun'.todo, data |-> cvRun'.data]
         /\ cvRun'.at \in CvPhases /\ cvRun'.plan \in CvPlanIds /\ cvRun'.todo \subseteq CvFiles
BY DEF CvHalted, CvKnows, CvPhases, CvPlanIds

\* Beginning a sealed plan.
LEMMA CvBeginKnows ==
  ASSUME CvTyped, PlansVouch', NEW n \in CvPlanIds, cvPlans'[n].is = "sealed", cvRun' = CvBegin(n)
  PROVE  CvKnows' /\ cvRun' = [at |-> cvRun'.at, plan |-> cvRun'.plan, todo |-> cvRun'.todo, data |-> cvRun'.data]
         /\ cvRun'.at \in CvPhases /\ cvRun'.plan \in CvPlanIds /\ cvRun'.todo \subseteq CvFiles
BY DEF CvBegin, CvKnows, CvPhases, PlansVouch

\* A plan is sealed over what an inspection finds convertible (publication_migrate).
LEMMA CvApplyInv ==
  ASSUME CvInv, NEW n \in CvPlanIds, CvApply(n)
  PROVE  CvInv'
<1> USE DEF CvInv
<1>1. UNCHANGED <<cvWorld, cvRow, cvSrc, cvDst>>
  BY DEF CvApply
<1>2. cvPlans' = [cvPlans EXCEPT ![n] = [is |-> "sealed", orig |-> Census]] /\ cvRun.at = "idle"
  BY DEF CvApply
<1>3. cvPlans' = [m \in CvPlanIds |-> [is |-> cvPlans'[m].is, orig |-> cvPlans'[m].orig]]
  BY <1>2 DEF CvTyped
<1>4. DOMAIN Census \subseteq CvFiles /\ \A f \in DOMAIN Census : Census[f] \in {"A", "B"}
  BY DEF Census, Convertible, CvTyped, CvRowSet
<1>5. cvPlans'[n].is = "sealed" /\ cvPlans'[n].orig = Census /\ \A m \in CvPlanIds : m # n => cvPlans'[m] = cvPlans[m]
  BY <1>2 DEF CvTyped
<1>6. PlansVouch'
  BY <1>4, <1>5 DEF PlansVouch
<1>7. cvRun' = CvBegin(n) \/ cvRun' = cvRun
  BY DEF CvApply
<1>8. CASE cvRun' = CvBegin(n)
  BY <1>1, <1>3, <1>5, <1>6, <1>8, CvBeginKnows DEF CvTyped, RowNamesBytes, KeysHaveEvidence
<1>9. CASE cvRun' = cvRun
  <2>1. CvKnows'
    BY <1>2, <1>9 DEF CvKnows
  <2> QED
    BY <1>1, <1>3, <1>6, <1>9, <2>1 DEF CvTyped, RowNamesBytes, KeysHaveEvidence
<1> QED
  BY <1>7, <1>8, <1>9

\* A sealed plan is taken up again.
LEMMA CvResumeInv ==
  ASSUME CvInv, NEW n \in CvPlanIds, CvResume(n)
  PROVE  CvInv'
<1> USE DEF CvInv
<1>1. UNCHANGED <<cvWorld, cvRow, cvSrc, cvDst, cvPlans>> /\ cvRun' = CvBegin(n) /\ cvPlans'[n].is = "sealed"
  BY DEF CvResume, Sealed
<1>2. PlansVouch'
  BY <1>1 DEF PlansVouch
<1>3. CvKnows' /\ CvTyped'
  BY <1>1, <1>2, CvBeginKnows DEF CvTyped
<1> QED
  BY <1>1, <1>2, <1>3 DEF RowNamesBytes, KeysHaveEvidence

\* While the candidates stay the same, so does the one at hand, and what its plan says.
LEMMA CvFileStays ==
  ASSUME cvRun'.todo = cvRun.todo, cvRun'.plan = cvRun.plan, cvPlans' = cvPlans
  PROVE  CvFile' = CvFile /\ Frozen' = Frozen
BY DEF CvFile, Frozen

\* The steps that change nothing but the run itself.
LEMMA CvRunInv ==
  ASSUME CvInv, CvNext \/ CvRead \/ CvProve
  PROVE  CvInv'
<1> USE DEF CvInv
<1>1. UNCHANGED <<cvWorld, cvRow, cvSrc, cvDst, cvPlans>>
  BY DEF CvNext, CvRead, CvProve, CvKept
<1>2. PlansVouch' /\ RowNamesBytes' /\ KeysHaveEvidence'
  BY <1>1 DEF PlansVouch, RowNamesBytes, KeysHaveEvidence
<1>3. CASE cvRun' = CvHalted
  BY <1>1, <1>2, <1>3, CvHaltedKnows DEF CvTyped
<1>4. CASE cvRun' # CvHalted
  <2>1. \/ cvRun.at = "next" /\ cvRun.todo # {} /\ cvRow[CvFile].key # "none" /\ CvGo("retire")
        \/ cvRun.at = "next" /\ cvRun.todo # {} /\ cvRow[CvFile].key = "none" /\ CvGo("read")
        \/ /\ CvAt("read") /\ Frozen \in {"none", Source} /\ cvRun' = [cvRun EXCEPT !.at = "write", !.data = Source]
        \/ CvAt("prove") /\ KeyProven /\ CvGo("commit")
    BY <1>4 DEF CvNext, CvRead, CvProve, CvRefuses, Keyed
  <2>2. cvRun'.todo = cvRun.todo /\ cvRun'.plan = cvRun.plan /\ cvRun.todo # {} /\ cvRun.at # "idle"
        /\ cvRun' = [at |-> cvRun'.at, plan |-> cvRun'.plan, todo |-> cvRun'.todo, data |-> cvRun'.data]
        /\ cvRun'.at \in {"retire", "read", "write", "commit"}
    BY <2>1 DEF CvTyped, CvGo, CvAt
  <2>3. CvTyped'
    BY <1>1, <2>2 DEF CvTyped, CvPhases
  <2>4. CvFile' = CvFile /\ Frozen' = Frozen
    BY <1>1, <2>2, CvFileStays
  <2>5. CvFile \in cvRun.todo /\ CvFile \in CvFiles
    BY <2>2, CvFileIsLeft
  <2>6. Frozen \in {"A", "B"}
    BY <2>2, <2>5 DEF Frozen, PlansVouch, CvKnows, CvTyped
  <2>0. /\ cvPlans'[cvRun'.plan].is = "sealed" /\ cvRun'.todo \subseteq DOMAIN cvPlans'[cvRun'.plan].orig
        /\ cvRun'.todo # {} /\ cvRow'[CvFile'].key = cvRow[CvFile].key
        /\ cvDst'[CvFile'].is = cvDst[CvFile].is /\ cvDst'[CvFile'].has = cvDst[CvFile].has
    BY <1>1, <2>2, <2>4 DEF CvKnows
  <2>7. cvRun.at = "next" => CvKnows'
    <3> SUFFICES ASSUME cvRun.at = "next" PROVE CvKnows'
      OBVIOUS
    <3>1. \/ cvRun'.at = "retire" /\ cvRow[CvFile].key # "none"
          \/ cvRun'.at = "read" /\ cvRow[CvFile].key = "none"
      BY <2>1 DEF CvGo, CvAt, CvTyped
    <3> QED
      BY <2>0, <3>1 DEF CvKnows
  <2>8. cvRun.at = "read" => CvKnows'
    <3> SUFFICES ASSUME cvRun.at = "read" PROVE CvKnows'
      OBVIOUS
    <3>1. cvRun'.data = Frozen /\ cvRun'.at = "write"
      BY <2>1, <2>6 DEF CvTyped, CvAt
    <3> QED
      BY <2>0, <2>4, <3>1 DEF CvKnows
  <2>9. cvRun.at = "prove" => CvKnows'
    <3> SUFFICES ASSUME cvRun.at = "prove" PROVE CvKnows'
      OBVIOUS
    <3>1. cvRun'.data = cvRun.data /\ cvRun'.at = "commit" /\ KeyProven
      BY <2>1 DEF CvTyped, CvAt, CvGo
    <3> QED
      BY <2>0, <2>4, <3>1 DEF CvKnows, KeyProven
  <2>10. CvKnows'
    BY <2>1, <2>7, <2>8, <2>9 DEF CvAt
  <2> QED
    BY <1>2, <2>3, <2>10
<1> QED
  BY <1>3, <1>4

\* The copy under the new name: written, annexed, committed, while the row still names the old path.
LEMMA CvCopyInv ==
  ASSUME CvInv, CvWrite \/ CvAdd \/ CvCommit
  PROVE  CvInv'
<1> USE DEF CvInv
<1>1. UNCHANGED <<cvWorld, cvRow, cvSrc, cvPlans>>
  BY DEF CvWrite, CvAdd, CvCommit, CvKept
<1>2. PlansVouch' /\ KeysHaveEvidence'
  BY <1>1 DEF PlansVouch, KeysHaveEvidence
<1>3. cvRun.todo # {} /\ cvRun.at \in {"write", "add", "commit"}
  BY DEF CvWrite, CvAdd, CvCommit, CvAt
<1>4. CvFile \in CvFiles /\ CvFile \in cvRun.todo
  BY <1>3, CvFileIsLeft
<1>5. cvRow[CvFile].key = "none" /\ cvRun.data = Frozen /\ Frozen \in {"A", "B"}
  BY <1>3, <1>4 DEF CvKnows, Frozen, PlansVouch, CvTyped
<1>6. cvDst[CvFile] \in CvDstSet
  BY <1>4 DEF CvTyped
<1>7. cvDst' \in [CvFiles -> CvDstSet] /\ \A f \in CvFiles : f # CvFile => cvDst'[f] = cvDst[f]
  <2>1. CASE CvWrite
    <3>1. [Nowhere EXCEPT !.is = "plain", !.has = Carried] \in CvDstSet
      BY <1>5 DEF Nowhere, CvDstSet, CvKeys, Carried
    <3> QED
      BY <1>4, <1>6, <2>1, <3>1 DEF CvWrite, CvTyped
  <2>2. CASE CvAdd
    <3>1. cvDst' = [cvDst EXCEPT ![CvFile].is = "link"] \/ cvDst' = cvDst
      BY <2>2 DEF CvAdd
    <3> QED
      BY <1>4, <1>6, <3>1 DEF CvTyped, CvDstSet
  <2>3. CASE CvCommit
    BY <1>4, <1>6, <2>3 DEF CvCommit, CvTyped, CvDstSet
  <2> QED
    BY <2>1, <2>2, <2>3
<1>8. RowNamesBytes'
  BY <1>1, <1>5, <1>7 DEF RowNamesBytes
<1>9. CASE cvRun' = CvHalted
  BY <1>1, <1>2, <1>7, <1>8, <1>9, CvHaltedKnows DEF CvTyped
<1>10. CASE cvRun' # CvHalted
  <2>1. \/ cvRun.at = "write" /\ CvGo("add")
        \/ cvRun.at = "add" /\ CvGo("prove")
        \/ cvRun.at = "commit" /\ CvGo("publish") /\ cvDst' = [cvDst EXCEPT ![CvFile].head = TRUE]
    BY <1>10 DEF CvWrite, CvAdd, CvCommit, CvRefuses, CvAt
  <2>2. /\ cvRun'.todo = cvRun.todo /\ cvRun'.plan = cvRun.plan /\ cvRun'.data = cvRun.data
        /\ cvRun' = [at |-> cvRun'.at, plan |-> cvRun'.plan, todo |-> cvRun'.todo, data |-> cvRun'.data]
        /\ cvRun'.at \in {"add", "prove", "publish"} /\ (cvRun'.at = "publish" => cvRun.at = "commit")
    BY <2>1 DEF CvTyped, CvGo
  <2>3. CvTyped'
    BY <1>1, <1>7, <2>2 DEF CvTyped, CvPhases
  <2>4. CvFile' = CvFile /\ Frozen' = Frozen
    BY <1>1, <2>2, CvFileStays
  <2>5. cvRun'.at = "publish" =>
          cvDst'[CvFile].is = "link" /\ cvDst'[CvFile].has = cvRun.data /\ cvDst'[CvFile].head
    <3> SUFFICES ASSUME cvRun'.at = "publish"
                 PROVE  cvDst'[CvFile].is = "link" /\ cvDst'[CvFile].has = cvRun.data /\ cvDst'[CvFile].head
      OBVIOUS
    <3>1. cvDst[CvFile].is = "link" /\ cvDst[CvFile].has = cvRun.data
      BY <2>2 DEF CvKnows
    <3>2. cvDst' = [cvDst EXCEPT ![CvFile].head = TRUE]
      BY <2>1, <2>2
    <3> QED
      BY <1>4, <1>6, <3>1, <3>2 DEF CvTyped, CvDstSet
  <2>6. CvKnows'
    BY <1>1, <1>3, <1>5, <2>2, <2>4, <2>5 DEF CvKnows
  <2> QED
    BY <1>2, <1>8, <2>3, <2>6
<1> QED
  BY <1>9, <1>10

\* The row moves to bytes that are committed, if it is as it was inspected.
LEMMA CvPublishInv ==
  ASSUME CvInv, CvPublish
  PROVE  CvInv'
<1> USE DEF CvInv
<1>1. UNCHANGED <<cvWorld, cvSrc, cvDst, cvPlans>> /\ cvRun.at = "publish" /\ cvRun.todo # {}
  BY DEF CvPublish, CvKept, CvAt
<1>2. PlansVouch'
  BY <1>1 DEF PlansVouch
<1>3. CvFile \in CvFiles /\ CvFile \in cvRun.todo
  BY <1>1, CvFileIsLeft
<1>4. CASE ~cvSession /\ AsFrozen
  <2>1. cvRow' = [cvRow EXCEPT ![CvFile].key = cvDst[CvFile].has] /\ CvGo("retire")
    BY <1>4 DEF CvPublish
  <2>2. /\ cvDst[CvFile].is = "link" /\ cvDst[CvFile].has = Frozen /\ cvDst[CvFile].head
        /\ cvRow[CvFile].orig = Frozen /\ Frozen \in {"A", "B"}
    BY <1>1, <1>3, <1>4 DEF CvKnows, AsFrozen, Frozen, PlansVouch, CvTyped
  <2>3. cvRow[CvFile] \in CvRowSet
    BY <1>3 DEF CvTyped
  <2>4. /\ cvRow' \in [CvFiles -> CvRowSet]
        /\ cvRow'[CvFile].key = Frozen /\ cvRow'[CvFile].orig = Frozen
        /\ \A f \in CvFiles : f # CvFile => cvRow'[f] = cvRow[f]
    BY <1>3, <2>1, <2>2, <2>3 DEF CvTyped, CvRowSet, CvKeys
  <2>5. RowNamesBytes' /\ KeysHaveEvidence'
    BY <1>1, <2>2, <2>4 DEF RowNamesBytes, KeysHaveEvidence
  <2>6. /\ cvRun'.todo = cvRun.todo /\ cvRun'.plan = cvRun.plan /\ cvRun'.at = "retire"
        /\ cvRun' = [at |-> cvRun'.at, plan |-> cvRun'.plan, todo |-> cvRun'.todo, data |-> cvRun'.data]
    BY <2>1 DEF CvTyped, CvGo
  <2>7. CvFile' = CvFile
    BY <1>1, <2>6, CvFileStays
  <2>8. CvKnows'
    BY <1>1, <2>2, <2>4, <2>6, <2>7 DEF CvKnows
  <2>9. CvTyped'
    BY <1>1, <2>4, <2>6 DEF CvTyped, CvPhases
  <2> QED
    BY <1>2, <2>5, <2>8, <2>9
<1>5. CASE ~(~cvSession /\ AsFrozen)
  <2>1. cvRow' = cvRow /\ cvRun' = CvHalted
    BY <1>5 DEF CvPublish, CvRefuses
  <2> QED
    BY <1>1, <1>2, <2>1, CvHaltedKnows DEF CvTyped, RowNamesBytes, KeysHaveEvidence
<1> QED
  BY <1>4, <1>5

\* The old path goes only after the row has left it.
LEMMA CvRetireInv ==
  ASSUME CvInv, CvRetire \/ CvRetired
  PROVE  CvInv'
<1> USE DEF CvInv
<1>1. UNCHANGED <<cvWorld, cvRow, cvDst, cvPlans>> /\ cvRun.at \in {"retire", "retired"} /\ cvRun.todo # {}
  BY DEF CvRetire, CvRetired, CvKept, CvAt
<1>2. PlansVouch' /\ KeysHaveEvidence'
  BY <1>1 DEF PlansVouch, KeysHaveEvidence
<1>3. CvFile \in CvFiles /\ cvRow[CvFile].key # "none"
  BY <1>1, CvFileIsLeft DEF CvKnows
<1>4. cvSrc[CvFile] \in CvSrcSet
  BY <1>3 DEF CvTyped
<1>5. cvSrc' \in [CvFiles -> CvSrcSet] /\ \A f \in CvFiles : f # CvFile => cvSrc'[f] = cvSrc[f]
  <2>1. \/ cvSrc' = cvSrc
        \/ cvSrc' = [cvSrc EXCEPT ![CvFile] = [work |-> "none", index |-> FALSE, head |-> cvSrc[CvFile].head]]
        \/ cvSrc' = [cvSrc EXCEPT ![CvFile].head = FALSE]
    BY DEF CvRetire, CvRetired
  <2>2. CASE cvSrc' = cvSrc
    BY <2>2 DEF CvTyped
  <2>3. CASE cvSrc' = [cvSrc EXCEPT ![CvFile] = [work |-> "none", index |-> FALSE, head |-> cvSrc[CvFile].head]]
    BY <1>3, <1>4, <2>3 DEF CvTyped, CvSrcSet
  <2>4. CASE cvSrc' = [cvSrc EXCEPT ![CvFile].head = FALSE]
    BY <1>3, <1>4, <2>4 DEF CvTyped, CvSrcSet
  <2> QED
    BY <2>1, <2>2, <2>3, <2>4
<1>6. RowNamesBytes'
  BY <1>1, <1>3, <1>5 DEF RowNamesBytes
<1>7. CASE cvRun' = CvHalted
  BY <1>1, <1>2, <1>5, <1>6, <1>7, CvHaltedKnows DEF CvTyped
<1>8. CASE CvDone
  <2>1. /\ cvRun'.todo = cvRun.todo \ {CvFile} /\ cvRun'.plan = cvRun.plan /\ cvRun'.at = "next"
        /\ cvRun' = [at |-> cvRun'.at, plan |-> cvRun'.plan, todo |-> cvRun'.todo, data |-> cvRun'.data]
    BY <1>8 DEF CvTyped, CvDone
  <2>2. CvKnows'
    BY <1>1, <2>1 DEF CvKnows
  <2>3. CvTyped'
    BY <1>1, <1>5, <2>1 DEF CvTyped, CvPhases
  <2> QED
    BY <1>2, <1>6, <2>2, <2>3
<1>9. CASE CvGo("retired")
  <2>1. /\ cvRun'.todo = cvRun.todo /\ cvRun'.plan = cvRun.plan /\ cvRun'.at = "retired"
        /\ cvRun' = [at |-> cvRun'.at, plan |-> cvRun'.plan, todo |-> cvRun'.todo, data |-> cvRun'.data]
    BY <1>9 DEF CvTyped, CvGo
  <2>2. CvFile' = CvFile
    BY <1>1, <2>1, CvFileStays
  <2>3. CvKnows'
    BY <1>1, <1>3, <2>1, <2>2 DEF CvKnows
  <2>4. CvTyped'
    BY <1>1, <1>5, <2>1 DEF CvTyped, CvPhases
  <2> QED
    BY <1>2, <1>6, <2>3, <2>4
<1> QED
  BY <1>7, <1>8, <1>9 DEF CvRetire, CvRetired, CvRefuses

\* A crash leaves at most a torn copy at a path that no row names; nobody else writes rows that
\* are converted.
LEMMA CvAroundInv ==
  ASSUME CvInv, \/ CvCrash \/ CvSessionMoves
                \/ \E n \in CvPlanIds : CvSpoil(n)
                \/ \E f \in CvFiles : CvRewrite(f) \/ CvRot(f)
  PROVE  CvInv'
<1> USE DEF CvInv
<1>1. CASE CvCrash
  <2>1. UNCHANGED <<cvWorld, cvRow, cvSrc, cvPlans>> /\ cvRun' = CvHalted
    BY <1>1 DEF CvCrash, Happens, CvRefuses
  <2>2. \/ cvDst' = cvDst
        \/ /\ cvRun.at = "write" /\ cvRun.todo # {}
           /\ cvDst' = [cvDst EXCEPT ![CvFile] = [is |-> "plain", has |-> "torn", head |-> cvDst[CvFile].head]]
    BY <1>1 DEF CvCrash, CvAt
  <2>3. cvDst' \in [CvFiles -> CvDstSet] /\ RowNamesBytes'
    <3>1. CASE cvDst' = cvDst
      BY <2>1, <3>1 DEF CvTyped, RowNamesBytes
    <3>2. CASE /\ cvRun.at = "write" /\ cvRun.todo # {}
               /\ cvDst' = [cvDst EXCEPT ![CvFile] = [is |-> "plain", has |-> "torn", head |-> cvDst[CvFile].head]]
      <4>1. CvFile \in CvFiles /\ cvRow[CvFile].key = "none"
        BY <3>2, CvFileIsLeft DEF CvKnows
      <4>2. cvDst[CvFile] \in CvDstSet
        BY <4>1 DEF CvTyped
      <4>3. cvDst' \in [CvFiles -> CvDstSet] /\ \A f \in CvFiles : f # CvFile => cvDst'[f] = cvDst[f]
        BY <3>2, <4>1, <4>2 DEF CvTyped, CvDstSet, CvKeys
      <4> QED
        BY <2>1, <4>1, <4>3 DEF RowNamesBytes
    <3> QED
      BY <2>2, <3>1, <3>2
  <2> QED
    BY <2>1, <2>3, CvHaltedKnows DEF CvTyped, PlansVouch, KeysHaveEvidence
<1>2. CASE CvSessionMoves
  <2>1. UNCHANGED <<cvWorld, cvRow, cvSrc, cvDst, cvPlans, cvRun>>
    BY <1>2 DEF CvSessionMoves, Happens
  <2>2. CvKnows'
    BY <2>1, CvFileStays DEF CvKnows
  <2> QED
    BY <2>1, <2>2 DEF CvTyped, PlansVouch, RowNamesBytes, KeysHaveEvidence
<1>3. ASSUME NEW n \in CvPlanIds, CvSpoil(n)
      PROVE  CvInv'
  <2>1. UNCHANGED <<cvWorld, cvRow, cvSrc, cvDst, cvRun>> /\ cvRun.at = "idle"
    BY <1>3 DEF CvSpoil, Happens
  <2>2. \/ cvPlans' = [cvPlans EXCEPT ![n].is = "torn"]
        \/ cvPlans' = [cvPlans EXCEPT ![n] = [is |-> "edited", orig |-> cvWorld.orig]]
    BY <1>3 DEF CvSpoil
  <2>3. cvPlans' = [m \in CvPlanIds |-> [is |-> cvPlans'[m].is, orig |-> cvPlans'[m].orig]]
    BY <2>2 DEF CvTyped
  <2>4. \A m \in CvPlanIds : cvPlans'[m].is = "sealed" => cvPlans'[m] = cvPlans[m]
    BY <2>2 DEF CvTyped
  <2>5. PlansVouch'
    BY <2>4 DEF PlansVouch
  <2>6. CvKnows'
    BY <2>1 DEF CvKnows
  <2> QED
    BY <2>1, <2>3, <2>5, <2>6 DEF CvTyped, RowNamesBytes, KeysHaveEvidence
<1>4. ASSUME NEW f \in CvFiles, CvRewrite(f)
      PROVE  CvInv'
  <2>1. UNCHANGED <<cvWorld, cvSrc, cvDst, cvPlans, cvRun>> /\ cvRow[f].key = "none"
    BY <1>4 DEF CvRewrite, Happens
  <2>2. PICK o \in {"A", "B"} : cvRow' = [cvRow EXCEPT ![f].orig = o]
    BY <1>4 DEF CvRewrite
  <2>3. cvRow[f] \in CvRowSet
    BY DEF CvTyped
  <2>4. /\ cvRow' \in [CvFiles -> CvRowSet] /\ cvRow'[f].key = "none"
        /\ \A g \in CvFiles : g # f => cvRow'[g] = cvRow[g]
    BY <2>1, <2>2, <2>3 DEF CvTyped, CvRowSet
  <2>5. \A g \in CvFiles : cvRow'[g].key = cvRow[g].key
    BY <2>1, <2>4
  <2>6. CvKnows'
    BY <2>1, <2>5, CvFileStays, CvFileIsLeft DEF CvKnows
  <2>7. RowNamesBytes' /\ KeysHaveEvidence'
    BY <2>1, <2>4, <2>5 DEF RowNamesBytes, KeysHaveEvidence
  <2> QED
    BY <2>1, <2>4, <2>6, <2>7 DEF CvTyped, PlansVouch
<1>5. ASSUME NEW f \in CvFiles, CvRot(f)
      PROVE  CvInv'
  <2>1. UNCHANGED <<cvWorld, cvRow, cvDst, cvPlans, cvRun>> /\ cvSrc' = [cvSrc EXCEPT ![f].work = "B"]
    BY <1>5 DEF CvRot, Happens
  <2>2. cvSrc[f] \in CvSrcSet
    BY DEF CvTyped
  <2>3. /\ cvSrc' \in [CvFiles -> CvSrcSet]
        /\ \A g \in CvFiles : cvSrc'[g].head = cvSrc[g].head /\ cvSrc'[g].index = cvSrc[g].index
    BY <2>1, <2>2 DEF CvTyped, CvSrcSet
  <2>4. CvKnows'
    BY <2>1, CvFileStays DEF CvKnows
  <2>5. RowNamesBytes' /\ KeysHaveEvidence'
    BY <2>1, <2>3 DEF RowNamesBytes, KeysHaveEvidence
  <2> QED
    BY <2>1, <2>3, <2>4, <2>5 DEF CvTyped, PlansVouch
<1> QED
  BY <1>1, <1>2, <1>3, <1>4, <1>5

\* Every step of a conversion, and whatever happens around it, keeps the invariant.
LEMMA CvStepInv == CvInv /\ [CvAny]_cvVars => CvInv'
<1> SUFFICES ASSUME CvInv, [CvAny]_cvVars PROVE CvInv'
  OBVIOUS
<1>1. CASE UNCHANGED cvVars
  <2>1. UNCHANGED <<cvWorld, cvRow, cvSrc, cvDst, cvPlans, cvRun>>
    BY <1>1 DEF cvVars
  <2>2. CvKnows'
    BY <2>1, CvFileStays DEF CvInv, CvKnows
  <2> QED
    BY <2>1, <2>2 DEF CvInv, CvTyped, PlansVouch, RowNamesBytes, KeysHaveEvidence
<1>2. CASE CvStep
  BY <1>2, CvRunInv, CvCopyInv, CvPublishInv, CvRetireInv DEF CvStep
<1>3. CASE \E n \in CvPlanIds : CvApply(n) \/ CvResume(n)
  BY <1>3, CvApplyInv, CvResumeInv
<1> QED
  BY <1>1, <1>2, <1>3, CvAroundInv DEF CvAny

\* At every moment of a conversion, and after every crash of it, a row names committed bytes, by a
\* digest it vouched for (publication_migrate._convert_archives).
THEOREM ConversionKeepsRows == CvSpec => []ConversionSound
<1>1. CvInv => ConversionSound
  BY DEF CvInv, CvTyped, ConversionSound, CvTypeOK, CvRowSet, CvKeys, CvPhases
<1> QED
  BY <1>1, CvInitInv, CvStepInv, PTL DEF CvSpec

-----------------------------------------------------------------------------
(* Restoring, judging and repairing                                        *)

\* A set of names or of labels that has any has a first one.
LEMMA FirstIsThere ==
  ASSUME NEW S, S \subseteq Nat, S # {}
  PROVE  First(S) \in S
<1>1. PICK m \in S : \A k \in S : <<k, m>> \notin OpToRel(<, Nat)
  BY WFMin, NatLessThanWellFounded, Zenon
<1>2. \A k \in S : ~(k < m)
  BY <1>1, Zenon DEF OpToRel
<1>3. \A k \in S : m <= k
  BY <1>2
<1> QED
  BY <1>1, <1>3 DEF First

\* What agreeing sources say: one digest, nothing, or a conflict (archive_hash.py).
LEMMA AgreedIs ==
  ASSUME NEW N, N \subseteq Digests
  PROVE  /\ Agreed(N) \in {"A", "B", "none", "conflict"}
         /\ Agreed(N) = "none" <=> N = {}
         /\ Agreed(N) = "conflict" <=> N = Digests
         /\ \A e \in Digests : Agreed(N) = e <=> N = {e}
<1>1. IsFiniteSet({}) /\ Cardinality({}) = 0
  BY FS_EmptySet
<1>2. \A x : IsFiniteSet({x}) /\ Cardinality({x}) = 1
  BY FS_Singleton
<1>3. Cardinality({"A"} \cup {"B"}) = 2
  <2>1. IsFiniteSet({"A"}) /\ Cardinality({"A"}) = 1 /\ "B" \notin {"A"}
    BY <1>2
  <2>2. Cardinality({"A"} \cup {"B"}) = IF "B" \in {"A"} THEN Cardinality({"A"}) ELSE Cardinality({"A"}) + 1
    BY <2>1, FS_AddElement, Zenon
  <2> QED
    BY <2>1, <2>2
<1>4. N = {} \/ N = {"A"} \/ N = {"B"} \/ N = {"A"} \cup {"B"}
  BY DEF Digests
<1>5. CASE N = {}
  BY <1>1, <1>5 DEF Agreed, Digests
<1>6. CASE N = {"A"}
  <2>1. Cardinality(N) = 1
    BY <1>2, <1>6
  <2>2. (CHOOSE e \in N : TRUE) = "A"
    BY <1>6
  <2> QED
    BY <2>1, <2>2, <1>6 DEF Agreed, Digests
<1>7. CASE N = {"B"}
  <2>1. Cardinality(N) = 1
    BY <1>2, <1>7
  <2>2. (CHOOSE e \in N : TRUE) = "B"
    BY <1>7
  <2> QED
    BY <2>1, <2>2, <1>7 DEF Agreed, Digests
<1>8. CASE N = {"A"} \cup {"B"}
  <2>1. Cardinality(N) = 2
    BY <1>3, <1>8
  <2> QED
    BY <2>1, <1>8 DEF Agreed, Digests
<1> QED
  BY <1>4, <1>5, <1>6, <1>7, <1>8

\* The digest a copy must have, by its sources.
LEMMA ExpectedIs ==
  ASSUME NEW s, NEW o
  PROVE  /\ Expected(s, o) \in {"A", "B", "none", "conflict"}
         /\ Expected(s, o) = "none" <=> Sources(s, o) \cap Digests = {}
         /\ Expected(s, o) = "conflict" <=> Sources(s, o) \cap Digests = Digests
         /\ \A e \in Digests : Expected(s, o) = e <=> Sources(s, o) \cap Digests = {e}
<1> DEFINE N == Sources(s, o) \cap Digests
<1>1. N \subseteq Digests /\ Expected(s, o) = Agreed(N)
  BY DEF Expected
<1> HIDE DEF N
<1>2. /\ Agreed(N) \in {"A", "B", "none", "conflict"}
      /\ Agreed(N) = "none" <=> N = {}
      /\ Agreed(N) = "conflict" <=> N = Digests
      /\ \A e \in Digests : Agreed(N) = e <=> N = {e}
  BY <1>1, AgreedIs
<1> QED
  BY <1>1, <1>2 DEF N

-----------------------------------------------------------------------------
(* What is where                                                            *)

RcMarks == Digests \cup {"none", "norow"}
RcStates == [up : BOOLEAN, auth : BOOLEAN, clean : BOOLEAN, pub : BOOLEAN, lost : BOOLEAN, busy : BOOLEAN]

RcTyped ==
  /\ rcWorld \in RcWorlds
  /\ rcRows \in [RcSlots -> RcMarks] /\ rcHeld \in [RcSlots -> Digests \cup {"gone", "never"}]
  /\ rcDrive \in [RcDrives -> RcStates]
  /\ rcRs = [at |-> rcRs.at, snap |-> rcRs.snap, todo |-> rcRs.todo, tried |-> rcRs.tried, drive |-> rcRs.drive,
             auth |-> rcRs.auth, fence |-> rcRs.fence, got |-> rcRs.got, sure |-> rcRs.sure]
  /\ rcRs.at \in {"idle", "copy", "read", "write", "done", "failed", "occupied", "incomplete"}
  /\ rcRs.snap \in [RcSlots -> RcMarks] /\ rcRs.todo \subseteq RcFiles
  /\ rcRs.fence \in BOOLEAN /\ rcRs.sure \in BOOLEAN
  /\ rcDest = [is |-> rcDest.is, got |-> rcDest.got] /\ rcDest.is \in {"free", "empty", "full", "ours"}
  /\ rcRp = [at |-> rcRp.at, repairs |-> rcRp.repairs]
  /\ rcRp.at \in {"idle", "audited", "backed", "done", "refused"}
  /\ rcState = [d \in RcDrives |-> rcState[d]]

\* A drive that a restore reads on a version-nine catalog is not written to.
RcFenced ==
  rcRs.fence => /\ rcWorld.v9 /\ rcRs.at \in {"read", "write"}
                /\ rcRs.drive \in RcDrives /\ ~rcDrive[rcRs.drive].busy

\* What an action outside the restore leaves alone.
RsKept ==
  /\ rcWorld' = rcWorld
  /\ rcRs' = [rcRs EXCEPT !.sure = rcRs'.sure] /\ rcRs'.sure \in BOOLEAN /\ (rcRs'.sure => rcRs.sure)
  /\ \A s \in RcSlots : rcRows'[s] \in RcMarks /\ (rcRows[s] # "norow" => rcRows'[s] # "norow")
  /\ rcDest' = rcDest \/ (rcDest.is = "free" /\ rcDest'.is # "ours")

\* Everybody but the restore.
Bystander ==
  \/ RcReverify \/ RcAudit \/ RcBackup \/ RcApply \/ RcRival
  \/ \E d \in RcDrives : RcDriveRepair(d) \/ RcMount(d) \/ RcPromote(d) \/ RcFill(d) \/ RcFillDies(d)
  \/ \E s \in RcSlots : RcRot(s) \/ RcDrop(s) \/ RcFilled(s)

\* The fields of a world.
LEMMA WorldIs ==
  ASSUME rcWorld \in RcWorlds
  PROVE  /\ rcWorld.rows \in [RcSlots -> RcMarks] /\ rcWorld.held \in [RcSlots -> Digests \cup {"gone", "never"}]
         /\ rcWorld.drive \in [RcDrives -> RcStates]
         /\ rcWorld.cat \in [RcFiles -> Digests \cup {"none", "absent"}]
         /\ rcWorld.key \in [RcSlots -> Digests \cup {"none"}] /\ rcWorld.head \in [RcSlots -> Digests \cup {"none"}]
         /\ rcWorld.packed \subseteq RcSlots /\ rcWorld.plan \subseteq RcFiles
         /\ (rcWorld.policy => rcWorld.plan # {})
         /\ rcWorld.policy \in BOOLEAN /\ rcWorld.v9 \in BOOLEAN
         /\ rcWorld.need \in Nat /\ rcWorld.left \in Nat
BY RcWorldsAssumption DEF RcMarks, RcStates

\* The bytes that the committed file proves are the bytes that are there.
LEMMA CommittedIs ==
  ASSUME RcTyped, NEW s \in RcSlots
  PROVE  Committed(s) \in Digests \cup {"none"} /\ (Committed(s) # "none" => Committed(s) = rcHeld[s])
BY DEF Committed, Digests

\* A row without any digest in its sources says "none" if it says anything.
LEMMA UnprovenIs ==
  ASSUME RcTyped, NEW s \in RcSlots, s \in Unproven
  PROVE  /\ rcRows[s] = "none" /\ rcWorld.cat[s[1]] \notin Digests /\ "none" \notin Digests
         /\ \A o : Sources(s, o) \cap Digests = {o} \cap Digests
<1>1. Sources(s, rcRows[s]) \cap Digests = {}
  BY ExpectedIs DEF Unproven
<1>2. rcRows[s] \notin Digests /\ rcWorld.cat[s[1]] \notin Digests
  BY <1>1 DEF Sources
<1>3. \A o : Sources(s, o) \cap Digests = {o} \cap Digests
  BY <1>1 DEF Sources
<1>4. rcRows[s] \in RcMarks /\ rcRows[s] # "norow"
  BY DEF Unproven, Joined, Recorded, RcTyped
<1> QED
  BY <1>2, <1>3, <1>4 DEF RcMarks, Digests

\* What repair_hashes writes: the committed bytes of every row without a proof, nothing else.
LEMMA ApplyWrites ==
  ASSUME RcTyped, RcApply, Confirmed, Bumpable, NEW s \in RcSlots
  PROVE  /\ rcRows'[s] = IF s \in Unproven THEN Committed(s) ELSE rcRows[s]
         /\ s \in Unproven => Provable(s) /\ Committed(s) \in Digests
<1>1. rcRows'[s] = IF \E r \in rcRp.repairs : r[1] = s
                   THEN (CHOOSE r \in rcRp.repairs : r[1] = s)[2] ELSE rcRows[s]
  BY DEF RcApply
<1>2. rcRp.repairs = ProvenRows /\ \A t \in Unproven : Provable(t)
  BY DEF Confirmed, Auditable
<1>3. \A r \in ProvenRows : r[1] \in Unproven /\ r = <<r[1], Committed(r[1])>>
  BY DEF ProvenRows
<1>4. CASE s \in Unproven
  <2>1. <<s, Committed(s)>> \in ProvenRows
    BY <1>2, <1>4 DEF ProvenRows
  <2>2. <<s, Committed(s)>>[1] = s
    OBVIOUS
  <2>3. \E r \in rcRp.repairs : r[1] = s
    BY <2>1, <2>2, <1>2
  <2> DEFINE c == CHOOSE r \in rcRp.repairs : r[1] = s
  <2>4. c \in ProvenRows /\ c[1] = s
    BY <2>3, <1>2
  <2>5. rcRows'[s] = c[2]
    BY <1>1, <2>3
  <2> HIDE DEF c
  <2>6. c = <<s, Committed(s)>>
    BY <2>4, <1>3
  <2>7. Provable(s) /\ Committed(s) \in Digests
    BY <1>2, <1>4, CommittedIs DEF Provable
  <2> QED
    BY <2>5, <2>6, <2>7, <1>4
<1>5. CASE s \notin Unproven
  BY <1>1, <1>2, <1>3, <1>5
<1> QED
  BY <1>4, <1>5

\* What run_explicit_drive_repair may write: the annex key or the committed bytes.
LEMMA DigestIs ==
  ASSUME RcTyped, NEW s \in RcSlots
  PROVE  /\ Digest(s) \in Digests \cup {"none"}
         /\ Digest(s) # "none" => Digest(s) \in {rcHeld[s], rcWorld.key[s]} /\ Digest(s) \in Digests
BY CommittedIs DEF Digest, Digests


\* Only what was already recorded is repaired, and Fill records more: no row is taken away.
LEMMA BystanderKeeps ==
  ASSUME RcTyped, RcFenced, Bystander
  PROVE  RsKept /\ RcTyped' /\ RcFenced'
<1> USE DEF RcTyped, RcFenced, RsKept
<1>1. CASE RcReverify
  BY <1>1 DEF RcReverify
<1>2. CASE RcAudit
  BY <1>2 DEF RcAudit, RpOnly
<1>3. CASE RcBackup
  BY <1>3 DEF RcBackup, RpOnly
<1>4. CASE RcApply
  <2>1. rcRp' = [at |-> rcRp'.at, repairs |-> rcRp'.repairs] /\ rcRp'.at \in {"done", "refused"}
    BY <1>4 DEF RcApply
  <2>2. UNCHANGED <<rcWorld, rcHeld, rcDrive, rcRs, rcDest, rcState>>
    BY <1>4 DEF RcApply, RpOnly
  <2>3. rcRows' \in [RcSlots -> RcMarks] /\ \A s \in RcSlots : rcRows[s] # "norow" => rcRows'[s] # "norow"
    <3>1. CASE Confirmed /\ Bumpable
      <4>1. \A s \in RcSlots : rcRows'[s] \in RcMarks /\ (rcRows[s] # "norow" => rcRows'[s] # "norow")
        BY <1>4, <3>1, ApplyWrites DEF RcMarks, Digests
      <4>2. rcRows' = [s \in RcSlots |-> rcRows'[s]]
        BY <1>4, <3>1 DEF RcApply
      <4> QED
        BY <4>1, <4>2
    <3>2. CASE ~(Confirmed /\ Bumpable)
      BY <1>4, <3>2 DEF RcApply
    <3> QED
      BY <3>1, <3>2
  <2> QED
    BY <2>1, <2>2, <2>3
<1>5. CASE RcRival
  BY <1>5 DEF RcRival, Event
<1>6. ASSUME NEW d \in RcDrives, RcDriveRepair(d)
      PROVE  RsKept /\ RcTyped' /\ RcFenced'
  <2>1. UNCHANGED <<rcWorld, rcHeld, rcDrive, rcDest, rcRp>>
    BY <1>6 DEF RcDriveRepair
  <2>2. PICK same \in BOOLEAN :
          IF ~same \/ HubDisagrees(d)
          THEN rcState' = [rcState EXCEPT ![d] = "halted"] /\ UNCHANGED <<rcRows, rcRs, rcVerdict>>
          ELSE /\ rcRows' = [s \in RcSlots |-> IF s \in Unresolved(d) THEN Digest(s) ELSE rcRows[s]]
               /\ LET left == {s \in DriveRows(d, rcRows') : rcRows'[s] = "none"}
                  IN rcState' = [rcState EXCEPT ![d] =
                       IF left = {} /\ (rcDrive[d].up \/ DriveRows(d, rcRows) # {}) THEN "complete"
                       ELSE IF ~rcDrive[d].up /\ ~rcDrive[d].lost THEN "blocked_absent"
                       ELSE "needs_refetch"]
               /\ rcRs' = [rcRs EXCEPT !.sure = (rcRs.sure /\ rcRows' = rcRows)]
    BY <1>6 DEF RcDriveRepair
  <2>3. rcState' = [e \in RcDrives |-> rcState'[e]]
    BY <2>2
  <2>4. CASE ~same \/ HubDisagrees(d)
    BY <2>1, <2>2, <2>3, <2>4
  <2>5. CASE ~(~same \/ HubDisagrees(d))
    <3>1. rcRows' = [s \in RcSlots |-> IF s \in Unresolved(d) THEN Digest(s) ELSE rcRows[s]]
      BY <2>2, <2>5
    <3>2. rcRs' = [rcRs EXCEPT !.sure = (rcRs.sure /\ rcRows' = rcRows)]
      BY <2>2, <2>5
    <3>3. \A s \in RcSlots : rcRows'[s] \in RcMarks /\ (rcRows[s] # "norow" => rcRows'[s] # "norow")
      BY <3>1, DigestIs DEF RcMarks, Digests
    <3>4. rcRows' \in [RcSlots -> RcMarks]
      BY <3>1, <3>3
    <3> QED
      BY <2>1, <2>3, <3>2, <3>3, <3>4
  <2> QED
    BY <2>4, <2>5
<1>7. ASSUME NEW d \in RcDrives, RcMount(d) \/ RcPromote(d) \/ RcFill(d) \/ RcFillDies(d)
      PROVE  RsKept /\ RcTyped' /\ RcFenced'
  <2>1. UNCHANGED <<rcWorld, rcHeld, rcRows, rcDest, rcRp, rcState>> /\ rcRs' = [rcRs EXCEPT !.sure = FALSE]
    BY <1>7 DEF RcMount, RcPromote, RcFill, RcFillDies, Event
  <2>2. rcDrive[d] \in RcStates
    OBVIOUS
  <2>3. rcDrive' \in [RcDrives -> RcStates]
    <3>1. CASE RcMount(d)
      BY <2>2, <3>1 DEF RcMount, RcStates
    <3>2. CASE RcPromote(d)
      BY <2>2, <3>2 DEF RcPromote, RcStates
    <3>3. CASE RcFill(d)
      BY <2>2, <3>3 DEF RcFill, RcStates
    <3>4. CASE RcFillDies(d)
      <4> DEFINE freed == [rcDrive EXCEPT ![d].busy = FALSE]
      <4>1. freed \in [RcDrives -> RcStates]
        BY <2>2 DEF RcStates
      <4>2. rcDrive' = [freed EXCEPT ![d].clean = FALSE]
        BY <3>4 DEF RcFillDies
      <4> HIDE DEF freed
      <4>3. freed[d] \in RcStates
        BY <4>1
      <4> QED
        BY <4>1, <4>2, <4>3 DEF RcStates
    <3> QED
      BY <1>7, <3>1, <3>2, <3>3, <3>4
  <2>4. rcRs.fence => ~rcDrive'[rcRs.drive].busy
    <3>1. CASE RcMount(d)
      BY <2>2, <3>1 DEF RcMount, RcStates
    <3>2. CASE RcPromote(d)
      BY <2>2, <3>2 DEF RcPromote, RcStates
    <3>3. CASE RcFill(d)
      BY <2>2, <3>3 DEF RcFill, RcStates
    <3>4. CASE RcFillDies(d)
      <4> DEFINE freed == [rcDrive EXCEPT ![d].busy = FALSE]
      <4>1. freed \in [RcDrives -> RcStates] /\ \A e \in RcDrives : freed[e].busy = TRUE => rcDrive[e].busy = TRUE
        BY <2>2 DEF RcStates
      <4>2. rcDrive' = [freed EXCEPT ![d].clean = FALSE]
        BY <3>4 DEF RcFillDies
      <4> HIDE DEF freed
      <4>3. freed[d] \in RcStates
        BY <4>1
      <4>4. \A e \in RcDrives : rcDrive'[e].busy = freed[e].busy
        BY <4>1, <4>2, <4>3 DEF RcStates
      <4> QED
        BY <4>1, <4>4, <2>3 DEF RcStates
    <3> QED
      BY <1>7, <3>1, <3>2, <3>3, <3>4
  <2> QED
    BY <2>1, <2>3, <2>4
<1>8. ASSUME NEW s \in RcSlots, RcRot(s) \/ RcDrop(s)
      PROVE  RsKept /\ RcTyped' /\ RcFenced'
  BY <1>8 DEF RcRot, RcDrop, Event, Digests
<1>9. ASSUME NEW s \in RcSlots, RcFilled(s)
      PROVE  RsKept /\ RcTyped' /\ RcFenced'
  <2>1. UNCHANGED <<rcWorld, rcDest, rcRp, rcState>> /\ rcRs' = [rcRs EXCEPT !.sure = FALSE]
    BY <1>9 DEF RcFilled
  <2>2. rcRows' \in [RcSlots -> RcMarks] /\ \A t \in RcSlots : rcRows[t] # "norow" => rcRows'[t] # "norow"
    BY <1>9 DEF RcFilled, RcMarks, Digests
  <2>3. rcHeld' \in [RcSlots -> Digests \cup {"gone", "never"}]
    BY <1>9 DEF RcFilled, Digests
  <2>4. rcDrive' = [rcDrive EXCEPT ![s[2]].busy = FALSE] /\ s[2] \in RcDrives
    BY <1>9 DEF RcFilled, RcSlots
  <2>5. rcDrive[s[2]] \in RcStates
    BY <2>4
  <2>6. rcDrive' \in [RcDrives -> RcStates] /\ (rcRs.fence => ~rcDrive'[rcRs.drive].busy)
    BY <2>4, <2>5 DEF RcStates
  <2> QED
    BY <2>1, <2>2, <2>3, <2>6
<1> QED
  BY <1>1, <1>2, <1>3, <1>4, <1>5, <1>6, <1>7, <1>8, <1>9 DEF Bystander


\* The restore's own steps.
Restoring == RcRestore \/ RcAdmit \/ RcFetch \/ RcWrite \/ RcGiveUp \/ RcPublish \/ RcCrash

\* While a restore copies, the file it copies is one of those left.
LEMMA CurrentIsLeft ==
  ASSUME RcTyped, rcRs.todo # {}
  PROVE  Current \in rcRs.todo /\ Current \in RcFiles
BY FirstIsThere, RcNamesAssumption DEF RcTyped, Current

\* The copy tried next is a recorded one that was not tried.
LEMMA UntriedIsThere ==
  ASSUME RcTyped, Untried # {}
  PROVE  First(Untried) \in Untried /\ First(Untried) \in RcDrives
BY FirstIsThere, RcNamesAssumption DEF Untried

\* What is planned has names of the repository.
LEMMA PlannedIs ==
  ASSUME rcWorld \in RcWorlds, NEW rows
  PROVE  Planned(rows) \subseteq RcFiles
BY WorldIs DEF Planned, Archived, Recorded, RcSlots

\* The types, and what is fenced, through a restore.
LEMMA RestoringTyped ==
  ASSUME RcTyped, RcFenced, Restoring
  PROVE  RcTyped' /\ RcFenced'
<1> USE DEF RcTyped, RcFenced
<1>0. rcWorld.v9 \in BOOLEAN
  BY WorldIs
<1>1. CASE RcRestore
  BY <1>1, PlannedIs DEF RcRestore
<1>2. CASE RcAdmit
  <2> DEFINE d == First(Untried)
  <2>1. d \in RcDrives /\ d \in Untried
    BY <1>2, UntriedIsThere DEF RcAdmit
  <2>2. rcRs' = IF rcDrive[d].up /\ Fit(d)
                THEN [rcRs EXCEPT !.at = "read", !.drive = d, !.auth = rcDrive[d].auth, !.fence = rcWorld.v9]
                ELSE [rcRs EXCEPT !.tried = @ \cup {d}]
    BY <1>2 DEF RcAdmit
  <2>3. UNCHANGED <<rcWorld, rcRows, rcHeld, rcDrive, rcDest, rcRp, rcState>> /\ rcRs.at = "copy"
    BY <1>2 DEF RcAdmit, RsOnly
  <2>4. rcWorld.v9 /\ Fit(d) => ~rcDrive[d].busy
    BY DEF Fit
  <2> HIDE DEF d
  <2>5. CASE rcDrive[d].up /\ Fit(d)
    BY <1>0, <2>1, <2>2, <2>3, <2>4, <2>5
  <2>6. CASE ~(rcDrive[d].up /\ Fit(d))
    BY <2>1, <2>2, <2>3, <2>6
  <2> QED
    BY <2>5, <2>6
<1>3. CASE RcFetch
  <2>1. rcHeld' \in [RcSlots -> Digests \cup {"gone", "never"}]
    BY <1>3 DEF RcFetch, Digests
  <2>2. UNCHANGED <<rcWorld, rcRows, rcDrive, rcDest, rcRp, rcState>> /\ rcRs.at = "read"
    BY <1>3 DEF RcFetch, RsOnly
  <2>3. rcRs' = [rcRs EXCEPT !.at = "write"] \/ rcRs' = NextCopy
    BY <1>3 DEF RcFetch
  <2>4. CASE rcRs' = [rcRs EXCEPT !.at = "write"]
    BY <2>1, <2>2, <2>4
  <2>5. CASE rcRs' = NextCopy
    BY <2>1, <2>2, <2>5 DEF NextCopy
  <2> QED
    BY <2>3, <2>4, <2>5
<1>4. CASE RcWrite
  <2>1. UNCHANGED <<rcWorld, rcRows, rcHeld, rcDrive, rcDest, rcRp, rcState>>
    BY <1>4 DEF RcWrite, RsOnly
  <2>2. \/ rcRs' = [rcRs EXCEPT !.at = "failed", !.fence = FALSE]
        \/ rcRs' = NextCopy
        \/ rcRs' = [NextCopy EXCEPT !.sure = FALSE]
        \/ \E g : rcRs' = [rcRs EXCEPT !.at = "copy", !.todo = @ \ {Current}, !.tried = {}, !.fence = FALSE, !.got = g]
    BY <1>4 DEF RcWrite
  <2>3. CASE rcRs' = [rcRs EXCEPT !.at = "failed", !.fence = FALSE]
    BY <2>1, <2>3
  <2>4. CASE rcRs' = NextCopy
    BY <2>1, <2>4 DEF NextCopy
  <2>5. CASE rcRs' = [NextCopy EXCEPT !.sure = FALSE]
    BY <2>1, <2>5 DEF NextCopy
  <2>6. ASSUME NEW g,
               rcRs' = [rcRs EXCEPT !.at = "copy", !.todo = @ \ {Current}, !.tried = {}, !.fence = FALSE, !.got = g]
        PROVE  RcTyped' /\ RcFenced'
    BY <2>1, <2>6
  <2> QED
    BY <2>2, <2>3, <2>4, <2>5, <2>6
<1>5. CASE RcGiveUp
  BY <1>5 DEF RcGiveUp, RsOnly
<1>6. CASE RcPublish
  BY <1>6 DEF RcPublish
<1>7. CASE RcCrash
  BY <1>7 DEF RcCrash
<1> QED
  BY <1>1, <1>2, <1>3, <1>4, <1>5, <1>6, <1>7 DEF Restoring

-----------------------------------------------------------------------------
(* What a tree is made of                                                   *)

\* The bytes c of the file f are named by the evidence the restore has read.
Evident(f, c) ==
  /\ rcWorld.cat[f] \in Digests => c = rcWorld.cat[f]
  /\ \E s \in CopiesOf(f, Recorded(rcRs.snap)) : c \in Sources(s, rcRs.snap[s])

\* A restore that copies has every planned file, proven, or has it to do.
RcCopying ==
  rcRs.at \in {"copy", "read", "write", "done"} =>
    /\ Planned(rcRs.snap) # {} /\ Planned(rcRs.snap) \subseteq Archived(rcRs.snap)
    /\ rcRs.todo \cup DOMAIN rcRs.got = Planned(rcRs.snap)
    /\ \A f \in DOMAIN rcRs.got : Evident(f, rcRs.got[f])
    /\ rcRs.at \in {"read", "write"} => rcRs.todo # {} /\ rcRs.drive \in RcDrives /\ rcRs.snap[Slot] # "norow"
    /\ rcRs.at = "done" => rcRs.todo = {}

RcTree ==
  /\ rcRs.at = "idle" => rcRs.got = <<>> /\ ~rcRs.sure /\ rcRs.tried = {}
  /\ RcCopying
  /\ rcDest.is = "ours" => rcRs.at = "done" /\ rcDest.got = rcRs.got
  /\ rcRs.at = "incomplete" =>
       Planned(rcRs.snap) = {} \/ Archived(rcRs.snap) = {} \/ ~(Planned(rcRs.snap) \subseteq Archived(rcRs.snap))
  /\ \A s \in RcSlots : rcRs.snap[s] # "norow" => rcRows[s] # "norow"

\* Evidence that was read once stays read.
LEMMA EvidentStays ==
  ASSUME rcWorld' = rcWorld, rcRs'.snap = rcRs.snap, \A f \in DOMAIN rcRs'.got : Evident(f, rcRs'.got[f])
  PROVE  (\A f \in DOMAIN rcRs.got : Evident(f, rcRs.got[f]))'
BY DEF Evident, Sources, Recorded, CopiesOf

\* As long as the restore keeps its notes, they stay right.
LEMMA NotesStay ==
  ASSUME RcCopying, rcWorld' = rcWorld, rcRs'.snap = rcRs.snap, rcRs'.got = rcRs.got, rcRs'.todo = rcRs.todo,
         rcRs'.at \in {"copy", "read", "write", "done"} => rcRs.at \in {"copy", "read", "write", "done"},
         rcRs'.at \in {"read", "write"} =>
           \/ rcRs.at \in {"read", "write"} /\ rcRs'.drive = rcRs.drive
           \/ rcRs.todo # {} /\ rcRs'.drive \in RcDrives /\ rcRs.snap[<<Current, rcRs'.drive>>] # "norow",
         rcRs'.at = "done" => rcRs.todo = {}
  PROVE  RcCopying'
<1>1. Planned(rcRs.snap)' = Planned(rcRs.snap) /\ Archived(rcRs.snap)' = Archived(rcRs.snap)
  BY DEF Planned, Archived, Recorded
<1>2. Current' = Current
  BY DEF Current
<1>3. Slot' = <<Current, rcRs'.drive>> /\ Slot = <<Current, rcRs.drive>>
  BY <1>2 DEF Slot
<1>4. SUFFICES ASSUME rcRs'.at \in {"copy", "read", "write", "done"}
               PROVE  RcCopying'
  BY DEF RcCopying
<1>5. \A f \in DOMAIN rcRs.got : Evident(f, rcRs.got[f])
  BY <1>4 DEF RcCopying
<1>6. (\A f \in DOMAIN rcRs.got : Evident(f, rcRs.got[f]))'
  BY <1>5, EvidentStays
<1>7. rcRs'.at \in {"read", "write"} =>
        rcRs'.todo # {} /\ rcRs'.drive \in RcDrives /\ rcRs'.snap[Slot'] # "norow"
  BY <1>3 DEF RcCopying
<1> HIDE DEF Current
<1> QED
  BY <1>1, <1>4, <1>6, <1>7 DEF RcCopying

\* Nobody else disturbs a tree.
LEMMA BystanderTree ==
  ASSUME RcTyped, RcTree, RsKept
  PROVE  RcTree'
<1>1. /\ rcRs'.at = rcRs.at /\ rcRs'.snap = rcRs.snap /\ rcRs'.got = rcRs.got /\ rcRs'.todo = rcRs.todo
      /\ rcRs'.drive = rcRs.drive /\ rcRs'.tried = rcRs.tried /\ (rcRs'.sure => rcRs.sure) /\ rcWorld' = rcWorld
  BY DEF RsKept, RcTyped
<1>2. RcCopying'
  BY <1>1, NotesStay DEF RcTree, RcCopying
<1>3. Planned(rcRs.snap)' = Planned(rcRs.snap) /\ Archived(rcRs.snap)' = Archived(rcRs.snap)
  BY <1>1 DEF Planned, Archived, Recorded
<1>4. rcDest'.is = "ours" => rcDest' = rcDest
  BY DEF RsKept
<1>5. \A s \in RcSlots : rcRs'.snap[s] # "norow" => rcRows'[s] # "norow"
  BY <1>1 DEF RsKept, RcTree
<1> QED
  BY <1>1, <1>2, <1>3, <1>4, <1>5 DEF RcTree

\* A tree grows by files that their evidence names (_materialize), and becomes the destination
\* when nothing is left to do (restore_repo).
LEMMA RestoringTree ==
  ASSUME RcTyped, RcFenced, RcTree, Restoring
  PROVE  RcTree'
<1>1. CASE RcRestore
  <2>1. /\ rcRs'.snap = rcRows /\ rcRs'.todo = Planned(rcRows) /\ rcRs'.got = rcRs.got
        /\ rcRs'.at = IF /\ Planned(rcRows) # {} /\ Archived(rcRows) # {}
                         /\ Planned(rcRows) \subseteq Archived(rcRows) /\ rcDest.is = "free"
                      THEN "copy"
                      ELSE IF rcDest.is # "free" THEN "occupied" ELSE "incomplete"
    BY <1>1 DEF RcRestore, RcTyped
  <2>2. UNCHANGED <<rcWorld, rcRows, rcDest>> /\ rcRs.at = "idle"
    BY <1>1 DEF RcRestore
  <2>3. Planned(rcRs.snap)' = Planned(rcRows) /\ Archived(rcRs.snap)' = Archived(rcRows)
    BY <2>1, <2>2 DEF Planned, Archived, Recorded
  <2>4. rcRs'.got = <<>> /\ DOMAIN rcRs'.got = {}
    BY <2>1, <2>2 DEF RcTree
  <2>5. rcDest'.is # "ours" /\ rcRs'.at # "idle" /\ rcRs'.at \notin {"read", "write", "done"}
    BY <2>1, <2>2 DEF RcTree
  <2>6. RcCopying'
    BY <2>1, <2>3, <2>4, <2>5 DEF RcCopying
  <2>7. rcRs'.at = "incomplete" =>
          Planned(rcRows) = {} \/ Archived(rcRows) = {} \/ ~(Planned(rcRows) \subseteq Archived(rcRows))
    BY <2>1
  <2> QED
    BY <2>1, <2>2, <2>3, <2>5, <2>6, <2>7 DEF RcTree
<1>2. CASE RcAdmit
  <2> DEFINE d == First(Untried)
  <2>1. d \in RcDrives /\ d \in Untried
    BY <1>2, UntriedIsThere DEF RcAdmit
  <2>2. rcRs.snap[<<Current, d>>] # "norow"
    BY <2>1 DEF Untried
  <2>3. rcRs' = IF rcDrive[d].up /\ Fit(d)
                THEN [rcRs EXCEPT !.at = "read", !.drive = d, !.auth = rcDrive[d].auth, !.fence = rcWorld.v9]
                ELSE [rcRs EXCEPT !.tried = @ \cup {d}]
    BY <1>2 DEF RcAdmit
  <2>4. UNCHANGED <<rcWorld, rcRows, rcDest>> /\ rcRs.at = "copy" /\ rcRs.todo # {}
    BY <1>2 DEF RcAdmit, RsOnly
  <2> HIDE DEF d
  <2>5. /\ rcRs'.snap = rcRs.snap /\ rcRs'.got = rcRs.got /\ rcRs'.todo = rcRs.todo
        /\ (rcRs'.at = "read" /\ rcRs'.drive = d) \/ rcRs'.at = "copy"
    BY <2>3, <2>4 DEF RcTyped
  <2>6. RcCopying'
    BY <2>1, <2>2, <2>4, <2>5, NotesStay DEF RcTree
  <2> QED
    BY <2>4, <2>5, <2>6 DEF RcTree
<1>3. CASE RcFetch
  <2>1. UNCHANGED <<rcWorld, rcRows, rcDest>> /\ rcRs.at = "read"
    BY <1>3 DEF RcFetch, RsOnly
  <2>2. /\ rcRs'.snap = rcRs.snap /\ rcRs'.got = rcRs.got /\ rcRs'.todo = rcRs.todo /\ rcRs'.drive = rcRs.drive
        /\ rcRs'.at \in {"write", "copy"}
    BY <1>3, <2>1 DEF RcFetch, NextCopy, RcTyped
  <2>3. RcCopying'
    BY <2>1, <2>2, NotesStay DEF RcTree
  <2> QED
    BY <2>1, <2>2, <2>3 DEF RcTree
<1>4. CASE RcWrite
  <2> DEFINE e == Expected(Slot, rcRs.snap[Slot])
  <2>1. UNCHANGED <<rcWorld, rcRows, rcDest>> /\ rcRs.at = "write"
    BY <1>4 DEF RcWrite, RsOnly
  <2>2. \/ rcRs' = [rcRs EXCEPT !.at = "failed", !.fence = FALSE]
        \/ rcRs' = NextCopy
        \/ rcRs' = [NextCopy EXCEPT !.sure = FALSE]
        \/ /\ e \in Digests /\ Genuine(e)
           /\ rcRs' = [rcRs EXCEPT !.at = "copy", !.todo = @ \ {Current}, !.tried = {}, !.fence = FALSE,
                        !.got = [f \in DOMAIN @ \cup {Current} |->
                                   IF f = Current THEN rcHeld[Slot] ELSE @[f]]]
    BY <1>4 DEF RcWrite
  <2>3. CASE \/ rcRs' = [rcRs EXCEPT !.at = "failed", !.fence = FALSE]
             \/ rcRs' = NextCopy
             \/ rcRs' = [NextCopy EXCEPT !.sure = FALSE]
    <3>1. /\ rcRs'.snap = rcRs.snap /\ rcRs'.got = rcRs.got /\ rcRs'.todo = rcRs.todo
          /\ rcRs'.at \in {"failed", "copy"}
      BY <2>3 DEF NextCopy, RcTyped
    <3>2. RcCopying'
      BY <2>1, <3>1, NotesStay DEF RcTree
    <3> QED
      BY <2>1, <3>1, <3>2 DEF RcTree
  <2>4. CASE /\ e \in Digests /\ Genuine(e)
             /\ rcRs' = [rcRs EXCEPT !.at = "copy", !.todo = @ \ {Current}, !.tried = {}, !.fence = FALSE,
                          !.got = [f \in DOMAIN @ \cup {Current} |->
                                     IF f = Current THEN rcHeld[Slot] ELSE @[f]]]
    <3> DEFINE g == [f \in DOMAIN rcRs.got \cup {Current} |-> IF f = Current THEN rcHeld[Slot] ELSE rcRs.got[f]]
    <3>1. rcRs' = [rcRs EXCEPT !.at = "copy", !.todo = @ \ {Current}, !.tried = {}, !.fence = FALSE, !.got = g]
      BY <2>4
    <3>2. /\ DOMAIN g = DOMAIN rcRs.got \cup {Current} /\ g[Current] = rcHeld[Slot]
          /\ \A f \in DOMAIN rcRs.got : f # Current => g[f] = rcRs.got[f]
      OBVIOUS
    <3> HIDE DEF g
    <3>3. rcRs'.snap = rcRs.snap /\ rcRs'.got = g /\ rcRs'.todo = rcRs.todo \ {Current} /\ rcRs'.at = "copy"
      BY <3>1 DEF RcTyped
    <3>4. Current \in rcRs.todo /\ Current \in RcFiles /\ rcRs.drive \in RcDrives /\ rcRs.snap[Slot] # "norow"
      BY <2>1, CurrentIsLeft DEF RcTree, RcCopying
    <3>5. Slot \in RcSlots /\ Slot[1] = Current
      BY <3>4 DEF Slot, RcSlots
    <3>6. Slot \in CopiesOf(Current, Recorded(rcRs.snap))
      BY <3>4, <3>5 DEF CopiesOf, Recorded
    <3>7. Sources(Slot, rcRs.snap[Slot]) \cap Digests = {rcHeld[Slot]}
      BY <2>4, ExpectedIs DEF Genuine
    <3>8. rcWorld.cat[Current] \in Sources(Slot, rcRs.snap[Slot])
      BY <3>5 DEF Sources
    <3>9. Evident(Current, rcHeld[Slot])
      <4>1. rcWorld.cat[Current] \in Digests => rcHeld[Slot] = rcWorld.cat[Current]
        BY <3>7, <3>8
      <4>2. rcHeld[Slot] \in Sources(Slot, rcRs.snap[Slot])
        BY <3>7
      <4> QED
        BY <3>6, <4>1, <4>2 DEF Evident
    <3>10. \A f \in DOMAIN g : Evident(f, g[f])
      BY <2>1, <3>2, <3>9 DEF RcTree, RcCopying
    <3>11. (\A f \in DOMAIN rcRs.got : Evident(f, rcRs.got[f]))'
      BY <2>1, <3>3, <3>10, EvidentStays
    <3>12. Planned(rcRs.snap)' = Planned(rcRs.snap) /\ Archived(rcRs.snap)' = Archived(rcRs.snap)
      BY <2>1, <3>3 DEF Planned, Archived, Recorded
    <3>13. rcRs'.todo \cup DOMAIN rcRs'.got = Planned(rcRs.snap)
      BY <2>1, <3>2, <3>3, <3>4 DEF RcTree, RcCopying
    <3>14. Planned(rcRs.snap) # {} /\ Planned(rcRs.snap) \subseteq Archived(rcRs.snap)
      BY <2>1 DEF RcTree, RcCopying
    <3>15. RcCopying'
      BY <3>3, <3>11, <3>12, <3>13, <3>14 DEF RcCopying
    <3> QED
      BY <2>1, <3>3, <3>15 DEF RcTree
  <2> QED
    BY <2>2, <2>3, <2>4
<1>5. CASE RcGiveUp
  <2>1. /\ UNCHANGED <<rcWorld, rcRows, rcDest>> /\ rcRs.at = "copy"
        /\ rcRs'.snap = rcRs.snap /\ rcRs'.got = rcRs.got /\ rcRs'.todo = rcRs.todo /\ rcRs'.at = "failed"
    BY <1>5 DEF RcGiveUp, RsOnly, RcTyped
  <2>2. RcCopying'
    BY <2>1, NotesStay DEF RcTree
  <2> QED
    BY <2>1, <2>2 DEF RcTree
<1>6. CASE RcPublish
  <2>1. /\ UNCHANGED <<rcWorld, rcRows>> /\ rcRs.at = "copy" /\ rcRs.todo = {}
        /\ rcRs'.snap = rcRs.snap /\ rcRs'.got = rcRs.got /\ rcRs'.todo = rcRs.todo
        /\ rcRs'.at = IF Replaceable THEN "done" ELSE "occupied"
        /\ rcDest' = IF Replaceable THEN [is |-> "ours", got |-> rcRs.got] ELSE rcDest
    BY <1>6 DEF RcPublish, RcTyped
  <2>2. RcCopying'
    BY <2>1, NotesStay DEF RcTree
  <2> QED
    BY <2>1, <2>2 DEF RcTree
<1>7. CASE RcCrash
  <2>1. /\ UNCHANGED <<rcWorld, rcRows, rcDest>> /\ rcRs.at # "done"
        /\ rcRs'.snap = rcRs.snap /\ rcRs'.got = <<>> /\ rcRs'.tried = {} /\ rcRs'.at = "idle" /\ rcRs'.sure = FALSE
    BY <1>7 DEF RcCrash, RcTyped
  <2> QED
    BY <2>1 DEF RcTree, RcCopying
<1> QED
  BY <1>1, <1>2, <1>3, <1>4, <1>5, <1>6, <1>7 DEF Restoring


-----------------------------------------------------------------------------
(* What a verdict promises                                                  *)

RcGood(s) == rcDrive[s[2]].up /\ rcHeld[s] \in Digests /\ Expected(s, rcRows[s]) = rcHeld[s]

\* Every recorded copy is at hand and is what its evidence names; nothing of the manifest is missing.
RcAllGood ==
  /\ rcWorld.policy /\ rcWorld.plan \subseteq Archived(rcRows)
  /\ \A s \in Recorded(rcRows) : RcGood(s)

RcPromise ==
  /\ rcRp.at \in {"audited", "backed"} => rcRp.repairs # {}
  /\ rcVerdict = "verified" => RcAllGood
  /\ rcRs.sure =>
       /\ RcAllGood /\ Undisturbed /\ rcRs.snap = rcRows /\ rcRs.at \notin {"failed", "incomplete"}
       /\ rcRs.at \in {"copy", "read", "write"} => rcRs.tried = {}

\* What reverify calls verified is all good (verifier.reverify).
LEMMA VerifiedIs ==
  ASSUME rcWorld \in RcWorlds, NEW N, Verdict(Mounted, N) = "verified"
  PROVE  RcAllGood
<1>1. rcWorld.policy /\ \A s \in Recorded(rcRows) : Check(s, Mounted, N) = "good"
  BY DEF Verdict
<1>2. rcWorld.plan \subseteq Archived(rcRows)
  BY <1>1 DEF Verdict
<1>3. ASSUME NEW s \in Recorded(rcRows)
      PROVE  RcGood(s)
  <2>1. Check(s, Mounted, N) = "good"
    BY <1>1
  <2>2. s[2] \in Mounted /\ rcHeld[s] \in Digests
    BY <2>1 DEF Check
  <2>3. Expected(s, rcRows[s]) = rcHeld[s]
    BY <2>1, <2>2 DEF Check
  <2> QED
    BY <2>2, <2>3 DEF RcGood, Mounted
<1> QED
  BY <1>1, <1>2, <1>3 DEF RcAllGood

\* Nothing of what is judged changes.
LEMMA AllGoodStays ==
  ASSUME RcAllGood, rcWorld' = rcWorld, rcRows' = rcRows, rcHeld' = rcHeld, rcDrive' = rcDrive
  PROVE  RcAllGood'
<1>1. Recorded(rcRows)' = Recorded(rcRows) /\ Archived(rcRows)' = Archived(rcRows)
  BY DEF Recorded, Archived
<1>2. ASSUME NEW s \in Recorded(rcRows)
      PROVE  RcGood(s)'
  <2>1. RcGood(s)
    BY DEF RcAllGood
  <2>2. Expected(s, rcRows[s])' = Expected(s, rcRows[s])
    BY DEF Expected, Sources
  <2> QED
    BY <2>1, <2>2 DEF RcGood
<1> QED
  BY <1>1, <1>2 DEF RcAllGood

\* A step that touches neither what is judged nor the notes keeps the promise.
LEMMA PromiseStays ==
  ASSUME RcPromise, UNCHANGED <<rcWorld, rcRows, rcHeld, rcDrive, rcVerdict>>,
         rcRs'.sure => /\ rcRs.sure /\ rcRs'.snap = rcRs.snap /\ rcRs'.at \notin {"failed", "incomplete"}
                       /\ rcRs'.at \in {"copy", "read", "write"} => rcRs'.tried = {},
         rcRp'.at \in {"audited", "backed"} => rcRp'.repairs # {}
  PROVE  RcPromise'
<1>1. RcAllGood => RcAllGood'
  BY AllGoodStays
<1>2. Undisturbed => Undisturbed'
  BY DEF Undisturbed
<1> HIDE DEF RcAllGood, Undisturbed
<1> QED
  BY <1>1, <1>2 DEF RcPromise

\* As long as all is good, no row is without a proof and no repair has anything to write.
LEMMA GoodNeedsNoRepair ==
  ASSUME RcTyped, RcAllGood
  PROVE  Unproven = {}
<1> SUFFICES ASSUME NEW s \in Unproven PROVE FALSE
  OBVIOUS
<1>1. s \in Recorded(rcRows) /\ Expected(s, rcRows[s]) = "none"
  BY DEF Unproven, Joined
<1>2. rcHeld[s] \in Digests /\ Expected(s, rcRows[s]) = rcHeld[s]
  BY <1>1 DEF RcAllGood, RcGood
<1> QED
  BY <1>1, <1>2 DEF Digests

\* What is verified stays so until something else happens, which makes the verdict stale.
LEMMA BystanderPromise ==
  ASSUME RcTyped, RcTree, RcPromise, Bystander
  PROVE  RcPromise'
<1>1. CASE RcReverify
  <2>1. PICK N \in Unreadable : rcVerdict' = Verdict(Mounted, N)
    BY <1>1 DEF RcReverify
  <2>2. UNCHANGED <<rcWorld, rcRows, rcHeld, rcDrive, rcRs, rcRp>>
    BY <1>1 DEF RcReverify
  <2>3. rcVerdict' = "verified" => RcAllGood
    BY <2>1, VerifiedIs DEF RcTyped
  <2>4. RcAllGood => RcAllGood'
    BY <2>2, AllGoodStays
  <2>5. Undisturbed => Undisturbed'
    BY <2>2 DEF Undisturbed
  <2> HIDE DEF RcAllGood, Undisturbed
  <2> QED
    BY <2>2, <2>3, <2>4, <2>5 DEF RcPromise
<1>2. CASE RcAudit
  <2>1. UNCHANGED <<rcWorld, rcRows, rcHeld, rcDrive, rcVerdict, rcRs>>
    BY <1>2 DEF RcAudit, RpOnly
  <2>2. rcRp'.at \in {"audited", "backed"} => rcRp'.repairs # {}
    <3>1. CASE ~rcSession /\ Auditable /\ Unproven # {}
      <4>1. PICK s : s \in Unproven
        BY <3>1
      <4>2. <<s, Committed(s)>> \in ProvenRows
        BY <3>1, <4>1 DEF ProvenRows, Auditable
      <4> QED
        BY <1>2, <3>1, <4>2 DEF RcAudit
    <3>2. CASE ~(~rcSession /\ Auditable /\ Unproven # {})
      BY <1>2, <3>2 DEF RcAudit, RcTyped
    <3> QED
      BY <3>1, <3>2
  <2> QED
    BY <2>1, <2>2, PromiseStays DEF RcPromise
<1>3. CASE RcBackup
  <2>1. UNCHANGED <<rcWorld, rcRows, rcHeld, rcDrive, rcVerdict, rcRs>>
    BY <1>3 DEF RcBackup, RpOnly
  <2>2. rcRp'.repairs = rcRp.repairs /\ rcRp.at = "audited"
    BY <1>3 DEF RcBackup, RcTyped
  <2> QED
    BY <2>1, <2>2, PromiseStays DEF RcPromise
<1>4. CASE RcApply
  <2>1. UNCHANGED <<rcWorld, rcHeld, rcDrive, rcRs>> /\ rcRp.at = "backed" /\ rcRp'.at \in {"done", "refused"}
    BY <1>4 DEF RcApply, RpOnly, RcTyped
  <2>2. CASE Confirmed /\ Bumpable
    <3>1. rcVerdict' = "stale"
      BY <1>4, <2>2 DEF RcApply
    <3>2. PICK r \in ProvenRows : TRUE
      BY <2>1, <2>2 DEF RcPromise, Confirmed
    <3>3. Unproven # {}
      BY DEF ProvenRows
    <3>4. ~rcRs.sure
      BY <3>3, GoodNeedsNoRepair DEF RcPromise
    <3> QED
      BY <2>1, <3>1, <3>4 DEF RcPromise
  <2>3. CASE ~(Confirmed /\ Bumpable)
    <3>1. UNCHANGED <<rcRows, rcVerdict>>
      BY <1>4, <2>3 DEF RcApply
    <3> QED
      BY <2>1, <3>1, PromiseStays DEF RcPromise
  <2> QED
    BY <2>2, <2>3
<1>5. ASSUME NEW d \in RcDrives, RcDriveRepair(d)
      PROVE  RcPromise'
  <2>1. UNCHANGED <<rcWorld, rcHeld, rcDrive, rcRp>>
    BY <1>5 DEF RcDriveRepair
  <2>2. \/ UNCHANGED <<rcRows, rcRs, rcVerdict>>
        \/ rcVerdict' = "stale" /\ rcRs' = [rcRs EXCEPT !.sure = (rcRs.sure /\ rcRows' = rcRows)]
    BY <1>5 DEF RcDriveRepair
  <2>3. CASE UNCHANGED <<rcRows, rcRs, rcVerdict>>
    BY <2>1, <2>3, PromiseStays DEF RcPromise
  <2>4. CASE rcVerdict' = "stale" /\ rcRs' = [rcRs EXCEPT !.sure = (rcRs.sure /\ rcRows' = rcRows)]
    <3>1. /\ rcRs'.sure => rcRs.sure /\ rcRows' = rcRows
          /\ rcRs'.snap = rcRs.snap /\ rcRs'.at = rcRs.at /\ rcRs'.tried = rcRs.tried
      BY <2>4 DEF RcTyped
    <3>2. rcRows' = rcRows /\ RcAllGood => RcAllGood'
      BY <2>1, AllGoodStays
    <3>3. Undisturbed => Undisturbed'
      BY <2>1 DEF Undisturbed
    <3> HIDE DEF RcAllGood, Undisturbed
    <3> QED
      BY <2>1, <2>4, <3>1, <3>2, <3>3 DEF RcPromise
  <2> QED
    BY <2>2, <2>3, <2>4
<1>6. ASSUME rcVerdict' = "stale", rcRs'.sure = FALSE, rcRp' = rcRp
      PROVE  RcPromise'
  BY <1>6 DEF RcPromise
<1>7. CASE RcRival
  BY <1>6, <1>7 DEF RcRival, Event, RcTyped
<1>8. ASSUME NEW d \in RcDrives, RcMount(d) \/ RcPromote(d) \/ RcFill(d) \/ RcFillDies(d)
      PROVE  RcPromise'
  BY <1>6, <1>8 DEF RcMount, RcPromote, RcFill, RcFillDies, Event, RcTyped
<1>9. ASSUME NEW s \in RcSlots, RcRot(s) \/ RcDrop(s) \/ RcFilled(s)
      PROVE  RcPromise'
  BY <1>6, <1>9 DEF RcRot, RcDrop, RcFilled, Event, RcTyped
<1> QED
  BY <1>1, <1>2, <1>3, <1>4, <1>5, <1>7, <1>8, <1>9 DEF Bystander

\* A restore of what was verified finds every copy fit and genuine, and tries none in vain.
LEMMA RestoringPromise ==
  ASSUME RcTyped, RcFenced, RcTree, RcPromise, Restoring
  PROVE  RcPromise'
<1>0. rcRs.sure /\ rcRs.at \in {"read", "write"} =>
        /\ Slot \in Recorded(rcRows) /\ RcGood(Slot) /\ rcRs.snap = rcRows
  <2> SUFFICES ASSUME rcRs.sure, rcRs.at \in {"read", "write"}
               PROVE  /\ Slot \in Recorded(rcRows) /\ RcGood(Slot) /\ rcRs.snap = rcRows
    OBVIOUS
  <2>1. rcRs.todo # {} /\ rcRs.drive \in RcDrives /\ rcRs.snap[Slot] # "norow"
    BY DEF RcTree, RcCopying
  <2>2. Slot \in RcSlots
    BY <2>1, CurrentIsLeft DEF Slot, RcSlots
  <2> QED
    BY <2>1, <2>2 DEF RcPromise, RcAllGood, Recorded
<1>1. CASE RcRestore
  <2>1. /\ rcRs'.snap = rcRows /\ rcRs'.tried = rcRs.tried
        /\ rcRs'.sure = (rcVerdict = "verified" /\ Undisturbed)
        /\ rcRs'.at = IF /\ Planned(rcRows) # {} /\ Archived(rcRows) # {}
                         /\ Planned(rcRows) \subseteq Archived(rcRows) /\ rcDest.is = "free"
                      THEN "copy"
                      ELSE IF rcDest.is # "free" THEN "occupied" ELSE "incomplete"
    BY <1>1 DEF RcRestore, RcTyped
  <2>2. UNCHANGED <<rcWorld, rcRows, rcHeld, rcDrive, rcVerdict, rcRp>> /\ rcRs.tried = {}
    BY <1>1 DEF RcRestore, RcTree
  <2>3. RcAllGood => RcAllGood'
    BY <2>2, AllGoodStays
  <2>4. Undisturbed => Undisturbed'
    BY <2>2 DEF Undisturbed
  <2>5. RcAllGood => rcRs'.at \notin {"failed", "incomplete"}
    BY <2>1, WorldIs DEF RcAllGood, Planned, RcTyped
  <2> HIDE DEF RcAllGood, Undisturbed
  <2> QED
    BY <2>1, <2>2, <2>3, <2>4, <2>5 DEF RcPromise
<1>2. CASE RcAdmit
  <2> DEFINE d == First(Untried)
  <2>1. d \in RcDrives /\ d \in Untried
    BY <1>2, UntriedIsThere DEF RcAdmit
  <2>2. rcRs' = IF rcDrive[d].up /\ Fit(d)
                THEN [rcRs EXCEPT !.at = "read", !.drive = d, !.auth = rcDrive[d].auth, !.fence = rcWorld.v9]
                ELSE [rcRs EXCEPT !.tried = @ \cup {d}]
    BY <1>2 DEF RcAdmit
  <2>3. UNCHANGED <<rcWorld, rcRows, rcHeld, rcDrive, rcVerdict, rcRp>> /\ rcRs.at = "copy" /\ rcRs.todo # {}
    BY <1>2 DEF RcAdmit, RsOnly
  <2>4. rcRs.snap[<<Current, d>>] # "norow" /\ Current \in RcFiles
    BY <2>1, <2>3, CurrentIsLeft DEF Untried
  <2> HIDE DEF d
  <2>5. rcRs.sure => rcDrive[d].up /\ Fit(d)
    <3> SUFFICES ASSUME rcRs.sure PROVE rcDrive[d].up /\ Fit(d)
      OBVIOUS
    <3>1. RcAllGood /\ Undisturbed /\ rcRs.snap = rcRows
      BY DEF RcPromise
    <3>2. <<Current, d>> \in Recorded(rcRows)
      BY <2>1, <2>4, <3>1 DEF Recorded, RcSlots
    <3>3. rcDrive[d].up
      BY <3>1, <3>2 DEF RcAllGood, RcGood
    <3>4. Fit(d)
      BY <2>1, <3>1 DEF Fit, Undisturbed
    <3> QED
      BY <3>3, <3>4
  <2>6. rcRs'.sure = rcRs.sure /\ rcRs'.snap = rcRs.snap /\ (rcRs.sure => rcRs'.at = "read" /\ rcRs'.tried = rcRs.tried)
    BY <2>2, <2>5 DEF RcTyped
  <2> QED
    BY <2>3, <2>6, PromiseStays DEF RcPromise
<1>3. CASE RcFetch
  <2>1. UNCHANGED <<rcWorld, rcRows, rcDrive, rcVerdict, rcRp>> /\ rcRs.at = "read"
    BY <1>3 DEF RcFetch, RsOnly
  <2>2. \/ rcRs' = [rcRs EXCEPT !.at = "write"] /\ rcHeld' = rcHeld
        \/ rcHeld[Slot] = "gone" /\ rcRs' = [rcRs EXCEPT !.at = "write"]
        \/ rcHeld[Slot] \notin Digests /\ rcRs' = NextCopy
    BY <1>3 DEF RcFetch
  <2>3. Slot \in Recorded(rcRows)
    <3>1. rcRs.todo # {} /\ rcRs.drive \in RcDrives /\ rcRs.snap[Slot] # "norow"
      BY <2>1 DEF RcTree, RcCopying
    <3>2. Slot \in RcSlots
      BY <3>1, CurrentIsLeft DEF Slot, RcSlots
    <3> QED
      BY <3>1, <3>2 DEF RcTree, Recorded
  <2>4. CASE rcHeld[Slot] \in Digests
    <3>1. rcRs' = [rcRs EXCEPT !.at = "write"] /\ rcHeld' = rcHeld
      BY <2>2, <2>4 DEF Digests
    <3>2. rcRs'.sure = rcRs.sure /\ rcRs'.snap = rcRs.snap /\ rcRs'.at = "write" /\ rcRs'.tried = rcRs.tried
      BY <3>1 DEF RcTyped
    <3> QED
      BY <2>1, <3>1, <3>2, PromiseStays DEF RcPromise
  <2>5. CASE rcHeld[Slot] \notin Digests
    <3>1. ~RcAllGood
      BY <2>3, <2>5 DEF RcAllGood, RcGood
    <3>2. rcRs'.sure = rcRs.sure
      BY <1>3, <2>2 DEF NextCopy, RcTyped
    <3> QED
      BY <2>1, <3>1, <3>2 DEF RcPromise
  <2> QED
    BY <2>4, <2>5
<1>4. CASE RcWrite
  <2> DEFINE e == Expected(Slot, rcRs.snap[Slot])
  <2>1. UNCHANGED <<rcWorld, rcRows, rcHeld, rcDrive, rcVerdict, rcRp>> /\ rcRs.at = "write"
    BY <1>4 DEF RcWrite, RsOnly
  <2>2. rcRs.sure => e \in Digests /\ e = rcHeld[Slot] /\ rcHeld[Slot] \in Digests /\ Genuine(e)
    BY <1>0, <2>1 DEF RcGood, Genuine
  <2>3. \/ /\ e = "conflict" /\ rcRs' = [rcRs EXCEPT !.at = "failed", !.fence = FALSE]
        \/ /\ (e \in Digests => rcHeld[Slot] \notin Digests \/ ~Genuine(e)) /\ rcRs' = NextCopy
        \/ rcRs' = [NextCopy EXCEPT !.sure = FALSE]
        \/ \E g : rcRs' = [rcRs EXCEPT !.at = "copy", !.todo = @ \ {Current}, !.tried = {}, !.fence = FALSE, !.got = g]
    BY <1>4 DEF RcWrite
  <2>4. rcRs'.snap = rcRs.snap /\ (rcRs'.sure => rcRs.sure)
    BY <2>3 DEF NextCopy, RcTyped
  <2>5. rcRs'.sure => rcRs'.at = "copy" /\ rcRs'.tried = {}
    <3>1. "conflict" \notin Digests
      BY DEF Digests
    <3>2. CASE rcRs' = [NextCopy EXCEPT !.sure = FALSE]
      BY <3>2 DEF NextCopy, RcTyped
    <3>3. CASE \E g : rcRs' = [rcRs EXCEPT !.at = "copy", !.todo = @ \ {Current}, !.tried = {}, !.fence = FALSE, !.got = g]
      BY <3>3 DEF RcTyped
    <3> HIDE DEF e
    <3> QED
      BY <2>2, <2>3, <2>4, <3>1, <3>2, <3>3
  <2> QED
    BY <2>1, <2>4, <2>5, PromiseStays DEF RcPromise
<1>5. CASE RcGiveUp
  <2>1. UNCHANGED <<rcWorld, rcRows, rcHeld, rcDrive, rcVerdict, rcRp>> /\ rcRs.at = "copy" /\ rcRs.todo # {} /\ Untried = {}
    BY <1>5 DEF RcGiveUp, RsOnly
  <2>2. rcRs'.sure = rcRs.sure /\ rcRs'.snap = rcRs.snap
    BY <1>5 DEF RcGiveUp, RcTyped
  <2>3. ~rcRs.sure
    <3> SUFFICES ASSUME rcRs.sure PROVE FALSE
      OBVIOUS
    <3>1. Current \in Archived(rcRs.snap)
      BY <2>1, CurrentIsLeft DEF RcTree, RcCopying
    <3>2. PICK s \in RcSlots : rcRs.snap[s] # "norow" /\ s[1] = Current
      BY <3>1 DEF Archived, Recorded
    <3>3. s[2] \in RcDrives /\ s = <<Current, s[2]>>
      BY <3>2 DEF RcSlots
    <3>4. s[2] \in Untried
      BY <2>1, <3>2, <3>3 DEF Untried, RcPromise
    <3> QED
      BY <2>1, <3>4
  <2> QED
    BY <2>1, <2>2, <2>3, PromiseStays DEF RcPromise
<1>6. CASE RcPublish
  <2>1. UNCHANGED <<rcWorld, rcRows, rcHeld, rcDrive, rcVerdict, rcRp>>
    BY <1>6 DEF RcPublish
  <2>2. rcRs'.sure = rcRs.sure /\ rcRs'.snap = rcRs.snap /\ rcRs'.at \in {"done", "occupied"}
    BY <1>6 DEF RcPublish, RcTyped
  <2> QED
    BY <2>1, <2>2, PromiseStays DEF RcPromise
<1>7. CASE RcCrash
  <2>1. UNCHANGED <<rcWorld, rcRows, rcHeld, rcDrive, rcVerdict, rcRp>>
    BY <1>7 DEF RcCrash
  <2>2. rcRs'.sure = FALSE
    BY <1>7 DEF RcCrash, RcTyped
  <2> QED
    BY <2>1, <2>2, PromiseStays DEF RcPromise
<1> QED
  BY <1>1, <1>2, <1>3, <1>4, <1>5, <1>6, <1>7 DEF Restoring

-----------------------------------------------------------------------------
(* The properties                                                           *)

RcInv == RcTyped /\ RcFenced /\ RcTree /\ RcPromise

\* Whatever a catalog and its drives hold, nothing is under way at first.
LEMMA RcInitInv == RcInit => RcInv
<1> SUFFICES ASSUME RcInit PROVE RcInv
  OBVIOUS
<1>1. RcTyped /\ RcFenced
  BY WorldIs DEF RcInit, RcTyped, RcFenced
<1>2. RcTree
  BY DEF RcInit, RcTree, RcCopying
<1>3. RcPromise
  BY DEF RcInit, RcPromise
<1> QED
  BY <1>1, <1>2, <1>3 DEF RcInv

\* A step is the restore's or somebody else's.
LEMMA RcSteps == RcNext => Bystander \/ Restoring
BY DEF RcNext, RcStep, Bystander, Restoring

\* Every step keeps the invariant.
LEMMA RcStepInv == RcInv /\ [RcNext]_rcVars => RcInv'
<1> SUFFICES ASSUME RcInv, [RcNext]_rcVars PROVE RcInv'
  OBVIOUS
<1>1. CASE Bystander
  <2>1. RsKept /\ RcTyped' /\ RcFenced'
    BY <1>1, BystanderKeeps DEF RcInv
  <2>2. RcTree'
    BY <2>1, BystanderTree DEF RcInv
  <2>3. RcPromise'
    BY <1>1, BystanderPromise DEF RcInv
  <2> QED
    BY <2>1, <2>2, <2>3 DEF RcInv
<1>2. CASE Restoring
  BY <1>2, RestoringTyped, RestoringTree, RestoringPromise DEF RcInv
<1>3. CASE UNCHANGED rcVars
  <2>1. UNCHANGED <<rcWorld, rcRows, rcHeld, rcDrive, rcVerdict, rcRs, rcDest, rcRp, rcState>>
    BY <1>3 DEF rcVars
  <2>2. RcTyped' /\ RcFenced'
    BY <2>1 DEF RcInv, RcTyped, RcFenced
  <2>3. RsKept
    BY <2>1 DEF RcInv, RcTyped, RsKept
  <2>4. RcTree'
    BY <2>3, BystanderTree DEF RcInv
  <2>5. RcPromise'
    BY <2>1, PromiseStays DEF RcInv, RcPromise
  <2> QED
    BY <2>2, <2>4, <2>5 DEF RcInv
<1> QED
  BY <1>1, <1>2, <1>3, RcSteps

\* What a restore has found and what a verdict promises hold in every reachable state
\* (restore.restore_repo, verifier.reverify, hash_repair beside drives that come and go).
THEOREM RecoveryInvariant == RcSpec => []RcInv
BY RcInitInv, RcStepInv, PTL DEF RcSpec

\* A published tree is the planned one, file by file as its evidence names it.
LEMMA TreeIsProven ==
  ASSUME RcInv
  PROVE  TreeProven
<1> SUFFICES ASSUME rcDest.is = "ours"
             PROVE  /\ IF rcWorld.policy THEN rcWorld.plan = DOMAIN rcDest.got
                       ELSE Archived(rcRs.snap) = DOMAIN rcDest.got
                    /\ \A f \in DOMAIN rcDest.got : Evident(f, rcDest.got[f])
  BY DEF TreeProven, Evident
<1>1. rcRs.at = "done" /\ rcDest.got = rcRs.got
  BY DEF RcInv, RcTree
<1>2. /\ rcRs.todo \cup DOMAIN rcRs.got = Planned(rcRs.snap) /\ rcRs.todo = {}
      /\ \A f \in DOMAIN rcRs.got : Evident(f, rcRs.got[f])
  BY <1>1 DEF RcInv, RcTree, RcCopying
<1>3. DOMAIN rcDest.got = Planned(rcRs.snap)
  BY <1>1, <1>2
<1> QED
  BY <1>1, <1>2, <1>3 DEF Planned

\* Whoever is refused a restore for a missing file finds a drive to suspect (verifier.suspects).
LEMMA RefusalsSurface ==
  ASSUME RcInv
  PROVE  RefusalSurfaces
<1> SUFFICES ASSUME rcRs.at = "incomplete", rcRows = rcRs.snap, rcWorld.policy, Archived(rcRows) # {},
                    rcWorld.plan # {}
             PROVE  Suspects # {}
  BY DEF RefusalSurfaces
<1>1. ~(rcWorld.plan \subseteq Archived(rcRows))
  BY DEF RcInv, RcTree, Planned
<1>2. PICK s \in Recorded(rcRows) : TRUE
  BY DEF Archived
<1> DEFINE names == {t[1] : t \in {x \in Recorded(rcRows) : x[2] = s[2]}}
<1>3. names # {} /\ names \subseteq Archived(rcRows)
  BY <1>2 DEF Archived
<1>4. s[2] \in RcDrives
  BY <1>2 DEF Recorded, RcSlots
<1>5. s[2] \in Suspects
  BY <1>1, <1>3, <1>4 DEF Suspects
<1> QED
  BY <1>5

\* A copy that is bad with some drives shelved and some decoders missing is bad with all at hand.
LEMMA BadIsBad ==
  ASSUME NEW s \in RcSlots, NEW U, NEW N
  PROVE  /\ Check(s, U, N) \in {"good", "bad", "unknown", "offline"}
         /\ Check(s, U, N) = "bad" => Check(s, RcDrives, {}) = "bad"
<1>1. s[2] \in RcDrives
  BY DEF RcSlots
<1>2. Expected(s, rcRows[s]) \in {"A", "B", "none", "conflict"}
  BY ExpectedIs
<1>3. Check(s, U, N) \in {"good", "bad", "unknown", "offline"}
  BY DEF Check
<1>4. Check(s, U, N) = "bad" =>
        \/ rcHeld[s] \notin Digests \/ Expected(s, rcRows[s]) = "conflict"
        \/ Expected(s, rcRows[s]) # "none" /\ rcHeld[s] # Expected(s, rcRows[s])
  BY DEF Check
<1>5. \/ rcHeld[s] \notin Digests \/ Expected(s, rcRows[s]) = "conflict"
      \/ Expected(s, rcRows[s]) # "none" /\ rcHeld[s] # Expected(s, rcRows[s])
      => Check(s, RcDrives, {}) = "bad"
  BY <1>1 DEF Check
<1> QED
  BY <1>3, <1>4, <1>5

\* No verdict falls for want of a drive or of a decoder (verifier.reverify).
LEMMA AbsenceJudgesNothing ==
  ASSUME rcWorld \in RcWorlds
  PROVE  AbsenceIsNoVerdict
<1> DEFINE rows == Recorded(rcRows)
           Fine(f, U, N) == {s \in CopiesOf(f, rows) : Check(s, U, N) \in {"good", "unknown", "offline"}}
           files == IF rcWorld.policy THEN rcWorld.plan ELSE Archived(rcRows)
           mismatch == \E s \in rows : {rcRows[s], rcWorld.cat[s[1]]} = Digests
           missing == rcWorld.policy /\ ~(rcWorld.plan \subseteq Archived(rcRows))
           wrong(U, N) == \/ missing \/ mismatch
                          \/ \E f \in files : Cardinality(Fine(f, U, N)) < rcWorld.need
                          \/ \E s \in rows : Check(s, U, N) = "bad"
<1>1. IsFiniteSet(RcSlots)
  BY FS_Product, RcNamesAssumption DEF RcSlots
<1>2. ASSUME NEW U, NEW N
      PROVE  Verdict(U, N) = "failed" <=> rows # {} /\ wrong(U, N)
  BY DEF Verdict
<1>3. ASSUME NEW f, NEW U, NEW N
      PROVE  Cardinality(Fine(f, RcDrives, {})) <= Cardinality(Fine(f, U, N)) /\ Cardinality(Fine(f, U, N)) \in Nat
             /\ Cardinality(Fine(f, RcDrives, {})) \in Nat
  <2>1. Fine(f, RcDrives, {}) \subseteq Fine(f, U, N) /\ Fine(f, U, N) \subseteq RcSlots
    BY BadIsBad DEF CopiesOf, Recorded
  <2> HIDE DEF Fine
  <2>2. IsFiniteSet(Fine(f, U, N)) /\ IsFiniteSet(Fine(f, RcDrives, {}))
    BY <1>1, <2>1, FS_Subset
  <2> QED
    BY <2>1, <2>2, FS_Subset, FS_CardinalityType
<1>4. ASSUME NEW U, NEW N, wrong(U, N)
      PROVE  wrong(RcDrives, {})
  <2>1. CASE missing \/ mismatch
    BY <2>1
  <2>2. CASE \E s \in rows : Check(s, U, N) = "bad"
    BY <2>2, BadIsBad DEF Recorded
  <2>3. CASE \E f \in files : Cardinality(Fine(f, U, N)) < rcWorld.need
    <3> HIDE DEF Fine, files
    <3>1. PICK f \in files : Cardinality(Fine(f, U, N)) < rcWorld.need
      BY <2>3
    <3>2. rcWorld.need \in Nat
      BY WorldIs
    <3>3. Cardinality(Fine(f, RcDrives, {})) < rcWorld.need
      BY <1>3, <3>1, <3>2
    <3> QED
      BY <3>3
  <2> QED
    BY <1>4, <2>1, <2>2, <2>3
<1> HIDE DEF wrong, rows
<1> QED
  BY <1>2, <1>4 DEF AbsenceIsNoVerdict

\* repair_hashes writes the bytes that are there, outside a session, for all copies alike.
LEMMA ApplyGrounded ==
  ASSUME RcTyped, RcApply
  PROVE  EvidenceGrounded /\ RepairWhole
<1>1. rcState' = rcState /\ rcWorld' = rcWorld /\ rcHeld' = rcHeld
  BY DEF RcApply, RpOnly
<1>2. CASE ~(Confirmed /\ Bumpable)
  <2>1. rcRows' = rcRows /\ rcRp'.at = "refused"
    BY <1>2 DEF RcApply, RcTyped
  <2> QED
    BY <1>1, <2>1 DEF EvidenceGrounded, RepairWhole, Repaired
<1>3. CASE Confirmed /\ Bumpable
  <2>1. ASSUME NEW s \in Repaired
        PROVE  s \in RcSlots /\ s \in Unproven /\ rcRows'[s] = Committed(s) /\ Provable(s) /\ Committed(s) \in Digests
    BY <1>3, ApplyWrites DEF Repaired
  <2>2. EvidenceGrounded
    <3> SUFFICES ASSUME NEW s \in Repaired
                 PROVE  /\ rcRows[s] = "none" /\ ~rcSession
                        /\ rcRows'[s] = rcHeld[s] /\ {rcRows'[s], rcWorld.cat[s[1]]} # Digests
      BY DEF EvidenceGrounded
    <3>1. rcRows[s] = "none" /\ rcWorld.cat[s[1]] \notin Digests
      BY <2>1, UnprovenIs
    <3>2. Committed(s) = rcHeld[s]
      BY <2>1, CommittedIs DEF Digests
    <3>3. ~rcSession
      BY <1>3 DEF Bumpable
    <3> QED
      BY <2>1, <3>1, <3>2, <3>3
  <2>3. \A t \in Unproven : t \in RcSlots /\ rcRows'[t] = Committed(t) /\ Committed(t) \in Digests
    BY <1>3, ApplyWrites DEF Unproven, Joined, Recorded
  <2>4. \A t \in Unproven : Expected(t, rcRows'[t]) = Committed(t)
    <3> SUFFICES ASSUME NEW t \in Unproven PROVE Expected(t, rcRows'[t]) = Committed(t)
      OBVIOUS
    <3>1. Sources(t, rcRows'[t]) \cap Digests = {Committed(t)}
      BY <2>3, UnprovenIs
    <3> QED
      BY <2>3, <3>1, ExpectedIs
  <2>5. \A t \in Joined : t \notin Unproven => rcRows'[t] = rcRows[t] /\ Expected(t, rcRows[t]) # "none"
    BY <1>3, ApplyWrites DEF Unproven, Joined, Recorded
  <2>6. \A s \in Joined : Expected(s, rcRows'[s]) # "none"
    BY <2>3, <2>4, <2>5 DEF Digests
  <2>7. ASSUME NEW s \in Repaired, NEW t \in CopiesOf(s[1], Joined)
        PROVE  Expected(t, rcRows'[t]) = rcRows'[s]
    <3>1. t \in Joined /\ t[1] = s[1] /\ rcRows'[s] = Committed(s) /\ Provable(s)
      BY <2>1 DEF CopiesOf
    <3>2. CASE t \in Unproven
      <4>1. t \in CopiesOf(s[1], Unproven)
        BY <3>1, <3>2 DEF CopiesOf
      <4>2. Committed(t) = Committed(s)
        BY <2>3, <3>1, <3>2, <4>1 DEF Provable, Digests
      <4> QED
        BY <2>4, <3>1, <3>2, <4>2
    <3>3. CASE t \notin Unproven
      <4>1. rcRows'[t] = rcRows[t] /\ Expected(t, rcRows[t]) # "none"
        BY <2>5, <3>1, <3>3
      <4>2. Expected(t, rcRows[t]) \in Known(s[1])
        BY <3>1, <4>1 DEF Known
      <4> QED
        BY <3>1, <4>1, <4>2 DEF Provable
    <3> QED
      BY <3>2, <3>3
  <2>8. RepairWhole
    BY <1>1, <2>6, <2>7 DEF RepairWhole
  <2> QED
    BY <2>2, <2>8
<1> QED
  BY <1>2, <1>3

\* A drive's repair writes what the drive holds or its annex key names, all of it or nothing.
LEMMA DriveGrounded ==
  ASSUME RcTyped, NEW d \in RcDrives, RcDriveRepair(d)
  PROVE  EvidenceGrounded /\ RepairWhole
<1>1. rcRp' = rcRp /\ rcWorld' = rcWorld /\ rcHeld' = rcHeld /\ rcDrive' = rcDrive
  BY DEF RcDriveRepair
<1>2. PICK same \in BOOLEAN :
        IF ~same \/ HubDisagrees(d)
        THEN rcState' = [rcState EXCEPT ![d] = "halted"] /\ UNCHANGED <<rcRows, rcRs, rcVerdict>>
        ELSE /\ rcRows' = [s \in RcSlots |-> IF s \in Unresolved(d) THEN Digest(s) ELSE rcRows[s]]
             /\ LET left == {s \in DriveRows(d, rcRows') : rcRows'[s] = "none"}
                IN rcState' = [rcState EXCEPT ![d] =
                     IF left = {} /\ (rcDrive[d].up \/ DriveRows(d, rcRows) # {}) THEN "complete"
                     ELSE IF ~rcDrive[d].up /\ ~rcDrive[d].lost THEN "blocked_absent"
                     ELSE "needs_refetch"]
  BY DEF RcDriveRepair
<1>3. CASE ~same \/ HubDisagrees(d)
  <2>1. rcState' = [rcState EXCEPT ![d] = "halted"] /\ rcRows' = rcRows
    BY <1>2, <1>3
  <2>2. \A e \in RcDrives : rcState'[e] # rcState[e] => rcState'[e] = "halted"
    BY <2>1 DEF RcTyped
  <2> QED
    BY <1>1, <2>1, <2>2 DEF EvidenceGrounded, RepairWhole, Repaired
<1>4. CASE ~(~same \/ HubDisagrees(d))
  <2> DEFINE left == {s \in DriveRows(d, rcRows') : rcRows'[s] = "none"}
             w == IF left = {} /\ (rcDrive[d].up \/ DriveRows(d, rcRows) # {}) THEN "complete"
                  ELSE IF ~rcDrive[d].up /\ ~rcDrive[d].lost THEN "blocked_absent"
                  ELSE "needs_refetch"
  <2>1. rcRows' = [s \in RcSlots |-> IF s \in Unresolved(d) THEN Digest(s) ELSE rcRows[s]]
    BY <1>2, <1>4
  <2>2. rcState' = [rcState EXCEPT ![d] = w]
    BY <1>2, <1>4
  <2>3. w # "halted" /\ (w = "complete" => \A s \in DriveRows(d, rcRows') : rcRows'[s] # "none")
    OBVIOUS
  <2> HIDE DEF w
  <2>4. \A e \in RcDrives : rcState'[e] # rcState[e] => e = d /\ rcState'[e] = w
    BY <2>2 DEF RcTyped
  <2>5. RepairWhole
    BY <1>1, <2>3, <2>4 DEF RepairWhole
  <2>6. EvidenceGrounded
    <3> SUFFICES ASSUME NEW s \in Repaired
                 PROVE  /\ rcRows[s] = "none" /\ rcRows'[s] \in {rcHeld[s], rcWorld.key[s]}
                        /\ {rcRows'[s], rcWorld.cat[s[1]]} # Digests
      BY <1>1 DEF EvidenceGrounded
    <3>1. s \in RcSlots /\ rcRows'[s] # rcRows[s]
      BY DEF Repaired
    <3>2. s \in Unresolved(d) /\ rcRows'[s] = Digest(s)
      BY <2>1, <3>1
    <3>3. rcRows[s] = "none" /\ Digest(s) # "none"
      BY <3>1, <3>2 DEF Unresolved
    <3>4. Digest(s) \in {rcHeld[s], rcWorld.key[s]}
      BY <3>1, <3>3, DigestIs
    <3>5. {Digest(s), rcWorld.cat[s[1]]} # Digests
      BY <1>4, <3>2, <3>3 DEF HubDisagrees
    <3> QED
      BY <3>2, <3>3, <3>4, <3>5
  <2> QED
    BY <2>5, <2>6
<1> QED
  BY <1>3, <1>4

\* Nobody else writes rows, but Fill, on the drive it lets go of.
LEMMA OthersGrounded ==
  ASSUME RcTyped, RcNext
  PROVE  EvidenceGrounded /\ RepairWhole
<1>1. CASE RcApply
  BY <1>1, ApplyGrounded
<1>2. CASE \E d \in RcDrives : RcDriveRepair(d)
  BY <1>2, DriveGrounded
<1>3. ASSUME rcState' = rcState, rcRows' = rcRows \/ rcDrive' # rcDrive, ~(rcRp'.at = "done" /\ rcRp.at # "done")
      PROVE  EvidenceGrounded /\ RepairWhole
  BY <1>3 DEF EvidenceGrounded, RepairWhole, Repaired
<1>4. CASE Restoring
  <2>1. rcState' = rcState /\ rcRows' = rcRows /\ rcRp' = rcRp
    BY <1>4 DEF Restoring, RcRestore, RcAdmit, RcFetch, RcWrite, RcGiveUp, RcPublish, RcCrash, RsOnly
  <2> QED
    BY <1>3, <2>1
<1>5. CASE RcReverify \/ RcAudit \/ RcBackup \/ RcRival
  <2>1. rcState' = rcState /\ rcRows' = rcRows
    BY <1>5 DEF RcReverify, RcAudit, RcBackup, RcRival, RpOnly, Event
  <2>2. rcRp'.at # "done" \/ rcRp' = rcRp
    BY <1>5 DEF RcReverify, RcAudit, RcBackup, RcRival, RcTyped
  <2> QED
    BY <1>3, <2>1, <2>2
<1>6. CASE \E d \in RcDrives : RcMount(d) \/ RcPromote(d) \/ RcFill(d) \/ RcFillDies(d)
  <2>1. rcState' = rcState /\ rcRows' = rcRows /\ rcRp' = rcRp
    BY <1>6 DEF RcMount, RcPromote, RcFill, RcFillDies, Event
  <2> QED
    BY <1>3, <2>1
<1>7. CASE \E s \in RcSlots : RcRot(s) \/ RcDrop(s)
  <2>1. rcState' = rcState /\ rcRows' = rcRows /\ rcRp' = rcRp
    BY <1>7 DEF RcRot, RcDrop, Event
  <2> QED
    BY <1>3, <2>1
<1>8. ASSUME NEW s \in RcSlots, RcFilled(s)
      PROVE  EvidenceGrounded /\ RepairWhole
  <2>1. rcState' = rcState /\ rcRp' = rcRp
    BY <1>8 DEF RcFilled
  <2>2. rcDrive[s[2]].busy /\ rcDrive' = [rcDrive EXCEPT ![s[2]].busy = FALSE] /\ s[2] \in RcDrives
    BY <1>8 DEF RcFilled, RcSlots
  <2>3. rcDrive[s[2]] \in RcStates
    BY <2>2 DEF RcTyped
  <2>4. rcDrive'[s[2]].busy = FALSE
    BY <2>2, <2>3 DEF RcTyped, RcStates
  <2>5. rcDrive' # rcDrive
    BY <2>2, <2>4
  <2> QED
    BY <1>3, <2>1, <2>5
<1> QED
  BY <1>1, <1>2, <1>4, <1>5, <1>6, <1>7, <1>8, RcSteps DEF Bystander

\* A tree that stands at the destination stays as it is (restore_repo, os.replace).
LEMMA TreeStays ==
  ASSUME RcNext
  PROVE  TreeKept
<1>1. CASE Bystander
  BY <1>1 DEF Bystander, RcReverify, RcAudit, RcBackup, RcApply, RcRival, RcDriveRepair, RcMount, RcPromote,
     RcFill, RcFillDies, RcRot, RcDrop, RcFilled, RpOnly, TreeKept
<1>2. CASE Restoring
  BY <1>2 DEF Restoring, RcRestore, RcAdmit, RcFetch, RcWrite, RcGiveUp, RcPublish, RcCrash, RsOnly,
     Replaceable, TreeKept
<1> QED
  BY <1>1, <1>2, RcSteps

\* Only a restore before version nine fetches what was dropped, from a drive it did not find
\* authoritative (_annex_content).
LEMMA AnchorsStay ==
  ASSUME RcTyped, RcNext
  PROVE  AnchorsUntouched
<1> SUFFICES ASSUME NEW s \in RcSlots, rcHeld[s] = "gone", rcHeld'[s] \in Digests,
                    rcRs.at = "read", rcRs'.at = "write"
             PROVE  ~rcWorld.v9 /\ ~rcRs.auth
  BY DEF AnchorsUntouched
<1>1. CASE Bystander
  <2>1. RsKept \/ rcRs'.at = rcRs.at
    BY <1>1 DEF Bystander, RcReverify, RcAudit, RcBackup, RcApply, RcRival, RcDriveRepair, RcMount, RcPromote,
       RcFill, RcFillDies, RcRot, RcDrop, RcFilled, RpOnly, Event, RcTyped
  <2> QED
    BY <2>1 DEF RsKept, RcTyped
<1>2. CASE Restoring
  <2>1. RcFetch
    BY <1>2 DEF Restoring, RcRestore, RcAdmit, RcWrite, RcGiveUp, RcPublish, RcCrash, RcTyped
  <2>2. rcHeld' # rcHeld
    BY DEF Digests
  <2> QED
    BY <2>1, <2>2 DEF RcFetch, MayMutate
<1> QED
  BY <1>1, <1>2, RcSteps

\* The property RecoverySound of the portal run, for any repository, any drives and any evidence: a
\* restored tree is whole and proven, a verified one restores, and repairs write evidence only.
THEOREM RecoveryIsSound == RcSpec => RecoverySound
<1>1. RcInv => RcTypeOK /\ TreeProven /\ VerifiedRestores /\ AbsenceIsNoVerdict /\ RefusalSurfaces
  <2> SUFFICES ASSUME RcInv
               PROVE  RcTypeOK /\ TreeProven /\ VerifiedRestores /\ AbsenceIsNoVerdict /\ RefusalSurfaces
    OBVIOUS
  <2>1. RcTypeOK
    BY DEF RcInv, RcTyped, RcFenced, RcTypeOK, RcMarks
  <2>2. VerifiedRestores
    BY DEF RcInv, RcPromise, VerifiedRestores
  <2>3. AbsenceIsNoVerdict
    BY AbsenceJudgesNothing DEF RcInv, RcTyped
  <2> QED
    BY <2>1, <2>2, <2>3, TreeIsProven, RefusalsSurface
<1>2. RcInv /\ [RcNext]_rcVars => [TreeKept /\ AnchorsUntouched /\ EvidenceGrounded /\ RepairWhole]_rcVars
  BY OthersGrounded, TreeStays, AnchorsStay DEF RcInv
<1> QED
  BY <1>1, <1>2, RecoveryInvariant, PTL DEF RcSpec, RecoverySound

-----------------------------------------------------------------------------
(* The catalog                                                             *)

\* Opening, publishing and converting keep every row of the catalog, each whatever the others do.
THEOREM CatalogStaysKept == LdSpec /\ CvSpec /\ CtSpec => CatalogKept
BY LadderKeepsCatalog, CutoverKeepsCatalog, ConversionKeepsRows, PTL DEF CatalogKept
=============================================================================

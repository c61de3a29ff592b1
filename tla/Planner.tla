------------------------------ MODULE Planner ------------------------------
(***************************************************************************)
(* What modelark plans from: manifests, copy requirements, the proof that  *)
(* an archived row already satisfies one, candidates and their budgets,    *)
(* and the evidence of free space (archive_manifest, archive_hash,         *)
(* candidates, budgets, capacity_evidence, admission, reconcile).  All of  *)
(* it is pure over one snapshot of the catalog.                            *)
(*                                                                         *)
(* Drives, repositories and files are integers in the order of their       *)
(* labels.  An identity 0 is an absent one.  Sizes are small integers: the *)
(* estimate of a compressible file is 67 % of it, and 8 % more.            *)
(***************************************************************************)
EXTENDS Integers, Sequences, FiniteSets, FiniteSetsExt, SequencesExt

VARIABLES
  plWorld,   \* the repositories, the fixed facts of the drives, the policies
  plDrives,  \* per drive: lifecycle, eligibility, mounted, free bytes, clean anchor
  plRows     \* rows of `archived`, by repository, file and drive

Labels == DOMAIN plWorld.drives
Repos == DOMAIN plWorld.repos
FilesOf(r) == DOMAIN plWorld.repos[r].files
Entry(r, f) == plWorld.repos[r].files[f]
Facts(d) == plWorld.drives[d]
NoRow == [stored |-> 0, orig |-> 0, sha |-> "none", annex |-> "none", comp |-> FALSE]
Row(r, f, d) == plRows[<<r, f, d>>]

-----------------------------------------------------------------------------
(* archive_manifest._select: one weight format, and the auxiliary files.   *)

Has(r, fmt) == \E f \in FilesOf(r) : Entry(r, f).fmt = fmt
Weights(r) ==
  CASE Has(r, "safetensors") -> "safetensors"
    [] ~Has(r, "safetensors") /\ Has(r, "gguf") -> "gguf"
    [] ~Has(r, "safetensors") /\ ~Has(r, "gguf") /\ Has(r, "pytorch") /\ plWorld.pickle -> "pytorch"
    [] OTHER -> "refused"
PolicyRefuses(r) == Weights(r) = "refused"
Manifest(r) == {f \in FilesOf(r) : Entry(r, f).fmt \in {Weights(r), "aux"}}
Compresses(r, f) == Entry(r, f).fmt = "safetensors" /\ Entry(r, f).float
Usable == {r \in Repos : ~PolicyRefuses(r)}

-----------------------------------------------------------------------------
(* archive_hash.content_satisfies and candidates._proof.  The annex key    *)
(* names the original bytes of a raw file only; two digests that disagree  *)
(* prove nothing.                                                          *)

RowDigests(row) == ({row.sha} \cup (IF row.comp THEN {} ELSE {row.annex})) \ {"none"}
ContentSatisfies(approved, row) ==
  \E sha \in RowDigests(row) : RowDigests(row) = {sha} /\ approved \in {"none", sha}
\* Mutant: a row whose bytes do not bind is fetched again.
ProofRefetch(r, f, d) ==
  LET row == Row(r, f, d) IN
  IF row # NoRow /\ row.orig = Entry(r, f).size /\ ContentSatisfies(Entry(r, f).sha, row) THEN "proven"
  ELSE "missing"
Proof(r, f, d) ==
  LET row == Row(r, f, d) IN
  IF row = NoRow THEN "missing"
  ELSE IF row.orig = Entry(r, f).size /\ ContentSatisfies(Entry(r, f).sha, row) THEN "proven"
  ELSE "unproven"

HeldWhole(r, d) == \A f \in Manifest(r) : Proof(r, f, d) = "proven"
Unproven(r, d) == \E f \in Manifest(r) : Proof(r, f, d) = "unproven"
Missing(r, d) == {f \in Manifest(r) : Proof(r, f, d) = "missing"}

-----------------------------------------------------------------------------
(* Requirements: <<kind, repository>>, in the order of their identifiers.  *)

Primary == 1
Home == 2
Replica == 3
Before(p, q) == p[1] < q[1] \/ (p[1] = q[1] /\ p[2] < q[2])
Requirements ==
  {<<Primary, r>> : r \in {u \in Usable : plWorld.repos[u].copies < 2}}
    \cup {Home, Replica} \X {u \in Usable : plWorld.repos[u].copies >= 2}
HomeOf(req) == <<Home, req[2]>>

Placeable(d) == plDrives[d].life = "active" /\ plDrives[d].elig = "enabled"
Active(d) == plDrives[d].life = "active"

\* The tier of a kind over a pool of drives: RAID primaries are homes, or else the largest primary.
Tier(kind, pool) ==
  LET primaries == {d \in pool : ~Facts(d).replica}
      raids == {d \in primaries : Facts(d).raid}
      largest == {d \in primaries : \A e \in primaries :
                    Facts(d).cap > Facts(e).cap \/ (Facts(d).cap = Facts(e).cap /\ d <= e)}
  IN CASE kind = Primary -> primaries
       [] kind = Home -> IF raids # {} THEN raids ELSE largest
       [] OTHER -> pool \ primaries
Eligible(kind) == Tier(kind, {d \in Labels : Placeable(d)})
Accepted(kind) == Tier(kind, {d \in Labels : Active(d)}) \cup Eligible(kind)

SatisfiedBy(req) == {d \in Accepted(req[1]) : HeldWhole(req[2], d)}
Satisfied == {req \in Requirements : SatisfiedBy(req) # {}}
\* A row that proves nothing is never written over: its drive is no target.
Targets(req) == {d \in Eligible(req[1]) : ~Unproven(req[2], d)}
Blocked == {req \in Requirements \ Satisfied : Targets(req) = {}}
Wanted == (Requirements \ Satisfied) \ Blocked

-----------------------------------------------------------------------------
(* budgets: what a file takes at most, is expected to take, and the room   *)
(* its encoder needs beside it.                                            *)

Estimate(r, f) ==
  LET size == Entry(r, f).size
  IN IF Compresses(r, f) THEN (size * 67 * 108) \div 10000 ELSE (size * 108) \div 100
\* compress.plan_codec and codec_output_cap: whole in memory, streamed with a header, or raw.
CodecCap(size) ==
  CASE size <= plWorld.ram -> size
    [] size > plWorld.ram /\ plWorld.stream -> size + 1
    [] OTHER -> 0
Workspace(r, f) == IF Compresses(r, f) THEN CodecCap(Entry(r, f).size) ELSE 0
DownloadBudget(r, f) ==
  LET size == Entry(r, f).size IN
  [gd |-> size, ed |-> Estimate(r, f), gw |-> Workspace(r, f),
   ew |-> IF Workspace(r, f) = 0 THEN 0 ELSE Max({0, size + Workspace(r, f) - Estimate(r, f)})]
CopyBudget(bytes) == [gd |-> bytes, ed |-> bytes, gw |-> bytes, ew |-> bytes]

Total(S, Op(_)) == MapThenSumSet(Op, S)
Peak(S, Op(_)) == Max({0} \cup {Op(x) : x \in S})
Aggregate(files, Of(_)) ==
  [gd |-> Total(files, LAMBDA f : Of(f).gd), ed |-> Total(files, LAMBDA f : Of(f).ed),
   gw |-> Peak(files, LAMBDA f : Of(f).gw), ew |-> Peak(files, LAMBDA f : Of(f).ew)]

Guaranteed == plWorld.mode = "guaranteed"
Durable(c) == IF Guaranteed THEN c.budget.gd ELSE c.budget.ed
Work(c) == IF Guaranteed THEN c.budget.gw ELSE c.budget.ew

-----------------------------------------------------------------------------
(* Candidates: one per target, and for a replica one per proven home.      *)

FromHub == -1
Pending == 0

FetchCandidate(req, d) ==
  LET missing == Missing(req[2], d) IN
  [req |-> req, target |-> d, source |-> FromHub, missing |-> missing,
   budget |-> Aggregate(missing, LAMBDA f : DownloadBudget(req[2], f))]

HomeSources(r) == {d \in Accepted(Home) : HeldWhole(r, d)}
ReplicaCandidate(req, d, source) ==
  LET r == req[2]
      missing == Missing(r, d)
      exact == source # Pending /\ \A f \in missing : Row(r, f, source).stored > 0 \/ Entry(r, f).size = 0
  IN [req |-> req, target |-> d, source |-> source, missing |-> missing,
      budget |-> Aggregate(missing,
        LAMBDA f : CopyBudget(IF exact THEN Row(r, f, source).stored ELSE Estimate(r, f)))]

Candidates(req) ==
  IF req[1] # Replica THEN {FetchCandidate(req, d) : d \in Targets(req)}
  ELSE {ReplicaCandidate(req, t[1], t[2]) :
          t \in Targets(req) \X (IF HomeSources(req[2]) = {} THEN {Pending} ELSE HomeSources(req[2]))}

SameDomain(a, b) ==
  \E i \in DOMAIN Facts(a).ids : Facts(a).ids[i] # 0 /\ Facts(a).ids[i] = Facts(b).ids[i]

-----------------------------------------------------------------------------
(* capacity_evidence.derive over the facts admission._derive reads.  A     *)
(* drive is known by a live reading under its fence, or else by the anchor *)
(* its last write left; the floor is subtracted once.                      *)

UsableMax(d) == IF Facts(d).known THEN Max({0, Facts(d).cap - Facts(d).floor}) ELSE -1
\* Mutant: a mounted drive is believed though no size was ever saved for it.
EvidenceSizeless(d) ==
  LET bytes == IF plDrives[d].mounted THEN plDrives[d].free ELSE plDrives[d].anchor
      executable == Facts(d).dedicated /\ (plDrives[d].mounted => Facts(d).proven)
                    /\ (~plDrives[d].mounted => plDrives[d].clean /\ Facts(d).known /\ bytes \in 0..Facts(d).cap)
  IN [executable |-> executable,
      free |-> IF executable THEN Max({0, bytes - Facts(d).floor}) ELSE 0,
      most |-> UsableMax(d)]
\* A mounted drive is proven only at the size that was saved for it.
Evidence(d) ==
  LET bytes == IF plDrives[d].mounted THEN plDrives[d].free ELSE plDrives[d].anchor
      executable == /\ Facts(d).dedicated /\ Facts(d).known
                    /\ IF plDrives[d].mounted THEN Facts(d).proven
                       ELSE plDrives[d].clean /\ bytes \in 0..Facts(d).cap
  IN [executable |-> executable,
      free |-> IF executable THEN Max({0, bytes - Facts(d).floor}) ELSE 0,
      most |-> UsableMax(d)]

\* admission.preview_by_drive: a drive somebody else has fenced says nothing, mounted or not.
Preview(held) ==
  [d \in Labels |-> IF d \in held THEN [executable |-> FALSE, free |-> 0, most |-> UsableMax(d)]
                    ELSE Evidence(d)]
=============================================================================

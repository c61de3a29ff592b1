# A TLA+ model of ModelArk

ModelArk keeps an archive of model artifacts on removable git-annex drives. A
SQLite catalog says what should be where; a planner turns it into a placement
proposal, an operator approves it, and a Fill executes the approval: it
downloads, compresses and copies files to the drives, under locks, publishes
them in git-annex, and keeps evidence of what each drive holds. Slices of the
archive are delivered to other disks, and copies are verified, repaired and
restored. The portal, the command line and a systemd resume unit share the
catalog. This directory models the parts of that system whose
correctness depends on the order of events, on crashes, and on what several
actors know of each other.

## Inventory

| Part (`src/modelark/`) | State | Operations | What is hard | What makes it correct | Module |
|---|---|---|---|---|---|
| Execution sessions: `execution_session.py`, `execution_recovery.py`, `execution_service.py` | `execution_sessions`, `planner_state` | start, claim, heartbeat, session_write, terminalize, recover | checks before a lock wait, repeated in the transaction; crash of the worker; lease renewal racing with recovery | one live session; increasing tokens; the approval pinned; no lease taken away | `ExecutionSession` |
| Fences: `drive_fence.py`, `drive_identity.py` | flocks on a controller file and on one file per drive identity and epoch | hold, close, inherit | descriptors inherited by children outlive the parent | one writer per drive; the controller is released | `Fences` |
| Mutation envelope: `drive_mutation.py`, `admission.py` | `drives.write_generation`, `drive_dirty_generations`, `drive_clean_anchors` | dirty advance, body, observe, publish | crash or exception anywhere; several drives | a clean anchor accounts for every byte | `DriveMutation` |
| Drive identity: `drive_bootstrap.py`, `serial_identity.py`, `drive_lifecycle.py` (loss) | the same tables, fingerprint, capacity, epoch | bootstrap, refresh, recover, resize, repair serial, declare lost | lock keys change with the identity; a dirty generation has an owner | evidence is earned; a lost drive is final; an identity moves whole | `DriveIdentity` |
| Registration: `drive_lifecycle.py`, `register.py`, `registration_setup.py` | `drives`, the stage and archive on a disk, the map's remotes, a journal | preview, confirm, resume; the command line's register | crash between clone, receipt, promotion, graph commit; two front ends | one label per disk, nothing adopted, remote and row agree | `Registration` |
| Proposals: `proposal.py`, `planning.py` | `placement_proposals`, active approval, `planner_revision` | preview, publish, discard, approve, graph_write | a preview computed outside the transaction that publishes it | one approval, at most one current draft, what is approved is what was reviewed | `Proposal` |
| Planning: `placement.py`, `capacity.py`, `candidates.py`, `budgets.py`, `reconcile.py`, `archive_manifest.py`, `capacity_evidence.py` | none | manifests, requirements, proofs, candidates, budgets, evidence, Gate B, improvement | a bounded search must not call a plan infeasible; estimates must cover what is written | a verdict is a fact about all assignments; what is approved can be carried out | `Planner`, `Placement`, `Capacity` |
| Fill: `fill.py`, `fetch.py`, `fetch_publication.py` | drain loop, batches, `archived` rows, staging files | drain, fetch, verify, publish, record, replicate, heal | crash between file and row; a drive drops; stop at any boundary | rows are true to bytes; reported completions are durable; every session ends | `FillDrain` |
| Execution projection: `execution_projection.py`, `execution_config.py` | none; what a session froze | project, refresh, compare the configuration | own progress looks like a change of the approval, a change by others may look like progress | exactly what was approved is executed | `Projection` |
| Portal worker: `web/fill_worker.py`, `web/fill_api.py`, `web/selection_api.py` | one thread, gate, prompt, archive totals | start, stop, guarded mutation, await and resolve action | threads | no selection write under a Fill; no stale answer; no stale total | `FillWorker` |
| Archive publication: `archive_publisher.py`, `publication_*.py` | operation journal, staging, index, HEAD, location log, map | prepare, install, add, commit, metadata, publish, propagate, close, resume | crash at each phase; foreign files; native commands half done | catalog, worktree, annex and map agree; the operation closes or is stuck for a named reason | `Publication`, `ArchivePromise` |
| Native commands: `publication_native.py` | processes, a cgroup, a subreaper | spawn, deadline, scan, kill, reap | forks during the scan, orphans, other threads' commands | nothing is left that holds a fence; nobody else is killed | `NativeCommand` |
| Conversion: `publication_migrate.py` | a sealed plan, both paths of a file, rows | inspect, apply, resume | crash in every step; rows and bytes change | a row names committed bytes | `Conversion` |
| Usable Slice: `slice/` | transactions, owners, leases, journal, destination | approve, reserve, claim, deliver, stop, complete, resume | crash, media loss, several Starts, one-shot media | exclusive deliveries; a Stop wins; a receipt is true | `SliceAuthority`, `SliceTransfer` |
| Catalog storage: `core/db.py` | the SQLite file, recovery copies, a new home | open, migrate in place, rehearse, publish | crash in each step; the source is written meanwhile | nothing is lost or converted twice; what is published is the source | `CatalogLadder`, `CatalogCutover` |
| Restore, verification, repair: `restore.py`, `verifier.py`, `hash_repair.py`, `archive_hash.py` | rows, drives, a destination | restore, reverify, suspects, audit and repair of digests | copies vanish or rot between read and use | what is published is proven; evidence only comes from bytes | `Recovery` |
| Codecs: `codec_*.py`, `streamznn.py`, `artifact_io.py` | pipes, a guarded child | encode, decode | full pipes, early failures, orphans | a clean end is the whole artifact; what is published decodes to what was verified | `Decoding`, `Encoding` |

The components talk through the catalog (every write is one transaction), the
flocks, and child processes that inherit descriptors. The lock order is
controller, then map, then drives in canonical order, then a short `BEGIN
IMMEDIATE`. Operator graph writes (`proposal.graph_write`) take no lock at all:
only the check for a live session inside their transaction stops them.
`instance.py` admits one launch of ModelArk per network namespace of a host,
portal or command line, and calls the fences below it defence in depth. The
processes of these modules are therefore the threads and connections of one
launch, its forked children and those a killed launch left behind, or launches
in another namespace on the same files; a property about two of them says
that the fences keep their promise without `instance.py`. `PROJECT.json` lists
each hazard at its line with the properties that would show it.

## Modules

| Module | Models | Built on |
|---|---|---|
| `Catalog` | the control tables and the queries asked of them | |
| `Fences` | controller and drive flocks | `Catalog` |
| `ExecutionSession` | Fill sessions, recovery, graph writes, crashes | `Fences` |
| `DriveEvidence` | abstract: what a clean anchor promises | |
| `DriveMutation` | the mutation envelope and reconciliation, composed with sessions | `ExecutionSession` |
| `Proposal` | preview, publication, discard, approval, composed with sessions | `ExecutionSession` |
| `FillDrain` | the body of a Fill | |
| `Projection` | what is left of an approval, or a refusal | |
| `FillWorker` | the portal around it | |
| `ArchivePromise` | abstract: what a publication shows to its readers | |
| `Publication` | one publication operation with its journal | `ArchivePromise` (refinement) |
| `NativeCommand`, `Conversion` | the containment of a Git command; plain copies into annexed ones | |
| `SliceAuthority`, `SliceTransfer` | who may deliver a slice; one delivery | |
| `Planner`, `Placement` | what is planned from; Gate B, approval and execution of a plan | `Planner` |
| `Capacity` | what is handed over of a plan, and the reasons given for a refusal | `Placement` |
| `Registration`, `DriveIdentity` | drives become known; what is believed about one | |
| `CatalogLadder`, `CatalogCutover` | the schema ladder in place; the move to a new home | |
| `CatalogMigrations` | the three migrations of a catalog together | `CatalogLadder`, `CatalogCutover`, `Conversion` |
| `Recovery` | restore, verification, hash repair | |
| `Decoding`, `Encoding` | decoding in guarded children; download, encoder and canary of one file | |
| `Children` | the processes that work for this one, side by side | `Decoding`, `NativeCommand`, `Encoding` |
| `MC*` | the worlds and bounds of the runs | |
| `X_proofs` | the theorems about module `X`: `ExecutionSession`, `DriveMutation`, `Proposal`, `FillDrain` (with `Projection` and `Children`), `Publication`; `Slice_proofs` those about both `Slice*`; `Fleet_proofs` about `FillWorker`, `Registration` and `DriveIdentity`; `Catalog_proofs` about `CatalogMigrations` and `Recovery` | `X`, `TLAPS` |

### Catalog, Fences, ExecutionSession

A variable of `Catalog` is a table or a column, named after it. `expires_at` is
reduced to what recovery can tell apart: null, in the future, in the past. The
many graph facts that `_semantic_input_hash` binds are one value, `facts`.
Every action that touches the catalog is one transaction, or one autocommitted
statement where the code opens none; that is why `claim_worker` is two actions.

A flock belongs to an open file description, so a lock is free only when no
process and no child has a descriptor of it. `ctrl` and `held` are the
processes' descriptors, `ctrlChild` and `child` those that children inherited.
Closing (also by a kill) gives up the process's own descriptors only.

`proc[p]` is the program point and the locals of process `p`. `start_session` is
`StartPreflight` (no lock), `StartController`, `HoldDriveFence` per drive,
`StartAdmit` (checks with all fences held, outside a transaction),
`StartReadRevision` (`bound_rev` is read before the transaction), `StartCommit`
(every check again, token, insert), `StartUnlock`. `Refuse` is any refusal on the
way; it also stands for the checks on state the module leaves out (publication
pending, execution config, capacity evidence). The worker is `ClaimRead`,
`ClaimUpdate`, `Heartbeat`, `SessionWrite`, `SessionWriteRefused`, `Terminalize`;
`recover_expired_session` is `RecoverPrecheck`, `RecoverController`,
`HoldDriveFence`, `RecoverCommit`, `RecoverUnlock`, with `Expire` for the clock.
Around them: `Crash` at any point, `GraphWrite`, `InvalidateApproval`. No code
writes the state `stopping`; it is in the types because the queries and the schema
know it.

### DriveMutation, DriveEvidence

`env[p]` is the envelope or reconciliation `p` is in. `unobserved[d]` is a history
variable: bytes of `d` changed since the drive was last observed. The body may
spawn children; `MutationCrash` orphans them and they keep writing (`DriveWrite`)
with the locks they inherited. An envelope runs with the session's token
(`FillEnvelope` at work), or without (`ReplicaEnvelope`, and both from the command
line). `map` says whether `map_path` was given, in which case the controller stays
locked for the body. This is the path without the archive publisher.
`DriveEvidence` is what the evidence means without any mechanism: bytes change
only on drives that no clean anchor covers, and a drive is covered only when
everything on it was seen. `ImplementsEvidence` maps `clean` to "the current
generation has an anchor" and `unseen` to `unobserved`.

### Proposal, Planner, Placement, Capacity

`review[p]` is the preview or the approval `p` is running; `content[q]` are the
columns and task rows of a proposal, which no code updates. `preview_pure` reads
in separate statements and no transaction: the active plan, the revision, the
facts of the assignment and those of the semantic hash are four actions.
`PublishDraft` and `DiscardDraft` are one transaction each. `approve` is
`ApprovePreflight`, `ApproveController`, `ApproveHoldFence`, `ApproveObserve` and
`ApproveCommit`. The planner's result is only the value of `facts` it was computed
from; `successor_replan` behaves like `adopt_current`, whose approval writes no
catalog row either.

`Planner` and `Placement` are the arithmetic behind that value. `Planner` is pure:
the manifest of a repository, its copy requirements, the proof that a row already
satisfies one, candidates and budgets, and the evidence of free space of a drive,
for sizes that are small integers (a compressible file is estimated at 67 % of
its size and may take 8 % more). `Placement` runs Gate B over it (structural
checks, a depth-first search with a limit of states, the optimistic searches when
evidence is missing, the improvement), approval with its own exact check, and the
files written under the plan, each behind its guard, while drives are mounted and
reclassified. `Selections` is the reference: every choice of a candidate for every
requirement. The shadow report (`reconcile.py:540`) asks the same of the free space
a session still holds, and may run while a drive is reclassified under it: one
candidate's target that takes files no more is enough to refuse (`StaleTargets`).

`Capacity` takes a result of Gate B to what its callers see: the assigned tasks with
their budgets, sources and order (`AssignedTasks`), the ledger of each drive, and
for a refusal the rows that name its cause: too little room and by how much
(`CapacityShort`), drives whose evidence is missing (`UnknownEvidence`), a
structural reason (`StructuralRow`). `PlanHandedOver` says that what is handed over
is the assignment that was judged; `RefusalsNameTheirCause` that each cause is one,
by the reference.

### FillDrain, FillWorker

`FillDrain` walks a fixed projection (`Task`) drive by drive. The row of a file
and the bytes at its final path are separate state. `run` is the Fill thread: the
batch, the file under way, attempts, what is parked. A session ends in a verdict
with a code. The world may drop and mount drives, refuse or grant access, press
Stop, and kill the process; the next session starts from what is left. Left out:
a `--repo` scope, requirements the approval itself parks, the capacity ledger
(that is `Placement`), the 24 h window.

`Projection` is `project_pure` with the reads that feed it: the rows of each file
on each drive, identities, clean evidence, manifests, models, the successor's
lane, the configuration. A copy is `good` (the approved digest), `moved` (the
same digest under another key), `other` or `bare`; a hash, a version or a
certificate is what it is taken over. The refusals come in the code's order.
The worlds are a new model, one whose home copy is baseline, and a successor
plan. Others change the catalog only between sessions. Reconciliation keeps the
epoch. Checks of the shape of a stored proposal are left out.

`FillWorker` is the portal: state under `_lock` changes in one step, a call that
leaves the lock is several. `tab[t]` is a request thread, `thread` the Fill thread,
`gate` the lock around a mutation of the selection, `answers` a history of what was
acknowledged to a tab and what the waiting Fill was told. A row may stay without its
event (`CommitUnheard`: a step between the commit and the event raises, the row
comes from a resumed publication or from another process): `durable` counts the
rows, `heard` those that were there at the last event. `ended` is the history of how
the runs ended, a raise included, and whether `last_fill.json` could be kept in step
(`_persist_terminal` swallows an `OSError`); `oopsie` is the run the file tells of.
`HandoverSpec` leaves out the one step of a request that fails half way.

### Publication, ArchivePromise, NativeCommand, Conversion

`Publication` follows one operation (a Fill batch or a replica) of a version-nine
catalog. `pubFile[f]` has the phase and the row of a file, its journal (`act`: each
action is `PREPARED` before its effect and `VERIFIED` after it), and the disk:
staging, path, object, index, HEAD, location log. `pubMap` is the batch on the map
with its own journal of eight steps. The process may die between any two steps,
native commands fail or leave half an effect, other writers bump the revision and
put files in the way. `ImplementsPromise` maps the rows to `published`, the map's
refs to `mapped`, and the dirty drives to `clean`.

`NativeCommand` is `_bounded_process` and `_reap_group`: a process table, commands
that fork, leave their group and pass to init or to a subreaper, a deadline, and
the scans (a list, then reads) that kill until two in a row are empty. Process
numbers are not reused; the pipes are abstracted; plain subprocesses of other
threads are not modelled; two passes stand for `_REAP_PASSES`.

`Conversion` turns plain committed copies into annexed ones from a sealed plan:
copy, add, prove, commit, row, retire the old path, for one drive, with crashes,
torn or edited plans, rows rewritten and bytes rotting in between.

### SliceAuthority, SliceTransfer

`SliceAuthority` has the durable rows (transactions, owners of a destination), the
kernel lease, and the processes that Start, are asked to Stop, are interrupted or
die. Every step is one SQLite transaction or one kernel operation; completion
alone is seen half done (it releases the lease before it commits). `saHist`
remembers the latest Stop and counts deliveries. `SliceTransfer` is the one
delivery that `SliceAuthority` admits: the journal of operations per path,
temporaries, final objects, sources that fail, and somebody else at the
destination. The native port certifies and syncs; the FAT port owns only what its
open descriptors name, so no later process can go on.

### Registration, DriveIdentity

`Registration` has the portal's request and the command line's beside each other,
before and after schema 9 (in which a journal replaces the held controller lock).
A disk has a stage and an archive, each possibly with a receipt for a label; the
map has remotes. Crashes, tool failures and graph writes may come anywhere; the
operator's tab outlives the portal's process.

`DriveIdentity` is one drive under reconcile, serial repair, loss and Fill, while
it is unplugged, moved behind a bridge that spells its serial in hexadecimal, or
resized. A fingerprint is the pair of serial and capacity it hashes. Refusing for
drift of the medium is a nondeterministic choice, a medium with other UUIDs counts
as not in place, and the inventory is whether every row is proven.

### CatalogLadder, CatalogCutover

`CatalogLadder` opens catalogs of versions 0 to 10 with one oddity at a time in
their rows, through `connect`, a read-only open, the migration in place and that
of a clone. A step is the recovery copy, the conversion and the stamp, and the
process may die in each. `CatalogCutover` rehearses and publishes: the content of
a catalog is a number that a migration keeps; what may disturb is a commit or a
checkpoint of the source, its library being moved, another hand in the
destination, a failing step, a crash. One operation runs at a time.

### Recovery, Decoding, Encoding

`Recovery` is one repository: copies on drives (slots), rows, catalog digests,
annex keys, committed contents; a digest is `A` or `B`. Restore takes candidates in
order, admits the drive, fetches, writes, publishes or gives up. Both hash repairs
are there, the repository's (audit, backup, apply) and a drive's. Drives are
mounted, shelved, promoted or fenced by a Fill, copies rot or are dropped, and a
rival takes the destination. `deep=False` and malformed digests are left out.

`Decoding` is the parent's loop and the guarded child through three pipes that hold
one unit each, a container of sized frames or one legacy stream, and failures of
either side, of memory, and of the consumer. Packets are whole or torn.

`Encoding` is one file between the Hub and its publication: `enParent` is the thread
in `fetch_model`, `enChild` the child `_run_monitored` watches (a download, then an
encoder), `enStage` what the stage directory holds, across crashes and later runs.
The monitor's clock is a guard: it may kill a child that hangs, and one whose
canary is slower than the window. A content is the Hub's or a corrupt download.
`FillDrain` has this as its `DownloadShard`, `OnGated` and `Verify`; here the children run.

## Runs

| Run | Module | Checks | Bounds |
|---|---|---|---|
| `sessions` | `MCExecutionSession` | `SessionTypeOK`, `OneLive`, `AttemptsOrdered`, `PinnedApproval`, `RevisionOwnedByLive`, `RenewedLeaseSurvives` | 2 processes, 1 proposal, 2 sessions, 1 drive, 2 graph facts, revision up to 3 |
| `mutation` | `MCDriveMutation` | `AnchorsAccountForBytes`, `WritersExcluded`, `ImplementsEvidence` | 2 processes; either 1 session, 1 drive, 2 epochs, revision up to 4, or 2 drives without a session, revision up to 5 |
| `locks` | `MCDriveMutation` | `ControllerReleased` | 1 drive, revision up to 3, no symmetry |
| `proposals` | `MCProposal` | `ReviewSound`, `ApprovalSound`, `LifecycleForward` | 2 processes, 2 plans; either 3 proposals without a session or 2 beside a session; revision up to 3 |
| `drain` | `MCDrain` | `FillTruthful`, `ChildrenContained`, `ProjectionKept`, `WorkersEnd` | 2 drives, 2 models (one with a second copy, one gated), 2 sessions, 1 retry, 1 drive that drops; worlds of `Decoding`, `NativeCommand`, `Projection`, `Encoding` below |
| `portal` | `MCFleet` | `AnswerDecidesItsPrompt`, `PortalTruthful`, `SelectionFrozen`, `FleetSound`, `IdentityKept`, `CatalogKept`, `RecoverySound`, `OperationsEnd`, `FleetSettles` | 2 request threads, 1 drive, 1 model, 2 runs that pause, raise or are stopped, 2 prompts or rows, 3 steps of work; worlds of `Registration`, `DriveIdentity`, `CatalogLadder`, `CatalogCutover`, `Recovery`, `Conversion` |
| `archive` | `MCArchive` | `CatalogIsArchive`, `NothingLost`, `ClosesOrStuck`, `ImplementsPromise`, `DeliveriesExclusive`, `StopsHold`, `StartSettles`, `RecordsTrue`, `FinalsOnlyAppear`, `DeliverySettles`, `VerdictsSound`, `ExecutionSafe`, `OnlyMissingWritten`, `PlSettles` | 2 files, 1 failure, 1 foreign write, 1 foreign path, 1 crash of a Fill's publication and 2 of a replica's; 2 Slice processes and transactions; 2 files and 2 sources of a delivery, 2 crashes; small plans |
| `start_revision`, `claim_reactivates`, `replica_excluded`, `finalize_approval`, `orphan_session` | as named in `PROJECT.json` | one documented claim each, violated | as small as the counterexample |

Three runs hold several components. A constant variable `active` says which one
runs; the others stay in one initial state. The state space is then the sum of
the components, not their product, an invariant is checked in the states of the
component it is about, and one weak-fairness condition can name one process of
every component, since only one of them can move. Nothing is claimed about
interactions of components that share a run in this way: those that do interact
are composed (`DriveMutation` and `Proposal` extend `ExecutionSession`,
`Placement` executes what `Planner` evaluates) or meet through values (the
verdict of `FillDrain` is the outcome `FillWorker` is told).

### What the properties say

Some names above are conjunctions of properties of the modules they come from:

| Property | Parts |
|---|---|
| `AttemptsOrdered` | `TokensIncrease`, `ResumeLineage` |
| `WritersExcluded` | `MutationTypeOK`, `OneWriterPerDrive`, `OwnerOutlivesWriters` |
| `ReviewSound` | `ProposalTypeOK`, `CurrentDraftFaithful`, `SingleCurrentDraft`, `NoReviewUnderFill` |
| `ApprovalSound` | `PointerIsApproval`, `ApprovedPlanActive`, `PinnedApproval` |
| `FillTruthful` | `DrainTypeOK`, `RowsTellBytes`, `FeasibleIsSafe`, `CompletionIsDurable`, `ConflictKept` |
| `ProjectionKept` | `PjTypeOK`, `OwnWorkAdmitted`, `ApprovalStands`, `ReadyHasSource`, `SatisfiedIsThere`, `BoundariesKept` |
| `ChildrenContained` | `DecodingSound`, `ContainmentSound`, `EncodingSound` |
| `PortalTruthful` | `FillWorkerTypeOK`, `PublishedTotalsTrue`, `WarningTold`, `StatusIsOfLastRun` |
| `FleetSound` | `RgTypeOK`, `OneLabelPerDisk`, `NothingAdopted`, `RemoteIsRow` |
| `IdentityKept` | `DvTypeOK`, `AnchorsConsistent`, `OneWorkerPerIdentity`, `EvidenceEarned`, `LostIsFinal`, `IdentityMovesWhole` |
| `CatalogKept` | `LadderSound`, `CutoverSound`, `ConversionSound` |
| `CatalogIsArchive` | `PubTypeOK`, `RowIsProven`, `ClosedIsWhole`, `NativeAddOnce` |
| `NothingLost` | `ForeignKept`, `StagedUntilArchived` |
| `DeliveriesExclusive` | `SaTypeOK`, `OneDelivery`, `FatSpentOnce` |
| `StopsHold` | `StopWins`, `TerminalIsFinal`, `StopIsAnswered` |
| `RecordsTrue` | `StTypeOK`, `ReceiptIsTrue`, `BytesAttributed`, `CrashesDoNotFail` |
| `VerdictsSound` (`Capacity`) | `PlTypeOK`, `VerdictsAreProofs`, `ImprovedIsBest`, `PlanHandedOver`, `RefusalsNameTheirCause` |
| `ExecutionSafe` | `DoneIsCopied`, `FloorNeverCrossed`, `KeepsItsWord` |

Every part is stated and explained in the module of its name. What they show,
by theme:

- *One Fill, and what it was approved for.* One live session, tokens in order of
  insertion, the approval pinned, the revision moved only by its owner; a
  projection that refuses an approval others have changed and never its own
  progress; nothing reviewed beside a Fill.
- *Rows and bytes.* A clean anchor accounts for all bytes; an `archived` row is
  true when a Fill, a publication, a conversion or a repair wrote it; what a
  verdict reports done survives a crash.
- *Exclusion.* One writer per drive, one delivery per destination, one worker per
  identity, one label per disk, and an orphaned child counts as long as it lives.
- *Retry and resume.* A migration, publication, registration, conversion or
  delivery that is killed and tried again ends in the state of one that was
  never killed, or refuses for one of the reasons its liveness property names.
- *Verdicts.* Gate B says infeasible only if no assignment is feasible, and the
  assignment it approves can be written without crossing a floor.

### The bounds

Two processes give every race of the session protocol: a starter against a
starter, a recoverer against a worker, an operator against either. Two sessions
are a session and its successor, and a recovered session beside a new one.
`MaxRev` caps the commits that bump the revision: 4 are an envelope (two), an
operator or reconciliation commit before or between, and one more; two epochs
are one epoch change. Three proposals are the approval the catalog starts with
and two drafts that could compete. `MCScope` of `MCProposal` and of
`MCDriveMutation` joins two such scopes in one run: a state outside both is not
expanded. The proofs remove all bounds for the session protocol. Processes are
interchangeable, so they are symmetric in the safety runs.

In the other modules the number of disturbances is bounded, not the length of a
run: so many crashes, failures, foreign writes, and no bound on retries that
make progress. Two crashes are a crash and one in the recovery from it, the
case in which half-done journals differ. The worlds (`MC*Worlds`) are initial
states the program can be in, each for a question of its own; a world has the
disturbances that matter for it, since all of them together in all worlds only
multiply. `Drain`: one model with a second copy and one that may be gated are
enough to park a replica behind its home, and two sessions are a stop and a
resume. Its `MayGate` model and the drive that drops are never both disturbed
in one behaviour. `Decoding` has frames of at most 2 units through pipes of 1, so
each pipe fills; `NativeCommand` at most 4 processes and two threads, and two
passes for the 64 of `_REAP_PASSES`, so the last pass is reached. `Encoding` has 2
attempts for the 4 of `_DL_RETRIES`, and each disturbance once.
`CatalogLadder` starts at every version in which a step differs with one oddity
in a row, and validates a clone that needs no step; `CatalogCutover` with a source of version 6 or 7, two destinations and
two runs at most, and three events of the source in one of them. `Recovery` has two files on two drives, one or two copies
needed. `FillWorker` has two rows or prompts, an old read beside a newer event or a stale tab
beside a second prompt, and two runs, an end that could not be stored after one that
was; the third step of work lets one of each meet. In the run a behaviour has rows
and prompts (`FwWorks`) or edits of the selection (`FwEdits`), which share nothing but
the thread and the session; the proofs have both. `Placement` has fleets of two or three drives of at most 40 units, each for a
kind of verdict.

Deadlock is not checked: a catalog at rest, with every process idle and the
bounds reached, is a state the system may stay in. That nothing waits for
something that cannot come is what the liveness properties are for.

### Fairness

Weak fairness is assumed of the steps of a thread that has no reason to wait:
catalog reads, transactions, system calls, and locks that are free
(`FairMutationSpec` for a process that holds the controller, `ThreadStep`, `Step`
of `FillDrain`, `PubStep`, `SaAct(p)`, `StAct`, `PlStep`, `RgStep(a)`,
`ReconcileStep`, `RepairStep`, `LdStep`, `CtStep`, `RcStep`, `CvStep`, `CdProgress`,
`EnStep`, `NvAct(t)`). Beyond that:

- `ChildExit` (`locks`) and `ChildExits` (`DriveIdentity`): `fetch._run_monitored`
  kills and waits for a stalled child, and an orphan's pipes close. Strong
  fairness for the end of a mutation's body: a batch is a finite list of files,
  and the body can only end between children.
- `Mount(d)` in `FillDrain`: the Fill asks the operator for the drive and waits.
- `PubResume`, `LdOpen`, `CvResume`, `RgRequest`, `RgPreview`, `EnBegin`: somebody tries
  again.
  Where refusals alternate with chances (another front end holds the lock, a row
  is being rewritten) the retry needs strong fairness: nobody tries only at the
  wrong moments for ever.
- `NvDies`: a process that was killed dies. Nothing is assumed of one that was
  not, nor that a command ends before its deadline.
- `FillAnchors \/ FillDies` in `DriveIdentity`: a Fill's envelope ends.

No fairness is assumed for starting an operation, a crash, the clock, the
operator's Stop, or any disturbance.

### What the five violations show

- `start_revision`: `bound_rev` is read before `BEGIN IMMEDIATE`, and a graph
  write needs no controller lock. A graph write in between commits, and the new
  row is bound to the revision before it. RFC-002 reads the revision inside the
  transaction. The session continues on the newer graph; `session_write` has
  none of the RFC's divergence checks, and binds it again at its first write.
- `claim_reactivates`: recovery can end the row between the two statements of
  `claim_worker`; the update does not test the state. It takes a lease that
  expires before the first claim.
- `replica_excluded`: the replica envelope passes no session token, so
  `bump_revision` refuses it because of the worker's own live session.
- `finalize_approval`: `_semantic_input_hash` covers the `finalized_at` column of
  the selection, and approving a `finalize` proposal stamps it. From then on the
  approval differs from the catalog and a start is refused. RFC-002 hashes the
  desired selection. No front end drafts `finalize` proposals at present.
- `orphan_session`: `fill.execute` has ended its session, and its thread has not
  died yet. A start that arrives then sees no live session and opens one;
  `WORKER.start` sees the thread alive and refuses. The session stays until it is
  recovered. No request fails in this run (`HandoverSpec`): a request that raises
  between the two leaves its session as well (`StartRaises`), which is another case.

## Disagreements noted without a run of their own

Met while the modules were written, at the lines given. Each is modelled as the
code has it; no property here claims the other side.

*Approval and execution*
- A target whose identity epoch is 99 or more is refused, even if it was approved
  at that epoch (`execution_projection.py:328-333`).
- The semantic hash binds every catalogued model and every selection row
  (`proposal.py:380-383`); discovering a model nobody selected makes an approval
  stale. RFC-002:660 names the desired selection.
- Certificates of baseline copies are taken over every row of the repository on
  the drive; RFC-002:1213-1216 says the content of the required files. A hash
  repair or a conversion of such a copy refuses the approval.
- RFC-002 has the unfinished home task name the replica's source drive; no code
  checks it, and `baseline_reused` / `expanded_missing` do not exist.
- Approval (`proposal.py:508-514`) can refuse what the preview found feasible;
  `plan.py:14` says otherwise.
- A replica whose home is still pending is budgeted by estimate also in
  `guaranteed`; its floor can be crossed, against RFC-002:132. Guards of single
  files (`fill.py:707-720`) have no workspace.
- `fill_api.py:25`: `_OOPSIE` lacks `failed`, against the comment above it.
- When `last_fill.json` cannot be written or removed (`fill_api.py:46-47`), it keeps
  the warning of an earlier run, whatever the last one did; lines 21-23 say that a
  clean end clears it. `ack_terminal` names no run, so a tab dismisses a warning of a
  later run that it has not shown.
- `fill_worker.py:242` has a Stop take priority over any outcome; a run that raises
  after a Stop is shown as an error (line 250).
- A row whose event does not come (`fetch.py:1104-1109`, a resumed publication) is
  missing from the drive's archived total, and `archived_by_drive_current`
  (`fill_worker.py:214`) still calls the total current, until that drive's next event.
- An addition to the selection (`selection_api.py:156`) is a graph write, and a
  live session refuses those; line 16 and `tests/test_selection_guard.py:356` say
  that additions stay allowed.
- Healing mirrors a row of a copy that `whereis` reports without reading its
  bytes; `fetch.py:1494-1499` says that only a verified file is mirrored.

*Download and encoding*
- A corrupt download whose digest the Hub names stays in the stage
  (`fetch.py:1008`). `hf_hub_download` takes a file that is there for downloaded,
  so each later run fails on it. A codec that does not round-trip blocks its file
  in the same way: only a crash, a stall, the cap and memory fall back to raw.
- A download is not bound to its parent's death, and nobody watches an orphan: one
  that hangs keeps the drive's fence it inherited.
- After a crash between `local.unlink()` and the publication, a refusal for memory
  before the child starts (`fetch.py:531`) leaves the former `.znn` in the stage.

*Publication and conversion*
- With two files on one drive, a staged one behind one that is already published
  or absent cannot be resumed (`publication_tree.py:218`), against
  `docs/plans/annex-publication-stage1-progress.md:259-261`.
- A session-owned operation can never be resumed by a later session
  (`fetch_publication.py:44-47`); an unrelated graph write makes a pending
  operation stale for good (`publication_store.py:238`).
- A reap takes every child born to the process since it began for an orphan: a
  subprocess of another thread is killed, and its status collected. Orphans of a
  concurrent command adopted meanwhile share that fate, against DEC-159. Without
  a cgroup a descendant that reached `init` escapes, and so may one forked under
  the last scan.
- A crash between the commit of a converted file and the update of its row cannot
  be resumed: the commit has nothing to commit and exits 1. A destination torn by
  a crash is never replaced. `os.write` carries at most 2 GiB, so a larger file is
  torn by its own conversion. Each `apply` writes a new plan; only resuming the
  old one retires what it left.

*Identity and registration*
- The version-nine command line checks the label before `hold` and sets the map's
  remote before its own guard: the remote of a drive registered meanwhile is
  redirected, against `register.py:449`.
- A leftover registration is matched by label alone, and its publication compares
  the frozen pair with itself (`publication_store.py:304`). One in
  `CATALOG_PUBLISHED` that an unrelated graph write made stale, or whose tab is
  lost, is stuck. A crash between clone and receipt leaves a stage that is refused
  for good. `register_nas` cannot succeed on version nine.
- A drive with an unrepaired legacy identity has no provable keys, so its loss
  cannot be declared; the same fingerprints with a dirty generation are stuck.

*Catalog*
- The version-six step renames the parent table first (`db.py:819`), so the
  children's foreign keys name the renamed table, which is then dropped: a
  childless catalog migrates to one in which no proposal can be saved, and one
  with children is refused for ever. The docstring (`db.py:802-803`) says they
  are kept. Its probe inserts a plan `ark` when none is active.
- A crash in the first `connect` leaves a catalog that `connect` refuses; one in
  `_backup_before_migration` leaves a torn copy that is later accepted.
- A crash while the staging directory of a publication is new leaves no record of
  it. A second publication of a run destroys its rollback bundle first. A source
  that already is of version 7 is rehearsed as good and refused when published.

*Restore and repair*
- `DigestEvidenceConflict` is a `ValueError`, which `restore.py:290` does not
  catch: one copy with conflicting evidence ends the restore, against
  `decision_log.md:685`, and a hash audit.
- `os.replace` of the stage replaces an empty directory made meanwhile, against
  `restore.py:213`.
- `run_explicit_drive_repair` compares no copies of one file, against
  `hash_repair.py:290-291`; `repair_hashes` writes a digest without provenance.

*Slice*
- Interrupting an old Start during its preflight uses the serial of an
  acknowledged Stop again (`refuse_preclaim` in `state.py`).

## Proofs

Each theorem holds for every value of the constants that satisfies the named
assumptions: any number of processes, drives, sessions, files or requirements,
and any bound on crashes, retries and the like.

| Module | Invariants proved | Steps and refinements proved |
|---|---|---|
| `ExecutionSession_proofs` | `TypeCorrect`, `SingleLiveSession`, `FencingTokensIncrease`, `ApprovalPinned`, `LineageSound` | `RevisionOwned`, `RenewalRespected` |
| `DriveMutation_proofs` | `MutationTypeCorrect`, `AnchorsAccount`, `ExclusiveWriters`, `SessionsUnderMutation` | `EnvelopeImplementsEvidence` |
| `Proposal_proofs` | `ReviewsSound`, `ApprovalsSound`, `SessionsUnderReview` | `LifecycleMovesForward` |
| `FillDrain_proofs` | `ReportsStayTrue`; `DecodingStaysSound`, `EncodingStaysSound`, `ContainmentHolds`, together `ChildrenStayContained` | `ConflictsAreKept`; with the invariants `FillStaysTruthful`, `ProjectionsHold` |
| `Fleet_proofs` | `AnswersDecide`, `PortalTrue`; `NothingIsAdopted`, `FleetStaysSound` (labels apart) | `SelectionStandsStill`; with its invariants `IdentityIsKept` |
| `Publication_proofs` | `CatalogStaysArchive` | `NothingIsLost`, `PublicationImplementsPromise` |
| `Slice_proofs` | `ExclusiveDeliveries`, `RecordsStayTrue` | `StopsAreKept`, `FinalsStay` |
| `Catalog_proofs` | `LadderKeepsCatalog`, `ConversionKeepsRows`, `RecoveryInvariant` | with their invariants `CutoverKeepsCatalog`, `CatalogStaysKept`, `RecoveryIsSound` |

`PROJECT.json` names the property of a run each of them states. None of the
safety invariants is inductive alone. Each module begins with the strengthening
(`SessionInv`, `MutationInv`, ...), proves that it holds initially and that each
action keeps it, and derives the rest from it. What the strengthenings add is
what the code relies on without saying so:

- **Sessions** (`SessionInv`). `LocalsOK`: what a process that waits or works
  knows; at the fences it has resolved a proposal, at `start_admitted` its
  predecessor is an ended row of the same proposal, from `start_unlock` on it
  names a row that exists. `RowsOK` and `Contiguous`: rows are inserted in the
  order of their numbers, so "a later row" and "inserted later" mean the same.
  Start checks the predecessor before its transaction and not in it: the check
  stays true because an ended row stays ended and its proposal never changes.
  `PinnedApproval` is about rows that have not been ended, since a reactivated
  one (second violation) may belong to an approval withdrawn meanwhile.
- **Drives** (`MutationInv`). All rests on the drive locks. Whoever writes, has
  observed or is about to publish a drive has its lock under the *current* epoch,
  or has left it to a child (`FencesHeld`); two parties never have one lock
  (`LocksExclusive`); the epoch changes only under the locks of both epochs. So
  what was observed stays observed until the transaction (`ObservationsHold`).
  `WorkersOK` and `OwnersWrite` tie the generation's owner to the one process
  that works on its session. The theorems about sessions hold again with the
  commits of envelopes among the steps, as those change at most the bound
  revision of one live row (`SameRows`).
- **Refinement of `DriveEvidence`.** Under `MutationInv` every step of an
  envelope, a reconciliation, a child or a session is a step or a stutter of the
  abstract drive; a publication of anchors is allowed because the drives it names
  are the ones that were observed, still unwritten.
- **Reviews** (`ProposalInv`). The locks carry nothing: all rests on
  `planner_revision`. What a preview has read was read at its revision or later
  (`ReviewsOK`), no row is ahead of the catalog (`RevisionsReached`), and facts
  change only with the revision, so what is still at the current one is of the
  current facts.
- **A Fill's body** (`DrainInv`). `StepKnows`: at `store` the staged file was
  hashed, at `record` it is at its path, at `copied` the target has the bytes of
  the source and no row yet. Nobody else writes rows or bytes of a fenced drive,
  so this holds across the waits between. `PublishedHasRows`: no step takes a
  satisfying row away, so what was reported complete stays so through every
  drop, retry and crash. `FeasibleIsSafe` is checked once, at an orderly end, but
  needs that what remains is ready, waiting or parked.
- **Projections** (`PjInv`). A projection must tell the progress of its own Fill
  from a change by others. `PjRowsGrow`: until somebody rewrites a row, each row
  is the approved one, or a good copy where there was none or one without a
  digest; so a certificate of a baseline copy survives all that Fills do.
  `PjUntouched`: what only others change is unchanged while nobody came, hence
  the hash too. `PjUnderWay`: what a Fill has not left is done, so a boundary
  can only shrink what is left and `PLAN_SATISFIED` is so.
- **A decoder session** (`CdInv`). Parent and child each keep their own count of a
  frame, with pipes between. `CdTalk` says what a packet on its way may be, given
  how far the child is: it certifies a frame only when that frame is sound and whole.
  `CdLedger` are the parent's books: what it fed, and what it handed out of this
  frame beyond the certified ones (`AddUp`, running totals). So a clean end is
  the whole artifact, though it is never counted again.
- **A download and its encoder** (`EnInv`). `EnKnows` says what the thread knows of
  the stage at each step, its child's work included: while a child encodes, the
  original is the one that was hashed, and a child that reported success has
  ended and left an encoding of it. `VerifiedStays` is why a crash at any moment
  leaves the original or its certified encoding.
- **A native command** (`NvInv`). That two empty scans in a row are enough is about
  processes the scans did not see. `Scanned`: who lives and was not seen hangs
  by a process forked behind the list, once per scan, or went over to
  init or to this process before. It needs `Parentage`: the parents of
  a process, as far as they live, lead to one that a scan finds, and who has
  another parent than its own has lost one. `NvInOrder`, that numbers are handed
  out in order, makes the first of them exist. `Spared`: the leaders of other
  commands are among the processes a reap leaves alone, or are gone.
- **The portal** (`WorkerInv`). Totals are read outside the lock, and not every
  commit has an event. `TotalsInv` says what a read that some thread still carries
  is worth: all rows that were there when its generation was marked, and none the
  catalog lacks; publication compares generations, so a stale read is dropped.
  `WarningTold` and `StatusIsOfLastRun` need what the thread is about to publish
  tied to the last entry of `ended` (`EndIsLast`).
  `PromptInv`: prompts are numbered, and the open one has no return yet.
  `GateExcludesFill`: the gate is taken only while no Fill thread is alive.
- **Registration** (`RgInv`, `RgRemoteInv`). The receipt does the work: whoever
  goes on past it has the lock and owns the one prepared operation (`RgLocked`),
  and what lies on the disk by then is what it staged (`RgPrepared`), so nothing
  foreign is adopted after any number of crashes, whatever the command line does
  beside. That the map's remote is the disk of the row needs more: from the check
  of a label to the row nobody else uses the label (`RgRowFree`, `RgPointed`).
  The version-nine command line checks before it waits for the lock
  (`register.py:853`), hence the hypothesis `[]LabelsApart` of `FleetStaysSound`:
  the portal never proposes a label the command line was started with. It is a
  statement about operators, and without it the theorem is false.
- **Drive identity** (`DvInv`). Only who holds the controller works or has fences
  (`KeysUnderControl`), and anchors never run ahead of the row (`AnchorsBehind`):
  the anchor of the current generation names the row's own fingerprint. So a
  commit that finds the row as it was captured (`RunsKnow`) finds its anchors,
  too, and a fingerprint moves with its anchor or not at all.
- **Publication** (`PubInv`). One conjunct per journalled file (`FileOK`): the
  ladder of phases, and what an action recorded as verified says of the disk.
  `MineOK` is the knowledge of the running process: a native action it prepared
  and did not run yet was never run, which is why git-annex adds once.
  `BehindOK`: the loop leaves no download behind it, so a closed operation is
  whole (`ClosedIsWhole`).
- **Refinement of `ArchivePromise`.** `PrepareOperation` is `Open`, the catalog
  step of a file is `PublishFile`, the propagation of the map's refs is
  `ShowBatch`, `CloseOperation` is `Close`; every other step, crashes included,
  is a stutter, as it changes neither rows nor refs nor anchors.
- **Slices** (`SaInv`, `StInv`). Between claims: the lease and the program
  counters agree, owners do not overlap, and a completion that has released its
  lease still has the database to itself (`CommitAlone`). The two numbers of a
  reservation, serial and acknowledgement, cannot look as if they had seen a
  later Stop (`FreshReservation`); that is why a Stop wins over every Start
  issued before its acknowledgement. Within a delivery there are two layers:
  what holds whatever others do at the destination, and, as long as nobody did
  anything (`Undisturbed`), what the journal tells of the disk. The second is
  why a crash alone makes no delivery fail.
- **The ladder** (`LdInv`). A stamp is a promise (`Lawful`): a catalog has the
  parts of every step up to its stamp, except that of step six, which an earlier
  build stamped without its check. The version a run works from is the catalog's
  (`LdPlace`). `LdCopies` says what a recovery copy is a copy of: from the
  catalog that was opened to the first copy, steps did nothing but stamp what was
  in place already (`OnlyStamped`), so the rows in the copy are the old ones.
- **The cutover** (`CtInv`). The source is read file by file while others write
  it. `CtReadings`: what two readings of one file agreed on lies between what the
  source held when the bundle was begun (`since`, a history) and what it holds
  now, as its content only grows. `CtLocks`: what is locked is what was rehearsed,
  and the bundle can bring it back. `QuietRuns` and `QuietTool`: when nobody
  interferes no check fails, so a refusal has a cause.
- **The conversion** (`CvInv`). `PlansVouch`: a sealed plan names a digest for each
  of its files. `CvKnows`: the bytes read are those the plan froze, and from the
  proof on the link is theirs, up to the row; no row changes before its bytes
  are committed.
- **Restore and repair** (`RcInv`). `RcTree` and `RcCopying` say what stands at the
  destination at each step, and that each file of it is named by the evidence the
  restore has read (`Evident`). `RcPromise`: as long as a verified verdict stands,
  every recorded copy is at hand and is what its evidence names (`RcAllGood`),
  so no candidate of a restore can fail. `RcFenced`: a drive a restore
  reads is not written to.

Six statements were wrong or too strong, and the proofs said so. None failed
within the bounds of a run.

- `CopyKept` asked that a copy have the version the catalog was opened with. Steps
  that find their parts in place stamp without a copy, so the first copy may be of
  a later version; its rows are the old ones, which is what it now says.
- `SnapshotIsState` asked that a snapshot be the state of the source at the last
  comparison. A commit and a checkpoint that both fall between the second reading
  of the main file and that of the WAL go unnoticed (`db.py:2094-2102`): the
  snapshot is a state the source was in since the reading began. It takes
  three events of the source, and the run allowed two.
- `VerifiedRestores` outlived a drive repair that rewrote a digest. The promise of
  a verification is about the rows it saw, and ends when one changes.
- `FleetStaysSound` needs `LabelsApart` (above).
- `NoOrphan` had a child end with its parent, but for one that has not bound itself
  yet. A child whose binding finds its parent dead has still to report it and
  to exit, which is now allowed.
- `Contained` excused a process that init or another command's reap had adopted,
  not the children of one. A process that this process adopted in the reap of
  another thread's command and that then ended leaves children nobody scans
  for: it takes two threads and more processes than the run has.

### Assumptions

They name what the code guarantees of its inputs, and TLC evaluates them on the
runs: names differ from Python's `None` (`CatalogAssumption`, `DrainNames`,
`SliceAuthorityNames`, `FillWorkerBounds`); numbers are numbers
(`SliceTransferBounds`); a worker ends in a terminal state (`OutcomeAssumption`,
`FillWorkerOutcomes`); a proposal names known drives (`CatalogAssumption`); a
requirement has a target that exists and one fetch task per repository
(`DrainAssumption`: `candidates.py:256-269` makes one primary or home of each);
a baseline row of an approval is a copy proven complete, and a second copy has
its source from such a copy or from the first one (`ProjectionPlans`:
`_build_assignment`, `proposal.py:655-702`); a publication has at least one file
(`PublicationPlans`: `archive_publisher.py:74` refuses an empty request, and
`:79` sorts what it is given, so files are taken in the order of their numbers);
a label is a name, and a tree one of those the code tells apart
(`RgLabelsAssumption`, `RgWorldsAssumption`). `DvWorldsAssumption` (`Saved`) is
about catalogs an earlier version left: a fingerprint is of an authoritative drive
and of its capacity, no anchor is ahead of the row, and an epoch and generation
have at most one anchor, the current one of the row's fingerprint
(`drive_bootstrap.py:897`). Of the catalogs and drives that migrations, conversions
and repairs start from, `LdWorldsAssumption` says that a catalog is as its stamp
promises (`Lawful`, from the DDL of each version), `CtWorldsAssumption` that a WAL
holds what was committed after the main file, `CvWorldsAssumption` that a row's
`orig_sha256` is a digest or null, and `RcWorldsAssumption` the same, with
weights in every known manifest (`archive_manifest._select`).
Of what children work on, `CdWorldsAssumption` says that a container has frames with
sizes, `EnWorldsAssumption` names the codecs and faults there are, and
`NvWorldsAssumption` asks for at least one process and one pass.
`CvNamesAssumption` and `RcNamesAssumption`: files and drives are numbered in the
order of their names, and a repository has finitely many.

### What is model-checked only

- Liveness and fairness: `ControllerReleased`, `WorkersEnd`, `OperationsEnd`,
  `FleetSettles`, `ClosesOrStuck`, `StartSettles`, `DeliverySettles`,
  `PlSettles`. The prover has no rule for `WF` or `ENABLED`.
- `Planner`, `Placement` and `Capacity`: their verdicts are folds over requirements and a
  search over plans, and what a recursive definition computes is an induction
  over data. Each verdict is compared with the reference `Selections` for every
  plan of the run.
- `VerdictsSound`, `ExecutionSafe` and `OnlyMissingWritten` of `Placement` are about
  those folds, and about an order of requirements chosen by rank.

## Not modelled

- Network, terminal and HTTP: discovery, the Hub client, the portal's pages, the
  command line's parsing (`cli.py`), benchmarks. They move data and print.
- Byte formats and arithmetic of data: canonical JSON and hashes, StreamZNN, the
  choice of a codec by size and its memory accounting, real sizes, timestamps. A hash is
  what it is taken over.
- `librarian.py`, the placement that proposals replaced; `verify.py`, which reads
  Hub records before a download; diagnostics and reports of `capacity.py`.
- Parts of modelled components: the bound Dismiss and the view of a Fill, a
  `--repo` scope and parked requirements of a drain, the plain fetch command,
  `register_nas`, SMART and `mkfs`, the sealed catalog closure of a Slice and its
  observation of capacity, the byte layout of publication records.
- The archive publisher's path inside the envelope of `DriveMutation` (the
  publication itself is `Publication`), the map lock (always taken under the
  controller), shared source-read fences, approvals superseded by a serial
  repair, session child markers (nothing in production writes them).
- `recover_expired_session` has no production caller; the model lets any process
  call it. `begin_generation` and `publish_clean_anchor` have none either and are
  left out.
- Real clocks: the 24 h window, retry delays and backoff are choices.

## Plan

All modules of the plan are on disk and model-checked, and every safety property a
run checks is proved but those of `Placement` and `Capacity`, which are out of the
prover's reach (above). What would come next is code under "Not modelled": the
sealed catalog closure of a Slice, then a `--repo` scope of a drain.

----------------------------- MODULE FillDrain -----------------------------
(***************************************************************************)
(* The body of a Fill: fill._drain_projection walks the fixed map of an    *)
(* approved projection, drive by drive, and fetch.run / fetch_model /      *)
(* run_replica_tasks move the bytes of one batch.  The catalog row of a    *)
(* file (archived) and the bytes at its final path are separate state, a   *)
(* crash may separate them, and the next session starts from what is left. *)
(*                                                                         *)
(* External here: Hugging Face (what a download returns), the operator,    *)
(* and the enclosing session and drive fences (ExecutionSession,           *)
(* DriveMutation), which keep other writers away and may refuse.  The path *)
(* through the archive publisher is in Publication.                        *)
(***************************************************************************)
EXTENDS Integers, FiniteSets, FiniteSetsExt

CONSTANTS
  Task,         \* the projection: Task[r] for requirement r, numbered by order_key
  Drives, None,
  MayGate,      \* bound: repositories the account may lack access to
  MaxRuns,      \* bound: sessions that execute the approval
  MaxUnmounts,  \* bound: drives that drop (none beside a refused repository)
  MaxRetries    \* bound: operator answers "retry" to an access prompt

Reqs  == DOMAIN Task
Repos == {Task[r].repo : r \in Reqs}
Files == UNION {Task[r].files : r \in Reqs}

\* What a session may end in (_terminal), and the codes of the ends that report completion.
Verdicts == {"done", "paused", "blocked", "plan-capacity-stop", "error", "failed", "stopped"}
OrderlyCodes == {"PLAN_SATISFIED", "PLAN_COMPLETE_WITH_FOLLOWUPS", "WAITING_DEPENDENCY"}

\* One fetch task per repository: repository and requirement name the same attempts.
ASSUME DrainAssumption ==
  /\ Reqs \subseteq Nat /\ Files \subseteq Nat /\ MayGate \subseteq Repos
  /\ \A r \in Reqs : Task[r].target \in Drives /\ Task[r].source \in Drives \cup {None}
  /\ \A r, q \in Reqs : Task[r].repo = Task[q].repo /\ Task[r].source = None
                        /\ Task[q].source = None => r = q

\* None is Python's: no label of a drive, and no verdict of a session.
ASSUME DrainNames == None \notin Drives \cup Verdicts \cup OrderlyCodes

VARIABLES
  archived,  \* archived[d][f]: the row, as content_satisfies sees it
  bytes,     \* bytes[d][f]: what is at the final path, or under the key a replica copies
  mounted,   \* drives whose archive path resolves and is writable
  gated,     \* repositories the account has no access to
  stop,      \* ctx.should_stop
  left,      \* bounds: sessions, unmounts and retries left
  run        \* the Fill thread

vars == <<archived, bytes, mounted, gated, stop, left, run>>

\* "good" was written from hashed bytes, "vouched" was unproven and got its digest from
\* the row of the source; "bad" resolves to another digest, "unproven" to none.
Rows == {"none", "good", "vouched", "bad", "unproven"}
Satisfies(d, f) == archived[d][f] \in {"good", "vouched"}
Contents == {"none", "good", "foreign"}

MAX_TASK_ATTEMPTS == 2

NoOutcome == [stored |-> {}, failed |-> {}, gated |-> {}, refused |-> {}, retry |-> FALSE,
              halt |-> None, copied |-> FALSE, deferred |-> FALSE]

NoRun == [pc |-> "none", guided |-> FALSE, first |-> TRUE, pinned |-> None,
          fetch |-> {}, copy |-> {}, todo |-> {}, cur |-> None, files |-> {}, staged |-> "none",
          out |-> NoOutcome, attempts |-> [r \in Reqs |-> 0], hits |-> [p \in Repos |-> 0],
          dgated |-> {}, dcontent |-> {}, progress |-> FALSE, published |-> {},
          state |-> None, code |-> None]

Pcs == {"none", "loop", "await", "batch", "repo", "file", "verify", "store", "record", "prompt",
        "close", "fetched", "replica", "copy", "copied", "replicated", "boundary", "ended"}

DrainTypeOK ==
  /\ archived \in [Drives -> [Files -> Rows]] /\ bytes \in [Drives -> [Files -> Contents]]
  /\ mounted \subseteq Drives /\ gated \subseteq Repos /\ stop \in BOOLEAN
  /\ run.pc \in Pcs /\ run.pinned \in Drives \cup {None}
  /\ run.fetch \cup run.copy \cup run.todo \cup run.published \subseteq Reqs
  /\ run.attempts \in [Reqs -> 0..MAX_TASK_ATTEMPTS - 1] /\ run.files \subseteq Files
  /\ run.dgated \cup run.dcontent \subseteq Repos
  /\ run.state \in {None} \cup Verdicts
  /\ (run.state # None) <=> run.pc = "ended"

-----------------------------------------------------------------------------
(* _projection_work_units: what is left of the projection, from the rows.  *)

\* The approved files whose row does not prove the approved digest.
Missing(r) == {f \in Task[r].files : ~Satisfies(Task[r].target, f)}

\* _source_files_content_ready
SourceReady(r) == \A f \in Task[r].files : Satisfies(Task[r].source, f)

\* schedule_state of a unit; a satisfied requirement shrinks out.
Schedule(r) ==
  IF Task[r].source # None /\ Task[r].waits /\ ~SourceReady(r) THEN "waiting"
  ELSE IF Missing(r) = {} THEN "satisfied"
  ELSE IF Task[r].source # None /\ ~SourceReady(r) THEN "waiting"
  ELSE "ready"

Remaining == {r \in Reqs : Schedule(r) # "satisfied"}

Deferred(r) == Task[r].repo \in run.dgated \cup run.dcontent

Ready == {r \in Remaining : Schedule(r) = "ready" /\ ~Deferred(r)}
Waiting == {r \in Remaining : Schedule(r) = "waiting" /\ ~Deferred(r)}
Parked == {r \in Remaining : Deferred(r)}

\* Mutant: what the runner says it stored is complete.
Completed_Reported == (Reqs \ Remaining) \cup run.out.stored

\* publish_completed: completions re-derived from the rows, never from a runner's summary.
Completed == Reqs \ Remaining

-----------------------------------------------------------------------------
(* Initial states: an approved map over drives on which at most one file   *)
(* already has a row, or bytes a crashed session left without one.         *)

Found == {<<"none", "none">>, <<"good", "good">>, <<"bad", "foreign">>,
          <<"unproven", "foreign">>, <<"none", "good">>, <<"none", "foreign">>}

DrainInit ==
  /\ \E d \in Drives, f \in Files, was \in Found :
       /\ archived = [e \in Drives |-> [g \in Files |-> IF e = d /\ g = f THEN was[1] ELSE "none"]]
       /\ bytes = [e \in Drives |-> [g \in Files |-> IF e = d /\ g = f THEN was[2] ELSE "none"]]
  /\ mounted = Drives
  /\ gated \in SUBSET MayGate
  /\ stop = FALSE /\ run = NoRun
  /\ left = [runs |-> MaxRuns, unmounts |-> IF gated = {} THEN MaxUnmounts ELSE 0,
             retries |-> MaxRetries]

\* _terminal; what is left of a session is its verdict and what it parked.
End(state, code) ==
  run' = [NoRun EXCEPT !.pc = "ended", !.state = state, !.code = code, !.published = Completed,
                       !.dgated = run.dgated, !.dcontent = run.dcontent]

\* The next turn of the loop.
Turn(r) == [r EXCEPT !.pc = "loop", !.fetch = {}, !.copy = {}, !.out = NoOutcome]

\* States that depend on whether this session stored anything before.
Halted(progress, yes, no) == IF progress THEN yes ELSE no

World == <<archived, bytes, mounted, gated, stop, left>>

-----------------------------------------------------------------------------
(* The drain loop.                                                         *)

\* fill.execute of a first or a resumed session.
BeginDrain(guided) ==
  /\ run.pc \in {"none", "ended"} /\ left.runs > 0
  /\ left' = [left EXCEPT !.runs = @ - 1]
  /\ stop' = FALSE
  /\ run' = [NoRun EXCEPT !.pc = "loop", !.guided = guided]
  /\ UNCHANGED <<archived, bytes, mounted, gated>>

\* hf_auth_preflight, where the caller asks for it.
AuthInvalid ==
  /\ run.pc = "loop" /\ run.first
  /\ End("blocked", "HF_AUTH_INVALID")
  /\ UNCHANGED World

\* Nothing is ready: parked work is a follow-up, waiting work pauses, else all is done.
Drained ==
  /\ run.pc = "loop" /\ ~stop /\ Ready = {}
  /\ IF Parked # {} THEN End("done", "PLAN_COMPLETE_WITH_FOLLOWUPS")
     ELSE IF Waiting # {} THEN End("paused", "WAITING_DEPENDENCY")
     ELSE End("done", "PLAN_SATISFIED")
  /\ UNCHANGED World

\* Without a guide the first batch needs every drive it involves.
DriveUnavailable ==
  /\ run.pc = "loop" /\ ~stop /\ run.first /\ ~run.guided
  /\ \E r \in Ready : ~({Task[r].target, Task[r].source} \ {None} \subseteq mounted)
  /\ End("blocked", "DRIVE_UNAVAILABLE")
  /\ UNCHANGED World

\* One drive at a time: the pinned one while it has ready work, else the first of the map.
PinBatch ==
  LET labels == {Task[r].target : r \in Ready}
      drive  == IF run.pinned \in labels THEN run.pinned
                ELSE Task[Min({r \in Remaining : Task[r].target \in labels})].target
      batch  == {r \in Ready : Task[r].target = drive}
  IN
  /\ run.pc = "loop" /\ ~stop /\ Ready # {}
  /\ run.first /\ ~run.guided =>
       \A r \in Ready : {Task[r].target, Task[r].source} \ {None} \subseteq mounted
  /\ run' = [run EXCEPT !.pc = "await", !.first = FALSE, !.pinned = drive,
                        !.published = Completed, !.out = NoOutcome,
                        !.fetch = {r \in batch : Task[r].source = None},
                        !.copy = {r \in batch : Task[r].source # None}]
  /\ UNCHANGED World

\* _await_drive: a guided Fill polls until the drive is ready, or Stop.
AwaitDrive ==
  /\ run.pc = "await" /\ ~stop
  /\ run.guided => run.pinned \in mounted
  /\ run' = [run EXCEPT !.pc = "batch"]
  /\ UNCHANGED World

\* The loop head, _await_drive and the check behind it all honour Stop.
StopAtBoundary ==
  /\ run.pc \in {"loop", "await"} /\ stop
  /\ End("stopped", "OPERATOR_STOP")
  /\ UNCHANGED World

-----------------------------------------------------------------------------
(* fetch.run on the fetch tasks of the batch.                              *)

\* The drive is gone again: run returns an empty summary.  Or the mutation envelope
\* refuses the drive.  Else the repositories are taken in the order of the map.
FetchBegin ==
  /\ run.pc = "batch"
  /\ \/ run.fetch = {} /\ run' = [run EXCEPT !.pc = "replica", !.todo = run.copy]
     \/ run.fetch # {} /\ run.pinned \notin mounted /\ run' = [run EXCEPT !.pc = "fetched"]
     \/ /\ run.fetch # {} /\ run.pinned \in mounted
        /\ \/ run' = [run EXCEPT !.pc = "repo", !.todo = run.fetch]
           \/ run' = [run EXCEPT !.pc = "close", !.out = [@ EXCEPT !.halt = "terminal"]]
  /\ UNCHANGED World

Repo == Task[run.cur].repo
Pinned(f) == archived[run.pinned][f]

\* fetch_model: files with a satisfying row are skipped, a row that conflicts or proves
\* nothing refuses the whole task, the rest is to be fetched.
FetchModel(r) ==
  IF \E f \in Task[r].files : Pinned(f) \in {"bad", "unproven"}
  THEN run' = [run EXCEPT !.todo = @ \ {r},
                          !.out = [@ EXCEPT !.refused = run.out.refused \cup {Task[r].repo}]]
  ELSE run' = [run EXCEPT !.todo = @ \ {r}, !.cur = r, !.pc = "file", !.files = Missing(r)]

\* The next repository, unless Stop or the 24 h cap ends the batch, or none is left.
FetchRepo ==
  /\ run.pc = "repo"
  /\ \/ run.todo = {} /\ run' = [run EXCEPT !.pc = "close"]
     \/ run.todo # {} /\ run' = [run EXCEPT !.pc = "close",
                            !.out = [@ EXCEPT !.halt = IF stop THEN "stopped" ELSE "throttled"]]
     \/ run.todo # {} /\ ~stop /\ FetchModel(Min(run.todo))
  /\ UNCHANGED World

\* What a batch has reported, and one more task that stored something, or failed.
Stored(r) == [run.out EXCEPT !.stored = @ \cup {r}]
Failed(r) == [run.out EXCEPT !.failed = @ \cup {r}]

\* What fetch.run does with an exception of fetch_model.
Fails == [run EXCEPT !.pc = IF run.pinned \in mounted THEN "repo" ELSE "close",
                     !.staged = "none", !.files = {},
                     !.out = [Failed(run.cur) EXCEPT
                                !.halt = IF run.pinned \in mounted THEN run.out.halt ELSE "unwritable"]]
Halts(why) ==
  [run EXCEPT !.pc = "close", !.out = [@ EXCEPT !.halt = why], !.staged = "none", !.files = {}]

\* The file boundary: a Stop returns normally from fetch_model, in mid-model.
ModelReturns ==
  /\ run.pc = "file"
  /\ run.files = {} \/ stop
  /\ run' = [run EXCEPT !.pc = "repo", !.out = Stored(run.cur), !.files = {}]
  /\ UNCHANGED World

\* before_file (_file_guard): the live capacity of the drive does not admit the file.
CapacityPreflight ==
  /\ run.pc = "file" /\ run.files # {} /\ ~stop
  /\ run' = Halts("capacity")
  /\ UNCHANGED World

\* _download_shard: a monitored child, killed when it stalls or on Stop, retried, and
\* classified.  What it delivers may be corrupt.
DownloadShard ==
  /\ run.pc = "file" /\ run.files # {} /\ ~stop
  /\ \/ /\ Repo \notin gated /\ run.pinned \in mounted
        /\ \E staged \in {"good", "foreign"} :
             run' = [run EXCEPT !.pc = "verify", !.staged = staged]
     \/ Repo \notin gated /\ run' \in {Fails, Halts("terminal"), Halts("throttled")}
     \/ /\ Repo \in gated
        /\ LET hits == run.hits[Repo] IN
             run' = [run EXCEPT !.pc = "prompt",
                                !.hits = [@ EXCEPT ![Repo] = IF hits = 2 THEN 2 ELSE hits + 1]]
  /\ UNCHANGED World

DownloadStopped ==
  /\ run.pc \in {"file", "verify"} /\ run.files # {} /\ stop
  /\ run' = Halts("stopped")
  /\ UNCHANGED World

\* on_gated: the first time the repository is left for later, then the operator decides;
\* a Stop or an unanswered prompt is among the answers.
OnGated ==
  /\ run.pc = "prompt"
  /\ \/ /\ run.hits[Repo] = 1
        /\ run' = [run EXCEPT !.pc = "repo", !.files = {}] /\ left' = left
     \/ /\ run.hits[Repo] = 2 /\ left.retries > 0
        /\ run' = [run EXCEPT !.pc = "close", !.files = {}, !.out = [@ EXCEPT !.retry = TRUE]]
        /\ left' = [left EXCEPT !.retries = @ - 1]
     \/ /\ run.hits[Repo] = 2
        /\ run' = [run EXCEPT !.pc = "repo", !.files = {},
                              !.out = [@ EXCEPT !.gated = run.out.gated \cup {Repo}]]
        /\ left' = left
     \/ /\ run.hits[Repo] = 2 /\ stop
        /\ run' = [run EXCEPT !.pc = "repo", !.files = {}] /\ left' = left
  /\ UNCHANGED <<archived, bytes, mounted, gated, stop>>

\* The staged bytes are hashed and must agree with the approved digest; then they are
\* compressed by a child whose canary certifies the round trip.  Policy, a crash, a hang
\* or an overrun of the child stores them raw, a failed canary fails the repository.
Verify ==
  /\ run.pc = "verify"
  /\ IF run.staged # "good" THEN run' = Fails
     ELSE run' \in {[run EXCEPT !.pc = "store"], Fails}
  /\ UNCHANGED World

\* Mutant: the staged file replaces whatever is at the final path.
PublishStaged_Replace ==
  /\ run.pc = "store"
  /\ bytes' = [bytes EXCEPT ![run.pinned][Min(run.files)] = run.staged]
  /\ run' = [run EXCEPT !.pc = "record", !.staged = "none"]
  /\ UNCHANGED <<archived, mounted, gated, stop, left>>

\* _publish_staged: never over a file with other bytes.  The same bytes are adopted; what
\* a crashed session left may be the same content in another encoding, which is not.
PublishStaged ==
  LET f == Min(run.files) IN
  /\ run.pc = "store"
  /\ \/ /\ run.pinned \notin mounted \/ bytes[run.pinned][f] # "none"
        /\ run' = Halts("terminal") /\ bytes' = bytes
     \/ /\ run.pinned \in mounted /\ bytes[run.pinned][f] \in {"none", run.staged}
        /\ bytes' = [bytes EXCEPT ![run.pinned][f] = run.staged]
        /\ run' = [run EXCEPT !.pc = "record", !.staged = "none"]
  /\ UNCHANGED <<archived, mounted, gated, stop, left>>

\* annex add, then the row, under the session's token; either may fail the repository.
RecordRow ==
  LET f == Min(run.files) IN
  /\ run.pc = "record"
  /\ \/ /\ run.pinned \in mounted
        /\ archived' = [archived EXCEPT ![run.pinned][f] = "good"]
        /\ run' = [run EXCEPT !.pc = "file", !.files = @ \ {f}]
     \/ archived' = archived /\ run' = Fails
  /\ UNCHANGED <<bytes, mounted, gated, stop, left>>

\* The mutation envelope reconciles the drive and anchors it, or refuses to.
CloseEnvelope ==
  /\ run.pc = "close"
  /\ run' \in {[run EXCEPT !.pc = "fetched", !.out = [@ EXCEPT !.halt = h]] :
                h \in {run.out.halt, IF run.out.halt = "stopped" THEN "stopped" ELSE "terminal"}}
  /\ UNCHANGED World

-----------------------------------------------------------------------------
(* What the drain does with the summary of fetch.run.                      *)

\* Mutant: a failed task is retried for as long as it fails.
Attempted_Uncounted(T) == run.attempts

\* One attempt of each task that was attempted and is still missing something.
Attempted(T) == [r \in Reqs |-> IF r \in T THEN run.attempts[r] + 1 ELSE run.attempts[r]]

Exhausted(T) == \E r \in T : Attempted(T)[r] >= MAX_TASK_ATTEMPTS

FetchOutcome ==
  LET progress == run.progress \/ run.out.stored # {}
      dgated   == run.dgated \cup run.out.gated
      dcontent == run.dcontent \cup run.out.refused
      T == {r \in run.fetch \cap Remaining :
              r \in run.out.failed \cup run.out.stored /\ Task[r].repo \notin dgated \cup dcontent}
      next == [run EXCEPT !.progress = progress, !.dgated = dgated, !.dcontent = dcontent,
                          !.published = Completed, !.attempts = Attempted(T), !.cur = None,
                          !.todo = {}, !.fetch = {}]
  IN
  /\ run.pc = "fetched"
  /\ IF run.out.halt = "stopped" \/ stop THEN End("stopped", "OPERATOR_STOP")
     ELSE IF run.out.halt = "terminal"
       THEN End(Halted(progress, "paused", "blocked"), "FETCH_TERMINAL")
     ELSE IF run.out.halt = "throttled" THEN End("paused", "DOWNLOAD_THROTTLED")
     ELSE IF run.out.halt = "capacity"
       THEN End(Halted(progress, "plan-capacity-stop", "blocked"), "PLAN_CAPACITY_STOP")
     ELSE IF run.out.halt = "unwritable"
       THEN End(Halted(progress, "paused", "blocked"), "DRIVE_UNWRITABLE")
     ELSE IF Exhausted(T) THEN End("error", "FETCH_TASK_FAILED")
     ELSE IF run.out.retry
       THEN \/ run' = Turn(next)
            \/ End("failed", "PROJECTION_REFRESH_FAILED")
     ELSE IF T # {} THEN run' = Turn([next EXCEPT !.pinned = None])
     ELSE run' = [next EXCEPT !.pc = "replica", !.todo = run.copy, !.out = NoOutcome]
  /\ UNCHANGED World

-----------------------------------------------------------------------------
(* run_replica_tasks on the replica tasks of the batch.                    *)

Source == Task[run.cur].source
Reachable(r) == {Task[r].source, Task[r].target} \subseteq mounted

\* The next task: an absent drive defers it, the envelope may refuse it.
ReplicaTask ==
  /\ run.pc = "replica"
  /\ \/ /\ run.todo = {}
        /\ run' = [run EXCEPT !.pc = IF run.copy = {} THEN "boundary" ELSE "replicated", !.cur = None]
     \/ /\ run.todo # {}
        /\ LET r == Min(run.todo) IN
           IF ~Reachable(r)
           THEN run' = [run EXCEPT !.todo = @ \ {r}, !.out = [@ EXCEPT !.deferred = TRUE]]
           ELSE \/ run' = [run EXCEPT !.todo = @ \ {r}, !.out = Failed(r)]
                \/ run' = [run EXCEPT !.todo = @ \ {r}, !.cur = r, !.pc = "copy",
                                      !.files = Missing(r)]
  /\ UNCHANGED World

\* _classify_replica_heal: only a target row that proves nothing may take its source's digest.
HealFills(row) == row = "unproven"
\* heal_replica_archived_from_source: it takes that digest over if the source row has one
\* beside its key; the bytes are not looked at.  Any other existing row fails the copy.
ReplicaExisting ==
  LET f == Min(run.files) IN
  /\ run.pc = "copy" /\ run.files # {} /\ archived[run.pinned][f] # "none"
  /\ \/ /\ HealFills(archived[run.pinned][f])
        /\ archived' = [archived EXCEPT ![run.pinned][f] = "vouched"]
        /\ run' = [run EXCEPT !.files = @ \ {f}, !.out = Stored(run.cur)]
     \/ /\ archived' = archived
        /\ run' = [run EXCEPT !.files = @ \ {f}, !.out = Failed(run.cur)]
  /\ UNCHANGED <<bytes, mounted, gated, stop, left>>

\* git annex copy of one key, proved by whereis for the target's uuid; an endpoint that
\* went away defers the rest of the group.
ReplicaCopy ==
  LET f == Min(run.files) IN
  /\ run.pc = "copy" /\ run.files # {} /\ archived[run.pinned][f] = "none"
  /\ \/ /\ Reachable(run.cur)
        /\ bytes' = [bytes EXCEPT ![run.pinned][f] = bytes[Source][f]]
        /\ run' = [run EXCEPT !.pc = "copied"]
     \/ /\ bytes' = bytes
        /\ run' = IF Reachable(run.cur)
                  THEN [run EXCEPT !.files = @ \ {f}, !.out = Failed(run.cur)]
                  ELSE [run EXCEPT !.files = {}, !.pc = "replica",
                                   !.out = [@ EXCEPT !.deferred = TRUE]]
  /\ UNCHANGED <<archived, mounted, gated, stop, left>>

ReplicaRecord ==
  LET f == Min(run.files) IN
  /\ run.pc = "copied"
  /\ archived' = [archived EXCEPT ![run.pinned][f] = archived[Source][f]]
  /\ run' = [run EXCEPT !.pc = "copy", !.files = @ \ {f},
                        !.out = [Stored(run.cur) EXCEPT !.copied = TRUE]]
  /\ UNCHANGED <<bytes, mounted, gated, stop, left>>

ReplicaTaskEnds ==
  /\ run.pc = "copy" /\ run.files = {}
  /\ run' = [run EXCEPT !.pc = "replica"]
  /\ UNCHANGED World

ReplicaOutcome ==
  LET T == {r \in run.copy \cap Remaining : run.out.copied \/ r \in run.out.stored}
      next == [run EXCEPT !.progress = @ \/ run.out.copied, !.published = Completed,
                          !.attempts = Attempted(T)]
  IN
  /\ run.pc = "replicated"
  /\ IF run.out.failed # {} THEN End("error", "REPLICA_KEY_FAILED")
     ELSE IF run.out.deferred THEN End("paused", "SOURCE_UNAVAILABLE")
     ELSE IF Exhausted(T) THEN End("error", "REPLICA_TASK_FAILED")
     ELSE IF T # {} THEN run' = Turn([next EXCEPT !.pinned = None])
     ELSE run' = [next EXCEPT !.pc = "boundary"]
  /\ UNCHANGED World

\* Heartbeat and constrained refresh of the projection, which fail closed.
BatchBoundary ==
  /\ run.pc = "boundary"
  /\ \/ run' = Turn([run EXCEPT !.pinned = None, !.published = Completed])
     \/ End("failed", "PROJECTION_REFRESH_FAILED")
  /\ UNCHANGED World

-----------------------------------------------------------------------------
(* The world around the Fill.                                              *)

RequestStop ==
  /\ run.pc \notin {"none", "ended"} /\ ~stop
  /\ stop' = TRUE
  /\ UNCHANGED <<archived, bytes, mounted, gated, left, run>>

Unmount(d) ==
  /\ d \in mounted /\ left.unmounts > 0
  /\ mounted' = mounted \ {d} /\ left' = [left EXCEPT !.unmounts = @ - 1]
  /\ UNCHANGED <<archived, bytes, gated, stop, run>>

Mount(d) ==
  /\ d \notin mounted
  /\ mounted' = mounted \cup {d}
  /\ UNCHANGED <<archived, bytes, gated, stop, left, run>>

GrantAccess(p) ==
  /\ p \in gated
  /\ gated' = gated \ {p}
  /\ UNCHANGED <<archived, bytes, mounted, stop, left, run>>

\* The process dies; rows and published files stay, staging is found again or swept.
Crash ==
  /\ run.pc \notin {"none", "ended"} /\ left.runs > 0
  /\ run' = NoRun
  /\ UNCHANGED World

\* One step of the Fill thread.
Step ==
  \/ AuthInvalid \/ Drained \/ DriveUnavailable \/ PinBatch \/ AwaitDrive
  \/ StopAtBoundary
  \/ FetchBegin \/ FetchRepo \/ ModelReturns \/ CapacityPreflight
  \/ DownloadShard \/ DownloadStopped \/ OnGated \/ Verify \/ PublishStaged \/ RecordRow
  \/ CloseEnvelope \/ FetchOutcome
  \/ ReplicaTask \/ ReplicaExisting \/ ReplicaCopy \/ ReplicaRecord
  \/ ReplicaTaskEnds \/ ReplicaOutcome \/ BatchBoundary

DrainNext ==
  \/ \E guided \in BOOLEAN : BeginDrain(guided)
  \/ Step
  \/ RequestStop \/ Crash
  \/ \E d \in Drives : Unmount(d) \/ Mount(d)
  \/ \E p \in Repos : GrantAccess(p)

DrainSpec == DrainInit /\ [][DrainNext]_vars

\* The thread runs, and a drive the Fill asks for is mounted in the end; nobody has to
\* stop the Fill, grant access or answer "retry".
FairDrainSpec == DrainSpec /\ WF_vars(Step) /\ \A d \in Drives : WF_vars(Mount(d))

-----------------------------------------------------------------------------
(* Properties.                                                             *)

\* A row written from hashed bytes stands for approved bytes at its path, over every crash
\* between _publish_staged and the row, every download and every copy.  (A healed row has
\* only the word of its source: "vouched".)
RowsTellBytes ==
  \A d \in Drives, f \in Files : archived[d][f] = "good" => bytes[d][f] = "good"

Kept(d, f) == bytes[d][f] = "good" \/ archived[d][f] = "vouched"

\* However a session ends in order (PLAN_SATISFIED, PLAN_COMPLETE_WITH_FOLLOWUPS "all other
\* feasible work is safe", WAITING_DEPENDENCY), a requirement that is not parked and whose
\* source is proved has its bytes; PLAN_SATISFIED leaves out nothing.
FeasibleIsSafe ==
  LET Safe(r) == \A f \in Task[r].files : Kept(Task[r].target, f) IN
  run.code \in OrderlyCodes =>
    \A r \in Reqs :
      Safe(r) \/ /\ run.code # "PLAN_SATISFIED"
                 /\ Deferred(r) \/ (Task[r].source # None /\ ~SourceReady(r))

\* What the portal was told is complete (publish_completed) stays complete and has its
\* bytes on the target of the approval, whatever ends the session.
CompletionIsDurable ==
  \A r \in run.published : \A f \in Task[r].files :
    Satisfies(Task[r].target, f) /\ Kept(Task[r].target, f)

\* Rows, the published completion and the code a session ends with tell what is on the drives.
ReportsAreTrue == DrainTypeOK /\ RowsTellBytes /\ FeasibleIsSafe /\ CompletionIsDurable

\* Content that conflicts with the approval is evidence: no fetch replaces it at its path,
\* and nothing replaces its row.
ConflictKept ==
  [][\A d \in Drives, f \in Files :
       /\ archived[d][f] = "bad" => archived'[d][f] = "bad"
       /\ bytes[d][f] = "foreign" /\ run.pc # "copy" => bytes'[d][f] = "foreign"]_vars

(***************************************************************************)
(* What a Fill reports is true to rows and bytes, and it destroys no       *)
(* evidence (_drain_projection, _publish_staged).                          *)
(***************************************************************************)
FillTruthful == []ReportsAreTrue /\ ConflictKept

\* A session that loops ends: retries of failed tasks are bounded (_MAX_TASK_ATTEMPTS), access
\* prompts are answered or time out, an absent drive is awaited and not spun on for ever.
DrainDue == run.pc = "loop"
DrainDone == run.pc \in {"none", "ended"}
=============================================================================

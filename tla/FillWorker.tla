----------------------------- MODULE FillWorker -----------------------------
(***************************************************************************)
(* The portal's background Fill: the worker of web/fill_worker.py, the     *)
(* endpoints of web/fill_api.py that start, stop, answer and poll it, and  *)
(* the selection writes of web/selection_api.py that must not overlap it.  *)
(*                                                                         *)
(* One thread runs the Fill; the others are HTTP request threads.  State   *)
(* under the worker's _lock changes in one step; a call that leaves the    *)
(* lock (a database read, a callback under the gate, a wait) is several.   *)
(* The Fill body itself is FillDrain; here it commits archive rows, asks   *)
(* the operator, and ends or raises.                                       *)
(***************************************************************************)
EXTENDS Integers, FiniteSets, Sequences, Functions

CONSTANTS
  Tabs,        \* HTTP request threads
  Drives,      \* drives whose archived totals are displayed
  Repos,       \* repositories of the selection
  WorkOutcomes, \* bound: how a Fill body may end
  None,
  MaxEvents,   \* bound: operator prompts and archived rows committed
  MaxRuns,     \* bound: Fill sessions started
  MaxWork      \* bound: both together

ASSUME FillWorkerBounds ==
  /\ MaxEvents \in Nat /\ MaxRuns \in Nat /\ MaxWork \in Nat
  /\ None \notin Tabs \cup Drives

VARIABLES
  session,     \* a live execution session is in the catalog
  runs,        \* sessions started so far (bound)
  thread,      \* the Fill thread: pc, and what its current call holds
  stop,        \* _stop
  wake,        \* _decision_event
  decision,    \* _decision_id and _decision_response
  status,      \* _state["status"], retained after the run
  gens,        \* _archive_generations
  totals,      \* _state["archived_by_drive"]; None before a total is published
  stale,       \* _state["archived_stale_drives"]
  durable,     \* sum(stored_bytes) of the archived rows, in rows
  heard,       \* history: of these, the rows there when the drive was last marked changed
  gate,        \* the request thread holding _gate across a mutation, or None
  sel,         \* the selection table: "out", "staged" or "finalized"
  tab,         \* request threads
  oopsie,      \* the run that last_fill.json tells of, 0 when the file is absent
  ended,       \* history: how each run ended, and whether the file could be kept in step
  acked,       \* history: the runs ended when a warning was last dismissed
  answers      \* history: answers[i] of prompt i, acknowledged to a tab and returned

workerVars == <<thread, stop, wake, decision, status, gens, totals, stale>>
archiveVars == <<durable, heard>>
warningVars == <<oopsie, ended, acked>>
vars == <<session, runs, workerVars, archiveVars, gate, sel, tab, warningVars, answers>>

Outcomes == {"done", "paused", "blocked", "plan-capacity-stop", "error", "failed"}

\* What the body returns, or that it raises.
BodyEnds == Outcomes \cup {"raised"}

ASSUME FillWorkerOutcomes == WorkOutcomes \subseteq BodyEnds

Oopsie == {"error", "blocked", "plan-capacity-stop", "paused"}
Actions == {"retry", "skip"}

\* What is told of an end: an exception is an error.
Told(res) == IF res = "raised" THEN "error" ELSE res

NoThread == [pc |-> "none", drive |-> None, gen |-> 0, total |-> 0, res |-> None]
NoTab == [pc |-> "idle", op |-> None, todo |-> {}, tried |-> {}, drive |-> None, total |-> 0]
NoAnswer == [ack |-> None, ret |-> None]

running == thread.pc \notin {"none", "dead"}

FillWorkerTypeOK ==
  /\ session \in BOOLEAN /\ runs \in 0..MaxRuns
  /\ thread \in [pc : {"none", "work", "committed", "marked", "read", "prompt", "promptEnd",
                       "ended", "persisted", "emitted", "dead"},
                 drive : Drives \cup {None}, gen : Nat, total : Nat,
                 res : BodyEnds \cup {"stopped", None}]
  /\ stop \in BOOLEAN /\ wake \in BOOLEAN
  /\ decision \in [id : Nat, response : Actions \cup {None}]
  /\ status \in Outcomes \cup {"idle", "running", "stopped"}
  /\ gens \in [Drives -> Nat] /\ durable \in [Drives -> Nat] /\ heard \in [Drives -> Nat]
  /\ totals \in [Drives -> Nat \cup {None}] /\ stale \subseteq Drives
  /\ gate \in Tabs \cup {None}
  /\ sel \in [Repos -> {"out", "staged", "finalized"}]
  /\ tab \in [Tabs -> [pc : {"idle", "started", "guarded", "refresh", "total"},
                       op : {None, "add", "remove", "clear", "finalize"},
                       todo : SUBSET (Drives \X Nat), tried : SUBSET (Drives \X Nat),
                       drive : Drives \cup {None}, total : Nat]]
  /\ ended \in Seq([res : BodyEnds \cup {"stopped"}, kept : BOOLEAN])
  /\ oopsie \in 0..Len(ended) /\ acked \in 0..Len(ended)
  /\ DOMAIN answers = 1..Cardinality(DOMAIN answers)

Init ==
  /\ session = FALSE /\ runs = 0
  /\ thread = NoThread /\ stop = FALSE /\ wake = FALSE
  /\ decision = [id |-> 0, response |-> None] /\ status = "idle"
  /\ gens = [d \in Drives |-> 0] /\ totals = [d \in Drives |-> None] /\ stale = {}
  /\ durable = [d \in Drives |-> 0] /\ heard = durable
  /\ gate = None /\ sel = [r \in Repos |-> "out"]
  /\ tab = [t \in Tabs |-> NoTab]
  /\ oopsie = 0 /\ ended = <<>> /\ acked = 0 /\ answers = <<>>

\* What the bounds count.
Events == Cardinality(DOMAIN answers) + FoldFunction(+, 0, durable)
More == runs + Events < MaxWork

Goto(pc) == thread' = [thread EXCEPT !.pc = pc]

-----------------------------------------------------------------------------
(* fill_api.start: open the session, then hand it to the worker.           *)

\* execution_service.start_fill commits a live session unless there is one.
StartSession(t) ==
  /\ tab[t].pc = "idle" /\ ~session /\ runs < MaxRuns /\ More
  /\ session' = TRUE /\ runs' = runs + 1
  /\ tab' = [tab EXCEPT ![t].pc = "started"]
  /\ UNCHANGED <<workerVars, archiveVars, gate, sel, warningVars, answers>>

\* WORKER.start under _gate and _lock; a thread still alive refuses it.
WorkerStart(t) ==
  /\ tab[t].pc = "started" /\ gate = None
  /\ tab' = [tab EXCEPT ![t] = NoTab]
  /\ IF running
     THEN UNCHANGED workerVars
     ELSE /\ thread' = [NoThread EXCEPT !.pc = "work"]
          /\ stop' = FALSE /\ wake' = FALSE
          /\ decision' = [id |-> 0, response |-> None]
          /\ status' = "running"
          /\ totals' = [d \in Drives |-> None] /\ stale' = {}
          /\ gens' = gens
  /\ UNCHANGED <<session, runs, archiveVars, gate, sel, warningVars, answers>>

\* The request fails between the two: a bad cap in the body, an unreadable view.
StartRaises(t) ==
  /\ tab[t].pc = "started"
  /\ tab' = [tab EXCEPT ![t] = NoTab]
  /\ UNCHANGED <<session, runs, workerVars, archiveVars, gate, sel, warningVars, answers>>

\* request_stop: the flag, then the event that wakes an open prompt.
RequestStop ==
  /\ stop' = TRUE /\ wake' = TRUE
  /\ UNCHANGED <<session, runs, thread, decision, status, gens, totals, stale, archiveVars, gate,
                 sel, tab, warningVars, answers>>

-----------------------------------------------------------------------------
(* The operator prompt: await_action and resolve_action.                   *)

\* await_action publishes the prompt; ids are fresh tokens.
AwaitOpen ==
  LET id == Cardinality(DOMAIN answers) + 1 IN
  /\ thread.pc = "work" /\ Events < MaxEvents /\ More
  /\ Goto("prompt") /\ wake' = FALSE
  /\ decision' = [id |-> id, response |-> None]
  /\ answers' = [i \in 1..id |-> IF i = id THEN NoAnswer ELSE answers[i]]
  /\ UNCHANGED <<session, runs, stop, status, gens, totals, stale, archiveVars, gate, sel, tab,
                 warningVars>>

\* Mutant: the wait is for an answer only.
AwaitEnd_AnswerOnly ==
  /\ thread.pc = "prompt" /\ decision.response # None
  /\ Goto("promptEnd")
  /\ UNCHANGED <<session, runs, stop, wake, decision, status, gens, totals, stale, archiveVars,
                 gate, sel, tab, warningVars, answers>>

\* The wait ends: Stop, an answer, or the deadline, which may pass at any time.
AwaitEnd ==
  /\ thread.pc = "prompt"
  /\ Goto("promptEnd")
  /\ UNCHANGED <<session, runs, stop, wake, decision, status, gens, totals, stale, archiveVars,
                 gate, sel, tab, warningVars, answers>>

\* The prompt is withdrawn and its response read under one lock.
AwaitReturn ==
  /\ thread.pc = "promptEnd"
  /\ Goto("work") /\ wake' = FALSE
  /\ decision' = [id |-> 0, response |-> None]
  /\ answers' = [answers EXCEPT ![decision.id].ret =
                   IF stop THEN "stopped"
                   ELSE IF decision.response # None THEN decision.response ELSE "timeout"]
  /\ UNCHANGED <<session, runs, stop, status, gens, totals, stale, archiveVars, gate, sel, tab,
                 warningVars>>

\* Mutant: the id in the request is not compared with the open prompt.
ResolveAction_AnyId(id, a) ==
  /\ running /\ decision.id # 0 /\ decision.response = None
  /\ decision' = [decision EXCEPT !.response = a] /\ wake' = TRUE
  /\ answers' = [answers EXCEPT ![id].ack = a]
  /\ UNCHANGED <<session, runs, thread, stop, status, gens, totals, stale, archiveVars, gate, sel,
                 tab, warningVars>>

\* gated_decision: a tab answers the prompt it displays, perhaps an old one.
ResolveAction(id, a) ==
  /\ running /\ decision.id = id /\ decision.response = None
  /\ decision' = [decision EXCEPT !.response = a] /\ wake' = TRUE
  /\ answers' = [answers EXCEPT ![id].ack = a]
  /\ UNCHANGED <<session, runs, thread, stop, status, gens, totals, stale, archiveVars, gate, sel,
                 tab, warningVars>>

-----------------------------------------------------------------------------
(* Archived totals: marked stale after each commit, read outside the lock, *)
(* published only if no newer mark superseded the read.                    *)

\* The Fill body commits an archived row on a drive and goes on to its event.
Commit(d) ==
  /\ thread.pc = "work" /\ Events < MaxEvents /\ More
  /\ durable' = [durable EXCEPT ![d] = @ + 1]
  /\ thread' = [thread EXCEPT !.pc = "committed", !.drive = d]
  /\ UNCHANGED <<session, runs, stop, wake, decision, status, gens, totals, stale, heard, gate,
                 sel, tab, warningVars, answers>>

\* A row without an event: release, check or record_touched raise after its commit
\* (the Fill may go on), its publication is resumed, or another process Fills later.
CommitUnheard(d) ==
  /\ thread.pc \in {"work", "dead"}
  /\ Events < MaxEvents /\ More
  /\ durable' = [durable EXCEPT ![d] = @ + 1]
  /\ UNCHANGED <<session, runs, workerVars, heard, gate, sel, tab, warningVars, answers>>

\* mark_archive_changed: a new generation of the drive, and it is stale.
MarkArchiveChanged ==
  LET d == thread.drive IN
  /\ thread.pc = "committed"
  /\ gens' = [gens EXCEPT ![d] = @ + 1]
  /\ stale' = stale \cup {d} /\ heard' = [heard EXCEPT ![d] = durable[d]]
  /\ thread' = [thread EXCEPT !.pc = "marked", !.gen = gens[d] + 1]
  /\ UNCHANGED <<session, runs, stop, wake, decision, status, totals, durable, gate, sel, tab,
                 warningVars, answers>>

\* _read_archived_total of the Fill thread; a failed read is dropped.
ReadArchivedTotal ==
  /\ thread.pc = "marked"
  /\ \/ thread' = [thread EXCEPT !.pc = "read", !.total = durable[thread.drive]]
     \/ thread' = [NoThread EXCEPT !.pc = "work"]
  /\ UNCHANGED <<session, runs, stop, wake, decision, status, gens, totals, stale, archiveVars,
                 gate, sel, tab, warningVars, answers>>

\* Mutant: any finished read is published.
ConfirmArchiveTotal_Unguarded(d, gen, total) ==
  totals' = [totals EXCEPT ![d] = total] /\ stale' = stale \ {d}

\* confirm_archive_total: only the read of the current generation counts.
ConfirmArchiveTotal(d, gen, total) ==
  IF gens[d] = gen
  THEN totals' = [totals EXCEPT ![d] = total] /\ stale' = stale \ {d}
  ELSE UNCHANGED <<totals, stale>>

WorkerConfirms ==
  /\ thread.pc = "read"
  /\ ConfirmArchiveTotal(thread.drive, thread.gen, thread.total)
  /\ thread' = [NoThread EXCEPT !.pc = "work"]
  /\ UNCHANGED <<session, runs, stop, wake, decision, status, gens, archiveVars, gate, sel, tab,
                 warningVars, answers>>

\* archive_refresh_plan: one untried generation while running, all of them after.
Targets(tried) ==
  LET all == {<<d, gens[d]>> : d \in stale} \ tried IN
  IF status = "running" THEN {{x} : x \in all} \cup (IF all = {} THEN {{}} ELSE {}) ELSE {all}

\* status: the first plan of _refresh_worker_archived_totals.
PollStatus(t) ==
  /\ tab[t].pc = "idle"
  /\ \E todo \in Targets({}) :
       /\ todo # {}
       /\ tab' = [tab EXCEPT ![t].pc = "refresh", ![t].todo = todo]
  /\ UNCHANGED <<session, runs, workerVars, archiveVars, gate, sel, warningVars, answers>>

\* One target: its total is read (or the read fails) outside the lock.
PollReads(t) ==
  /\ tab[t].pc = "refresh" /\ tab[t].todo # {}
  /\ \E x \in tab[t].todo :
       \/ tab' = [tab EXCEPT ![t].pc = "total", ![t].drive = x[1], ![t].total = durable[x[1]]]
       \/ tab' = [tab EXCEPT ![t].todo = @ \ {x}, ![t].tried = @ \cup {x}]
  /\ UNCHANGED <<session, runs, workerVars, archiveVars, gate, sel, warningVars, answers>>

PollConfirms(t) ==
  /\ tab[t].pc = "total"
  /\ \E x \in tab[t].todo :
       /\ x[1] = tab[t].drive
       /\ ConfirmArchiveTotal(x[1], x[2], tab[t].total)
       /\ tab' = [tab EXCEPT ![t].pc = "refresh", ![t].todo = @ \ {x},
                             ![t].tried = @ \cup {x}, ![t].drive = None, ![t].total = 0]
  /\ UNCHANGED <<session, runs, thread, stop, wake, decision, status, gens, archiveVars, gate, sel,
                 warningVars, answers>>

\* The next plan: a running snapshot is returned, a terminal one is drained first.
PollAgain(t) ==
  /\ tab[t].pc = "refresh" /\ tab[t].todo = {}
  /\ \E todo \in Targets(tab[t].tried) :
       tab' = [tab EXCEPT ![t] = IF status = "running" \/ todo = {} THEN NoTab
                                 ELSE [@ EXCEPT !.todo = todo]]
  /\ UNCHANGED <<session, runs, workerVars, archiveVars, gate, sel, warningVars, answers>>

-----------------------------------------------------------------------------
(* The end of the run.                                                     *)

\* fill.execute returns or raises and has ended its session; a refused end says "failed".
WorkEnds(o) ==
  /\ thread.pc = "work"
  /\ \/ session' = FALSE
     \/ o \in {"failed", "raised"} /\ session' = session
  /\ thread' = [NoThread EXCEPT !.pc = "ended", !.res = o]
  /\ UNCHANGED <<runs, stop, wake, decision, status, gens, totals, stale, archiveVars, gate, sel,
                 tab, warningVars, answers>>

\* The body stops at its next boundary and reports it.
WorkStops ==
  /\ thread.pc = "work" /\ stop
  /\ session' = FALSE
  /\ thread' = [NoThread EXCEPT !.pc = "ended", !.res = "stopped"]
  /\ UNCHANGED <<runs, stop, wake, decision, status, gens, totals, stale, archiveVars, gate, sel,
                 tab, warningVars, answers>>

\* Mutant: an end without a warning leaves the file as it was.
PersistTerminal_NoClear ==
  /\ thread.pc = "ended"
  /\ \E kept \in BOOLEAN :
       /\ ended' = Append(ended, [res |-> thread.res, kept |-> kept])
       /\ oopsie' = IF kept /\ Told(thread.res) \in Oopsie THEN Len(ended') ELSE oopsie
  /\ Goto("persisted")
  /\ UNCHANGED <<session, runs, stop, wake, decision, status, gens, totals, stale, archiveVars,
                 gate, sel, tab, acked, answers>>

\* _persist_terminal: last_fill.json is written for these states, else removed; an
\* OSError is swallowed and leaves the file as it was.
PersistTerminal ==
  /\ thread.pc = "ended"
  /\ \E kept \in BOOLEAN :
       /\ ended' = Append(ended, [res |-> thread.res, kept |-> kept])
       /\ oopsie' = IF ~kept THEN oopsie
                    ELSE IF Told(thread.res) \in Oopsie THEN Len(ended') ELSE 0
  /\ Goto("persisted")
  /\ UNCHANGED <<session, runs, stop, wake, decision, status, gens, totals, stale, archiveVars,
                 gate, sel, tab, acked, answers>>

\* _run publishes the terminal status: a Stop takes priority over any outcome that the
\* body returns, not over one that it raises.
PublishTerminal ==
  /\ thread.pc = "persisted"
  /\ status' = IF stop /\ thread.res # "raised" THEN "stopped" ELSE Told(thread.res)
  /\ Goto("emitted")
  /\ UNCHANGED <<session, runs, stop, wake, decision, gens, totals, stale, archiveVars, gate, sel,
                 tab, warningVars, answers>>

ThreadExits ==
  /\ thread.pc = "emitted"
  /\ thread' = [NoThread EXCEPT !.pc = "dead"]
  /\ UNCHANGED <<session, runs, stop, wake, decision, status, gens, totals, stale, archiveVars,
                 gate, sel, tab, warningVars, answers>>

\* ack_terminal: the operator dismisses the warning, whichever is in the file; an
\* unlink that fails changes nothing.
AckTerminal ==
  /\ oopsie # 0 /\ oopsie' = 0 /\ acked' = Len(ended)
  /\ UNCHANGED <<session, runs, workerVars, archiveVars, gate, sel, tab, ended, answers>>

-----------------------------------------------------------------------------
(* selection_api: additions go straight to the graph write; removals and   *)
(* Finish run under the worker's lifecycle gate.                           *)

\* The graph write of one operation on one repository or on all of them.
Written(op, R) ==
  [r \in Repos |->
     IF op = "add" /\ r \in R /\ sel[r] = "out" THEN "staged"
     ELSE IF op = "remove" /\ r \in R THEN "out"
     ELSE IF op = "clear" THEN "out"
     ELSE IF op = "finalize" /\ sel[r] = "staged" THEN "finalized"
     ELSE sel[r]]

\* toggle / bulk with on: refused by graph_write while a session is live.
SelectionAdd(t, R) ==
  /\ tab[t].pc = "idle"
  /\ ~session /\ sel' = Written("add", R)
  /\ UNCHANGED <<session, runs, workerVars, archiveVars, gate, tab, warningVars, answers>>

\* Mutant: the gate is not checked against a live thread.
GuardedMutation_NoCheck(t, op) ==
  /\ tab[t].pc = "idle" /\ gate = None
  /\ gate' = t
  /\ tab' = [tab EXCEPT ![t].pc = "guarded", ![t].op = op]
  /\ UNCHANGED <<session, runs, workerVars, archiveVars, sel, warningVars, answers>>

\* guarded_mutation: take the gate; a live thread refuses the operation.
GuardedMutation(t, op) ==
  /\ tab[t].pc = "idle" /\ gate = None /\ ~running
  /\ gate' = t
  /\ tab' = [tab EXCEPT ![t].pc = "guarded", ![t].op = op]
  /\ UNCHANGED <<session, runs, workerVars, archiveVars, sel, warningVars, answers>>

\* _with_revision: the graph write, refused if a session has become live.
MutationCommits(t, R) ==
  /\ tab[t].pc = "guarded"
  /\ sel' = IF session THEN sel ELSE Written(tab[t].op, R)
  /\ gate' = None /\ tab' = [tab EXCEPT ![t] = NoTab]
  /\ UNCHANGED <<session, runs, workerVars, archiveVars, warningVars, answers>>

-----------------------------------------------------------------------------
FillThread ==
  \/ AwaitOpen \/ AwaitEnd \/ AwaitReturn
  \/ \E d \in Drives : Commit(d)
  \/ MarkArchiveChanged \/ ReadArchivedTotal \/ WorkerConfirms
  \/ \E o \in WorkOutcomes : WorkEnds(o)
  \/ WorkStops \/ PersistTerminal \/ PublishTerminal \/ ThreadExits

RequestThread(t) ==
  \/ StartSession(t) \/ WorkerStart(t)
  \/ PollStatus(t) \/ PollReads(t) \/ PollConfirms(t) \/ PollAgain(t)
  \/ \E R \in SUBSET Repos \ {{}} : SelectionAdd(t, R) \/ MutationCommits(t, R)
  \/ \E op \in {"remove", "clear", "finalize"} : GuardedMutation(t, op)

\* Every step but a request that fails half way.
Proceeds ==
  \/ FillThread
  \/ \E d \in Drives : CommitUnheard(d)
  \/ \E t \in Tabs : RequestThread(t)
  \/ RequestStop \/ AckTerminal
  \/ \E id \in DOMAIN answers, a \in Actions : ResolveAction(id, a)

Next == Proceeds \/ \E t \in Tabs : StartRaises(t)

Spec == Init /\ [][Next]_vars

\* No request fails between opening a session and handing it to the worker.
HandoverSpec == Init /\ [][Proceeds]_vars

\* What the thread does by itself; its body checks should_stop at every boundary.
ThreadStep ==
  \/ AwaitEnd \/ AwaitReturn
  \/ MarkArchiveChanged \/ ReadArchivedTotal \/ WorkerConfirms
  \/ WorkStops \/ PersistTerminal \/ PublishTerminal \/ ThreadExits

\* The Fill thread is scheduled.
FairSpec == Spec /\ WF_vars(ThreadStep)

-----------------------------------------------------------------------------
(* Properties.                                                             *)

Finalized == {r \in Repos : sel[r] = "finalized"}

\* While a Fill thread is alive or a session is live, no portal request changes
\* the finalized selection, whatever was checked before the gate or the session
\* was taken (guarded_mutation, graph_write).
SelectionFrozen == [][(running \/ session) => Finalized' = Finalized]_vars

\* A tab told that its answer was accepted has decided its own prompt: the wait
\* returns that answer unless the operator stopped the run, and without an
\* accepted answer it returns only a timeout or a stop (await_action's deadline
\* racing resolve_action, and stale tabs).
AnswerDecidesItsPrompt ==
  \A i \in DOMAIN answers :
    answers[i].ret # None =>
      answers[i].ret \in (IF answers[i].ack # None THEN {answers[i].ack, "stopped"}
                          ELSE {"timeout", "stopped"})

\* A published archived total of a drive that is not marked stale counts every row that
\* was there when the drive's last event was handled, and no row that the catalog does
\* not hold: late reads never displace it.  Rows whose event is lost or on its way may be
\* missing (mark_archive_changed / confirm_archive_total).
PublishedTotalsTrue ==
  \A d \in Drives :
    totals[d] # None /\ d \notin stale => heard[d] <= totals[d] /\ totals[d] <= durable[d]

\* Run n ended in a warning state, and no later end could be stored in its place.
Warns(n) ==
  /\ ended[n].kept /\ Told(ended[n].res) \in Oopsie
  /\ \A m \in DOMAIN ended : m > n => ~ended[m].kept

\* last_fill.json tells of a run that ended in a warning state, the last whose end could
\* be stored; and such a warning stays until one is dismissed, across later runs whose
\* end could not (_persist_terminal, ack_terminal).
WarningTold ==
  /\ oopsie # 0 => Warns(oopsie)
  /\ \A n \in DOMAIN ended : Warns(n) /\ n > acked => oopsie = n

\* The status that stays after a run is how it ended, or "stopped"; a run that raised
\* says so whatever the operator asked for (_run).
StatusIsOfLastRun ==
  thread.pc \in {"emitted", "dead"} =>
    LET last == ended[Len(ended)].res
    IN ended # <<>> /\ status \in {Told(last)} \cup (IF last = "raised" THEN {} ELSE {"stopped"})

\* What the portal shows of a Fill is so: the totals of the drives, the warning and the
\* last status.
PortalTruthful ==
  FillWorkerTypeOK /\ PublishedTotalsTrue /\ WarningTold /\ StatusIsOfLastRun

\* A Stop the thread has yet to obey: it must end, from a prompt, a read or the body
\* (request_stop).
StopDue == stop /\ running

\* fill_api.py:242: the worker receives the session that start opened.  Every live
\* session has its request still on the way to the worker, or a live thread.
SessionReachesWorker ==
  session => running \/ \E t \in Tabs : tab[t].pc = "started"

=============================================================================

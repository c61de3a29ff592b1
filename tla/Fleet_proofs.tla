-------------------------- MODULE Fleet_proofs --------------------------
(***************************************************************************)
(* Proofs about what the portal and the command line do with the fleet,    *)
(* for any number of tabs, drives, disks and labels.                       *)
(*                                                                         *)
(* The Fill tab (FillWorker): what the portal shows of a Fill is so, an    *)
(* accepted answer decides its own prompt, and the finalized selection     *)
(* stands still while a Fill is alive.  The totals need the most: they are *)
(* read outside the lock, and a commit's event may never come, so the      *)
(* invariant says what a read that some thread still carries is worth: all *)
(* rows the drive's last event told of, and none the catalog lacks.        *)
(*                                                                         *)
(* Registering a disk (Registration): whoever does something physical has  *)
(* the lock and, beside journals, the operation; hence nothing on a disk   *)
(* is adopted, and remotes and rows stay together.                         *)
(*                                                                         *)
(* Believing a drive (DriveIdentity): anchors never run ahead of the row,  *)
(* fences are held under the controller, and what a run has seen is still  *)
(* so when it publishes; hence identities move whole and are never         *)
(* contradicted.                                                           *)
(***************************************************************************)
EXTENDS FillWorker, Registration, DriveIdentity, FiniteSetTheorems, TLAPS

(* The Fill tab                                                            *)

\* The Fill thread knows the drive of its commit; a drive holds what it has been heard of.
HeardRows ==
  /\ thread.pc \in {"committed", "marked", "read"} => thread.drive \in Drives
  /\ \A d \in Drives : heard[d] <= durable[d]

\* A total with every row of d that was heard of, and none that the catalog lacks.
Worth(d, total) == heard[d] <= total /\ total <= durable[d]

\* The Fill thread's own read of the drive it has marked is worth its publication.
WorkerRead ==
  thread.pc = "read" => Worth(thread.drive, thread.total)

\* So is what a tab has read of a target whose generation is still current.
TabRead(t) ==
  /\ \A x \in tab[t].todo : x[2] <= gens[x[1]]
  /\ tab[t].pc = "total" => tab[t].drive \in Drives
  /\ tab[t].pc = "total" =>
       \A x \in tab[t].todo :
         x[1] = tab[t].drive /\ x[2] = gens[x[1]] => Worth(x[1], tab[t].total)

TabReads == \A t \in Tabs : TabRead(t)

\* A body that has ended has its outcome.
EndHasOutcome == thread.pc \in {"ended", "persisted"} => thread.res \in BodyEnds \cup {"stopped"}

\* A run that is about to publish its end is the last that ended.
EndIsLast ==
  thread.pc = "persisted" => ended # <<>> /\ ended[Len(ended)].res = thread.res

\* The open prompt, the thread that waits on it and its row of answers agree.
PromptOpen ==
  /\ thread.pc \in {"prompt", "promptEnd"} <=> decision.id # 0
  /\ decision.id # 0 =>
       /\ decision.id \in DOMAIN answers
       /\ answers[decision.id].ack = decision.response
       /\ answers[decision.id].ret = None

\* The gate is held across a mutation, and only while no Fill thread is alive.
GateExcludesFill ==
  /\ \A t \in Tabs : tab[t].pc = "guarded" => gate = t
  /\ gate # None => ~running

\* Prompts are numbered from one.
AnswerRow == [ack : Actions \cup {None}, ret : Actions \cup {None, "timeout", "stopped"}]

AnswersOK == \E n \in Nat : answers \in [1..n -> AnswerRow]

\* The inductive invariant, in its four parts.
TotalsInv  == HeardRows /\ WorkerRead /\ TabReads /\ PublishedTotalsTrue
WarningInv == EndHasOutcome /\ EndIsLast /\ WarningTold /\ StatusIsOfLastRun
PromptInv  == AnswersOK /\ PromptOpen /\ AnswerDecidesItsPrompt

WorkerInv == FillWorkerTypeOK /\ TotalsInv /\ WarningInv /\ PromptInv /\ GateExcludesFill

-----------------------------------------------------------------------------
(* Type correctness *)

\* The rows that the steps store have their types.
ThreadRow == [pc : {"none", "work", "committed", "marked", "read", "prompt", "promptEnd",
                    "ended", "persisted", "emitted", "dead"},
              drive : Drives \cup {None}, gen : Nat, total : Nat,
              res : BodyEnds \cup {"stopped", None}]
EndRow == [res : BodyEnds \cup {"stopped"}, kept : BOOLEAN]
TabRow == [pc : {"idle", "started", "guarded", "refresh", "total"},
           op : {None, "add", "remove", "clear", "finalize"},
           todo : SUBSET (Drives \X Nat), tried : SUBSET (Drives \X Nat),
           drive : Drives \cup {None}, total : Nat]

\* The variables but the answers.
RowsTypeOK ==
  /\ session \in BOOLEAN /\ runs \in 0..MaxRuns
  /\ thread \in ThreadRow
  /\ stop \in BOOLEAN /\ wake \in BOOLEAN
  /\ decision \in [id : Nat, response : Actions \cup {None}]
  /\ status \in Outcomes \cup {"idle", "running", "stopped"}
  /\ gens \in [Drives -> Nat]
  /\ durable \in [Drives -> Nat] /\ heard \in [Drives -> Nat]
  /\ totals \in [Drives -> Nat \cup {None}] /\ stale \subseteq Drives
  /\ gate \in Tabs \cup {None}
  /\ sel \in [Repos -> {"out", "staged", "finalized"}]
  /\ tab \in [Tabs -> TabRow]
  /\ ended \in Seq(EndRow)
  /\ oopsie \in 0..Len(ended) /\ acked \in 0..Len(ended)

\* Prompts are numbered 1 to their count.
LEMMA TypeSplit ==
  ASSUME AnswersOK
  PROVE  /\ RowsTypeOK => FillWorkerTypeOK
         /\ DOMAIN answers = 1..Cardinality(DOMAIN answers)
         /\ Cardinality(DOMAIN answers) \in Nat
<1>1. PICK n \in Nat : answers \in [1..n -> AnswerRow]
  BY DEF AnswersOK
<1>2. Cardinality(1..n) = n
  BY FS_Interval
<1>3. DOMAIN answers = 1..n
  BY <1>1
<1>4. DOMAIN answers = 1..Cardinality(DOMAIN answers) /\ Cardinality(DOMAIN answers) \in Nat
  BY <1>2, <1>3
<1> QED
  BY <1>4 DEF RowsTypeOK, FillWorkerTypeOK, ThreadRow, TabRow, EndRow

\* The type invariant says the types of the rows.
LEMMA TypeRows == FillWorkerTypeOK => RowsTypeOK
BY DEF RowsTypeOK, FillWorkerTypeOK, ThreadRow, TabRow, EndRow

\* A confirmed total, and the targets of a poll, have their types.
LEMMA ConfirmType ==
  ASSUME RowsTypeOK, NEW d \in Drives, NEW gen, NEW total \in Nat,
         ConfirmArchiveTotal(d, gen, total)
  PROVE  totals' \in [Drives -> Nat \cup {None}] /\ stale' \subseteq Drives
BY DEF RowsTypeOK, ConfirmArchiveTotal

\* What a poll of the archive totals still has to read: stale drives, each at its generation.
LEMMA TargetsType ==
  ASSUME RowsTypeOK, NEW tried, NEW todo \in Targets(tried)
  PROVE  /\ todo \in SUBSET (Drives \X Nat)
         /\ \A x \in todo : x[1] \in stale /\ x[2] = gens[x[1]]
<1> DEFINE all == {<<d, gens[d]>> : d \in stale} \ tried
<1>1. \A x \in all : x \in Drives \X Nat /\ x[1] \in stale /\ x[2] = gens[x[1]]
  BY DEF RowsTypeOK
<1>2. todo \subseteq all
  BY DEF Targets
<1> QED
  BY <1>1, <1>2

\* Every step of the Fill thread keeps the types.
LEMMA ThreadRowsType ==
  ASSUME RowsTypeOK, HeardRows, AnswersOK, EndHasOutcome, FillThread
  PROVE  RowsTypeOK'
<1> USE DEF RowsTypeOK, workerVars, archiveVars, warningVars
<1>1. ASSUME NEW row \in ThreadRow, thread' = row PROVE thread' \in ThreadRow
  BY <1>1
<1>2. \A pc \in {"none", "work", "committed", "marked", "read", "prompt", "promptEnd", "ended",
                 "persisted", "emitted", "dead"} : [thread EXCEPT !.pc = pc] \in ThreadRow
  BY DEF ThreadRow
<1>3. /\ [NoThread EXCEPT !.pc = "work"] \in ThreadRow
      /\ [NoThread EXCEPT !.pc = "dead"] \in ThreadRow
      /\ \A o \in BodyEnds \cup {"stopped"} : [NoThread EXCEPT !.pc = "ended", !.res = o] \in ThreadRow
  BY DEF NoThread, ThreadRow
<1>4. CASE AwaitOpen
  <2>1. decision' \in [id : Nat, response : Actions \cup {None}]
    BY <1>4, TypeSplit DEF AwaitOpen
  <2> QED
    BY <1>2, <1>4, <2>1 DEF AwaitOpen, Goto
<1>5. CASE AwaitEnd
  BY <1>2, <1>5 DEF AwaitEnd, Goto
<1>6. CASE AwaitReturn
  BY <1>2, <1>6 DEF AwaitReturn, Goto
<1>7. ASSUME NEW d \in Drives, Commit(d) PROVE RowsTypeOK'
  <2>1. [thread EXCEPT !.pc = "committed", !.drive = d] \in ThreadRow
    BY DEF ThreadRow
  <2>2. durable' \in [Drives -> Nat]
    BY <1>7 DEF Commit
  <2> QED
    BY <1>7, <2>1, <2>2 DEF Commit
<1>8. CASE MarkArchiveChanged
  <2>1. thread.drive \in Drives
    BY <1>8 DEF MarkArchiveChanged, HeardRows
  <2>2. [thread EXCEPT !.pc = "marked", !.gen = gens[thread.drive] + 1] \in ThreadRow
    <3>1. gens[thread.drive] + 1 \in Nat
      BY <2>1
    <3> QED
      BY <3>1 DEF ThreadRow
  <2>3. gens' \in [Drives -> Nat] /\ stale' \subseteq Drives /\ heard' \in [Drives -> Nat]
    BY <1>8, <2>1 DEF MarkArchiveChanged
  <2> QED
    BY <1>8, <2>2, <2>3 DEF MarkArchiveChanged
<1>9. CASE ReadArchivedTotal
  <2>1. durable[thread.drive] \in Nat
    BY <1>9 DEF ReadArchivedTotal, HeardRows
  <2>2. [thread EXCEPT !.pc = "read", !.total = durable[thread.drive]] \in ThreadRow
    BY <2>1 DEF ThreadRow
  <2> QED
    BY <1>3, <1>9, <2>2 DEF ReadArchivedTotal
<1>10. CASE WorkerConfirms
  <2>1. thread.drive \in Drives /\ thread.total \in Nat
    BY <1>10 DEF WorkerConfirms, HeardRows, ThreadRow
  <2>2. totals' \in [Drives -> Nat \cup {None}] /\ stale' \subseteq Drives
    BY <1>10, <2>1, ConfirmType DEF WorkerConfirms
  <2> QED
    BY <1>3, <1>10, <2>2 DEF WorkerConfirms
<1>11. ASSUME NEW o \in WorkOutcomes, WorkEnds(o) PROVE RowsTypeOK'
  BY <1>3, <1>11, FillWorkerOutcomes DEF WorkEnds
<1>12. CASE WorkStops
  BY <1>3, <1>12 DEF WorkStops
<1>13. CASE PersistTerminal
  <2>1. PICK kept \in BOOLEAN :
          /\ ended' = Append(ended, [res |-> thread.res, kept |-> kept])
          /\ oopsie' = IF ~kept THEN oopsie
                       ELSE IF Told(thread.res) \in Oopsie THEN Len(ended') ELSE 0
    BY <1>13 DEF PersistTerminal
  <2>2. [res |-> thread.res, kept |-> kept] \in EndRow
    BY <1>13 DEF PersistTerminal, EndHasOutcome, EndRow
  <2>3. ended' \in Seq(EndRow) /\ Len(ended') = Len(ended) + 1 /\ Len(ended) \in Nat
    BY <2>1, <2>2
  <2>4. oopsie' \in 0..Len(ended') /\ acked' \in 0..Len(ended')
    BY <1>13, <2>1, <2>3 DEF PersistTerminal
  <2> QED
    BY <1>2, <1>13, <2>3, <2>4 DEF PersistTerminal, Goto
<1>14. CASE PublishTerminal
  BY <1>2, <1>14 DEF PublishTerminal, Goto, EndHasOutcome, Told, BodyEnds, Outcomes
<1>15. CASE ThreadExits
  BY <1>3, <1>15 DEF ThreadExits
<1> QED
  BY <1>4, <1>5, <1>6, <1>7, <1>8, <1>9, <1>10, <1>11, <1>12, <1>13, <1>14, <1>15 DEF FillThread

\* What a poll makes of the row of its tab.
LEMMA PollRowType ==
  ASSUME NEW row \in TabRow, NEW x \in row.todo, NEW n \in Nat
  PROVE  /\ [row EXCEPT !.pc = "total", !.drive = x[1], !.total = n] \in TabRow
         /\ [row EXCEPT !.todo = @ \ {x}, !.tried = @ \cup {x}] \in TabRow
         /\ [row EXCEPT !.pc = "refresh", !.todo = @ \ {x}, !.tried = @ \cup {x},
                        !.drive = None, !.total = 0] \in TabRow
BY DEF TabRow

\* Every step of the requests keeps them too.
LEMMA RequestRowsType ==
  ASSUME RowsTypeOK, TabReads, AnswersOK, NEW t \in Tabs, RequestThread(t)
  PROVE  RowsTypeOK'
<1> USE DEF RowsTypeOK, workerVars, archiveVars, warningVars
<1>1. NoTab \in TabRow
  BY DEF NoTab, TabRow
<1>2. [NoThread EXCEPT !.pc = "work"] \in ThreadRow
  BY DEF NoThread, ThreadRow
<1>3. tab[t] \in TabRow
  OBVIOUS
<1>4. ASSUME NEW row \in TabRow, tab' = [tab EXCEPT ![t] = row] PROVE tab' \in [Tabs -> TabRow]
  BY <1>4
<1>5. CASE StartSession(t)
  <2>1. runs' \in 0..MaxRuns
    BY <1>5, FillWorkerBounds DEF StartSession
  <2>2. tab' \in [Tabs -> TabRow]
    BY <1>3, <1>5 DEF StartSession, TabRow
  <2> QED
    BY <1>5, <2>1, <2>2 DEF StartSession
<1>6. CASE WorkerStart(t)
  <2>1. tab' \in [Tabs -> TabRow]
    BY <1>1, <1>4, <1>6 DEF WorkerStart
  <2>2. CASE running
    BY <1>6, <2>1, <2>2 DEF WorkerStart
  <2>3. CASE ~running
    <3>1. /\ thread' \in ThreadRow /\ stop' = FALSE /\ wake' = FALSE
          /\ decision' = [id |-> 0, response |-> None] /\ status' = "running"
          /\ totals' = [d \in Drives |-> None] /\ stale' = {} /\ gens' = gens
          /\ UNCHANGED <<session, runs, archiveVars, gate, sel, warningVars, answers>>
      BY <1>2, <1>6, <2>3 DEF WorkerStart
    <3>2. /\ decision' \in [id : Nat, response : Actions \cup {None}]
          /\ totals' \in [Drives -> Nat \cup {None}]
      BY <3>1
    <3> QED
      BY <2>1, <3>1, <3>2
  <2> QED
    BY <2>2, <2>3
<1>8. CASE PollStatus(t)
  <2>1. PICK todo \in Targets({}) : tab' = [tab EXCEPT ![t].pc = "refresh", ![t].todo = todo]
    BY <1>8 DEF PollStatus
  <2>2. todo \in SUBSET (Drives \X Nat)
    BY TargetsType
  <2>3. tab' \in [Tabs -> TabRow]
    BY <1>3, <2>1, <2>2 DEF TabRow
  <2> QED
    BY <1>8, <2>3 DEF PollStatus
<1>9. CASE PollReads(t)
  <2>1. PICK x \in tab[t].todo :
          \/ tab' = [tab EXCEPT ![t].pc = "total", ![t].drive = x[1], ![t].total = durable[x[1]]]
          \/ tab' = [tab EXCEPT ![t].todo = @ \ {x}, ![t].tried = @ \cup {x}]
    BY <1>9 DEF PollReads
  <2>2. x \in Drives \X Nat /\ x[1] \in Drives /\ durable[x[1]] \in Nat
    BY <1>3 DEF TabRow
  <2>3. tab' \in [Tabs -> TabRow]
    <3>1. \/ tab' = [tab EXCEPT ![t] = [tab[t] EXCEPT !.pc = "total", !.drive = x[1],
                                                      !.total = durable[x[1]]]]
          \/ tab' = [tab EXCEPT ![t] = [tab[t] EXCEPT !.todo = @ \ {x}, !.tried = @ \cup {x}]]
      BY <2>1, Zenon
    <3> QED
      BY <1>3, <1>4, <2>2, <3>1, PollRowType
  <2> QED
    BY <1>9, <2>3 DEF PollReads
<1>10. CASE PollConfirms(t)
  <2>1. PICK x \in tab[t].todo :
          /\ ConfirmArchiveTotal(x[1], x[2], tab[t].total)
          /\ tab' = [tab EXCEPT ![t].pc = "refresh", ![t].todo = @ \ {x},
                                ![t].tried = @ \cup {x}, ![t].drive = None, ![t].total = 0]
    BY <1>10 DEF PollConfirms
  <2>2. x \in Drives \X Nat /\ x[1] \in Drives /\ tab[t].total \in Nat
    BY <1>3 DEF TabRow
  <2>3. tab' \in [Tabs -> TabRow]
    <3>1. tab' = [tab EXCEPT ![t] = [tab[t] EXCEPT !.pc = "refresh", !.todo = @ \ {x},
                                       !.tried = @ \cup {x}, !.drive = None, !.total = 0]]
      BY <2>1, Zenon
    <3> QED
      BY <1>3, <1>4, <2>2, <3>1, PollRowType
  <2>4. totals' \in [Drives -> Nat \cup {None}] /\ stale' \subseteq Drives
    BY <2>1, <2>2, ConfirmType
  <2> QED
    BY <1>10, <2>3, <2>4 DEF PollConfirms
<1>11. CASE PollAgain(t)
  <2>1. PICK todo \in Targets(tab[t].tried) :
          tab' = [tab EXCEPT ![t] = IF status = "running" \/ todo = {} THEN NoTab
                                    ELSE [@ EXCEPT !.todo = todo]]
    BY <1>11 DEF PollAgain
  <2>2. todo \in SUBSET (Drives \X Nat)
    BY TargetsType
  <2>3. [tab[t] EXCEPT !.todo = todo] \in TabRow
    BY <1>3, <2>2 DEF TabRow
  <2>4. tab' \in [Tabs -> TabRow]
    BY <1>1, <2>1, <2>3
  <2> QED
    BY <1>11, <2>4 DEF PollAgain
<1>12. ASSUME NEW op, NEW R PROVE Written(op, R) \in [Repos -> {"out", "staged", "finalized"}]
  BY DEF Written
<1>13. ASSUME NEW R, SelectionAdd(t, R) PROVE RowsTypeOK'
  BY <1>12, <1>13 DEF SelectionAdd
<1>14. ASSUME NEW R, MutationCommits(t, R) PROVE RowsTypeOK'
  BY <1>1, <1>4, <1>12, <1>14 DEF MutationCommits
<1>15. ASSUME NEW op \in {"remove", "clear", "finalize"}, GuardedMutation(t, op) PROVE RowsTypeOK'
  <2>1. tab' \in [Tabs -> TabRow]
    BY <1>3, <1>15 DEF GuardedMutation, TabRow
  <2> QED
    BY <1>15, <2>1 DEF GuardedMutation
<1> QED
  BY <1>5, <1>6, <1>8, <1>9, <1>10, <1>11, <1>13, <1>14, <1>15 DEF RequestThread

\* So every step keeps them.
LEMMA RowsTypeStep ==
  ASSUME WorkerInv, [Next]_vars
  PROVE  RowsTypeOK'
<1>0. RowsTypeOK /\ HeardRows /\ AnswersOK /\ TabReads /\ EndHasOutcome
  BY TypeRows DEF WorkerInv, TotalsInv, PromptInv, WarningInv
<1>1. ASSUME NEW id \in DOMAIN answers, NEW a \in Actions, ResolveAction(id, a) PROVE RowsTypeOK'
  BY <1>0, <1>1 DEF ResolveAction, RowsTypeOK, archiveVars, warningVars
<1>2. CASE RequestStop
  BY <1>0, <1>2 DEF RequestStop, RowsTypeOK, archiveVars, warningVars
<1>3. CASE AckTerminal
  <2>1. oopsie' \in 0..Len(ended') /\ acked' \in 0..Len(ended')
    BY <1>0, <1>3 DEF AckTerminal, RowsTypeOK
  <2> QED
    BY <1>0, <1>3, <2>1 DEF AckTerminal, RowsTypeOK, workerVars, archiveVars
<1>4. ASSUME NEW d \in Drives, CommitUnheard(d) PROVE RowsTypeOK'
  <2>1. durable' \in [Drives -> Nat]
    BY <1>0, <1>4 DEF CommitUnheard, RowsTypeOK
  <2> QED
    BY <1>0, <1>4, <2>1 DEF CommitUnheard, RowsTypeOK, workerVars, warningVars
<1>5. ASSUME NEW t \in Tabs, StartRaises(t) PROVE RowsTypeOK'
  <2>1. tab' \in [Tabs -> TabRow]
    BY <1>0, <1>5 DEF StartRaises, RowsTypeOK, NoTab, TabRow
  <2> QED
    BY <1>0, <1>5, <2>1 DEF StartRaises, RowsTypeOK, workerVars, archiveVars, warningVars
<1>6. CASE UNCHANGED vars
  BY <1>0, <1>6 DEF vars, RowsTypeOK, workerVars, archiveVars, warningVars
<1> QED
  BY <1>0, <1>1, <1>2, <1>3, <1>4, <1>5, <1>6, ThreadRowsType, RequestRowsType DEF Next, Proceeds

-----------------------------------------------------------------------------
(* The archived totals *)

\* Rows may be added; nothing else the totals depend on changes, but a tab without a read.
LEMMA TotalsKept ==
  ASSUME RowsTypeOK, TotalsInv, UNCHANGED <<gens, heard, totals, stale>>,
         \A d \in Drives : durable'[d] \in Nat /\ durable[d] <= durable'[d],
         thread'.pc \in {"committed", "marked"} => thread'.drive \in Drives,
         thread'.pc = "read" => thread' = thread,
         \A t \in Tabs : tab'[t] = tab[t] \/ TabRead(t)'
  PROVE  TotalsInv'
<1> USE DEF TotalsInv
<1>0. /\ thread \in ThreadRow /\ heard \in [Drives -> Nat] /\ durable \in [Drives -> Nat]
      /\ totals \in [Drives -> Nat \cup {None}]
      /\ \A t \in Tabs : tab[t] \in TabRow
  BY DEF RowsTypeOK
<1>1. ASSUME NEW d \in Drives, NEW total \in Nat, Worth(d, total) PROVE Worth(d, total)'
  BY <1>0, <1>1 DEF Worth
<1>2. HeardRows'
  BY <1>0 DEF HeardRows
<1>3. WorkerRead'
  BY <1>0, <1>1 DEF WorkerRead, HeardRows, ThreadRow
<1>4. PublishedTotalsTrue'
  BY <1>0, <1>1 DEF PublishedTotalsTrue, Worth
<1>5. ASSUME NEW t \in Tabs, tab'[t] = tab[t] PROVE TabRead(t)'
  <2>1. TabRead(t) /\ tab[t].total \in Nat
    BY <1>0 DEF TabReads, TabRow
  <2>2. ASSUME NEW x \in tab[t].todo, tab[t].pc = "total", x[1] = tab[t].drive, x[2] = gens[x[1]]
        PROVE  Worth(x[1], tab[t].total)'
    BY <1>1, <1>5, <2>1, <2>2 DEF TabRead
  <2>3. ASSUME tab'[t].pc = "total", NEW x \in tab'[t].todo, x[1] = tab'[t].drive,
               x[2] = gens'[x[1]]
        PROVE  Worth(x[1], tab[t].total)'
    BY <1>5, <2>2, <2>3
  <2> QED
    BY <1>5, <2>1, <2>3 DEF TabRead
<1> QED
  BY <1>2, <1>3, <1>4, <1>5 DEF TabReads

\* The thread moves, away from any read.
LEMMA ThreadMoves ==
  ASSUME RowsTypeOK, TotalsInv, UNCHANGED <<gens, durable, heard, totals, stale, tab>>,
         thread'.pc \notin {"committed", "marked", "read"}
  PROVE  TotalsInv'
<1>1. \A d \in Drives : durable'[d] \in Nat /\ durable[d] <= durable'[d]
  BY DEF RowsTypeOK
<1> QED
  BY <1>1, TotalsKept

\* A total worth its publication may be confirmed.
LEMMA ConfirmTotals ==
  ASSUME RowsTypeOK, PublishedTotalsTrue, NEW d \in Drives, NEW gen, NEW total,
         gens[d] = gen => Worth(d, total),
         ConfirmArchiveTotal(d, gen, total), UNCHANGED archiveVars
  PROVE  PublishedTotalsTrue'
<1> USE DEF archiveVars
<1>1. CASE gens[d] = gen
  <2>1. totals' = [totals EXCEPT ![d] = total] /\ stale' = stale \ {d}
    BY <1>1 DEF ConfirmArchiveTotal
  <2>2. \A e \in Drives : totals'[e] = IF e = d THEN total ELSE totals[e]
    BY <2>1 DEF RowsTypeOK
  <2> QED
    BY <1>1, <2>1, <2>2 DEF PublishedTotalsTrue, Worth
<1>2. CASE gens[d] # gen
  BY <1>2 DEF ConfirmArchiveTotal, PublishedTotalsTrue
<1> QED
  BY <1>1, <1>2

\* A commit keeps the totals right, whether or not its event comes.
LEMMA CommitTotals ==
  ASSUME RowsTypeOK, TotalsInv, NEW d \in Drives, Commit(d) \/ CommitUnheard(d)
  PROVE  TotalsInv'
<1>1. /\ durable' = [durable EXCEPT ![d] = @ + 1]
      /\ UNCHANGED <<gens, heard, totals, stale, tab>>
  BY DEF Commit, CommitUnheard, workerVars
<1>2. \A e \in Drives : durable'[e] \in Nat /\ durable[e] <= durable'[e]
  BY <1>1 DEF RowsTypeOK
<1>3. CASE Commit(d)
  <2>1. thread'.pc = "committed" /\ thread'.drive = d
    BY <1>3 DEF Commit, RowsTypeOK, ThreadRow
  <2> QED
    BY <1>1, <1>2, <2>1, TotalsKept
<1>4. CASE CommitUnheard(d)
  <2>1. thread' = thread
    BY <1>4 DEF CommitUnheard, workerVars
  <2>2. thread'.pc \in {"committed", "marked"} => thread'.drive \in Drives
    BY <2>1 DEF TotalsInv, HeardRows
  <2> QED
    BY <1>1, <1>2, <2>1, <2>2, TotalsKept
<1> QED
  BY <1>3, <1>4

\* So do the mark of an event, and the read after it.
LEMMA MarkTotals ==
  ASSUME RowsTypeOK, TotalsInv, MarkArchiveChanged \/ ReadArchivedTotal \/ WorkerConfirms
  PROVE  TotalsInv'
<1> USE DEF TotalsInv
<1>0. /\ thread \in ThreadRow /\ gens \in [Drives -> Nat] /\ durable \in [Drives -> Nat]
      /\ heard \in [Drives -> Nat] /\ totals \in [Drives -> Nat \cup {None}]
      /\ \A t \in Tabs : tab[t] \in TabRow
  BY DEF RowsTypeOK
<1>1. \A t \in Tabs : \A x \in tab[t].todo : x \in Drives \X Nat /\ x[1] \in Drives /\ x[2] \in Nat
  BY <1>0 DEF TabRow
<1>2. CASE MarkArchiveChanged
  <2> DEFINE d == thread.drive
  <2>1. /\ thread.pc = "committed" /\ d \in Drives
        /\ thread'.pc = "marked" /\ thread'.drive = d
        /\ gens' = [gens EXCEPT ![d] = @ + 1] /\ stale' = stale \cup {d}
        /\ heard' = [heard EXCEPT ![d] = durable[d]]
        /\ UNCHANGED <<durable, totals, tab>>
    BY <1>0, <1>2 DEF MarkArchiveChanged, HeardRows, ThreadRow
  <2> HIDE DEF d
  <2>2. /\ \A e \in Drives : gens'[e] = IF e = d THEN gens[e] + 1 ELSE gens[e]
        /\ \A e \in Drives : heard'[e] = IF e = d THEN durable[e] ELSE heard[e]
    BY <1>0, <2>1
  <2>3. HeardRows' /\ WorkerRead'
    BY <1>0, <2>1, <2>2 DEF HeardRows, WorkerRead
  <2>4. PublishedTotalsTrue'
    BY <1>0, <2>1, <2>2 DEF PublishedTotalsTrue
  <2>5. TabReads'
    <3>1. ASSUME NEW t \in Tabs PROVE TabRead(t)'
      <4>1. TabRead(t) /\ tab'[t] = tab[t]
        BY <2>1 DEF TabReads
      <4>2. \A x \in tab[t].todo : x[2] <= gens'[x[1]]
        BY <1>0, <1>1, <2>2, <4>1 DEF TabRead
      <4>3. ASSUME NEW x \in tab[t].todo, tab[t].pc = "total", x[1] = tab[t].drive,
                   x[2] = gens'[x[1]]
            PROVE  Worth(x[1], tab[t].total)'
        <5>1. x[1] # d /\ x[2] = gens[x[1]]
          BY <1>0, <1>1, <2>2, <4>1, <4>3 DEF TabRead
        <5>2. Worth(x[1], tab[t].total)
          BY <4>1, <4>3, <5>1 DEF TabRead
        <5> QED
          BY <1>1, <2>1, <2>2, <4>1, <5>1, <5>2 DEF Worth
      <4> QED
        BY <2>1, <4>1, <4>2, <4>3 DEF TabRead
    <3> QED
      BY <3>1 DEF TabReads
  <2> QED
    BY <2>3, <2>4, <2>5
<1>3. CASE ReadArchivedTotal
  <2>1. thread.pc = "marked" /\ UNCHANGED <<gens, durable, heard, totals, stale, tab>>
    BY <1>3 DEF ReadArchivedTotal, archiveVars
  <2>2. CASE thread' = [thread EXCEPT !.pc = "read", !.total = durable[thread.drive]]
    <3>1. /\ thread'.pc = "read" /\ thread'.drive = thread.drive
          /\ thread'.total = durable[thread.drive] /\ thread.drive \in Drives
      BY <1>0, <2>1, <2>2 DEF ThreadRow, HeardRows
    <3>2. HeardRows' /\ WorkerRead'
      BY <1>0, <2>1, <3>1 DEF HeardRows, WorkerRead, Worth
    <3>3. TabReads' /\ PublishedTotalsTrue'
      BY <2>1 DEF TabReads, TabRead, PublishedTotalsTrue, Worth
    <3> QED
      BY <3>2, <3>3
  <2>3. CASE thread' = [NoThread EXCEPT !.pc = "work"]
    BY <2>1, <2>3, ThreadMoves DEF NoThread
  <2> QED
    BY <1>3, <2>2, <2>3 DEF ReadArchivedTotal
<1>4. CASE WorkerConfirms
  <2>1. /\ thread.pc = "read" /\ thread.drive \in Drives /\ thread'.pc = "work"
        /\ Worth(thread.drive, thread.total)
        /\ ConfirmArchiveTotal(thread.drive, thread.gen, thread.total)
        /\ UNCHANGED <<gens, archiveVars, tab>>
    BY <1>4 DEF WorkerConfirms, HeardRows, WorkerRead, NoThread
  <2>2. PublishedTotalsTrue'
    BY <2>1, ConfirmTotals
  <2>3. HeardRows' /\ WorkerRead'
    BY <2>1 DEF HeardRows, WorkerRead, archiveVars
  <2>4. TabReads'
    BY <2>1 DEF TabReads, TabRead, Worth, archiveVars
  <2> QED
    BY <2>2, <2>3, <2>4
<1> QED
  BY <1>2, <1>3, <1>4

\* So do the polls of the tabs, and a new run.
LEMMA PollTotals ==
  ASSUME RowsTypeOK, TotalsInv, NEW t \in Tabs,
         WorkerStart(t) \/ PollStatus(t) \/ PollReads(t) \/ PollConfirms(t) \/ PollAgain(t)
  PROVE  TotalsInv'
<1> USE DEF TotalsInv
<1>0. /\ tab \in [Tabs -> TabRow] /\ tab[t] \in TabRow
      /\ gens \in [Drives -> Nat] /\ durable \in [Drives -> Nat] /\ heard \in [Drives -> Nat]
      /\ stale \subseteq Drives
  BY DEF RowsTypeOK
<1>1. \A x \in tab[t].todo : x \in Drives \X Nat /\ x[1] \in Drives /\ x[2] \in Nat
  BY <1>0 DEF TabRow
<1>2. TabRead(t)
  BY DEF TabReads
<1>3. ASSUME NEW row, tab' = [tab EXCEPT ![t] = row], TabRead(t)',
             UNCHANGED <<thread, gens, archiveVars, totals, stale>>
      PROVE  TotalsInv'
  <2>1. /\ \A d \in Drives : durable'[d] \in Nat /\ durable[d] <= durable'[d]
        /\ thread'.pc \in {"committed", "marked"} => thread'.drive \in Drives
        /\ \A r \in Tabs : tab'[r] = tab[r] \/ TabRead(r)'
    BY <1>0, <1>3 DEF HeardRows, archiveVars
  <2> QED
    BY <1>3, <2>1, TotalsKept DEF archiveVars
<1>4. CASE WorkerStart(t)
  <2>1. tab' = [tab EXCEPT ![t] = NoTab] /\ UNCHANGED <<gens, archiveVars>>
    BY <1>4 DEF WorkerStart, workerVars
  <2>2. tab'[t] = NoTab /\ \A r \in Tabs \ {t} : tab'[r] = tab[r]
    BY <1>0, <2>1
  <2>3. CASE running
    <3>1. UNCHANGED <<thread, gens, archiveVars, totals, stale>>
      BY <1>4, <2>1, <2>3 DEF WorkerStart, workerVars
    <3>2. TabRead(t)'
      BY <2>2 DEF TabRead, NoTab
    <3> QED
      BY <1>3, <2>1, <3>1, <3>2
  <2>4. CASE ~running
    <3>1. /\ thread.pc \in {"none", "dead"} /\ thread'.pc = "work"
          /\ totals' = [d \in Drives |-> None]
      BY <1>4, <2>4 DEF WorkerStart, running, NoThread
    <3>3. HeardRows' /\ WorkerRead'
      BY <2>1, <3>1 DEF HeardRows, WorkerRead, archiveVars
    <3>4. PublishedTotalsTrue'
      BY <3>1 DEF PublishedTotalsTrue
    <3>5. TabReads'
      BY <2>1, <2>2, <3>1 DEF TabReads, TabRead, Worth, NoTab, archiveVars
    <3> QED
      BY <3>3, <3>4, <3>5
  <2> QED
    BY <2>3, <2>4
<1>5. CASE PollStatus(t)
  <2>1. PICK todo \in Targets({}) : tab' = [tab EXCEPT ![t].pc = "refresh", ![t].todo = todo]
    BY <1>5 DEF PollStatus
  <2>2. tab'[t].todo = todo /\ tab'[t].pc = "refresh"
    BY <1>0, <2>1 DEF TabRow
  <2>3. \A x \in todo : x[1] \in stale /\ x[2] = gens[x[1]]
    BY TargetsType
  <2>4. UNCHANGED <<thread, gens, archiveVars, totals, stale>>
    BY <1>5 DEF PollStatus, workerVars
  <2>5. TabRead(t)'
    BY <1>0, <2>2, <2>3, <2>4 DEF TabRead
  <2>6. tab' = [tab EXCEPT ![t] = [tab[t] EXCEPT !.pc = "refresh", !.todo = todo]]
    BY <2>1, Zenon
  <2> QED
    BY <1>3, <2>4, <2>5, <2>6
<1>6. CASE PollReads(t)
  <2>1. UNCHANGED <<thread, gens, archiveVars, totals, stale>> /\ tab[t].pc = "refresh"
    BY <1>6 DEF PollReads, workerVars
  <2>2. PICK x \in tab[t].todo :
          \/ tab' = [tab EXCEPT ![t].pc = "total", ![t].drive = x[1], ![t].total = durable[x[1]]]
          \/ tab' = [tab EXCEPT ![t].todo = @ \ {x}, ![t].tried = @ \cup {x}]
    BY <1>6 DEF PollReads
  <2>3. CASE tab' = [tab EXCEPT ![t].pc = "total", ![t].drive = x[1], ![t].total = durable[x[1]]]
    <3>1. /\ tab'[t].todo = tab[t].todo /\ tab'[t].pc = "total" /\ tab'[t].drive = x[1]
          /\ tab'[t].total = durable[x[1]]
      BY <1>0, <2>3 DEF TabRow
    <3>2. TabRead(t)'
      <4>1. Worth(x[1], durable[x[1]])
        BY <1>0, <1>1 DEF HeardRows, Worth
      <4> QED
        BY <1>1, <1>2, <2>1, <3>1, <4>1 DEF TabRead, Worth, archiveVars
    <3>3. tab' = [tab EXCEPT ![t] = [tab[t] EXCEPT !.pc = "total", !.drive = x[1],
                                                   !.total = durable[x[1]]]]
      BY <2>3, Zenon
    <3> QED
      BY <1>3, <2>1, <3>2, <3>3
  <2>4. CASE tab' = [tab EXCEPT ![t].todo = @ \ {x}, ![t].tried = @ \cup {x}]
    <3>1. tab'[t].todo = tab[t].todo \ {x} /\ tab'[t].pc = "refresh"
      BY <1>0, <2>1, <2>4 DEF TabRow
    <3>2. TabRead(t)'
      BY <1>2, <2>1, <3>1 DEF TabRead
    <3>3. tab' = [tab EXCEPT ![t] = [tab[t] EXCEPT !.todo = @ \ {x}, !.tried = @ \cup {x}]]
      BY <2>4, Zenon
    <3> QED
      BY <1>3, <2>1, <3>2, <3>3
  <2> QED
    BY <2>2, <2>3, <2>4
<1>7. CASE PollConfirms(t)
  <2>1. PICK x \in tab[t].todo :
          /\ x[1] = tab[t].drive
          /\ ConfirmArchiveTotal(x[1], x[2], tab[t].total)
          /\ tab' = [tab EXCEPT ![t].pc = "refresh", ![t].todo = @ \ {x},
                                ![t].tried = @ \cup {x}, ![t].drive = None, ![t].total = 0]
    BY <1>7 DEF PollConfirms
  <2>2. tab[t].pc = "total" /\ UNCHANGED <<thread, gens, archiveVars>>
    BY <1>7 DEF PollConfirms
  <2>4. gens[x[1]] = x[2] => Worth(x[1], tab[t].total)
    BY <1>2, <2>1, <2>2 DEF TabRead
  <2>5. PublishedTotalsTrue'
    BY <1>1, <2>1, <2>2, <2>4, ConfirmTotals
  <2>6. HeardRows' /\ WorkerRead'
    BY <2>2 DEF HeardRows, WorkerRead, Worth, archiveVars
  <2>7. /\ tab'[t].todo = tab[t].todo \ {x} /\ tab'[t].pc = "refresh"
        /\ \A r \in Tabs \ {t} : tab'[r] = tab[r]
    BY <1>0, <2>1 DEF TabRow
  <2>8. TabReads'
    <3>1. TabRead(t)'
      BY <1>2, <2>2, <2>7 DEF TabRead
    <3>2. \A r \in Tabs \ {t} : TabRead(r)'
      BY <2>2, <2>7 DEF TabReads, TabRead, Worth, archiveVars
    <3> QED
      BY <3>1, <3>2 DEF TabReads
  <2> QED
    BY <2>5, <2>6, <2>8
<1>8. CASE PollAgain(t)
  <2>1. PICK todo \in Targets(tab[t].tried) :
          tab' = [tab EXCEPT ![t] = IF status = "running" \/ todo = {} THEN NoTab
                                    ELSE [@ EXCEPT !.todo = todo]]
    BY <1>8 DEF PollAgain
  <2>2. \A x \in todo : x[1] \in stale /\ x[2] = gens[x[1]]
    BY TargetsType
  <2>3. UNCHANGED <<thread, gens, archiveVars, totals, stale>> /\ tab[t].pc = "refresh"
    BY <1>8 DEF PollAgain, workerVars
  <2> DEFINE row == IF status = "running" \/ todo = {} THEN NoTab ELSE [tab[t] EXCEPT !.todo = todo]
  <2>4. row.pc \in {"idle", "refresh"} /\ (row.todo = {} \/ row.todo = todo)
    BY <1>0, <2>3 DEF NoTab, TabRow
  <2>5. tab' = [tab EXCEPT ![t] = row]
    BY <2>1
  <2>6. tab'[t] = row
    BY <1>0, <2>5
  <2>7. \A x \in todo : x[2] <= gens[x[1]]
    BY <1>0, <2>2
  <2> HIDE DEF row
  <2>8. TabRead(t)'
    BY <2>3, <2>4, <2>6, <2>7 DEF TabRead
  <2> QED
    BY <1>3, <2>3, <2>5, <2>8
<1> QED
  BY <1>4, <1>5, <1>6, <1>7, <1>8

\* Every step keeps the totals right.
LEMMA TotalsStep ==
  ASSUME WorkerInv, [Next]_vars
  PROVE  TotalsInv'
<1>0. RowsTypeOK /\ TotalsInv
  BY TypeRows DEF WorkerInv
<1>0a. ASSUME UNCHANGED <<thread, gens, archiveVars, totals, stale>>,
              \A t \in Tabs : tab'[t] = tab[t] \/ TabRead(t)'
       PROVE  TotalsInv'
  <2>1. /\ \A d \in Drives : durable'[d] \in Nat /\ durable[d] <= durable'[d]
        /\ thread'.pc \in {"committed", "marked"} => thread'.drive \in Drives
    BY <1>0, <1>0a DEF TotalsInv, HeardRows, archiveVars, RowsTypeOK
  <2> QED
    BY <1>0, <1>0a, <2>1, TotalsKept DEF archiveVars
<1>1. ASSUME UNCHANGED <<thread, gens, archiveVars, totals, stale, tab>> PROVE TotalsInv'
  BY <1>0a, <1>1
<1>2. ASSUME UNCHANGED <<thread, gens, archiveVars, totals, stale>>, NEW t \in Tabs, NEW row,
             tab' = [tab EXCEPT ![t] = row], row.todo = {}, row.pc # "total"
      PROVE  TotalsInv'
  <2>1. tab'[t] = row /\ \A r \in Tabs \ {t} : tab'[r] = tab[r]
    BY <1>0, <1>2 DEF RowsTypeOK
  <2>2. TabRead(t)'
    BY <1>2, <2>1 DEF TabRead
  <2> QED
    BY <1>0a, <1>2, <2>1, <2>2
<1>3. CASE FillThread
  <2>1. CASE AwaitOpen \/ AwaitEnd \/ AwaitReturn
    BY <1>0, <2>1, ThreadMoves
    DEF AwaitOpen, AwaitEnd, AwaitReturn, Goto, RowsTypeOK, ThreadRow, archiveVars
  <2>2. CASE WorkStops \/ \E o \in WorkOutcomes : WorkEnds(o)
    BY <1>0, <2>2, ThreadMoves DEF WorkEnds, WorkStops, NoThread, archiveVars
  <2>3. CASE PersistTerminal \/ PublishTerminal \/ ThreadExits
    BY <1>0, <2>3, ThreadMoves
    DEF PersistTerminal, PublishTerminal, ThreadExits, Goto, NoThread, RowsTypeOK, ThreadRow,
        archiveVars
  <2> QED
    BY <1>0, <1>3, <2>1, <2>2, <2>3, CommitTotals, MarkTotals DEF FillThread
<1>4. ASSUME NEW t \in Tabs, RequestThread(t) PROVE TotalsInv'
  <2>0. tab[t] \in TabRow /\ TabRead(t)
    BY <1>0 DEF RowsTypeOK, TotalsInv, TabReads
  <2>1. CASE StartSession(t) \/ \E op \in {"remove", "clear", "finalize"} : GuardedMutation(t, op)
    <3>1. /\ UNCHANGED <<thread, gens, archiveVars, totals, stale>>
          /\ tab'[t].todo = tab[t].todo /\ tab'[t].pc # "total"
          /\ \A r \in Tabs \ {t} : tab'[r] = tab[r]
      BY <1>0, <2>0, <2>1 DEF StartSession, GuardedMutation, workerVars, RowsTypeOK, TabRow
    <3>2. TabRead(t)'
      BY <2>0, <3>1 DEF TabRead
    <3> QED
      BY <1>0a, <3>1, <3>2
  <2>2. CASE \E R \in SUBSET Repos \ {{}} : MutationCommits(t, R)
    BY <1>2, <2>2 DEF MutationCommits, NoTab, workerVars
  <2>3. CASE \E R \in SUBSET Repos \ {{}} : SelectionAdd(t, R)
    BY <1>1, <2>3 DEF SelectionAdd, workerVars
  <2> QED
    BY <1>0, <1>4, <2>1, <2>2, <2>3, PollTotals DEF RequestThread
<1>5. CASE RequestStop \/ AckTerminal \/ UNCHANGED vars
  BY <1>1, <1>5 DEF RequestStop, AckTerminal, vars, workerVars
<1>6. ASSUME NEW id \in DOMAIN answers, NEW a \in Actions, ResolveAction(id, a) PROVE TotalsInv'
  BY <1>1, <1>6 DEF ResolveAction
<1>7. ASSUME NEW t \in Tabs, StartRaises(t) PROVE TotalsInv'
  <2>1. tab' = [tab EXCEPT ![t] = NoTab] /\ UNCHANGED <<thread, gens, archiveVars, totals, stale>>
    BY <1>7 DEF StartRaises, workerVars
  <2>2. NoTab.todo = {} /\ NoTab.pc # "total"
    BY DEF NoTab
  <2> QED
    BY <1>2, <2>1, <2>2
<1>8. ASSUME NEW d \in Drives, CommitUnheard(d) PROVE TotalsInv'
  BY <1>0, <1>8, CommitTotals
<1> QED
  BY <1>3, <1>4, <1>5, <1>6, <1>7, <1>8 DEF Next, Proceeds

-----------------------------------------------------------------------------
(* The warning, the prompt and the gate *)

\* Every step keeps the warning and the status with the runs that ended.
LEMMA WarningStep ==
  ASSUME WorkerInv, [Next]_vars
  PROVE  WarningInv'
<1> USE DEF WarningInv, EndHasOutcome, EndIsLast, StatusIsOfLastRun
<1>0. RowsTypeOK /\ WarningInv /\ thread \in ThreadRow
  BY TypeRows DEF WorkerInv, RowsTypeOK
<1>0a. ASSUME UNCHANGED warningVars PROVE WarningTold'
  BY <1>0, <1>0a DEF WarningTold, Warns, warningVars
<1>1. ASSUME UNCHANGED <<status, thread, warningVars>> PROVE WarningInv'
  BY <1>0, <1>0a, <1>1 DEF warningVars
<1>2. ASSUME UNCHANGED warningVars, thread'.pc \notin {"ended", "persisted", "emitted", "dead"}
      PROVE  WarningInv'
  BY <1>0a, <1>2
<1>3. CASE FillThread
  <2>1. CASE AwaitOpen \/ AwaitEnd \/ AwaitReturn \/ \E d \in Drives : Commit(d)
    BY <1>0, <1>2, <2>1 DEF AwaitOpen, AwaitEnd, AwaitReturn, Commit, Goto, ThreadRow
  <2>2. CASE MarkArchiveChanged \/ ReadArchivedTotal \/ WorkerConfirms
    BY <1>0, <1>2, <2>2 DEF MarkArchiveChanged, ReadArchivedTotal, WorkerConfirms, NoThread, ThreadRow
  <2>3. ASSUME NEW o \in WorkOutcomes, WorkEnds(o) PROVE WarningInv'
    <3>1. thread'.pc = "ended" /\ thread'.res = o /\ UNCHANGED warningVars
      BY <2>3 DEF WorkEnds, NoThread
    <3> QED
      BY <1>0a, <3>1, FillWorkerOutcomes
  <2>4. CASE WorkStops
    <3>1. thread'.pc = "ended" /\ thread'.res = "stopped" /\ UNCHANGED warningVars
      BY <2>4 DEF WorkStops, NoThread
    <3> QED
      BY <1>0a, <3>1
  <2>5. CASE PersistTerminal
    <3> DEFINE n == Len(ended) + 1
    <3>1. thread'.pc = "persisted" /\ thread'.res = thread.res /\ thread.pc = "ended"
      BY <1>0, <2>5 DEF PersistTerminal, Goto, ThreadRow
    <3>2. PICK kept \in BOOLEAN :
            /\ ended' = Append(ended, [res |-> thread.res, kept |-> kept])
            /\ oopsie' = IF ~kept THEN oopsie
                         ELSE IF Told(thread.res) \in Oopsie THEN Len(ended') ELSE 0
      BY <2>5 DEF PersistTerminal
    <3>3. /\ ended \in Seq(EndRow) /\ Len(ended) \in Nat /\ DOMAIN ended = 1..Len(ended)
          /\ oopsie \in 0..Len(ended) /\ acked \in 0..Len(ended) /\ acked' = acked
      BY <1>0, <2>5 DEF RowsTypeOK, PersistTerminal
    <3>4. /\ Len(ended') = n /\ DOMAIN ended' = 1..n /\ n \in 1..n
          /\ ended'[n] = [res |-> thread.res, kept |-> kept]
          /\ \A m \in 1..Len(ended) : ended'[m] = ended[m]
      BY <3>2, <3>3
    <3>5. EndIsLast'
      BY <3>1, <3>4
    <3> DEFINE Warned(m) == /\ ended'[m].kept /\ Told(ended'[m].res) \in Oopsie
                            /\ \A k \in DOMAIN ended' : k > m => ~ended'[k].kept
    <3>6. \A m \in 1..Len(ended) : Warned(m) <=> Warns(m) /\ ~kept
      <4>1. ASSUME NEW m \in 1..Len(ended), Warns(m), ~kept PROVE Warned(m)
        BY <3>3, <3>4, <4>1 DEF Warns
      <4>2. ASSUME NEW m \in 1..Len(ended), Warned(m) PROVE Warns(m) /\ ~kept
        <5>1. n \in DOMAIN ended' /\ n > m /\ ended'[n].kept = kept
          BY <3>3, <3>4, <4>2
        <5>2. ~kept
          BY <4>2, <5>1
        <5> QED
          BY <3>3, <3>4, <4>2, <5>2 DEF Warns
      <4> QED
        BY <4>1, <4>2
    <3>7. Warned(n) <=> kept /\ Told(thread.res) \in Oopsie
      BY <3>4
    <3> HIDE DEF Warned, n
    <3>8. oopsie' # 0 => oopsie' \in 1..n /\ Warned(oopsie')
      <4>1. CASE kept
        BY <3>2, <3>4, <3>7, <4>1
      <4>2. CASE ~kept
        <5>1. oopsie' = oopsie /\ (oopsie # 0 => oopsie \in 1..Len(ended) /\ oopsie \in 1..n)
          BY <3>2, <3>3, <4>2 DEF n
        <5> QED
          BY <1>0, <3>6, <4>2, <5>1 DEF WarningTold
      <4> QED
        BY <4>1, <4>2
    <3>9. ASSUME NEW m \in 1..n, Warned(m), m > acked PROVE oopsie' = m
      <4>1. CASE m = n
        BY <3>2, <3>4, <3>7, <3>9, <4>1
      <4>2. CASE m # n
        <5>1. m \in 1..Len(ended)
          BY <3>3, <4>2 DEF n
        <5> QED
          BY <1>0, <3>2, <3>3, <3>6, <3>9, <5>1 DEF WarningTold
      <4> QED
        BY <4>1, <4>2
    <3>10. WarningTold'
      BY <3>3, <3>4, <3>8, <3>9 DEF WarningTold, Warns, Warned
    <3> QED
      BY <1>0, <3>1, <3>5, <3>10
  <2>6. CASE PublishTerminal
    <3>1. /\ thread'.pc = "emitted" /\ thread.pc = "persisted" /\ UNCHANGED warningVars
          /\ status' = IF stop /\ thread.res # "raised" THEN "stopped" ELSE Told(thread.res)
      BY <1>0, <2>6 DEF PublishTerminal, Goto, ThreadRow
    <3>2. ended # <<>> /\ ended[Len(ended)].res = thread.res
      BY <1>0, <3>1
    <3> QED
      BY <1>0a, <3>1, <3>2 DEF warningVars
  <2>7. CASE ThreadExits
    <3>1. /\ thread'.pc = "dead" /\ thread.pc = "emitted"
          /\ UNCHANGED <<status, warningVars>>
      BY <2>7 DEF ThreadExits, NoThread
    <3> QED
      BY <1>0, <1>0a, <3>1 DEF warningVars
  <2> QED
    BY <1>3, <2>1, <2>2, <2>3, <2>4, <2>5, <2>6, <2>7 DEF FillThread
<1>4. ASSUME NEW t \in Tabs, RequestThread(t) PROVE WarningInv'
  <2>1. CASE WorkerStart(t)
    <3>1. CASE running
      BY <1>1, <2>1, <3>1 DEF WorkerStart, workerVars
    <3>2. CASE ~running
      BY <1>2, <2>1, <3>2 DEF WorkerStart, NoThread
    <3> QED
      BY <3>1, <3>2
  <2>2. CASE StartSession(t) \/ PollStatus(t) \/ PollReads(t) \/ PollAgain(t)
    BY <1>1, <2>2 DEF StartSession, PollStatus, PollReads, PollAgain, workerVars
  <2>3. CASE PollConfirms(t)
    BY <1>1, <2>3 DEF PollConfirms
  <2>4. CASE \E R \in SUBSET Repos \ {{}} : SelectionAdd(t, R) \/ MutationCommits(t, R)
    BY <1>1, <2>4 DEF SelectionAdd, MutationCommits, workerVars
  <2>5. CASE \E op \in {"remove", "clear", "finalize"} : GuardedMutation(t, op)
    BY <1>1, <2>5 DEF GuardedMutation, workerVars
  <2> QED
    BY <1>4, <2>1, <2>2, <2>3, <2>4, <2>5 DEF RequestThread
<1>5. CASE RequestStop \/ UNCHANGED vars
  BY <1>1, <1>5 DEF RequestStop, vars, workerVars
<1>5a. CASE AckTerminal
  <2>1. oopsie' = 0 /\ acked' = Len(ended) /\ UNCHANGED <<thread, status, ended>>
    BY <1>5a DEF AckTerminal, workerVars
  <2>2. WarningTold'
    BY <1>0, <2>1 DEF WarningTold, Warns, RowsTypeOK
  <2> QED
    BY <1>0, <2>1, <2>2
<1>6. ASSUME NEW id \in DOMAIN answers, NEW a \in Actions, ResolveAction(id, a) PROVE WarningInv'
  BY <1>1, <1>6 DEF ResolveAction
<1>7. ASSUME NEW t \in Tabs, StartRaises(t) PROVE WarningInv'
  BY <1>1, <1>7 DEF StartRaises, workerVars
<1>8. ASSUME NEW d \in Drives, CommitUnheard(d) PROVE WarningInv'
  BY <1>1, <1>8 DEF CommitUnheard, workerVars
<1> QED
  BY <1>3, <1>4, <1>5, <1>5a, <1>6, <1>7, <1>8 DEF Next, Proceeds

\* Every step keeps prompts and answers together.
LEMMA PromptStep ==
  ASSUME WorkerInv, [Next]_vars
  PROVE  PromptInv'
<1> USE DEF PromptInv
<1>0. /\ RowsTypeOK /\ PromptInv /\ thread \in ThreadRow
      /\ decision \in [id : Nat, response : Actions \cup {None}]
  BY TypeRows DEF WorkerInv, RowsTypeOK
<1>1. PICK n \in Nat : answers \in [1..n -> AnswerRow]
  BY <1>0 DEF AnswersOK
<1>2. ASSUME UNCHANGED <<decision, answers>>,
             thread.pc \in {"prompt", "promptEnd"} <=> thread'.pc \in {"prompt", "promptEnd"}
      PROVE  PromptInv'
  BY <1>0, <1>2 DEF AnswersOK, PromptOpen, AnswerDecidesItsPrompt
<1>3. CASE AwaitOpen
  <2> DEFINE m == n + 1
  <2>1. /\ DOMAIN answers = 1..n /\ Cardinality(DOMAIN answers) = n
    BY <1>1, FS_Interval
  <2>2. /\ thread'.pc = "prompt" /\ decision' = [id |-> m, response |-> None]
        /\ answers' = [i \in 1..m |-> IF i = m THEN NoAnswer ELSE answers[i]]
    BY <1>0, <1>3, <2>1 DEF AwaitOpen, Goto, ThreadRow
  <2>3. answers' \in [1..m -> AnswerRow]
    BY <1>1, <2>2 DEF NoAnswer, AnswerRow
  <2>4. AnswersOK'
    BY <2>3 DEF AnswersOK
  <2>5. PromptOpen'
    BY <2>2 DEF PromptOpen, NoAnswer
  <2>6. AnswerDecidesItsPrompt'
    <3>1. \A i \in 1..m : i # m => i \in DOMAIN answers /\ answers'[i] = answers[i]
      BY <2>1, <2>2
    <3>2. answers'[m].ret = None /\ DOMAIN answers' = 1..m
      BY <2>2 DEF NoAnswer
    <3> QED
      BY <1>0, <3>1, <3>2 DEF AnswerDecidesItsPrompt
  <2> QED
    BY <2>4, <2>5, <2>6
<1>4. CASE AwaitReturn
  <2> DEFINE i == decision.id
             ret == IF stop THEN "stopped"
                    ELSE IF decision.response # None THEN decision.response ELSE "timeout"
  <2>1. /\ thread.pc = "promptEnd" /\ thread'.pc = "work" /\ decision'.id = 0
        /\ answers' = [answers EXCEPT ![i].ret = ret]
    BY <1>0, <1>4 DEF AwaitReturn, Goto, ThreadRow
  <2>2. i \in DOMAIN answers /\ answers[i].ack = decision.response
    BY <1>0, <2>1 DEF PromptOpen
  <2>3. ret \in Actions \cup {"timeout", "stopped"}
    BY <1>0
  <2>4. /\ answers'[i].ret = ret /\ answers'[i].ack = answers[i].ack
        /\ \A j \in DOMAIN answers \ {i} : answers'[j] = answers[j]
        /\ answers' \in [1..n -> AnswerRow]
    BY <1>1, <2>1, <2>2, <2>3 DEF AnswerRow
  <2>5. AnswersOK' /\ PromptOpen'
    BY <2>1, <2>4 DEF AnswersOK, PromptOpen
  <2>6. ret \in (IF answers[i].ack # None THEN {answers[i].ack, "stopped"} ELSE {"timeout", "stopped"})
    BY <2>2
  <2>7. AnswerDecidesItsPrompt'
    <3>1. DOMAIN answers' = DOMAIN answers
      BY <2>1
    <3> HIDE DEF i, ret
    <3> QED
      BY <1>0, <2>4, <2>6, <3>1 DEF AnswerDecidesItsPrompt
  <2> QED
    BY <2>5, <2>7
<1>5. ASSUME NEW id \in DOMAIN answers, NEW a \in Actions, ResolveAction(id, a) PROVE PromptInv'
  <2>1. /\ decision.id = id /\ id # 0 /\ decision.response = None
        /\ decision' = [decision EXCEPT !.response = a]
        /\ answers' = [answers EXCEPT ![id].ack = a] /\ thread' = thread
    BY <1>1, <1>5 DEF ResolveAction
  <2>2. /\ decision'.id = id /\ decision'.response = a
        /\ answers'[id].ack = a /\ answers'[id].ret = answers[id].ret
        /\ \A j \in DOMAIN answers \ {id} : answers'[j] = answers[j]
        /\ answers' \in [1..n -> AnswerRow] /\ DOMAIN answers' = DOMAIN answers
    BY <1>0, <1>1, <2>1 DEF AnswerRow
  <2>3. AnswersOK' /\ PromptOpen'
    BY <1>0, <2>1, <2>2 DEF AnswersOK, PromptOpen
  <2>4. answers[id].ret = None
    BY <1>0, <2>1 DEF PromptOpen
  <2>5. AnswerDecidesItsPrompt'
    BY <1>0, <2>2, <2>4 DEF AnswerDecidesItsPrompt
  <2> QED
    BY <2>3, <2>5
<1>6. CASE AwaitEnd
  BY <1>0, <1>2, <1>6 DEF AwaitEnd, Goto, ThreadRow
<1>7. CASE FillThread /\ ~AwaitOpen /\ ~AwaitEnd /\ ~AwaitReturn
  <2>1. CASE (\E d \in Drives : Commit(d)) \/ MarkArchiveChanged \/ ReadArchivedTotal \/ WorkerConfirms
    BY <1>0, <1>2, <2>1 DEF Commit, MarkArchiveChanged, ReadArchivedTotal, WorkerConfirms, NoThread, ThreadRow
  <2>2. CASE WorkStops \/ \E o \in WorkOutcomes : WorkEnds(o)
    BY <1>0, <1>2, <2>2 DEF WorkStops, WorkEnds, NoThread
  <2>3. CASE PersistTerminal \/ PublishTerminal \/ ThreadExits
    BY <1>0, <1>2, <2>3 DEF PersistTerminal, PublishTerminal, ThreadExits, Goto, NoThread, ThreadRow
  <2> QED
    BY <1>7, <2>1, <2>2, <2>3 DEF FillThread
<1>8. ASSUME NEW t \in Tabs, RequestThread(t) PROVE PromptInv'
  <2>1. CASE WorkerStart(t)
    <3>1. CASE running
      BY <1>2, <2>1, <3>1 DEF WorkerStart, workerVars
    <3>2. CASE ~running
      <4>1. /\ thread.pc \in {"none", "dead"} /\ thread'.pc = "work" /\ decision'.id = 0
            /\ answers' = answers
        BY <2>1, <3>2 DEF WorkerStart, running, NoThread
      <4> QED
        BY <1>0, <4>1 DEF AnswersOK, PromptOpen, AnswerDecidesItsPrompt
    <3> QED
      BY <3>1, <3>2
  <2>2. CASE StartSession(t) \/ PollStatus(t) \/ PollReads(t) \/ PollAgain(t)
    BY <1>2, <2>2 DEF StartSession, PollStatus, PollReads, PollAgain, workerVars
  <2>3. CASE PollConfirms(t)
    BY <1>2, <2>3 DEF PollConfirms
  <2>4. CASE \E R \in SUBSET Repos \ {{}} : SelectionAdd(t, R) \/ MutationCommits(t, R)
    BY <1>2, <2>4 DEF SelectionAdd, MutationCommits, workerVars
  <2>5. CASE \E op \in {"remove", "clear", "finalize"} : GuardedMutation(t, op)
    BY <1>2, <2>5 DEF GuardedMutation, workerVars
  <2> QED
    BY <1>8, <2>1, <2>2, <2>3, <2>4, <2>5 DEF RequestThread
<1>9. CASE RequestStop \/ AckTerminal \/ UNCHANGED vars
  BY <1>2, <1>9 DEF RequestStop, AckTerminal, vars, workerVars
<1>10. ASSUME NEW t \in Tabs, StartRaises(t) PROVE PromptInv'
  BY <1>2, <1>10 DEF StartRaises, workerVars
<1>11. ASSUME NEW d \in Drives, CommitUnheard(d) PROVE PromptInv'
  BY <1>2, <1>11 DEF CommitUnheard, workerVars
<1> QED
  BY <1>3, <1>4, <1>5, <1>6, <1>7, <1>8, <1>9, <1>10, <1>11 DEF Next, Proceeds

\* Every step keeps the gate and the Fill apart.
LEMMA GateStep ==
  ASSUME WorkerInv, [Next]_vars
  PROVE  GateExcludesFill'
<1> USE DEF GateExcludesFill
<1>0. /\ RowsTypeOK /\ GateExcludesFill /\ thread \in ThreadRow /\ tab \in [Tabs -> TabRow]
      /\ None \notin Tabs
  BY TypeRows, FillWorkerBounds DEF WorkerInv, RowsTypeOK
<1>1. ASSUME UNCHANGED gate, running' => running, NEW t \in Tabs,
             \A r \in Tabs \ {t} : tab'[r] = tab[r],
             tab'[t].pc = "guarded" => tab[t].pc = "guarded"
      PROVE  GateExcludesFill'
  BY <1>0, <1>1
<1>2. ASSUME UNCHANGED <<gate, tab>>, running' => running PROVE GateExcludesFill'
  BY <1>0, <1>2
<1>3. CASE FillThread
  <2>1. UNCHANGED <<gate, tab>>
    BY <1>3 DEF FillThread, AwaitOpen, AwaitEnd, AwaitReturn, Commit, MarkArchiveChanged,
       ReadArchivedTotal, WorkerConfirms, WorkEnds, WorkStops, PersistTerminal, PublishTerminal,
       ThreadExits
  <2>2. running
    BY <1>3 DEF FillThread, AwaitOpen, AwaitEnd, AwaitReturn, Commit, MarkArchiveChanged,
       ReadArchivedTotal, WorkerConfirms, WorkEnds, WorkStops, PersistTerminal, PublishTerminal,
       ThreadExits, running
  <2> QED
    BY <1>2, <2>1, <2>2
<1>4. ASSUME NEW t \in Tabs, RequestThread(t) PROVE GateExcludesFill'
  <2>0. tab[t] \in TabRow
    BY <1>0
  <2>1. CASE WorkerStart(t)
    <3>1. gate = None /\ gate' = None /\ tab' = [tab EXCEPT ![t] = NoTab]
      BY <2>1 DEF WorkerStart
    <3>2. \A r \in Tabs : tab'[r] = IF r = t THEN NoTab ELSE tab[r]
      BY <1>0, <3>1
    <3> QED
      BY <1>0, <3>1, <3>2 DEF NoTab
  <2>2. CASE StartSession(t) \/ PollStatus(t)
    <3>1. UNCHANGED <<thread, gate>>
      BY <2>2 DEF StartSession, PollStatus, workerVars
    <3>2. tab'[t].pc # "guarded" /\ \A r \in Tabs \ {t} : tab'[r] = tab[r]
      BY <1>0, <2>0, <2>2 DEF StartSession, PollStatus, NoTab, TabRow
    <3> QED
      BY <1>1, <3>1, <3>2 DEF running
  <2>3. CASE PollReads(t)
    <3>1. UNCHANGED <<thread, gate>> /\ tab[t].pc = "refresh"
      BY <2>3 DEF PollReads, workerVars
    <3>2. tab'[t].pc # "guarded" /\ \A r \in Tabs \ {t} : tab'[r] = tab[r]
      BY <1>0, <2>0, <2>3, <3>1 DEF PollReads, TabRow
    <3> QED
      BY <1>1, <3>1, <3>2 DEF running
  <2>4. CASE PollConfirms(t)
    <3>1. UNCHANGED <<thread, gate>>
      BY <2>4 DEF PollConfirms
    <3>2. tab'[t].pc # "guarded" /\ \A r \in Tabs \ {t} : tab'[r] = tab[r]
      BY <1>0, <2>0, <2>4 DEF PollConfirms, TabRow
    <3> QED
      BY <1>1, <3>1, <3>2 DEF running
  <2>5. CASE PollAgain(t)
    <3>1. UNCHANGED <<thread, gate>> /\ tab[t].pc = "refresh"
      BY <2>5 DEF PollAgain, workerVars
    <3>2. PICK todo :
            tab' = [tab EXCEPT ![t] = IF status = "running" \/ todo = {} THEN NoTab
                                      ELSE [@ EXCEPT !.todo = todo]]
      BY <2>5 DEF PollAgain
    <3>3. [tab[t] EXCEPT !.todo = todo].pc = "refresh" /\ NoTab.pc = "idle"
      BY <2>0, <3>1 DEF NoTab, TabRow
    <3>4. tab'[t].pc # "guarded" /\ \A r \in Tabs \ {t} : tab'[r] = tab[r]
      BY <1>0, <3>2, <3>3
    <3> QED
      BY <1>1, <3>1, <3>4 DEF running
  <2>6. ASSUME NEW R, MutationCommits(t, R) PROVE GateExcludesFill'
    <3>1. tab[t].pc = "guarded" /\ gate = t /\ gate' = None
      BY <1>0, <2>6 DEF MutationCommits
    <3>2. \A r \in Tabs : tab'[r] = IF r = t THEN NoTab ELSE tab[r]
      BY <1>0, <2>6 DEF MutationCommits
    <3> QED
      BY <1>0, <3>1, <3>2 DEF NoTab
  <2>7. ASSUME NEW R, SelectionAdd(t, R) PROVE GateExcludesFill'
    BY <1>2, <2>7 DEF SelectionAdd, workerVars, running
  <2>8. ASSUME NEW op \in {"remove", "clear", "finalize"}, GuardedMutation(t, op)
        PROVE  GateExcludesFill'
    <3>1. gate = None /\ gate' = t /\ ~running /\ thread' = thread
      BY <2>8 DEF GuardedMutation, workerVars
    <3>2. \A r \in Tabs \ {t} : tab'[r] = tab[r]
      BY <1>0, <2>8 DEF GuardedMutation
    <3> QED
      BY <1>0, <3>1, <3>2 DEF running
  <2> QED
    BY <1>4, <2>1, <2>2, <2>3, <2>4, <2>5, <2>6, <2>7, <2>8 DEF RequestThread
<1>5. CASE RequestStop \/ AckTerminal \/ UNCHANGED vars
  BY <1>2, <1>5 DEF RequestStop, AckTerminal, vars, workerVars, running
<1>6. ASSUME NEW id \in DOMAIN answers, NEW a \in Actions, ResolveAction(id, a)
      PROVE  GateExcludesFill'
  BY <1>2, <1>6 DEF ResolveAction, running
<1>7. ASSUME NEW t \in Tabs, StartRaises(t) PROVE GateExcludesFill'
  <2>1. UNCHANGED <<thread, gate>>
    BY <1>7 DEF StartRaises, workerVars
  <2>2. tab'[t].pc # "guarded" /\ \A r \in Tabs \ {t} : tab'[r] = tab[r]
    BY <1>0, <1>7 DEF StartRaises, NoTab
  <2> QED
    BY <1>1, <2>1, <2>2 DEF running
<1>8. ASSUME NEW d \in Drives, CommitUnheard(d) PROVE GateExcludesFill'
  BY <1>2, <1>8 DEF CommitUnheard, workerVars, running
<1> QED
  BY <1>3, <1>4, <1>5, <1>6, <1>7, <1>8 DEF Next, Proceeds

-----------------------------------------------------------------------------
(* The invariant and the theorems *)

\* The invariant holds at first.
LEMMA WorkerInvInit == Init => WorkerInv
<1> SUFFICES ASSUME Init PROVE WorkerInv
  OBVIOUS
<1>1. answers \in [1..0 -> AnswerRow]
  BY DEF Init
<1>2. PromptInv
  <2>1. AnswersOK
    BY <1>1 DEF AnswersOK
  <2>2. PromptOpen
    BY DEF Init, PromptOpen, NoThread
  <2>3. AnswerDecidesItsPrompt
    BY <1>1 DEF AnswerDecidesItsPrompt
  <2> QED
    BY <2>1, <2>2, <2>3 DEF PromptInv
<1>3. NoThread \in ThreadRow /\ NoTab \in TabRow
  BY DEF NoThread, NoTab, ThreadRow, TabRow
<1>4. RowsTypeOK
  <2>1. /\ runs \in 0..MaxRuns
        /\ gens \in [Drives -> Nat]
        /\ durable \in [Drives -> Nat] /\ heard \in [Drives -> Nat]
        /\ ended \in Seq(EndRow) /\ oopsie \in 0..Len(ended) /\ acked \in 0..Len(ended)
        /\ decision \in [id : Nat, response : Actions \cup {None}]
    BY FillWorkerBounds DEF Init
  <2>2. /\ totals \in [Drives -> Nat \cup {None}] /\ stale \subseteq Drives
        /\ sel \in [Repos -> {"out", "staged", "finalized"}]
        /\ tab \in [Tabs -> TabRow] /\ thread \in ThreadRow
    BY <1>3 DEF Init
  <2> QED
    BY <2>1, <2>2 DEF Init, RowsTypeOK
<1>5. FillWorkerTypeOK
  BY <1>2, <1>4, TypeSplit DEF PromptInv
<1>6. TotalsInv
  BY DEF Init, TotalsInv, HeardRows, WorkerRead, TabReads, TabRead, PublishedTotalsTrue,
     NoThread, NoTab
<1>7. WarningInv /\ GateExcludesFill
  BY DEF Init, WarningInv, EndHasOutcome, EndIsLast, WarningTold, StatusIsOfLastRun, GateExcludesFill,
     NoThread, NoTab
<1> QED
  BY <1>2, <1>5, <1>6, <1>7 DEF WorkerInv

\* Every step keeps it.
LEMMA WorkerInvStep == WorkerInv /\ [Next]_vars => WorkerInv'
<1>1. AnswersOK /\ RowsTypeOK => FillWorkerTypeOK
  BY TypeSplit
<1>2. WorkerInv /\ [Next]_vars
        => RowsTypeOK' /\ AnswersOK' /\ TotalsInv' /\ WarningInv' /\ PromptInv' /\ GateExcludesFill'
  BY RowsTypeStep, PromptStep, TotalsStep, WarningStep, GateStep DEF PromptInv
<1>3. FillWorkerTypeOK /\ TotalsInv /\ WarningInv /\ PromptInv /\ GateExcludesFill => WorkerInv
  BY DEF WorkerInv
<1> QED
  BY <1>1, <1>2, <1>3, PTL

\* The inductive invariant holds in every reachable state (web/fill_worker.py beside the
\* endpoints of fill_api.py and selection_api.py).
THEOREM WorkerInvariant == Spec => []WorkerInv
BY WorkerInvInit, WorkerInvStep, PTL DEF Spec

\* A tab told that its answer was accepted has decided its own prompt (await_action,
\* resolve_action), for any number of tabs.
THEOREM AnswersDecide == Spec => []AnswerDecidesItsPrompt
<1>1. WorkerInv => AnswerDecidesItsPrompt
  BY DEF WorkerInv, PromptInv
<1> QED
  BY <1>1, WorkerInvariant, PTL

\* The totals, the warning and the last status that the portal shows are true
\* (mark_archive_changed, confirm_archive_total, _persist_terminal, ack_terminal, _run), though
\* totals are read outside the lock, events get lost and the file may not be writable.
THEOREM PortalTrue == Spec => []PortalTruthful
<1>1. WorkerInv => PortalTruthful
  BY DEF WorkerInv, TotalsInv, WarningInv, PortalTruthful
<1> QED
  BY <1>1, WorkerInvariant, PTL

\* Only a mutation under the gate writes the finalized selection.
LEMMA Frozen ==
  WorkerInv /\ [Next]_vars => ((running \/ session) => Finalized' = Finalized)
<1> SUFFICES ASSUME WorkerInv, [Next]_vars, running \/ session PROVE Finalized' = Finalized
  OBVIOUS
<1>0. RowsTypeOK /\ GateExcludesFill /\ None \notin Tabs
  BY TypeRows, FillWorkerBounds DEF WorkerInv
<1>1. ASSUME UNCHANGED sel PROVE Finalized' = Finalized
  BY <1>1 DEF Finalized
<1>2. ASSUME NEW t \in Tabs, NEW R, SelectionAdd(t, R) PROVE Finalized' = Finalized
  <2>1. \A r \in Repos : sel'[r] = "finalized" <=> sel[r] = "finalized"
    BY <1>2 DEF SelectionAdd, Written
  <2> QED
    BY <2>1 DEF Finalized
<1>3. ASSUME NEW t \in Tabs, NEW R, MutationCommits(t, R) PROVE Finalized' = Finalized
  <2>1. ~running
    BY <1>0, <1>3 DEF MutationCommits, GateExcludesFill
  <2> QED
    BY <1>1, <1>3, <2>1 DEF MutationCommits
<1>4. ASSUME NEW t \in Tabs, RequestThread(t),
             \A R \in SUBSET Repos \ {{}} : ~SelectionAdd(t, R) /\ ~MutationCommits(t, R)
      PROVE  UNCHANGED sel
  BY <1>4 DEF RequestThread, StartSession, WorkerStart, PollStatus, PollReads,
     PollConfirms, PollAgain, GuardedMutation
<1>5. CASE FillThread
  BY <1>1, <1>5 DEF FillThread, AwaitOpen, AwaitEnd, AwaitReturn, Commit, MarkArchiveChanged,
     ReadArchivedTotal, WorkerConfirms, WorkEnds, WorkStops, PersistTerminal, PublishTerminal,
     ThreadExits
<1>6. CASE RequestStop \/ AckTerminal \/ UNCHANGED vars
  BY <1>1, <1>6 DEF RequestStop, AckTerminal, vars
<1>7. ASSUME NEW id \in DOMAIN answers, NEW a \in Actions, ResolveAction(id, a)
      PROVE  Finalized' = Finalized
  BY <1>1, <1>7 DEF ResolveAction
<1>8. ASSUME NEW t \in Tabs, StartRaises(t) PROVE Finalized' = Finalized
  BY <1>1, <1>8 DEF StartRaises
<1>9. ASSUME NEW d \in Drives, CommitUnheard(d) PROVE Finalized' = Finalized
  BY <1>1, <1>9 DEF CommitUnheard
<1> QED
  BY <1>1, <1>2, <1>3, <1>4, <1>5, <1>6, <1>7, <1>8, <1>9 DEF Next, Proceeds

\* No portal request changes the finalized selection while a Fill is alive or a session
\* is live (guarded_mutation, WORKER.start, graph_write).
THEOREM SelectionStandsStill == Spec => SelectionFrozen
BY WorkerInvariant, Frozen, PTL DEF Spec, SelectionFrozen

-----------------------------------------------------------------------------
(* Registering a disk                                                      *)

RgHas == {Nil, "clone", "annex", "receipt"}
RgTrees == [has : RgHas, label : Nat]
RgPcs == {"idle", "hold", "replay", "guard", "check", "tree", "receipt", "promote", "init",
          "remote", "sync", "commit", "publish"}
RgRuns == [pc : RgPcs, kind : {Nil, "portal", "cli", "library"}, disk : RgDisks \cup {Nil},
           label : RgLabels \cup {0}]
RgPhases == {Nil, "op", "PREPARED", "LOCAL_VERIFIED", "TREE_VERIFIED", "CATALOG_PUBLISHED", "PROPAGATED"}
RgOps == [kind : {Nil, "portal", "cli", "library"}, label : RgLabels \cup {0},
          pair : RgDisks \cup {Nil}, proof : RgDisks \cup {Nil}, phase : RgPhases]

RgTyped ==
  /\ rgWorld \in RgWorlds
  /\ rgRow \in [RgLabels -> RgDisks \cup {Nil}] /\ rgRemote \in [RgLabels -> RgDisks \cup {Nil}]
  /\ rgSynced \subseteq RgDisks /\ rgStale \in SUBSET Holders /\ rgLock \in Actors \cup {Nil}
  /\ rgOp \in RgOps
  /\ rgTree \in [RgDisks -> [stage : RgTrees, archive : RgTrees]]
  /\ \A d \in RgDisks : rgTree[d].stage.has \in {Nil, "clone", "receipt"}
  /\ rgTab \in [disk : RgDisks \cup {Nil}, label : RgLabels \cup {0}, found : RgHas]
  /\ rgRun \in [Actors -> RgRuns]
  /\ rgOp = NoSetup \/ rgWorld.v9

RgExclusive == {"check", "tree", "receipt", "promote", "init", "remote", "sync", "commit", "publish"}

\* Who runs: the portal the registration of its tab, the command line one of its own labels.
RgRunning ==
  /\ ~RgAt("portal", "idle") =>
       /\ DiskOf("portal") \in RgDisks /\ LabelOf("portal") \in RgLabels
       /\ rgRun["portal"].kind = "portal" /\ rgRun["portal"].pc \notin {"guard", "init"}
       /\ LabelOf("portal") = rgTab.label /\ DiskOf("portal") = rgTab.disk
  /\ ~RgAt("cli", "idle") =>
       /\ DiskOf("cli") \in RgDisks /\ LabelOf("cli") \in RgLabels \cap rgWorld.cli
       /\ rgRun["cli"].kind = "cli" \/ (rgRun["cli"].kind = "library" /\ rgRun["cli"].pc \in {"hold", "publish"})
       /\ rgRun["cli"].pc \notin {"check", "receipt", "promote"}
  /\ rgRun["cli"].kind = "library" => rgWorld.v9
  /\ rgTab # NoPreview => rgTab.disk \in RgDisks /\ rgTab.label \in RgLabels

\* What is physical is done under the lock; in version nine the operation is the holder's.
RgMine(a) ==
  Same(rgRun[a].kind, LabelOf(a)) \/ (rgRun[a].kind = "library" /\ rgOp.kind = "library")
RgLocked ==
  /\ rgLock # Nil => ~RgAt(rgLock, "idle")
  /\ \A a \in Actors :
       /\ rgRun[a].pc \in RgExclusive => rgLock = a /\ (rgWorld.v9 => RgMine(a))
       /\ RgAt(a, "guard") /\ ~rgWorld.v9 => rgLock = a
       /\ RgAt(a, "commit") => ~rgWorld.v9
       /\ RgAt(a, "publish") => rgWorld.v9
       /\ RgAt(a, "replay") =>
            Same(rgRun[a].kind, LabelOf(a)) /\ rgRun[a].kind # "library" /\ Cataloged

\* About to write the row.
RgWrites(a) == RgAt(a, "commit") \/ (RgAt(a, "publish") /\ rgRun[a].kind # "library" /\ ~Cataloged)

\* What the portal has prepared on the disk by now.
RgPrepared ==
  LET t == rgTree[DiskOf("portal")] l == LabelOf("portal") IN
  /\ RgAt("portal", "receipt") => t.archive = NoTree
  /\ RgAt("portal", "promote") => t.archive = NoTree /\ Exact(t.stage, l)
  /\ rgRun["portal"].pc \in {"remote", "sync"} \/ RgWrites("portal") => t.archive.label = l

RgInv == RgTyped /\ RgRunning /\ RgLocked /\ RgPrepared /\ OneLabelPerDisk /\ NothingAdopted

USE RgLabelsAssumption, RgWorldsAssumption

\* A library without rows, with whatever trees the disks carry, satisfies the invariant.
LEMMA RgInitInv == RgInit => RgInv
<1> SUFFICES ASSUME RgInit PROVE RgInv
  OBVIOUS
<1> USE DEF RgInit, NoSetup, NoPreview, Idle, Nil, Actors, RgAt, DiskOf, LabelOf
<1>0. rgWorld \in RgWorlds /\ rgWorld.trees \in [RgDisks -> RgTrees] /\ NoTree \in RgTrees
  BY DEF NoTree, RgTrees, RgHas
<1>a. rgTree \in [RgDisks -> [stage : RgTrees, archive : RgTrees]]
  BY <1>0
<1>b. rgRun \in [Actors -> RgRuns]
  BY DEF RgRuns, RgPcs
<1>c. \A d \in RgDisks : rgTree[d].stage.has = Nil
  BY DEF NoTree
<1>1. RgTyped
  BY <1>0, <1>a, <1>b, <1>c DEF RgTyped, RgOps, RgPhases, Holders, RgHas
<1>2. RgRunning /\ RgLocked /\ RgPrepared
  BY DEF RgRunning, RgLocked, RgPrepared, RgExclusive, RgWrites
<1>3. OneLabelPerDisk /\ NothingAdopted
  BY DEF OneLabelPerDisk, NothingAdopted
<1> QED
  BY <1>1, <1>2, <1>3 DEF RgInv

\* The setup journal's phases.
LEMMA RgOpTyped ==
  /\ NoSetup \in RgOps
  /\ \A op \in RgOps, phase \in RgPhases : [op EXCEPT !.phase = phase] \in RgOps
  /\ \A op \in RgOps, d \in RgDisks : [op EXCEPT !.phase = "PREPARED", !.pair = d] \in RgOps
  /\ \A op \in RgOps, d \in RgDisks : [op EXCEPT !.phase = "LOCAL_VERIFIED", !.proof = d] \in RgOps
  BY DEF NoSetup, RgOps, RgPhases, Nil

\* SetTree writes one disk's stage and archive.
LEMMA RgSetTree ==
  ASSUME rgTree \in [RgDisks -> [stage : RgTrees, archive : RgTrees]],
         \A d \in RgDisks : rgTree[d].stage.has \in {Nil, "clone", "receipt"},
         NEW d \in RgDisks, NEW stage \in RgTrees, NEW archive \in RgTrees,
         stage.has \in {Nil, "clone", "receipt"}, SetTree(d, stage, archive)
  PROVE  /\ rgTree' \in [RgDisks -> [stage : RgTrees, archive : RgTrees]]
         /\ \A e \in RgDisks : rgTree'[e].stage.has \in {Nil, "clone", "receipt"}
         /\ rgTree'[d].stage = stage /\ rgTree'[d].archive = archive
         /\ \A e \in RgDisks \ {d} : rgTree'[e] = rgTree[e]
  BY DEF SetTree

\* An absent tree, and one that is marked with a label.
LEMMA RgTreeTyped ==
  /\ NoTree \in RgTrees /\ NoTree.has = Nil /\ NoTree.label = 0
  /\ \A l \in RgLabels, h \in RgHas :
       /\ [has |-> h, label |-> l] \in RgTrees /\ [has |-> h, label |-> l].label = l
       /\ [has |-> h, label |-> l].has = h
  BY DEF NoTree, RgTrees, RgHas, Nil

\* What GoTo and Stop leave alone.
LEMMA RgGoTo ==
  ASSUME rgRun \in [Actors -> RgRuns], NEW a \in Actors, NEW pc \in RgPcs, GoTo(a, pc)
  PROVE  /\ rgRun' \in [Actors -> RgRuns]
         /\ rgRun'[a].pc = pc /\ rgRun'[a].kind = rgRun[a].kind
         /\ rgRun'[a].disk = rgRun[a].disk /\ rgRun'[a].label = rgRun[a].label
         /\ \A b \in Actors \ {a} : rgRun'[b] = rgRun[b]
  BY DEF GoTo, RgRuns

\* An actor that stops is idle, and no other moves.
LEMMA RgStopped ==
  ASSUME rgRun \in [Actors -> RgRuns], NEW a \in Actors, Stop(a)
  PROVE  /\ rgRun' \in [Actors -> RgRuns] /\ rgRun'[a] = Idle
         /\ \A b \in Actors \ {a} : rgRun'[b] = rgRun[b]
  BY DEF Stop, RgRuns, Idle, RgPcs, Nil

\* _ensure_annex_remote, which refuses a remote of another disk, keeps the invariant.
LEMMA RgPointRemoteInv ==
  ASSUME RgInv, NEW a \in Actors, PointRemote(a)
  PROVE  RgInv'
<1> USE DEF PointRemote, Catalog, RgAt, DiskOf, LabelOf, Actors, Nil
<1> RgTyped /\ RgRunning /\ RgLocked /\ RgPrepared /\ OneLabelPerDisk /\ NothingAdopted
  BY DEF RgInv
<1>0. /\ rgRun' \in [Actors -> RgRuns]
      /\ rgRun'[a].pc = "sync" /\ rgRun'[a].kind = rgRun[a].kind
      /\ rgRun'[a].disk = rgRun[a].disk /\ rgRun'[a].label = rgRun[a].label
      /\ \A b \in Actors \ {a} : rgRun'[b] = rgRun[b]
  BY RgGoTo DEF RgTyped, RgPcs
<1>1. RgTyped'
  BY <1>0 DEF RgTyped, RgRunning, RgHas
<1>2. RgRunning'
  BY <1>0 DEF RgRunning, RgTyped
<1>3. RgLocked'
  BY <1>0 DEF RgLocked, RgExclusive, RgMine, Same, Cataloged
<1>4. RgPrepared'
  BY <1>0 DEF RgPrepared, RgWrites, Cataloged
<1>5. OneLabelPerDisk' /\ NothingAdopted'
  BY <1>0 DEF OneLabelPerDisk, NothingAdopted
<1> QED
  BY <1>1, <1>2, <1>3, <1>4, <1>5 DEF RgInv

\* The annex sync of the prepared archive keeps the invariant.
LEMMA RgAnnexSyncInv ==
  ASSUME RgInv, NEW a \in Actors, AnnexSync(a)
  PROVE  RgInv'
<1> USE DEF AnnexSync, Catalog, RgAt, DiskOf, LabelOf, Actors, Nil
<1> RgTyped /\ RgRunning /\ RgLocked /\ RgPrepared /\ OneLabelPerDisk /\ NothingAdopted
  BY DEF RgInv
<1>0. /\ rgRun' \in [Actors -> RgRuns]
      /\ rgRun'[a].pc = (IF rgWorld.v9 THEN "publish" ELSE "commit") /\ rgRun'[a].kind = rgRun[a].kind
      /\ rgRun'[a].disk = rgRun[a].disk /\ rgRun'[a].label = rgRun[a].label
      /\ \A b \in Actors \ {a} : rgRun'[b] = rgRun[b]
  BY RgGoTo DEF RgTyped, RgPcs
<1>1. RgTyped'
  BY <1>0 DEF RgTyped, RgRunning, RgHas
<1>2. RgRunning'
  BY <1>0 DEF RgRunning, RgTyped
<1>3. RgLocked'
  BY <1>0 DEF RgLocked, RgExclusive, RgMine, Same, Cataloged
<1>4. RgPrepared'
  BY <1>0 DEF RgPrepared, RgWrites, Cataloged
<1>5. OneLabelPerDisk' /\ NothingAdopted'
  BY <1>0 DEF OneLabelPerDisk, NothingAdopted
<1> QED
  BY <1>1, <1>2, <1>3, <1>4, <1>5 DEF RgInv

\* Taking the controller lock (version eight) or the setup scope keeps the invariant.
LEMMA RgHoldControllerInv ==
  ASSUME RgInv, NEW a \in Actors, HoldController(a)
  PROVE  RgInv'
<1> USE DEF HoldController, Catalog, Physical, RgAt, DiskOf, LabelOf, Actors, Nil
<1> RgTyped /\ RgRunning /\ RgLocked /\ RgPrepared /\ OneLabelPerDisk /\ NothingAdopted
  BY DEF RgInv
<1>0. /\ rgRun' \in [Actors -> RgRuns]
      /\ rgRun'[a].pc = (IF a = "cli" THEN "guard" ELSE "check") /\ rgRun'[a].kind = rgRun[a].kind
      /\ rgRun'[a].disk = rgRun[a].disk /\ rgRun'[a].label = rgRun[a].label
      /\ \A b \in Actors \ {a} : rgRun'[b] = rgRun[b]
  BY RgGoTo DEF RgTyped, RgPcs
<1>1. RgTyped'
  BY <1>0 DEF RgTyped, RgRunning, RgHas
<1>2. RgRunning'
  BY <1>0 DEF RgRunning, RgTyped
<1>3. RgLocked'
  BY <1>0 DEF RgLocked, RgExclusive, RgMine, Same, Cataloged
<1>4. RgPrepared'
  BY <1>0 DEF RgPrepared, RgWrites, Cataloged
<1>5. OneLabelPerDisk' /\ NothingAdopted'
  BY <1>0 DEF OneLabelPerDisk, NothingAdopted
<1> QED
  BY <1>1, <1>2, <1>3, <1>4, <1>5 DEF RgInv

\* setup_scope of registration_setup keeps the invariant.
LEMMA RgHoldSetupInv ==
  ASSUME RgInv, NEW a \in Actors, HoldSetup(a)
  PROVE  RgInv'
<1> USE DEF HoldSetup, Physical, Bump, Same, RgAt, DiskOf, LabelOf, Actors, Nil
<1> RgTyped /\ RgRunning /\ RgLocked /\ RgPrepared /\ OneLabelPerDisk /\ NothingAdopted
  BY DEF RgInv
<1>0. /\ rgRun' \in [Actors -> RgRuns]
      /\ rgRun'[a].pc = (CASE RgAt(a, "replay") \/ rgRun[a].kind = "library" -> "publish" [] rgRun[a].kind = "portal" -> "check" [] OTHER -> "tree") /\ rgRun'[a].kind = rgRun[a].kind
      /\ rgRun'[a].disk = rgRun[a].disk /\ rgRun'[a].label = rgRun[a].label
      /\ \A b \in Actors \ {a} : rgRun'[b] = rgRun[b]
  BY RgGoTo DEF RgTyped, RgPcs
<1>x. \/ RgMine(a) /\ rgOp' = rgOp /\ rgStale' \subseteq rgStale
      \/ /\ rgOp = NoSetup /\ rgOp' = [NoSetup EXCEPT !.kind = rgRun[a].kind, !.label = LabelOf(a), !.phase = "op"]
         /\ rgStale' \subseteq Holders
  BY DEF RgMine
<1>y. RgMine(a)' /\ rgOp' \in RgOps /\ rgWorld.v9
  <2>1. rgRun[a].kind \in {"portal", "cli", "library"} /\ LabelOf(a) \in RgLabels
    BY DEF RgRunning
  <2>2. CASE RgMine(a) /\ rgOp' = rgOp
    BY <1>0, <2>2 DEF RgMine, RgTyped
  <2>3. CASE rgOp' = [NoSetup EXCEPT !.kind = rgRun[a].kind, !.label = LabelOf(a), !.phase = "op"]
    BY <1>0, <2>1, <2>3 DEF RgMine, NoSetup, RgOps, RgPhases
  <2> QED
    BY <1>x, <2>2, <2>3
<1>z. \A b \in Actors : RgAt(b, "replay") => rgOp' = rgOp
  BY <1>x DEF RgLocked, NoSetup, RgTyped, RgRuns, RgRunning
<1>1. RgTyped'
  BY <1>0, <1>x, <1>y DEF RgTyped
<1>2. RgRunning'
  BY <1>0 DEF RgRunning, RgTyped
<1>3. RgLocked'
  BY <1>0, <1>y, <1>z DEF RgLocked, RgExclusive, Cataloged, RgRunning
<1>4. RgPrepared'
  BY <1>0 DEF RgPrepared, RgWrites, Cataloged, NoSetup, RgLocked, RgRunning
<1>5. OneLabelPerDisk' /\ NothingAdopted'
  BY <1>0 DEF OneLabelPerDisk, NothingAdopted
<1> QED
  BY <1>1, <1>2, <1>3, <1>4, <1>5 DEF RgInv

\* The graph write that inserts the row beside no journal keeps the invariant.
LEMMA RgGraphCommitInv ==
  ASSUME RgInv, NEW a \in Actors, GraphCommit(a)
  PROVE  RgInv'
<1> USE DEF GraphCommit, InsertRow, Bump, RgFree, Physical, Idle, NoPreview, RgAt, DiskOf, LabelOf, Actors, Nil
<1> RgTyped /\ RgRunning /\ RgLocked /\ RgPrepared /\ OneLabelPerDisk /\ NothingAdopted
  BY DEF RgInv
<1>0. /\ rgRun' \in [Actors -> RgRuns] /\ rgRun'[a] = Idle
      /\ \A b \in Actors \ {a} : rgRun'[b] = rgRun[b]
  BY RgStopped DEF RgTyped
<1>1. RgTyped'
  BY <1>0 DEF RgTyped, RgRunning, Holders, RgHas
<1>2. RgRunning'
  BY <1>0 DEF RgRunning, RgTyped, RgLocked
<1>3. RgLocked'
  BY <1>0 DEF RgLocked, RgExclusive, RgMine, Same, Cataloged, RgTyped
<1>4. RgPrepared'
  BY <1>0 DEF RgPrepared, RgWrites, Cataloged, RgLocked
<1>5. OneLabelPerDisk' /\ NothingAdopted'
  BY <1>0 DEF OneLabelPerDisk, NothingAdopted, RgPrepared, RgWrites, RgTyped, RgRunning, Admits, Used
<1> QED
  BY <1>1, <1>2, <1>3, <1>4, <1>5 DEF RgInv

\* Publication of the PREPARED phase keeps the invariant.
LEMMA RgPrepareRowInv ==
  ASSUME RgInv, NEW a \in Actors, PrepareRow(a)
  PROVE  RgInv'
<1> USE DEF PrepareRow, Publishing, UnchangedByPublish, Physical, Bump, Advance, RgAt, DiskOf, LabelOf, Actors, Nil
<1> RgTyped /\ RgRunning /\ RgLocked /\ RgPrepared /\ OneLabelPerDisk /\ NothingAdopted
  BY DEF RgInv
<1>x. rgOp' \in RgOps /\ rgWorld.v9
  BY RgOpTyped DEF RgTyped, RgRunning, RgPhases, RgLocked
<1>1. RgTyped'
  BY <1>x DEF RgTyped, RgRunning, Holders
<1>2. RgRunning'
  BY DEF RgRunning, RgTyped
<1>3. RgLocked'
  BY DEF RgLocked, RgExclusive, RgMine, Same, Cataloged, RgTyped
<1>4. RgPrepared'
  BY DEF RgPrepared, RgWrites, Cataloged, RgTyped, RgLocked, RgExclusive
<1>5. OneLabelPerDisk' /\ NothingAdopted'
  BY DEF OneLabelPerDisk, NothingAdopted
<1> QED
  BY <1>1, <1>2, <1>3, <1>4, <1>5 DEF RgInv

\* Publication of the LOCAL_VERIFIED phase keeps the invariant.
LEMMA RgLocalVerifiedInv ==
  ASSUME RgInv, NEW a \in Actors, LocalVerified(a)
  PROVE  RgInv'
<1> USE DEF LocalVerified, Publishing, UnchangedByPublish, Physical, Bump, Advance, RgAt, DiskOf, LabelOf, Actors, Nil
<1> RgTyped /\ RgRunning /\ RgLocked /\ RgPrepared /\ OneLabelPerDisk /\ NothingAdopted
  BY DEF RgInv
<1>x. rgOp' \in RgOps /\ rgWorld.v9
  BY RgOpTyped DEF RgTyped, RgRunning, RgPhases, RgLocked
<1>1. RgTyped'
  BY <1>x DEF RgTyped, RgRunning, Holders
<1>2. RgRunning'
  BY DEF RgRunning, RgTyped
<1>3. RgLocked'
  BY DEF RgLocked, RgExclusive, RgMine, Same, Cataloged, RgTyped
<1>4. RgPrepared'
  BY DEF RgPrepared, RgWrites, Cataloged, RgTyped, RgLocked, RgExclusive
<1>5. OneLabelPerDisk' /\ NothingAdopted'
  BY DEF OneLabelPerDisk, NothingAdopted
<1> QED
  BY <1>1, <1>2, <1>3, <1>4, <1>5 DEF RgInv

\* Publication of the TREE_VERIFIED phase keeps the invariant.
LEMMA RgTreeVerifiedInv ==
  ASSUME RgInv, NEW a \in Actors, TreeVerified(a)
  PROVE  RgInv'
<1> USE DEF TreeVerified, Publishing, UnchangedByPublish, Physical, Bump, Advance, RgAt, DiskOf, LabelOf, Actors, Nil
<1> RgTyped /\ RgRunning /\ RgLocked /\ RgPrepared /\ OneLabelPerDisk /\ NothingAdopted
  BY DEF RgInv
<1>x. rgOp' \in RgOps /\ rgWorld.v9
  BY RgOpTyped DEF RgTyped, RgRunning, RgPhases, RgLocked
<1>1. RgTyped'
  BY <1>x DEF RgTyped, RgRunning, Holders
<1>2. RgRunning'
  BY DEF RgRunning, RgTyped
<1>3. RgLocked'
  BY DEF RgLocked, RgExclusive, RgMine, Same, Cataloged, RgTyped
<1>4. RgPrepared'
  BY DEF RgPrepared, RgWrites, Cataloged, RgTyped, RgLocked, RgExclusive
<1>5. OneLabelPerDisk' /\ NothingAdopted'
  BY DEF OneLabelPerDisk, NothingAdopted
<1> QED
  BY <1>1, <1>2, <1>3, <1>4, <1>5 DEF RgInv

\* Publication of the PROPAGATED phase keeps the invariant.
LEMMA RgPropagatedInv ==
  ASSUME RgInv, NEW a \in Actors, Propagated(a)
  PROVE  RgInv'
<1> USE DEF Propagated, Publishing, UnchangedByPublish, Physical, Bump, Advance, RgAt, DiskOf, LabelOf, Actors, Nil
<1> RgTyped /\ RgRunning /\ RgLocked /\ RgPrepared /\ OneLabelPerDisk /\ NothingAdopted
  BY DEF RgInv
<1>x. rgOp' \in RgOps /\ rgWorld.v9
  BY RgOpTyped DEF RgTyped, RgRunning, RgPhases, RgLocked
<1>1. RgTyped'
  BY <1>x DEF RgTyped, RgRunning, Holders
<1>2. RgRunning'
  BY DEF RgRunning, RgTyped
<1>3. RgLocked'
  BY DEF RgLocked, RgExclusive, RgMine, Same, Cataloged, RgTyped
<1>4. RgPrepared'
  BY DEF RgPrepared, RgWrites, Cataloged, RgTyped, RgLocked, RgExclusive
<1>5. OneLabelPerDisk' /\ NothingAdopted'
  BY DEF OneLabelPerDisk, NothingAdopted
<1> QED
  BY <1>1, <1>2, <1>3, <1>4, <1>5 DEF RgInv

\* The phase that writes the row with the journal keeps the invariant.
LEMMA RgCatalogPublishedInv ==
  ASSUME RgInv, NEW a \in Actors, CatalogPublished(a)
  PROVE  RgInv'
<1> USE DEF CatalogPublished, Publishing, UnchangedByPublish, Physical, Bump, Advance, InsertRow, RgAt, DiskOf, LabelOf, Actors, Nil
<1> RgTyped /\ RgRunning /\ RgLocked /\ RgPrepared /\ OneLabelPerDisk /\ NothingAdopted
  BY DEF RgInv
<1>x. rgOp' \in RgOps /\ rgWorld.v9
  BY RgOpTyped DEF RgTyped, RgRunning, RgPhases, RgLocked
<1>1. RgTyped'
  BY <1>x DEF RgTyped, RgRunning, Holders
<1>2. RgRunning'
  BY DEF RgRunning, RgTyped
<1>3. RgLocked'
  BY DEF RgLocked, RgExclusive, RgMine, Same, Cataloged, RgTyped
<1>4. RgPrepared'
  BY DEF RgPrepared, RgWrites, Cataloged, RgTyped, RgLocked, RgExclusive
<1>5. OneLabelPerDisk' /\ NothingAdopted'
  <2>1. CASE rgRun[a].kind = "library"
    BY <2>1 DEF OneLabelPerDisk, NothingAdopted
  <2>2. CASE a = "cli" /\ rgRun[a].kind # "library"
    <3>1. /\ rgRow \in [RgLabels -> RgDisks \cup {Nil}] /\ LabelOf("cli") \in RgLabels \cap rgWorld.cli
          /\ rgRow' = [rgRow EXCEPT ![LabelOf("cli")] = DiskOf("cli")]
      BY <2>2 DEF RgTyped, RgRunning
    <3> QED
      BY <3>1 DEF OneLabelPerDisk, NothingAdopted
  <2>3. CASE a = "portal" /\ rgRun[a].kind # "library"
    <3>1. /\ rgRow \in [RgLabels -> RgDisks \cup {Nil}] /\ LabelOf("portal") \in RgLabels
          /\ DiskOf("portal") \in RgDisks /\ rgRow' = [rgRow EXCEPT ![LabelOf("portal")] = DiskOf("portal")]
      BY <2>3 DEF RgTyped, RgRunning
    <3>2. \A l \in RgLabels : rgRow[l] # DiskOf("portal")
      BY <2>3 DEF Admits, Used
    <3>3. rgTree[DiskOf("portal")].archive.label = LabelOf("portal")
      BY <2>3 DEF RgPrepared, RgWrites, Cataloged
    <3> QED
      BY <3>1, <3>2, <3>3 DEF OneLabelPerDisk, NothingAdopted
  <2> QED
    BY <2>1, <2>2, <2>3
<1> QED
  BY <1>1, <1>2, <1>3, <1>4, <1>5 DEF RgInv

\* What closing an operation does to the runs, the lock and the rest.
LEMMA RgCloseEffect ==
  ASSUME RgTyped, RgRunning, RgLocked, NEW a \in Actors, CloseSetup(a)
  PROVE  /\ RgAt(a, "publish") /\ rgOp.phase = "PROPAGATED" /\ rgOp' = NoSetup /\ rgWorld.v9
         /\ rgLock' = Nil /\ rgTab' = (IF a = "portal" THEN NoPreview ELSE rgTab)
         /\ UNCHANGED <<rgWorld, rgRow, rgTree, rgRemote, rgSynced>> /\ rgStale' = Holders
         /\ rgRun' \in [Actors -> RgRuns] /\ \A b \in Actors \ {a} : rgRun'[b] = rgRun[b]
         /\ \A b \in Actors \ {a} : rgRun[b].pc \notin RgExclusive /\ ~RgAt(b, "replay")
         /\ rgRun'[a].kind # "library" /\ (a = "portal" => rgRun[a].kind # "library")
         /\ rgRun[a].kind # "library" => rgRun'[a].pc = "idle"
         /\ rgRun[a].kind = "library" =>
              /\ rgRun'[a].kind = "cli" /\ rgRun'[a].pc = "hold"
              /\ rgRun'[a].disk = rgRun[a].disk /\ rgRun'[a].label = rgRun[a].label
<1> USE DEF Publishing, Idle, RgAt, DiskOf, LabelOf, Actors, Nil
<1>0. /\ rgRun' \in [Actors -> RgRuns]
      /\ rgRun'[a] = IF rgRun[a].kind = "library" THEN [rgRun[a] EXCEPT !.pc = "hold", !.kind = "cli"] ELSE Idle
      /\ \A b \in Actors \ {a} : rgRun'[b] = rgRun[b]
  BY DEF CloseSetup, RgTyped, RgRuns, RgPcs, Stop
<1>c. /\ RgAt(a, "publish") /\ rgOp.phase = "PROPAGATED" /\ rgOp' = NoSetup
      /\ rgLock' = IF rgLock = a THEN Nil ELSE rgLock
      /\ rgTab' = IF a = "portal" THEN NoPreview ELSE rgTab
      /\ UNCHANGED <<rgWorld, rgRow, rgTree, rgRemote, rgSynced>> /\ rgStale' = Holders
  BY DEF CloseSetup, RgFree, Bump, Physical
<1>r. /\ rgRun'[a].pc \in {"idle", "hold"} /\ rgRun'[a].kind # "library"
      /\ rgRun[a].kind # "library" => rgRun'[a].pc = "idle"
      /\ rgRun[a].kind = "library" =>
           /\ rgRun'[a].kind = "cli" /\ rgRun'[a].pc = "hold"
           /\ rgRun'[a].disk = rgRun[a].disk /\ rgRun'[a].label = rgRun[a].label
  BY <1>0 DEF RgTyped, RgRuns
<1>k. /\ rgLock = a /\ \A b \in Actors \ {a} : rgRun[b].pc \notin RgExclusive /\ ~RgAt(b, "replay")
      /\ a = "portal" => rgRun[a].kind # "library"
  <2>1. rgLock = a /\ RgMine(a)
    BY <1>c DEF RgLocked, RgExclusive
  <2>2. \A b \in Actors \ {a} : rgRun[b].pc \notin RgExclusive
    BY <2>1 DEF RgLocked
  <2>3. ASSUME NEW b \in Actors \ {a}, RgAt(b, "replay") PROVE FALSE
    <3>1. rgOp.kind = rgRun[b].kind /\ rgRun[b].kind # "library"
      BY <2>3 DEF RgLocked, Same
    <3>2. rgOp.kind = rgRun[a].kind
      BY <2>1 DEF RgMine, Same
    <3> QED
      BY <1>c, <2>3, <3>1, <3>2 DEF RgRunning
  <2> QED
    BY <1>c, <2>1, <2>2, <2>3 DEF RgRunning
<1> QED
  BY <1>0, <1>c, <1>r, <1>k DEF RgLocked

\* Closing a setup that has been propagated keeps the invariant.
LEMMA RgCloseSetupInv ==
  ASSUME RgInv, NEW a \in Actors, CloseSetup(a)
  PROVE  RgInv'
<1> USE DEF RgAt, DiskOf, LabelOf, Actors, Nil
<1> RgTyped /\ RgRunning /\ RgLocked /\ RgPrepared /\ OneLabelPerDisk /\ NothingAdopted
  BY DEF RgInv
<1>0. /\ RgAt(a, "publish") /\ rgOp.phase = "PROPAGATED" /\ rgOp' = NoSetup /\ rgWorld.v9
      /\ rgLock' = Nil /\ rgTab' = (IF a = "portal" THEN NoPreview ELSE rgTab)
      /\ UNCHANGED <<rgWorld, rgRow, rgTree, rgRemote, rgSynced>> /\ rgStale' = Holders
      /\ rgRun' \in [Actors -> RgRuns] /\ \A b \in Actors \ {a} : rgRun'[b] = rgRun[b]
      /\ \A b \in Actors \ {a} : rgRun[b].pc \notin RgExclusive /\ ~RgAt(b, "replay")
  BY RgCloseEffect
<1>r. /\ rgRun'[a].kind # "library" /\ (a = "portal" => rgRun[a].kind # "library")
      /\ rgRun[a].kind # "library" => rgRun'[a].pc = "idle"
      /\ rgRun[a].kind = "library" =>
           /\ rgRun'[a].kind = "cli" /\ rgRun'[a].pc = "hold"
           /\ rgRun'[a].disk = rgRun[a].disk /\ rgRun'[a].label = rgRun[a].label
  BY RgCloseEffect
<1>1. RgTyped'
  BY <1>0, RgOpTyped DEF RgTyped, RgHas, NoPreview
<1>2. RgRunning'
  BY <1>0, <1>r DEF RgRunning, RgLocked, RgExclusive, NoPreview
<1>3. RgLocked'
  <2>1. \A b \in Actors \ {a} : rgRun'[b].pc \notin RgExclusive /\ rgRun'[b].pc # "replay"
    BY <1>0
  <2>2. rgLock' = Nil /\ rgWorld' = rgWorld /\ rgWorld.v9
    BY <1>0
  <2> QED
    BY <1>r, <2>1, <2>2 DEF RgLocked, RgExclusive
<1>4. RgPrepared'
  BY <1>0, <1>r DEF RgPrepared, RgWrites, RgExclusive
<1>5. OneLabelPerDisk' /\ NothingAdopted'
  BY <1>0 DEF OneLabelPerDisk, NothingAdopted
<1> QED
  BY <1>1, <1>2, <1>3, <1>4, <1>5 DEF RgInv

\* Any refusal of a registration keeps the invariant.
LEMMA RgRefuseInv ==
  ASSUME RgInv, NEW a \in Actors, RgRefuse(a)
  PROVE  RgInv'
<1> USE DEF RgRefuse, Abort, Bump, RgFree, Physical, Idle, NoPreview, RgAt, DiskOf, LabelOf, Actors, Nil
<1> RgTyped /\ RgRunning /\ RgLocked /\ RgPrepared /\ OneLabelPerDisk /\ NothingAdopted
  BY DEF RgInv
<1>0. /\ rgRun' \in [Actors -> RgRuns] /\ rgRun'[a] = Idle
      /\ \A b \in Actors \ {a} : rgRun'[b] = rgRun[b]
  BY RgStopped DEF RgTyped
<1>x. rgOp' \in RgOps /\ (rgOp' = NoSetup \/ rgWorld.v9)
  BY RgOpTyped DEF RgTyped
<1>1. RgTyped'
  BY <1>0, <1>x DEF RgTyped, Holders, RgHas
<1>2. RgRunning'
  BY <1>0 DEF RgRunning, RgTyped
<1>3. RgLocked'
  BY <1>0 DEF RgLocked, RgExclusive, RgMine, Same, Cataloged, RgTyped
<1>4. RgPrepared'
  BY <1>0 DEF RgPrepared, RgWrites, Cataloged, RgLocked
<1>5. OneLabelPerDisk' /\ NothingAdopted'
  BY <1>0 DEF OneLabelPerDisk, NothingAdopted
<1> QED
  BY <1>1, <1>2, <1>3, <1>4, <1>5 DEF RgInv

\* A failing tool in the middle of the preparation keeps the invariant.
LEMMA RgToolFailsInv ==
  ASSUME RgInv, NEW a \in Actors, ToolFails(a)
  PROVE  RgInv'
<1> USE DEF ToolFails, Abort, Bump, RgFree, Physical, Idle, NoPreview, Preparing, RgAt, DiskOf, LabelOf, Actors, Nil
<1> RgTyped /\ RgRunning /\ RgLocked /\ RgPrepared /\ OneLabelPerDisk /\ NothingAdopted
  BY DEF RgInv
<1>0. /\ rgRun' \in [Actors -> RgRuns] /\ rgRun'[a] = Idle
      /\ \A b \in Actors \ {a} : rgRun'[b] = rgRun[b]
  BY RgStopped DEF RgTyped
<1>x. rgOp' \in RgOps /\ (rgOp' = NoSetup \/ rgWorld.v9)
  BY RgOpTyped DEF RgTyped
<1>1. RgTyped'
  BY <1>0, <1>x DEF RgTyped, Holders, RgHas
<1>2. RgRunning'
  BY <1>0 DEF RgRunning, RgTyped
<1>3. RgLocked'
  BY <1>0 DEF RgLocked, RgExclusive, RgMine, Same, Cataloged, RgTyped
<1>4. RgPrepared'
  BY <1>0 DEF RgPrepared, RgWrites, Cataloged, RgLocked
<1>5. OneLabelPerDisk' /\ NothingAdopted'
  BY <1>0 DEF OneLabelPerDisk, NothingAdopted
<1> QED
  BY <1>1, <1>2, <1>3, <1>4, <1>5 DEF RgInv

\* The death of a registering process keeps the invariant.
LEMMA RgCrashInv ==
  ASSUME RgInv, NEW a \in Actors, RgCrash(a)
  PROVE  RgInv'
<1> USE DEF RgCrash, RgFree, Physical, Catalog, Idle, RgAt, DiskOf, LabelOf, Actors, Nil
<1> RgTyped /\ RgRunning /\ RgLocked /\ RgPrepared /\ OneLabelPerDisk /\ NothingAdopted
  BY DEF RgInv
<1>0. /\ rgRun' \in [Actors -> RgRuns] /\ rgRun'[a] = Idle
      /\ \A b \in Actors \ {a} : rgRun'[b] = rgRun[b]
  BY RgStopped DEF RgTyped
<1>1. RgTyped'
  BY <1>0 DEF RgTyped, RgRunning, RgHas
<1>2. RgRunning'
  BY <1>0 DEF RgRunning, RgTyped
<1>3. RgLocked'
  BY <1>0 DEF RgLocked, RgExclusive, RgMine, Same, Cataloged, RgTyped
<1>4. RgPrepared'
  BY <1>0 DEF RgPrepared, RgWrites, Cataloged, RgLocked
<1>5. OneLabelPerDisk' /\ NothingAdopted'
  BY <1>0 DEF OneLabelPerDisk, NothingAdopted
<1> QED
  BY <1>1, <1>2, <1>3, <1>4, <1>5 DEF RgInv

\* The portal's second look at label and drive keeps the invariant.
LEMMA RgCheckCatalogInv ==
  ASSUME RgInv, CheckCatalog
  PROVE  RgInv'
<1> USE DEF CheckCatalog, Catalog, Physical, RgAt, DiskOf, LabelOf, Actors, Nil
<1> RgTyped /\ RgRunning /\ RgLocked /\ RgPrepared /\ OneLabelPerDisk /\ NothingAdopted
  BY DEF RgInv
<1>0. /\ rgRun' \in [Actors -> RgRuns]
      /\ rgRun'["portal"].pc = "tree" /\ rgRun'["portal"].kind = rgRun["portal"].kind
      /\ rgRun'["portal"].disk = rgRun["portal"].disk /\ rgRun'["portal"].label = rgRun["portal"].label
      /\ \A b \in Actors \ {"portal"} : rgRun'[b] = rgRun[b]
  BY RgGoTo DEF RgTyped, RgPcs
<1>1. RgTyped'
  BY <1>0 DEF RgTyped, RgRunning, RgHas
<1>2. RgRunning'
  BY <1>0 DEF RgRunning, RgTyped
<1>3. RgLocked'
  BY <1>0 DEF RgLocked, RgExclusive, RgMine, Same, Cataloged
<1>4. RgPrepared'
  BY <1>0 DEF RgPrepared, RgWrites, Cataloged
<1>5. OneLabelPerDisk' /\ NothingAdopted'
  BY <1>0 DEF OneLabelPerDisk, NothingAdopted
<1> QED
  BY <1>1, <1>2, <1>3, <1>4, <1>5 DEF RgInv

\* Finding the receipt of an earlier try keeps the invariant.
LEMMA RgReceiptFoundInv ==
  ASSUME RgInv, ReceiptFound
  PROVE  RgInv'
<1> USE DEF ReceiptFound, UnchangedByTree, Catalog, RgAt, DiskOf, LabelOf, Actors, Nil
<1> RgTyped /\ RgRunning /\ RgLocked /\ RgPrepared /\ OneLabelPerDisk /\ NothingAdopted
  BY DEF RgInv
<1>0. /\ rgRun' \in [Actors -> RgRuns]
      /\ rgRun'["portal"].pc = IF rgTree[DiskOf("portal")].archive = NoTree THEN "promote" ELSE "remote"
      /\ rgRun'["portal"].kind = rgRun["portal"].kind
      /\ rgRun'["portal"].disk = rgRun["portal"].disk /\ rgRun'["portal"].label = rgRun["portal"].label
      /\ rgRun'["cli"] = rgRun["cli"]
  BY DEF RgTyped, RgRuns, RgPcs, GoTo, Exact, NoTree
<1>1. RgTyped'
  BY <1>0 DEF RgTyped, RgRunning, RgHas
<1>2. RgRunning'
  BY <1>0 DEF RgRunning, RgTyped
<1>3. RgLocked'
  BY <1>0 DEF RgLocked, RgExclusive, RgMine, Same, Cataloged
<1>4. RgPrepared'
  BY <1>0 DEF RgPrepared, RgWrites, Cataloged, Exact, NoTree
<1>5. OneLabelPerDisk' /\ NothingAdopted'
  BY <1>0 DEF OneLabelPerDisk, NothingAdopted
<1> QED
  BY <1>1, <1>2, <1>3, <1>4, <1>5 DEF RgInv

\* Cloning the library into the stage keeps the invariant.
LEMMA RgCloneStageInv ==
  ASSUME RgInv, CloneStage
  PROVE  RgInv'
<1> USE DEF CloneStage, UnchangedByTree, Catalog, RgAt, DiskOf, LabelOf, Actors, Nil
<1> RgTyped /\ RgRunning /\ RgLocked /\ RgPrepared /\ OneLabelPerDisk /\ NothingAdopted
  BY DEF RgInv
<1>0. /\ rgRun' \in [Actors -> RgRuns]
      /\ rgRun'["portal"].pc = "receipt" /\ rgRun'["portal"].kind = rgRun["portal"].kind
      /\ rgRun'["portal"].disk = rgRun["portal"].disk /\ rgRun'["portal"].label = rgRun["portal"].label
      /\ \A b \in Actors \ {"portal"} : rgRun'[b] = rgRun[b]
  BY RgGoTo DEF RgTyped, RgPcs
<1>d. DiskOf("portal") \in RgDisks /\ LabelOf("portal") \in RgLabels /\ LabelOf("portal") # 0
  BY DEF RgRunning
<1> DEFINE stage == [has |-> "clone", label |-> LabelOf("portal")]
           archive == NoTree
<1>s. stage \in RgTrees /\ archive \in RgTrees /\ stage.has \in {Nil, "clone", "receipt"}
  BY <1>d, RgTreeTyped DEF RgTyped, RgHas
<1>t. /\ rgTree' \in [RgDisks -> [stage : RgTrees, archive : RgTrees]]
      /\ \A e \in RgDisks : rgTree'[e].stage.has \in {Nil, "clone", "receipt"}
      /\ rgTree'[DiskOf("portal")].stage = stage /\ rgTree'[DiskOf("portal")].archive = archive
      /\ \A e \in RgDisks \ {DiskOf("portal")} : rgTree'[e] = rgTree[e]
  BY <1>d, <1>s, RgSetTree DEF RgTyped
<1>1. RgTyped'
  BY <1>0, <1>t DEF RgTyped
<1>2. RgRunning'
  BY <1>0 DEF RgRunning, RgTyped
<1>3. RgLocked'
  BY <1>0 DEF RgLocked, RgExclusive, RgMine, Same, Cataloged
<1>4. RgPrepared'
  BY <1>0, <1>d, <1>t DEF RgPrepared, RgWrites, Exact
<1>e. \A l \in RgLabels : rgRow[l] = DiskOf("portal") => rgRow[l] = Nil \/ l \in rgWorld.cli
  <2>1. rgTree[DiskOf("portal")].archive.label = 0
    BY RgTreeTyped DEF RgPrepared
  <2> QED
    BY <2>1 DEF NothingAdopted
<1>5. OneLabelPerDisk' /\ NothingAdopted'
  BY <1>d, <1>e, <1>t DEF OneLabelPerDisk, NothingAdopted, RgTyped
<1> QED
  BY <1>1, <1>2, <1>3, <1>4, <1>5 DEF RgInv

\* The receipt in the stage keeps the invariant.
LEMMA RgWriteReceiptInv ==
  ASSUME RgInv, WriteReceipt
  PROVE  RgInv'
<1> USE DEF WriteReceipt, UnchangedByTree, Catalog, RgAt, DiskOf, LabelOf, Actors, Nil
<1> RgTyped /\ RgRunning /\ RgLocked /\ RgPrepared /\ OneLabelPerDisk /\ NothingAdopted
  BY DEF RgInv
<1>0. /\ rgRun' \in [Actors -> RgRuns]
      /\ rgRun'["portal"].pc = "promote" /\ rgRun'["portal"].kind = rgRun["portal"].kind
      /\ rgRun'["portal"].disk = rgRun["portal"].disk /\ rgRun'["portal"].label = rgRun["portal"].label
      /\ \A b \in Actors \ {"portal"} : rgRun'[b] = rgRun[b]
  BY RgGoTo DEF RgTyped, RgPcs
<1>d. DiskOf("portal") \in RgDisks /\ LabelOf("portal") \in RgLabels /\ LabelOf("portal") # 0
  BY DEF RgRunning
<1> DEFINE stage == [has |-> "receipt", label |-> LabelOf("portal")]
           archive == NoTree
<1>s. stage \in RgTrees /\ archive \in RgTrees /\ stage.has \in {Nil, "clone", "receipt"}
  BY <1>d, RgTreeTyped DEF RgTyped, RgHas
<1>t. /\ rgTree' \in [RgDisks -> [stage : RgTrees, archive : RgTrees]]
      /\ \A e \in RgDisks : rgTree'[e].stage.has \in {Nil, "clone", "receipt"}
      /\ rgTree'[DiskOf("portal")].stage = stage /\ rgTree'[DiskOf("portal")].archive = archive
      /\ \A e \in RgDisks \ {DiskOf("portal")} : rgTree'[e] = rgTree[e]
  BY <1>d, <1>s, RgSetTree DEF RgTyped
<1>1. RgTyped'
  BY <1>0, <1>t DEF RgTyped
<1>2. RgRunning'
  BY <1>0 DEF RgRunning, RgTyped
<1>3. RgLocked'
  BY <1>0 DEF RgLocked, RgExclusive, RgMine, Same, Cataloged
<1>4. RgPrepared'
  BY <1>0, <1>d, <1>t DEF RgPrepared, RgWrites, Exact
<1>5. OneLabelPerDisk' /\ NothingAdopted'
  BY <1>d, <1>t, RgTreeTyped DEF OneLabelPerDisk, NothingAdopted, RgPrepared, RgTyped, Exact
<1> QED
  BY <1>1, <1>2, <1>3, <1>4, <1>5 DEF RgInv

\* The rename of the stage to the archive keeps the invariant.
LEMMA RgPromoteInv ==
  ASSUME RgInv, Promote
  PROVE  RgInv'
<1> USE DEF Promote, UnchangedByTree, Catalog, RgAt, DiskOf, LabelOf, Actors, Nil
<1> RgTyped /\ RgRunning /\ RgLocked /\ RgPrepared /\ OneLabelPerDisk /\ NothingAdopted
  BY DEF RgInv
<1>0. /\ rgRun' \in [Actors -> RgRuns]
      /\ rgRun'["portal"].pc = "remote" /\ rgRun'["portal"].kind = rgRun["portal"].kind
      /\ rgRun'["portal"].disk = rgRun["portal"].disk /\ rgRun'["portal"].label = rgRun["portal"].label
      /\ \A b \in Actors \ {"portal"} : rgRun'[b] = rgRun[b]
  BY RgGoTo DEF RgTyped, RgPcs
<1>d. DiskOf("portal") \in RgDisks /\ LabelOf("portal") \in RgLabels /\ LabelOf("portal") # 0
  BY DEF RgRunning
<1> DEFINE stage == NoTree
           archive == rgTree[DiskOf("portal")].stage
<1>s. stage \in RgTrees /\ archive \in RgTrees /\ stage.has \in {Nil, "clone", "receipt"}
  BY <1>d, RgTreeTyped DEF RgTyped, RgHas
<1>t. /\ rgTree' \in [RgDisks -> [stage : RgTrees, archive : RgTrees]]
      /\ \A e \in RgDisks : rgTree'[e].stage.has \in {Nil, "clone", "receipt"}
      /\ rgTree'[DiskOf("portal")].stage = stage /\ rgTree'[DiskOf("portal")].archive = archive
      /\ \A e \in RgDisks \ {DiskOf("portal")} : rgTree'[e] = rgTree[e]
  BY <1>d, <1>s, RgSetTree DEF RgTyped
<1>1. RgTyped'
  BY <1>0, <1>t DEF RgTyped
<1>2. RgRunning'
  BY <1>0 DEF RgRunning, RgTyped
<1>3. RgLocked'
  BY <1>0 DEF RgLocked, RgExclusive, RgMine, Same, Cataloged
<1>4. RgPrepared'
  BY <1>0, <1>d, <1>t DEF RgPrepared, RgWrites, Exact
<1>e. \A l \in RgLabels : rgRow[l] = DiskOf("portal") => rgRow[l] = Nil \/ l \in rgWorld.cli
  <2>1. rgTree[DiskOf("portal")].archive.label = 0
    BY RgTreeTyped DEF RgPrepared
  <2> QED
    BY <2>1 DEF NothingAdopted
<1>5. OneLabelPerDisk' /\ NothingAdopted'
  <2>1. \A l \in RgLabels \ rgWorld.cli : rgRow[l] # Nil => rgRow[l] \in RgDisks \ {DiskOf("portal")}
    BY <1>e DEF RgTyped
  <2>2. \A l \in RgLabels \ rgWorld.cli : rgRow[l] # Nil => rgTree'[rgRow[l]] = rgTree[rgRow[l]]
    BY <1>t, <2>1
  <2>3. UNCHANGED <<rgRow, rgWorld>>
    OBVIOUS
  <2>4. OneLabelPerDisk'
    BY <2>3 DEF OneLabelPerDisk
  <2>5. NothingAdopted'
    BY <2>2, <2>3 DEF NothingAdopted
  <2> QED
    BY <2>4, <2>5
<1> QED
  BY <1>1, <1>2, <1>3, <1>4, <1>5 DEF RgInv

\* What the command line's first check decides.
LEMMA RgGuardEffect ==
  ASSUME RgTyped, RgRunning, CliGuard
  PROVE  /\ rgRun' \in [Actors -> RgRuns]
         /\ rgRun'["cli"].disk = rgRun["cli"].disk /\ rgRun'["cli"].label = rgRun["cli"].label
         /\ \/ /\ Same("cli", LabelOf("cli")) /\ Cataloged
               /\ rgRun'["cli"].pc = "replay" /\ rgRun'["cli"].kind = "cli"
            \/ rgRow[LabelOf("cli")] = Nil /\ rgWorld.v9 /\ rgRun'["cli"].pc = "hold" /\ rgRun'["cli"].kind = "library"
            \/ rgRow[LabelOf("cli")] = Nil /\ ~rgWorld.v9 /\ rgRun'["cli"].pc = "tree" /\ rgRun'["cli"].kind = "cli"
         /\ rgRun'["portal"] = rgRun["portal"]
<1> USE DEF CliGuard, RgAt, DiskOf, LabelOf, Actors, Nil
<1> DEFINE run == rgRun["cli"]
           new == IF Same("cli", run.label) /\ Cataloged /\ rgRow[run.label] = run.disk THEN [run EXCEPT !.pc = "replay"]
                  ELSE IF rgWorld.v9 THEN [run EXCEPT !.pc = "hold", !.kind = "library"] ELSE [run EXCEPT !.pc = "tree"]
<1>1. rgRun' = [rgRun EXCEPT !["cli"] = new]
  BY DEF EnsureLibrary
<1>2. run \in RgRuns /\ run.kind = "cli" /\ rgRun \in [Actors -> RgRuns]
  BY DEF RgTyped, RgRunning
<1>3. /\ new \in RgRuns /\ new.disk = run.disk /\ new.label = run.label
      /\ \/ Same("cli", run.label) /\ Cataloged /\ new.pc = "replay" /\ new.kind = "cli"
         \/ rgRow[run.label] = Nil /\ rgWorld.v9 /\ new.pc = "hold" /\ new.kind = "library"
         \/ rgRow[run.label] = Nil /\ ~rgWorld.v9 /\ new.pc = "tree" /\ new.kind = "cli"
  BY <1>2 DEF RgRuns, RgPcs
<1> HIDE DEF new
<1> QED
  BY <1>1, <1>2, <1>3

\* The command line's look at the rows keeps the invariant.
LEMMA RgCliGuardInv ==
  ASSUME RgInv, CliGuard
  PROVE  RgInv'
<1> USE DEF CliGuard, Catalog, Physical, RgAt, DiskOf, LabelOf, Actors, Nil
<1> RgTyped /\ RgRunning /\ RgLocked /\ RgPrepared /\ OneLabelPerDisk /\ NothingAdopted
  BY DEF RgInv
<1>0. /\ rgRun' \in [Actors -> RgRuns]
      /\ rgRun'["cli"].disk = rgRun["cli"].disk /\ rgRun'["cli"].label = rgRun["cli"].label
      /\ \/ /\ Same("cli", LabelOf("cli")) /\ Cataloged
            /\ rgRun'["cli"].pc = "replay" /\ rgRun'["cli"].kind = "cli"
         \/ rgRow[LabelOf("cli")] = Nil /\ rgWorld.v9 /\ rgRun'["cli"].pc = "hold" /\ rgRun'["cli"].kind = "library"
         \/ rgRow[LabelOf("cli")] = Nil /\ ~rgWorld.v9 /\ rgRun'["cli"].pc = "tree" /\ rgRun'["cli"].kind = "cli"
      /\ rgRun'["portal"] = rgRun["portal"]
  BY RgGuardEffect
<1>1. RgTyped'
  BY <1>0 DEF RgTyped, RgRunning, RgHas
<1>2. RgRunning'
  BY <1>0 DEF RgRunning, RgTyped
<1>3. RgLocked'
  BY <1>0 DEF RgLocked, RgExclusive, RgMine, Same, Cataloged
<1>4. RgPrepared'
  BY <1>0 DEF RgPrepared, RgWrites, Cataloged
<1>5. OneLabelPerDisk' /\ NothingAdopted'
  BY <1>0 DEF OneLabelPerDisk, NothingAdopted
<1> QED
  BY <1>1, <1>2, <1>3, <1>4, <1>5 DEF RgInv

\* The command line's clone keeps the invariant.
LEMMA RgCliCloneInv ==
  ASSUME RgInv, CliClone
  PROVE  RgInv'
<1> USE DEF CliClone, UnchangedByTree, Catalog, RgAt, DiskOf, LabelOf, Actors, Nil
<1> RgTyped /\ RgRunning /\ RgLocked /\ RgPrepared /\ OneLabelPerDisk /\ NothingAdopted
  BY DEF RgInv
<1>0. /\ rgRun' \in [Actors -> RgRuns]
      /\ rgRun'["cli"].pc = (IF rgTree[DiskOf("cli")].archive = NoTree THEN "init" ELSE "remote") /\ rgRun'["cli"].kind = rgRun["cli"].kind
      /\ rgRun'["cli"].disk = rgRun["cli"].disk /\ rgRun'["cli"].label = rgRun["cli"].label
      /\ \A b \in Actors \ {"cli"} : rgRun'[b] = rgRun[b]
  BY RgGoTo DEF RgTyped, RgPcs
<1>d. DiskOf("cli") \in RgDisks /\ LabelOf("cli") \in RgLabels /\ LabelOf("cli") # 0
  BY DEF RgRunning
<1>t. /\ rgTree' \in [RgDisks -> [stage : RgTrees, archive : RgTrees]]
      /\ \A e \in RgDisks : rgTree'[e].stage.has \in {Nil, "clone", "receipt"}
      /\ \A e \in RgDisks : rgTree[e].archive # NoTree => rgTree'[e].archive = rgTree[e].archive
  <2>1. CASE rgTree[DiskOf("cli")].archive = NoTree
    <3> DEFINE stage == rgTree[DiskOf("cli")].stage
               archive == [has |-> "clone", label |-> LabelOf("cli")]
    <3>1. stage \in RgTrees /\ archive \in RgTrees /\ stage.has \in {Nil, "clone", "receipt"}
      BY <1>d, RgTreeTyped DEF RgTyped, RgHas
    <3>2. SetTree(DiskOf("cli"), stage, archive)
      BY <2>1
    <3> HIDE DEF stage, archive
    <3>3. /\ rgTree' \in [RgDisks -> [stage : RgTrees, archive : RgTrees]]
          /\ \A e \in RgDisks : rgTree'[e].stage.has \in {Nil, "clone", "receipt"}
          /\ \A e \in RgDisks \ {DiskOf("cli")} : rgTree'[e] = rgTree[e]
      BY <1>d, <3>1, <3>2, RgSetTree DEF RgTyped
    <3> QED
      BY <1>d, <2>1, <3>3
  <2>2. CASE rgTree[DiskOf("cli")].archive # NoTree
    BY <2>2 DEF RgTyped
  <2> QED
    BY <2>1, <2>2
<1>1. RgTyped'
  BY <1>0, <1>t DEF RgTyped
<1>2. RgRunning'
  BY <1>0 DEF RgRunning, RgTyped
<1>3. RgLocked'
  BY <1>0 DEF RgLocked, RgExclusive, RgMine, Same, Cataloged
<1>4. RgPrepared'
  BY <1>0 DEF RgPrepared, RgWrites, RgLocked, RgExclusive
<1>e. \A l \in RgLabels \ rgWorld.cli : rgRow[l] # Nil => rgTree[rgRow[l]].archive # NoTree
  BY RgTreeTyped DEF NothingAdopted
<1>5. OneLabelPerDisk' /\ NothingAdopted'
  BY <1>t, <1>e DEF OneLabelPerDisk, NothingAdopted, RgTyped
<1> QED
  BY <1>1, <1>2, <1>3, <1>4, <1>5 DEF RgInv

\* The command line's annex init keeps the invariant.
LEMMA RgCliInitInv ==
  ASSUME RgInv, CliInit
  PROVE  RgInv'
<1> USE DEF CliInit, UnchangedByTree, Catalog, SetTree, RgAt, DiskOf, LabelOf, Actors, Nil
<1> RgTyped /\ RgRunning /\ RgLocked /\ RgPrepared /\ OneLabelPerDisk /\ NothingAdopted
  BY DEF RgInv
<1>0. /\ rgRun' \in [Actors -> RgRuns]
      /\ rgRun'["cli"].pc = "remote" /\ rgRun'["cli"].kind = rgRun["cli"].kind
      /\ rgRun'["cli"].disk = rgRun["cli"].disk /\ rgRun'["cli"].label = rgRun["cli"].label
      /\ \A b \in Actors \ {"cli"} : rgRun'[b] = rgRun[b]
  BY RgGoTo DEF RgTyped, RgPcs
<1>d. DiskOf("cli") \in RgDisks
  BY DEF RgRunning
<1>t. /\ rgTree' \in [RgDisks -> [stage : RgTrees, archive : RgTrees]]
      /\ \A e \in RgDisks : rgTree'[e].stage = rgTree[e].stage
      /\ \A e \in RgDisks : rgTree'[e].archive.label = rgTree[e].archive.label
  BY <1>d DEF RgTyped, RgTrees, RgHas
<1>1. RgTyped'
  BY <1>0, <1>t DEF RgTyped
<1>2. RgRunning'
  BY <1>0 DEF RgRunning, RgTyped
<1>3. RgLocked'
  BY <1>0 DEF RgLocked, RgExclusive, RgMine, Same, Cataloged
<1>4. RgPrepared'
  BY <1>0 DEF RgPrepared, RgWrites, RgLocked, RgExclusive
<1>5. OneLabelPerDisk' /\ NothingAdopted'
  BY <1>t DEF OneLabelPerDisk, NothingAdopted, RgTyped
<1> QED
  BY <1>1, <1>2, <1>3, <1>4, <1>5 DEF RgInv

\* A disk the command line refuses keeps the invariant.
LEMMA RgCliUnfitInv ==
  ASSUME RgInv, CliUnfit
  PROVE  RgInv'
<1> USE DEF CliUnfit, RgFree, Physical, Catalog, Idle, RgAt, DiskOf, LabelOf, Actors, Nil
<1> RgTyped /\ RgRunning /\ RgLocked /\ RgPrepared /\ OneLabelPerDisk /\ NothingAdopted
  BY DEF RgInv
<1>0. /\ rgRun' \in [Actors -> RgRuns] /\ rgRun'["cli"] = Idle
      /\ \A b \in Actors \ {"cli"} : rgRun'[b] = rgRun[b]
  BY RgStopped DEF RgTyped
<1>1. RgTyped'
  BY <1>0 DEF RgTyped, RgRunning, RgHas
<1>2. RgRunning'
  BY <1>0 DEF RgRunning, RgTyped
<1>3. RgLocked'
  BY <1>0 DEF RgLocked, RgExclusive, RgMine, Same, Cataloged, RgTyped
<1>4. RgPrepared'
  BY <1>0 DEF RgPrepared, RgWrites, Cataloged, RgLocked
<1>5. OneLabelPerDisk' /\ NothingAdopted'
  BY <1>0 DEF OneLabelPerDisk, NothingAdopted
<1> QED
  BY <1>1, <1>2, <1>3, <1>4, <1>5 DEF RgInv

\* A graph write by somebody else keeps the invariant.
LEMMA RgOtherWriteInv ==
  ASSUME RgInv, OtherWrite
  PROVE  RgInv'
<1> USE DEF OtherWrite, Physical, Bump, RgAt, DiskOf, LabelOf, Actors, Nil
<1> RgTyped /\ RgRunning /\ RgLocked /\ RgPrepared /\ OneLabelPerDisk /\ NothingAdopted
  BY DEF RgInv
<1>1. RgTyped'
  BY DEF RgTyped, RgRunning, Holders, RgHas
<1>2. RgRunning'
  BY DEF RgRunning, RgTyped
<1>3. RgLocked'
  BY DEF RgLocked, RgExclusive, RgMine, Same, Cataloged
<1>4. RgPrepared'
  BY DEF RgPrepared, RgWrites, Cataloged
<1>5. OneLabelPerDisk' /\ NothingAdopted'
  BY DEF OneLabelPerDisk, NothingAdopted
<1> QED
  BY <1>1, <1>2, <1>3, <1>4, <1>5 DEF RgInv

\* A preview in the tab keeps the invariant.
LEMMA RgPreviewInv ==
  ASSUME RgInv, NEW d \in RgDisks, RgPreview(d)
  PROVE  RgInv'
<1> USE DEF RgPreview, Physical, NoPreview, RgAt, DiskOf, LabelOf, Actors, Nil
<1> RgTyped /\ RgRunning /\ RgLocked /\ RgPrepared /\ OneLabelPerDisk /\ NothingAdopted
  BY DEF RgInv
<1>1. RgTyped'
  BY DEF RgTyped, RgRunning, Holders, PreviewReady, Observed, RgTrees, RgHas
<1>2. RgRunning'
  BY DEF RgRunning, RgTyped, PreviewReady
<1>3. RgLocked'
  BY DEF RgLocked, RgExclusive, RgMine, Same, Cataloged
<1>4. RgPrepared'
  BY DEF RgPrepared, RgWrites, Cataloged
<1>5. OneLabelPerDisk' /\ NothingAdopted'
  BY DEF OneLabelPerDisk, NothingAdopted
<1> QED
  BY <1>1, <1>2, <1>3, <1>4, <1>5 DEF RgInv

\* The start of the command line keeps the invariant.
LEMMA RgCliStartInv ==
  ASSUME RgInv, NEW d \in RgDisks, NEW l \in RgLabels, CliStart(d, l)
  PROVE  RgInv'
<1> USE DEF CliStart, Physical, Catalog, RgAt, DiskOf, LabelOf, Actors, Nil
<1> RgTyped /\ RgRunning /\ RgLocked /\ RgPrepared /\ OneLabelPerDisk /\ NothingAdopted
  BY DEF RgInv
<1>0. /\ rgRun' \in [Actors -> RgRuns] /\ rgRun'["portal"] = rgRun["portal"]
      /\ rgRun'["cli"] = [pc |-> IF rgWorld.v9 THEN "guard" ELSE "hold", kind |-> "cli", disk |-> d, label |-> l]
  BY DEF RgTyped, RgRuns, RgPcs
<1>1. RgTyped'
  BY <1>0 DEF RgTyped, RgRunning, RgHas
<1>2. RgRunning'
  BY <1>0 DEF RgRunning, RgTyped
<1>3. RgLocked'
  BY <1>0 DEF RgLocked, RgExclusive, RgMine, Same, Cataloged, RgTyped
<1>4. RgPrepared'
  BY <1>0 DEF RgPrepared, RgWrites, Cataloged
<1>5. OneLabelPerDisk' /\ NothingAdopted'
  BY <1>0 DEF OneLabelPerDisk, NothingAdopted
<1> QED
  BY <1>1, <1>2, <1>3, <1>4, <1>5 DEF RgInv

\* The request of the tab keeps the invariant.
LEMMA RgRequestInv ==
  ASSUME RgInv, RgRequest
  PROVE  RgInv'
<1> USE DEF RgRequest, Physical, Catalog, RgAt, DiskOf, LabelOf, Actors, Nil
<1> RgTyped /\ RgRunning /\ RgLocked /\ RgPrepared /\ OneLabelPerDisk /\ NothingAdopted
  BY DEF RgInv
<1>0. /\ rgRun' \in [Actors -> RgRuns] /\ rgRun'["cli"] = rgRun["cli"]
      /\ rgRun'["portal"] = [pc |-> IF Replayable THEN "replay" ELSE "hold", kind |-> "portal",
                             disk |-> rgTab.disk, label |-> rgTab.label]
  BY DEF RgTyped, RgRuns, RgPcs
<1>1. RgTyped'
  BY <1>0 DEF RgTyped, RgRunning, RgHas
<1>2. RgRunning'
  BY <1>0 DEF RgRunning, RgTyped
<1>3. RgLocked'
  BY <1>0 DEF RgLocked, RgExclusive, RgMine, Same, Cataloged, RgTyped, Replayable
<1>4. RgPrepared'
  BY <1>0 DEF RgPrepared, RgWrites, Cataloged
<1>5. OneLabelPerDisk' /\ NothingAdopted'
  BY <1>0 DEF OneLabelPerDisk, NothingAdopted
<1> QED
  BY <1>1, <1>2, <1>3, <1>4, <1>5 DEF RgInv

\* The answer to the tab keeps the invariant.
LEMMA RgAnsweredInv ==
  ASSUME RgInv, RgAnswered
  PROVE  RgInv'
<1> USE DEF RgAnswered, Physical, Catalog, NoPreview, RgAt, DiskOf, LabelOf, Actors, Nil
<1> RgTyped /\ RgRunning /\ RgLocked /\ RgPrepared /\ OneLabelPerDisk /\ NothingAdopted
  BY DEF RgInv
<1>1. RgTyped'
  BY DEF RgTyped, RgRunning, RgHas
<1>2. RgRunning'
  BY DEF RgRunning, RgTyped
<1>3. RgLocked'
  BY DEF RgLocked, RgExclusive, RgMine, Same, Cataloged
<1>4. RgPrepared'
  BY DEF RgPrepared, RgWrites, Cataloged
<1>5. OneLabelPerDisk' /\ NothingAdopted'
  BY DEF OneLabelPerDisk, NothingAdopted
<1> QED
  BY <1>1, <1>2, <1>3, <1>4, <1>5 DEF RgInv

\* Every step of either way of registering keeps the invariant.
LEMMA RgStepInv == RgInv /\ [RgNext]_rgVars => RgInv'
<1> SUFFICES ASSUME RgInv, [RgNext]_rgVars PROVE RgInv'
  OBVIOUS
<1>1. ASSUME NEW a \in Actors, RgStep(a) PROVE RgInv'
  BY <1>1, RgHoldControllerInv, RgHoldSetupInv, RgPointRemoteInv, RgAnnexSyncInv, RgGraphCommitInv,
     RgPrepareRowInv, RgLocalVerifiedInv, RgTreeVerifiedInv, RgCatalogPublishedInv, RgPropagatedInv,
     RgCloseSetupInv, RgRefuseInv, RgCheckCatalogInv, RgReceiptFoundInv, RgCloneStageInv,
     RgWriteReceiptInv, RgPromoteInv, RgCliGuardInv, RgCliCloneInv, RgCliInitInv
     DEF RgStep
<1>2. ASSUME UNCHANGED rgVars PROVE RgInv'
  BY <1>2 DEF rgVars, RgInv, RgTyped, RgRunning, RgLocked, RgPrepared, OneLabelPerDisk, NothingAdopted,
     RgAt, DiskOf, LabelOf, RgMine, Same, Cataloged, RgWrites
<1> QED
  BY <1>1, <1>2, RgPreviewInv, RgCliStartInv, RgRequestInv, RgAnsweredInv, RgCliUnfitInv,
     RgOtherWriteInv, RgToolFailsInv, RgCrashInv
     DEF RgNext

\* The inductive invariant of registration.
THEOREM RegistrationInvariant == RgSpec => []RgInv
BY RgInitInv, RgStepInv, PTL DEF RgSpec

\* What FleetSound asks of rows and disks, whatever the labels of the command line
\* (drive_lifecycle.register_new_identity, register._register_drive).
THEOREM NothingIsAdopted == RgSpec => [](RgTypeOK /\ OneLabelPerDisk /\ NothingAdopted)
<1>1. RgInv => RgTypeOK /\ OneLabelPerDisk /\ NothingAdopted
  BY DEF RgInv, RgTyped, RgTypeOK, RgLocked, RgAt, RgOps, RgPhases, SetupPhases, Nil
<1> QED
  BY <1>1, RegistrationInvariant, PTL

-----------------------------------------------------------------------------
\* Beside version-nine journals the portal never proposes a label the command line uses; when it
\* does, the remote of its row is redirected (register.py:853).
LabelsApart == rgWorld.v9 => rgTab.label \notin rgWorld.cli

\* A label whose archive the command line prepares has no row.
RgRowFree ==
  LET run == rgRun["cli"] IN
  \/ RgAt("cli", "hold") /\ rgWorld.v9
  \/ run.pc \in {"tree", "init", "remote", "sync", "commit"}
  \/ RgAt("cli", "publish") /\ (run.kind = "library" \/ ~Cataloged)
  => rgRow[run.label] = Nil

\* Who is about to write a row has pointed the remote of its label at its disk.
RgPointed ==
  \A a \in Actors :
    /\ RgAt(a, "sync") \/ RgWrites(a) => rgRemote[LabelOf(a)] = DiskOf(a)
    /\ RgWrites(a) => DiskOf(a) \in rgSynced

RgRemoteInv == RgRowFree /\ RgPointed /\ RemoteIsRow

\* Taking the controller lock (version eight) or the setup scope keeps remotes and rows together while labels are apart.
LEMMA RgHoldControllerRemote ==
  ASSUME RgInv, LabelsApart, RgRemoteInv, NEW a \in Actors, HoldController(a)
  PROVE  RgRemoteInv'
<1> RgTyped /\ RgRunning /\ RgLocked /\ RgRowFree /\ RgPointed /\ RemoteIsRow
  BY DEF RgInv, RgRemoteInv
<1> USE DEF HoldController, Catalog, Physical, RgAt, DiskOf, LabelOf, Actors, Nil
<1>0. /\ rgRun'[a].kind = rgRun[a].kind
      /\ rgRun'[a].disk = rgRun[a].disk /\ rgRun'[a].label = rgRun[a].label
      /\ \A b \in Actors \ {a} : rgRun'[b] = rgRun[b]
  BY DEF RgTyped, RgRuns, GoTo
<1>1. RgRowFree'
  BY <1>0 DEF RgRowFree, RgTyped, RgRunning, RgLocked, RgExclusive, Cataloged, GoTo
<1>2. RgPointed'
  BY <1>0 DEF RgPointed, RgWrites, RgTyped, RgRunning, RgLocked, RgExclusive, Cataloged, GoTo
<1>3. RemoteIsRow'
  BY <1>0 DEF RemoteIsRow, RgTyped, RgRunning
<1> QED
  BY <1>1, <1>2, <1>3 DEF RgRemoteInv

\* setup_scope of registration_setup keeps remotes and rows together while labels are apart.
LEMMA RgHoldSetupRemote ==
  ASSUME RgInv, LabelsApart, RgRemoteInv, NEW a \in Actors, HoldSetup(a)
  PROVE  RgRemoteInv'
<1> RgTyped /\ RgRunning /\ RgLocked /\ RgRowFree /\ RgPointed /\ RemoteIsRow
  BY DEF RgInv, RgRemoteInv
<1> USE DEF HoldSetup, Physical, NoSetup, Bump, RgAt, DiskOf, LabelOf, Actors, Nil
<1>0. /\ rgRun'[a].kind = rgRun[a].kind
      /\ rgRun'[a].disk = rgRun[a].disk /\ rgRun'[a].label = rgRun[a].label
      /\ \A b \in Actors \ {a} : rgRun'[b] = rgRun[b]
  BY DEF RgTyped, RgRuns, GoTo
<1>1. RgRowFree'
  BY <1>0 DEF RgRowFree, RgTyped, RgRunning, RgLocked, RgExclusive, Cataloged, GoTo
<1>2. RgPointed'
  BY <1>0 DEF RgPointed, RgWrites, RgTyped, RgRunning, RgLocked, RgExclusive, Cataloged, GoTo
<1>3. RemoteIsRow'
  BY <1>0 DEF RemoteIsRow, RgTyped, RgRunning
<1> QED
  BY <1>1, <1>2, <1>3 DEF RgRemoteInv

\* _ensure_annex_remote refuses a remote of another disk: remotes and rows stay together.
LEMMA RgPointRemoteRemote ==
  ASSUME RgInv, LabelsApart, RgRemoteInv, NEW a \in Actors, PointRemote(a)
  PROVE  RgRemoteInv'
<1> RgTyped /\ RgRunning /\ RgLocked /\ RgRowFree /\ RgPointed /\ RemoteIsRow
  BY DEF RgInv, RgRemoteInv
<1> USE DEF PointRemote, Catalog, MayPoint, RgAt, DiskOf, LabelOf, Actors, Nil
<1>0. /\ rgRun'[a].kind = rgRun[a].kind
      /\ rgRun'[a].disk = rgRun[a].disk /\ rgRun'[a].label = rgRun[a].label
      /\ \A b \in Actors \ {a} : rgRun'[b] = rgRun[b]
  BY DEF RgTyped, RgRuns, GoTo
<1>1. RgRowFree'
  BY <1>0 DEF RgRowFree, RgTyped, RgRunning, RgLocked, RgExclusive, Cataloged, GoTo
<1>2. RgPointed'
  BY <1>0 DEF RgPointed, RgWrites, RgTyped, RgRunning, RgLocked, RgExclusive, Cataloged, GoTo
<1>3. RemoteIsRow'
  BY DEF RemoteIsRow, RgRowFree, RgTyped, RgRunning
<1> QED
  BY <1>1, <1>2, <1>3 DEF RgRemoteInv

\* The annex sync of the prepared archive keeps remotes and rows together while labels are apart.
LEMMA RgAnnexSyncRemote ==
  ASSUME RgInv, LabelsApart, RgRemoteInv, NEW a \in Actors, AnnexSync(a)
  PROVE  RgRemoteInv'
<1> RgTyped /\ RgRunning /\ RgLocked /\ RgRowFree /\ RgPointed /\ RemoteIsRow
  BY DEF RgInv, RgRemoteInv
<1> USE DEF AnnexSync, Catalog, RgAt, DiskOf, LabelOf, Actors, Nil
<1>0. /\ rgRun'[a].kind = rgRun[a].kind
      /\ rgRun'[a].disk = rgRun[a].disk /\ rgRun'[a].label = rgRun[a].label
      /\ \A b \in Actors \ {a} : rgRun'[b] = rgRun[b]
  BY DEF RgTyped, RgRuns, GoTo
<1>1. RgRowFree'
  BY <1>0 DEF RgRowFree, RgTyped, RgRunning, RgLocked, RgExclusive, Cataloged, GoTo
<1>2. RgPointed'
  BY <1>0 DEF RgPointed, RgWrites, RgTyped, RgRunning, RgLocked, RgExclusive, Cataloged, GoTo
<1>3. RemoteIsRow'
  BY <1>0 DEF RemoteIsRow, RgTyped, RgRunning
<1> QED
  BY <1>1, <1>2, <1>3 DEF RgRemoteInv

\* The graph write that inserts the row beside no journal keeps remotes and rows together while labels are apart.
LEMMA RgGraphCommitRemote ==
  ASSUME RgInv, LabelsApart, RgRemoteInv, NEW a \in Actors, GraphCommit(a)
  PROVE  RgRemoteInv'
<1> RgTyped /\ RgRunning /\ RgLocked /\ RgRowFree /\ RgPointed /\ RemoteIsRow
  BY DEF RgInv, RgRemoteInv
<1> USE DEF GraphCommit, Physical, InsertRow, RgAt, DiskOf, LabelOf, Actors, Nil
<1>0. rgRun'[a] = Idle /\ Idle.pc = "idle" /\ \A b \in Actors \ {a} : rgRun'[b] = rgRun[b]
  BY DEF RgTyped, Stop, Idle
<1>1. RgRowFree'
  BY <1>0 DEF RgRowFree, RgTyped, RgRunning, RgLocked, RgExclusive, Cataloged
<1>2. RgPointed'
  BY <1>0 DEF RgPointed, RgWrites, RgTyped, RgRunning, RgLocked, RgExclusive, Cataloged
<1>3. RemoteIsRow'
  BY DEF RemoteIsRow, RgPointed, RgWrites, RgTyped, RgRunning
<1> QED
  BY <1>1, <1>2, <1>3 DEF RgRemoteInv

\* Publication of the PREPARED phase keeps remotes and rows together while labels are apart.
LEMMA RgPrepareRowRemote ==
  ASSUME RgInv, LabelsApart, RgRemoteInv, NEW a \in Actors, PrepareRow(a)
  PROVE  RgRemoteInv'
<1> RgTyped /\ RgRunning /\ RgLocked /\ RgRowFree /\ RgPointed /\ RemoteIsRow
  BY DEF RgInv, RgRemoteInv
<1> USE DEF PrepareRow, Publishing, UnchangedByPublish, Physical, RgAt, DiskOf, LabelOf, Actors, Nil
<1>1. RgRowFree'
  BY DEF RgRowFree, RgTyped, RgRunning, RgLocked, RgExclusive, Cataloged
<1>2. RgPointed'
  BY DEF RgPointed, RgWrites, RgTyped, RgRunning, RgLocked, RgExclusive, Cataloged
<1>3. RemoteIsRow'
  BY DEF RemoteIsRow, RgTyped, RgRunning
<1> QED
  BY <1>1, <1>2, <1>3 DEF RgRemoteInv

\* Publication of the LOCAL_VERIFIED phase keeps remotes and rows together while labels are apart.
LEMMA RgLocalVerifiedRemote ==
  ASSUME RgInv, LabelsApart, RgRemoteInv, NEW a \in Actors, LocalVerified(a)
  PROVE  RgRemoteInv'
<1> RgTyped /\ RgRunning /\ RgLocked /\ RgRowFree /\ RgPointed /\ RemoteIsRow
  BY DEF RgInv, RgRemoteInv
<1> USE DEF LocalVerified, Publishing, UnchangedByPublish, Physical, RgAt, DiskOf, LabelOf, Actors, Nil
<1>1. RgRowFree'
  BY DEF RgRowFree, RgTyped, RgRunning, RgLocked, RgExclusive, Cataloged
<1>2. RgPointed'
  BY DEF RgPointed, RgWrites, RgTyped, RgRunning, RgLocked, RgExclusive, Cataloged
<1>3. RemoteIsRow'
  BY DEF RemoteIsRow, RgTyped, RgRunning
<1> QED
  BY <1>1, <1>2, <1>3 DEF RgRemoteInv

\* Publication of the TREE_VERIFIED phase keeps remotes and rows together while labels are apart.
LEMMA RgTreeVerifiedRemote ==
  ASSUME RgInv, LabelsApart, RgRemoteInv, NEW a \in Actors, TreeVerified(a)
  PROVE  RgRemoteInv'
<1> RgTyped /\ RgRunning /\ RgLocked /\ RgRowFree /\ RgPointed /\ RemoteIsRow
  BY DEF RgInv, RgRemoteInv
<1> USE DEF TreeVerified, Publishing, UnchangedByPublish, Physical, Advance, RgAt, DiskOf, LabelOf, Actors, Nil
<1>1. RgRowFree'
  BY DEF RgRowFree, RgTyped, RgRunning, RgLocked, RgExclusive, Cataloged
<1>2. RgPointed'
  BY DEF RgPointed, RgWrites, RgTyped, RgRunning, RgLocked, RgExclusive, Cataloged
<1>3. RemoteIsRow'
  BY DEF RemoteIsRow, RgTyped, RgRunning
<1> QED
  BY <1>1, <1>2, <1>3 DEF RgRemoteInv

\* The phase that writes the row with the journal keeps remotes and rows together while labels are apart.
LEMMA RgCatalogPublishedRemote ==
  ASSUME RgInv, LabelsApart, RgRemoteInv, NEW a \in Actors, CatalogPublished(a)
  PROVE  RgRemoteInv'
<1> RgTyped /\ RgRunning /\ RgLocked /\ RgRowFree /\ RgPointed /\ RemoteIsRow
  BY DEF RgInv, RgRemoteInv
<1> USE DEF CatalogPublished, Publishing, UnchangedByPublish, Physical, Advance, InsertRow, RgAt, DiskOf, LabelOf, Actors, Nil
<1>1. RgRowFree'
  <2>1. CASE rgRun[a].kind = "library"
    BY <2>1 DEF RgRowFree, Cataloged
  <2>2. CASE a = "cli" /\ rgRun[a].kind # "library"
    BY <2>2 DEF RgRowFree, Cataloged
  <2>3. CASE a = "portal" /\ rgRun[a].kind # "library"
    <3>1. rgWorld.v9 /\ (LabelOf("cli") # LabelOf("portal") \/ RgAt("cli", "idle"))
      BY <2>3 DEF RgLocked, RgRunning, LabelsApart
    <3>2. rgRun["cli"].pc \notin RgExclusive
      BY <2>3 DEF RgLocked, RgExclusive
    <3> QED
      BY <2>3, <3>1, <3>2 DEF RgRowFree, RgRunning, RgTyped, RgExclusive
  <2> QED
    BY <2>1, <2>2, <2>3
<1>2. RgPointed'
  BY DEF RgPointed, RgWrites, RgTyped, RgRunning, RgLocked, RgExclusive, Cataloged
<1>3. RemoteIsRow'
  <2>1. CASE rgRun[a].kind = "library"
    BY <2>1 DEF RemoteIsRow
  <2>2. CASE rgRun[a].kind # "library"
    <3>1. rgRemote[LabelOf(a)] = DiskOf(a) /\ DiskOf(a) \in rgSynced
      BY <2>2 DEF RgPointed, RgWrites, Cataloged
    <3> QED
      BY <2>2, <3>1 DEF RemoteIsRow, RgTyped, RgRunning
  <2> QED
    BY <2>1, <2>2
<1> QED
  BY <1>1, <1>2, <1>3 DEF RgRemoteInv

\* Publication of the PROPAGATED phase keeps remotes and rows together while labels are apart.
LEMMA RgPropagatedRemote ==
  ASSUME RgInv, LabelsApart, RgRemoteInv, NEW a \in Actors, Propagated(a)
  PROVE  RgRemoteInv'
<1> RgTyped /\ RgRunning /\ RgLocked /\ RgRowFree /\ RgPointed /\ RemoteIsRow
  BY DEF RgInv, RgRemoteInv
<1> USE DEF Propagated, Publishing, UnchangedByPublish, Physical, Advance, RgAt, DiskOf, LabelOf, Actors, Nil
<1>1. RgRowFree'
  BY DEF RgRowFree, RgTyped, RgRunning, RgLocked, RgExclusive, Cataloged
<1>2. RgPointed'
  BY DEF RgPointed, RgWrites, RgTyped, RgRunning, RgLocked, RgExclusive, Cataloged
<1>3. RemoteIsRow'
  BY DEF RemoteIsRow, RgTyped, RgRunning
<1> QED
  BY <1>1, <1>2, <1>3 DEF RgRemoteInv

\* Closing a setup that has been propagated keeps remotes and rows together while labels are apart.
LEMMA RgCloseSetupRemote ==
  ASSUME RgInv, LabelsApart, RgRemoteInv, NEW a \in Actors, CloseSetup(a)
  PROVE  RgRemoteInv'
<1> RgTyped /\ RgRunning /\ RgLocked /\ RgRowFree /\ RgPointed /\ RemoteIsRow
  BY DEF RgInv, RgRemoteInv
<1> USE DEF RgAt, DiskOf, LabelOf, Actors, Nil
<1>0. /\ RgAt(a, "publish") /\ rgOp.phase = "PROPAGATED" /\ rgOp' = NoSetup /\ rgWorld.v9
      /\ rgLock' = Nil /\ rgTab' = (IF a = "portal" THEN NoPreview ELSE rgTab)
      /\ UNCHANGED <<rgWorld, rgRow, rgTree, rgRemote, rgSynced>> /\ rgStale' = Holders
      /\ rgRun' \in [Actors -> RgRuns] /\ \A b \in Actors \ {a} : rgRun'[b] = rgRun[b]
      /\ \A b \in Actors \ {a} : rgRun[b].pc \notin RgExclusive /\ ~RgAt(b, "replay")
  BY RgCloseEffect
<1>r. /\ rgRun'[a].kind # "library" /\ (a = "portal" => rgRun[a].kind # "library")
      /\ rgRun[a].kind # "library" => rgRun'[a].pc = "idle"
      /\ rgRun[a].kind = "library" =>
           /\ rgRun'[a].kind = "cli" /\ rgRun'[a].pc = "hold"
           /\ rgRun'[a].disk = rgRun[a].disk /\ rgRun'[a].label = rgRun[a].label
  BY RgCloseEffect
<1>1. RgRowFree'
  BY <1>0, <1>r DEF RgRowFree, RgTyped, RgRunning, RgLocked, RgExclusive, Cataloged
<1>2. RgPointed'
  BY <1>0, <1>r DEF RgPointed, RgWrites, RgTyped, RgRunning, RgLocked, RgExclusive, Cataloged
<1>3. RemoteIsRow'
  BY <1>0 DEF RemoteIsRow, RgTyped, RgRunning
<1> QED
  BY <1>1, <1>2, <1>3 DEF RgRemoteInv

\* Any refusal of a registration keeps remotes and rows together while labels are apart.
LEMMA RgRefuseRemote ==
  ASSUME RgInv, LabelsApart, RgRemoteInv, NEW a \in Actors, RgRefuse(a)
  PROVE  RgRemoteInv'
<1> RgTyped /\ RgRunning /\ RgLocked /\ RgRowFree /\ RgPointed /\ RemoteIsRow
  BY DEF RgInv, RgRemoteInv
<1> USE DEF RgRefuse, Physical, Abort, NoSetup, RgAt, DiskOf, LabelOf, Actors, Nil
<1>0. rgRun'[a] = Idle /\ Idle.pc = "idle" /\ \A b \in Actors \ {a} : rgRun'[b] = rgRun[b]
  BY DEF RgTyped, Stop, Idle
<1>1. RgRowFree'
  BY <1>0 DEF RgRowFree, RgTyped, RgRunning, RgLocked, RgExclusive, Cataloged
<1>2. RgPointed'
  BY <1>0 DEF RgPointed, RgWrites, RgTyped, RgRunning, RgLocked, RgExclusive, Cataloged
<1>3. RemoteIsRow'
  BY <1>0 DEF RemoteIsRow, RgTyped, RgRunning
<1> QED
  BY <1>1, <1>2, <1>3 DEF RgRemoteInv

\* A failing tool in the middle of the preparation keeps remotes and rows together while labels are apart.
LEMMA RgToolFailsRemote ==
  ASSUME RgInv, LabelsApart, RgRemoteInv, NEW a \in Actors, ToolFails(a)
  PROVE  RgRemoteInv'
<1> RgTyped /\ RgRunning /\ RgLocked /\ RgRowFree /\ RgPointed /\ RemoteIsRow
  BY DEF RgInv, RgRemoteInv
<1> USE DEF ToolFails, Physical, Abort, NoSetup, Preparing, RgAt, DiskOf, LabelOf, Actors, Nil
<1>0. rgRun'[a] = Idle /\ Idle.pc = "idle" /\ \A b \in Actors \ {a} : rgRun'[b] = rgRun[b]
  BY DEF RgTyped, Stop, Idle
<1>1. RgRowFree'
  BY <1>0 DEF RgRowFree, RgTyped, RgRunning, RgLocked, RgExclusive, Cataloged
<1>2. RgPointed'
  BY <1>0 DEF RgPointed, RgWrites, RgTyped, RgRunning, RgLocked, RgExclusive, Cataloged
<1>3. RemoteIsRow'
  BY <1>0 DEF RemoteIsRow, RgTyped, RgRunning
<1> QED
  BY <1>1, <1>2, <1>3 DEF RgRemoteInv

\* The death of a registering process keeps remotes and rows together while labels are apart.
LEMMA RgCrashRemote ==
  ASSUME RgInv, LabelsApart, RgRemoteInv, NEW a \in Actors, RgCrash(a)
  PROVE  RgRemoteInv'
<1> RgTyped /\ RgRunning /\ RgLocked /\ RgRowFree /\ RgPointed /\ RemoteIsRow
  BY DEF RgInv, RgRemoteInv
<1> USE DEF RgCrash, Catalog, Physical, RgFree, RgAt, DiskOf, LabelOf, Actors, Nil
<1>0. rgRun'[a] = Idle /\ Idle.pc = "idle" /\ \A b \in Actors \ {a} : rgRun'[b] = rgRun[b]
  BY DEF RgTyped, Stop, Idle
<1>1. RgRowFree'
  BY <1>0 DEF RgRowFree, RgTyped, RgRunning, RgLocked, RgExclusive, Cataloged
<1>2. RgPointed'
  BY <1>0 DEF RgPointed, RgWrites, RgTyped, RgRunning, RgLocked, RgExclusive, Cataloged
<1>3. RemoteIsRow'
  BY <1>0 DEF RemoteIsRow, RgTyped, RgRunning
<1> QED
  BY <1>1, <1>2, <1>3 DEF RgRemoteInv

\* The portal's second look at label and drive keeps remotes and rows together while labels are apart.
LEMMA RgCheckCatalogRemote ==
  ASSUME RgInv, LabelsApart, RgRemoteInv, CheckCatalog
  PROVE  RgRemoteInv'
<1> RgTyped /\ RgRunning /\ RgLocked /\ RgRowFree /\ RgPointed /\ RemoteIsRow
  BY DEF RgInv, RgRemoteInv
<1> USE DEF CheckCatalog, Catalog, Physical, RgAt, DiskOf, LabelOf, Actors, Nil
<1>0. /\ rgRun'["portal"].kind = rgRun["portal"].kind
      /\ rgRun'["portal"].disk = rgRun["portal"].disk /\ rgRun'["portal"].label = rgRun["portal"].label
      /\ \A b \in Actors \ {"portal"} : rgRun'[b] = rgRun[b]
  BY DEF RgTyped, RgRuns, GoTo
<1>1. RgRowFree'
  BY <1>0 DEF RgRowFree, RgTyped, RgRunning, RgLocked, RgExclusive, Cataloged, GoTo
<1>2. RgPointed'
  BY <1>0 DEF RgPointed, RgWrites, RgTyped, RgRunning, RgLocked, RgExclusive, Cataloged, GoTo
<1>3. RemoteIsRow'
  BY <1>0 DEF RemoteIsRow, RgTyped, RgRunning
<1> QED
  BY <1>1, <1>2, <1>3 DEF RgRemoteInv

\* Finding the receipt of an earlier try keeps remotes and rows together while labels are apart.
LEMMA RgReceiptFoundRemote ==
  ASSUME RgInv, LabelsApart, RgRemoteInv, ReceiptFound
  PROVE  RgRemoteInv'
<1> RgTyped /\ RgRunning /\ RgLocked /\ RgRowFree /\ RgPointed /\ RemoteIsRow
  BY DEF RgInv, RgRemoteInv
<1> USE DEF ReceiptFound, UnchangedByTree, Catalog, RgAt, DiskOf, LabelOf, Actors, Nil
<1>0. /\ rgRun'["portal"].kind = rgRun["portal"].kind
      /\ rgRun'["portal"].disk = rgRun["portal"].disk /\ rgRun'["portal"].label = rgRun["portal"].label
      /\ \A b \in Actors \ {"portal"} : rgRun'[b] = rgRun[b]
  BY DEF RgTyped, RgRuns, GoTo
<1>1. RgRowFree'
  BY <1>0 DEF RgRowFree, RgTyped, RgRunning, RgLocked, RgExclusive, Cataloged, GoTo
<1>q. rgRun'["portal"].pc \in {"remote", "promote"} /\ rgRun["portal"].pc = "tree"
  BY DEF RgTyped, RgRuns, GoTo
<1>2. RgPointed'
  BY <1>0, <1>q DEF RgPointed, RgWrites, Cataloged
<1>3. RemoteIsRow'
  BY <1>0 DEF RemoteIsRow, RgTyped, RgRunning
<1> QED
  BY <1>1, <1>2, <1>3 DEF RgRemoteInv

\* Cloning the library into the stage keeps remotes and rows together while labels are apart.
LEMMA RgCloneStageRemote ==
  ASSUME RgInv, LabelsApart, RgRemoteInv, CloneStage
  PROVE  RgRemoteInv'
<1> RgTyped /\ RgRunning /\ RgLocked /\ RgRowFree /\ RgPointed /\ RemoteIsRow
  BY DEF RgInv, RgRemoteInv
<1> USE DEF CloneStage, UnchangedByTree, Catalog, RgAt, DiskOf, LabelOf, Actors, Nil
<1>0. /\ rgRun'["portal"].kind = rgRun["portal"].kind
      /\ rgRun'["portal"].disk = rgRun["portal"].disk /\ rgRun'["portal"].label = rgRun["portal"].label
      /\ \A b \in Actors \ {"portal"} : rgRun'[b] = rgRun[b]
  BY DEF RgTyped, RgRuns, GoTo
<1>1. RgRowFree'
  BY <1>0 DEF RgRowFree, RgTyped, RgRunning, RgLocked, RgExclusive, Cataloged, GoTo
<1>2. RgPointed'
  BY <1>0 DEF RgPointed, RgWrites, RgTyped, RgRunning, RgLocked, RgExclusive, Cataloged, GoTo
<1>3. RemoteIsRow'
  BY <1>0 DEF RemoteIsRow, RgTyped, RgRunning
<1> QED
  BY <1>1, <1>2, <1>3 DEF RgRemoteInv

\* The receipt in the stage keeps remotes and rows together while labels are apart.
LEMMA RgWriteReceiptRemote ==
  ASSUME RgInv, LabelsApart, RgRemoteInv, WriteReceipt
  PROVE  RgRemoteInv'
<1> RgTyped /\ RgRunning /\ RgLocked /\ RgRowFree /\ RgPointed /\ RemoteIsRow
  BY DEF RgInv, RgRemoteInv
<1> USE DEF WriteReceipt, UnchangedByTree, Catalog, RgAt, DiskOf, LabelOf, Actors, Nil
<1>0. /\ rgRun'["portal"].kind = rgRun["portal"].kind
      /\ rgRun'["portal"].disk = rgRun["portal"].disk /\ rgRun'["portal"].label = rgRun["portal"].label
      /\ \A b \in Actors \ {"portal"} : rgRun'[b] = rgRun[b]
  BY DEF RgTyped, RgRuns, GoTo
<1>1. RgRowFree'
  BY <1>0 DEF RgRowFree, RgTyped, RgRunning, RgLocked, RgExclusive, Cataloged, GoTo
<1>2. RgPointed'
  BY <1>0 DEF RgPointed, RgWrites, RgTyped, RgRunning, RgLocked, RgExclusive, Cataloged, GoTo
<1>3. RemoteIsRow'
  BY <1>0 DEF RemoteIsRow, RgTyped, RgRunning
<1> QED
  BY <1>1, <1>2, <1>3 DEF RgRemoteInv

\* The rename of the stage to the archive keeps remotes and rows together while labels are apart.
LEMMA RgPromoteRemote ==
  ASSUME RgInv, LabelsApart, RgRemoteInv, Promote
  PROVE  RgRemoteInv'
<1> RgTyped /\ RgRunning /\ RgLocked /\ RgRowFree /\ RgPointed /\ RemoteIsRow
  BY DEF RgInv, RgRemoteInv
<1> USE DEF Promote, UnchangedByTree, Catalog, RgAt, DiskOf, LabelOf, Actors, Nil
<1>0. /\ rgRun'["portal"].kind = rgRun["portal"].kind
      /\ rgRun'["portal"].disk = rgRun["portal"].disk /\ rgRun'["portal"].label = rgRun["portal"].label
      /\ \A b \in Actors \ {"portal"} : rgRun'[b] = rgRun[b]
  BY DEF RgTyped, RgRuns, GoTo
<1>1. RgRowFree'
  BY <1>0 DEF RgRowFree, RgTyped, RgRunning, RgLocked, RgExclusive, Cataloged, GoTo
<1>2. RgPointed'
  BY <1>0 DEF RgPointed, RgWrites, RgTyped, RgRunning, RgLocked, RgExclusive, Cataloged, GoTo
<1>3. RemoteIsRow'
  BY <1>0 DEF RemoteIsRow, RgTyped, RgRunning
<1> QED
  BY <1>1, <1>2, <1>3 DEF RgRemoteInv

\* The command line's look at the rows keeps remotes and rows together while labels are apart.
LEMMA RgCliGuardRemote ==
  ASSUME RgInv, LabelsApart, RgRemoteInv, CliGuard
  PROVE  RgRemoteInv'
<1> RgTyped /\ RgRunning /\ RgLocked /\ RgRowFree /\ RgPointed /\ RemoteIsRow
  BY DEF RgInv, RgRemoteInv
<1> USE DEF CliGuard, Catalog, Physical, RgAt, DiskOf, LabelOf, Actors, Nil
<1>0. /\ rgRun' \in [Actors -> RgRuns]
      /\ rgRun'["cli"].disk = rgRun["cli"].disk /\ rgRun'["cli"].label = rgRun["cli"].label
      /\ \/ /\ Same("cli", LabelOf("cli")) /\ Cataloged
            /\ rgRun'["cli"].pc = "replay" /\ rgRun'["cli"].kind = "cli"
         \/ rgRow[LabelOf("cli")] = Nil /\ rgWorld.v9 /\ rgRun'["cli"].pc = "hold" /\ rgRun'["cli"].kind = "library"
         \/ rgRow[LabelOf("cli")] = Nil /\ ~rgWorld.v9 /\ rgRun'["cli"].pc = "tree" /\ rgRun'["cli"].kind = "cli"
      /\ rgRun'["portal"] = rgRun["portal"]
  BY RgGuardEffect
<1>1. RgRowFree'
  BY <1>0 DEF RgRowFree, RgTyped, RgRunning, RgLocked, RgExclusive, Cataloged
<1>2. RgPointed'
  BY <1>0 DEF RgPointed, RgWrites, RgTyped, RgRunning, RgLocked, RgExclusive, Cataloged
<1>3. RemoteIsRow'
  BY DEF RemoteIsRow, RgTyped, RgRunning
<1> QED
  BY <1>1, <1>2, <1>3 DEF RgRemoteInv

\* The command line's clone keeps remotes and rows together while labels are apart.
LEMMA RgCliCloneRemote ==
  ASSUME RgInv, LabelsApart, RgRemoteInv, CliClone
  PROVE  RgRemoteInv'
<1> RgTyped /\ RgRunning /\ RgLocked /\ RgRowFree /\ RgPointed /\ RemoteIsRow
  BY DEF RgInv, RgRemoteInv
<1> USE DEF CliClone, UnchangedByTree, Catalog, RgAt, DiskOf, LabelOf, Actors, Nil
<1>0. /\ rgRun'["cli"].kind = rgRun["cli"].kind
      /\ rgRun'["cli"].disk = rgRun["cli"].disk /\ rgRun'["cli"].label = rgRun["cli"].label
      /\ \A b \in Actors \ {"cli"} : rgRun'[b] = rgRun[b]
  BY DEF RgTyped, RgRuns, GoTo
<1>1. RgRowFree'
  BY <1>0 DEF RgRowFree, RgTyped, RgRunning, RgLocked, RgExclusive, Cataloged, GoTo
<1>q. rgRun'["cli"].pc \in {"remote", "init"} /\ rgRun["cli"].pc = "tree"
  BY DEF RgTyped, RgRuns, GoTo
<1>2. RgPointed'
  BY <1>0, <1>q DEF RgPointed, RgWrites, Cataloged
<1>3. RemoteIsRow'
  BY <1>0 DEF RemoteIsRow, RgTyped, RgRunning
<1> QED
  BY <1>1, <1>2, <1>3 DEF RgRemoteInv

\* The command line's annex init keeps remotes and rows together while labels are apart.
LEMMA RgCliInitRemote ==
  ASSUME RgInv, LabelsApart, RgRemoteInv, CliInit
  PROVE  RgRemoteInv'
<1> RgTyped /\ RgRunning /\ RgLocked /\ RgRowFree /\ RgPointed /\ RemoteIsRow
  BY DEF RgInv, RgRemoteInv
<1> USE DEF CliInit, UnchangedByTree, Catalog, RgAt, DiskOf, LabelOf, Actors, Nil
<1>0. /\ rgRun'["cli"].kind = rgRun["cli"].kind
      /\ rgRun'["cli"].disk = rgRun["cli"].disk /\ rgRun'["cli"].label = rgRun["cli"].label
      /\ \A b \in Actors \ {"cli"} : rgRun'[b] = rgRun[b]
  BY DEF RgTyped, RgRuns, GoTo
<1>1. RgRowFree'
  BY <1>0 DEF RgRowFree, RgTyped, RgRunning, RgLocked, RgExclusive, Cataloged, GoTo
<1>2. RgPointed'
  BY <1>0 DEF RgPointed, RgWrites, RgTyped, RgRunning, RgLocked, RgExclusive, Cataloged, GoTo
<1>3. RemoteIsRow'
  BY <1>0 DEF RemoteIsRow, RgTyped, RgRunning
<1> QED
  BY <1>1, <1>2, <1>3 DEF RgRemoteInv

\* A disk the command line refuses keeps remotes and rows together while labels are apart.
LEMMA RgCliUnfitRemote ==
  ASSUME RgInv, LabelsApart, RgRemoteInv, CliUnfit
  PROVE  RgRemoteInv'
<1> RgTyped /\ RgRunning /\ RgLocked /\ RgRowFree /\ RgPointed /\ RemoteIsRow
  BY DEF RgInv, RgRemoteInv
<1> USE DEF CliUnfit, Catalog, Physical, RgAt, DiskOf, LabelOf, Actors, Nil
<1>0. rgRun'["cli"] = Idle /\ Idle.pc = "idle" /\ \A b \in Actors \ {"cli"} : rgRun'[b] = rgRun[b]
  BY DEF RgTyped, Stop, Idle
<1>1. RgRowFree'
  BY <1>0 DEF RgRowFree, RgTyped, RgRunning, RgLocked, RgExclusive, Cataloged
<1>2. RgPointed'
  BY <1>0 DEF RgPointed, RgWrites, RgTyped, RgRunning, RgLocked, RgExclusive, Cataloged
<1>3. RemoteIsRow'
  BY <1>0 DEF RemoteIsRow, RgTyped, RgRunning
<1> QED
  BY <1>1, <1>2, <1>3 DEF RgRemoteInv

\* A graph write by somebody else keeps remotes and rows together while labels are apart.
LEMMA RgOtherWriteRemote ==
  ASSUME RgInv, LabelsApart, RgRemoteInv, OtherWrite
  PROVE  RgRemoteInv'
<1> RgTyped /\ RgRunning /\ RgLocked /\ RgRowFree /\ RgPointed /\ RemoteIsRow
  BY DEF RgInv, RgRemoteInv
<1> USE DEF OtherWrite, Physical, RgAt, DiskOf, LabelOf, Actors, Nil
<1>1. RgRowFree'
  BY DEF RgRowFree, RgTyped, RgRunning, RgLocked, RgExclusive, Cataloged
<1>2. RgPointed'
  BY DEF RgPointed, RgWrites, RgTyped, RgRunning, RgLocked, RgExclusive, Cataloged
<1>3. RemoteIsRow'
  BY DEF RemoteIsRow, RgTyped, RgRunning
<1> QED
  BY <1>1, <1>2, <1>3 DEF RgRemoteInv

\* The request of the tab keeps remotes and rows together while labels are apart.
LEMMA RgRequestRemote ==
  ASSUME RgInv, LabelsApart, RgRemoteInv, RgRequest
  PROVE  RgRemoteInv'
<1> RgTyped /\ RgRunning /\ RgLocked /\ RgRowFree /\ RgPointed /\ RemoteIsRow
  BY DEF RgInv, RgRemoteInv
<1> USE DEF RgRequest, Catalog, Physical, RgAt, DiskOf, LabelOf, Actors, Nil
<1>1. RgRowFree'
  BY DEF RgRowFree, RgTyped, RgRunning, RgLocked, RgExclusive, Cataloged
<1>2. RgPointed'
  BY DEF RgPointed, RgWrites, RgTyped, RgRunning, RgLocked, RgExclusive, Cataloged
<1>3. RemoteIsRow'
  BY DEF RemoteIsRow, RgTyped, RgRunning
<1> QED
  BY <1>1, <1>2, <1>3 DEF RgRemoteInv

\* The answer to the tab keeps remotes and rows together while labels are apart.
LEMMA RgAnsweredRemote ==
  ASSUME RgInv, LabelsApart, RgRemoteInv, RgAnswered
  PROVE  RgRemoteInv'
<1> RgTyped /\ RgRunning /\ RgLocked /\ RgRowFree /\ RgPointed /\ RemoteIsRow
  BY DEF RgInv, RgRemoteInv
<1> USE DEF RgAnswered, Catalog, Physical, RgAt, DiskOf, LabelOf, Actors, Nil
<1>1. RgRowFree'
  BY DEF RgRowFree, RgTyped, RgRunning, RgLocked, RgExclusive, Cataloged
<1>2. RgPointed'
  BY DEF RgPointed, RgWrites, RgTyped, RgRunning, RgLocked, RgExclusive, Cataloged
<1>3. RemoteIsRow'
  BY DEF RemoteIsRow, RgTyped, RgRunning
<1> QED
  BY <1>1, <1>2, <1>3 DEF RgRemoteInv

\* A preview in the tab keeps remotes and rows together while labels are apart.
LEMMA RgPreviewRemote ==
  ASSUME RgInv, RgRemoteInv, NEW d \in RgDisks, RgPreview(d)
  PROVE  RgRemoteInv'
BY DEF RgPreview, Physical, RgRemoteInv, RgRowFree, RgPointed, RemoteIsRow, RgAt, RgWrites, Cataloged, DiskOf, LabelOf

\* The start of the command line keeps remotes and rows together while labels are apart.
LEMMA RgCliStartRemote ==
  ASSUME RgInv, RgRemoteInv, NEW d \in RgDisks, NEW l \in RgLabels, CliStart(d, l)
  PROVE  RgRemoteInv'
<1>0. /\ rgRun'["cli"].pc \in {"hold", "guard"} /\ (rgWorld.v9 => rgRun'["cli"].pc = "guard")
      /\ rgRun'["portal"] = rgRun["portal"]
  BY DEF RgInv, RgTyped, CliStart, Actors
<1> QED
  BY <1>0 DEF CliStart, Physical, Catalog, RgRemoteInv, RgRowFree, RgPointed, RemoteIsRow, RgAt, RgWrites,
    Cataloged, DiskOf, LabelOf, Actors

\* Every step keeps remotes and rows together while labels are apart.
LEMMA RgStepRemote == RgInv /\ LabelsApart /\ RgRemoteInv /\ [RgNext]_rgVars => RgRemoteInv'
<1> SUFFICES ASSUME RgInv, LabelsApart, RgRemoteInv, [RgNext]_rgVars PROVE RgRemoteInv'
  OBVIOUS
<1>1. ASSUME NEW a \in Actors, RgStep(a) PROVE RgRemoteInv'
  BY <1>1, RgHoldControllerRemote, RgHoldSetupRemote, RgPointRemoteRemote, RgAnnexSyncRemote,
     RgGraphCommitRemote, RgPrepareRowRemote, RgLocalVerifiedRemote, RgTreeVerifiedRemote,
     RgCatalogPublishedRemote, RgPropagatedRemote, RgCloseSetupRemote, RgRefuseRemote,
     RgCheckCatalogRemote, RgReceiptFoundRemote, RgCloneStageRemote, RgWriteReceiptRemote,
     RgPromoteRemote, RgCliGuardRemote, RgCliCloneRemote, RgCliInitRemote
     DEF RgStep
<1>2. ASSUME UNCHANGED rgVars PROVE RgRemoteInv'
  BY <1>2 DEF rgVars, RgRemoteInv, RgRowFree, RgPointed, RemoteIsRow, RgAt, RgWrites, Cataloged, DiskOf, LabelOf
<1> QED
  BY <1>1, <1>2, RgPreviewRemote, RgCliStartRemote, RgRequestRemote, RgAnsweredRemote, RgCliUnfitRemote,
     RgOtherWriteRemote, RgToolFailsRemote, RgCrashRemote
     DEF RgNext

\* Registration writes what it found, however it was interrupted, as long as the two ways of
\* registering keep their labels apart (drive_lifecycle, register, registration_setup).
THEOREM FleetStaysSound == RgSpec /\ []LabelsApart => []FleetSound
<1>1. RgInit => RgRemoteInv
  BY DEF RgInit, RgRemoteInv, RgRowFree, RgPointed, RemoteIsRow, RgAt, RgWrites, Idle, Actors, Nil
<1>2. RgSpec /\ []LabelsApart => []RgRemoteInv
  BY <1>1, RegistrationInvariant, RgStepRemote, PTL DEF RgSpec
<1>3. RgTypeOK /\ OneLabelPerDisk /\ NothingAdopted /\ RgRemoteInv => FleetSound
  BY DEF FleetSound, RgRemoteInv
<1> QED
  BY <1>2, <1>3, NothingIsAdopted, PTL

-----------------------------------------------------------------------------
(* Believing a drive                                                       *)

DvPrints == Serials \X (0..2)
DvRows == [serial : Serials, print : DvPrints, cap : 0..2, epoch : Nat, gen : Nat,
           auth : BOOLEAN, life : {"active", "lost"}]
DvDisks == [in : BOOLEAN, serial : Serials, cap : 0..2, whole : BOOLEAN]
DvHolders == Operators \cup {"fill"}

DvTyped ==
  /\ dvRow \in DvRows /\ \A g \in dvDirty : g.op \in Operations
  /\ dvDisk \in DvDisks
  /\ dvFill \in {"none", "live", "ended", "child"} /\ dvCtrl \in DvHolders \cup {"none"}
  /\ dvKeys = [a \in DvHolders |-> dvKeys[a]]
  /\ dvRun = [a \in Operators |-> [pc |-> dvRun[a].pc, saw |-> dvRun[a].saw,
                                   print |-> dvRun[a].print, seen |-> dvRun[a].seen]]

\* A fingerprint comes with authority, and anchors never run ahead of the row.
AnchorsBehind ==
  /\ dvRow.print = NoPrint \/ (dvRow.auth /\ dvRow.print[2] = dvRow.cap)
  /\ \A a \in dvAnchors :
       /\ a.epoch \in 0..dvRow.epoch /\ a.gen \in Nat /\ (a.epoch = dvRow.epoch => a.gen <= dvRow.gen)
       /\ a.print = <<a.proof, a.cap>>
       /\ a.epoch = dvRow.epoch /\ a.gen = dvRow.gen => Matches(a)
  /\ \A a, b \in dvAnchors : a.epoch = b.epoch /\ a.gen = b.gen => a = b

\* Whoever works, or has fences, has the controller.
KeysUnderControl ==
  /\ \A a \in Operators : dvRun[a].pc \notin {"idle", "asked"} => dvCtrl = a
  /\ \A a \in DvHolders : dvKeys[a] # {} => dvCtrl = a

\* What reconcile has seen was of an active drive; what a repair was asked for is repairable,
\* and once it enriches, is of a clean anchor.
CleanRepairs == {"legacy_clean", "observed_serial_clean", "bridge_encoded_clean"}
RunsKnow ==
  /\ dvRun["reconcile"].pc # "idle" =>
       /\ \A r \in dvRun["reconcile"].saw : r.life = "active"
       /\ dvRun["reconcile"].print \in DvPrints
  /\ dvRun["repair"].pc # "idle" =>
       \A b, c \in dvRun["repair"].saw : b = c /\ b[4] \in CleanRepairs \cup {"legacy_dirty"}
  /\ dvRun["repair"].pc = "enrich" => \A b \in dvRun["repair"].saw : b[4] \in CleanRepairs
  /\ dvRun["repair"].pc = "recover" => \A b \in dvRun["repair"].saw : b[4] = "legacy_dirty"

\* A Fill that is on works on an active drive, whose generation it has opened.
FillKnows ==
  dvFill = "live" =>
    /\ dvRow.life = "active" /\ dvRow.auth /\ dvRow.print[2] = dvRow.cap /\ AnchorsOf(dvRow.gen) = {}

DvInv == DvTyped /\ AnchorsBehind /\ KeysUnderControl /\ RunsKnow /\ FillKnows

\* What an earlier version saved satisfies the invariant, with nobody at work.
LEMMA DvInitInv == DvInit => DvInv
<1> SUFFICES ASSUME NEW w \in DvWorlds, Saved(w),
                    dvRow = w.row, dvDirty = w.dirty, dvAnchors = w.anchors, dvDisk = w.disk, dvFill = w.fill,
                    dvRun = [a \in Operators |-> Still], dvCtrl = "none",
                    dvKeys = [a \in Operators \cup {"fill"} |-> {}]
             PROVE  DvInv
  BY DvWorldsAssumption DEF DvInit
<1>1. DvTyped
  BY DEF Saved, DvTyped, DvRows, DvPrints, DvDisks, DvHolders, Still
<1>2. AnchorsBehind
  BY DEF Saved, AnchorsBehind, Matches
<1>3. KeysUnderControl /\ RunsKnow /\ FillKnows
  BY DEF Saved, KeysUnderControl, RunsKnow, FillKnows, Still, DvHolders, Operators
<1> QED
  BY <1>1, <1>2, <1>3 DEF DvInv

\* What the steps do to runs and locks.
LEMMA DvGoes ==
  ASSUME DvTyped, NEW a \in Operators, NEW pc, To(a, pc)
  PROVE  /\ dvRun' = [b \in Operators |-> [pc |-> dvRun'[b].pc, saw |-> dvRun'[b].saw,
                                           print |-> dvRun'[b].print, seen |-> dvRun'[b].seen]]
         /\ dvRun'[a].pc = pc /\ dvRun'[a].saw = dvRun[a].saw /\ dvRun'[a].print = dvRun[a].print
         /\ \A b \in Operators \ {a} : dvRun'[b] = dvRun[b]
  BY DEF DvTyped, To

\* An operation that ends gives back the controller and its fences.
LEMMA DvEnds ==
  ASSUME DvTyped, KeysUnderControl, NEW a \in Operators, Ends(a)
  PROVE  /\ dvRun' = [b \in Operators |-> [pc |-> dvRun'[b].pc, saw |-> dvRun'[b].saw,
                                           print |-> dvRun'[b].print, seen |-> dvRun'[b].seen]]
         /\ dvRun'[a].pc = "idle" /\ \A b \in Operators \ {a} : dvRun'[b] = dvRun[b]
         /\ dvCtrl' \in DvHolders \cup {"none"} /\ dvKeys' = [b \in DvHolders |-> dvKeys'[b]]
         /\ KeysUnderControl'
<1>1. /\ dvRun' = [b \in Operators |-> [pc |-> dvRun'[b].pc, saw |-> dvRun'[b].saw,
                                           print |-> dvRun'[b].print, seen |-> dvRun'[b].seen]]
      /\ dvRun'[a].pc = "idle" /\ \A b \in Operators \ {a} : dvRun'[b] = dvRun[b]
  BY DEF DvTyped, Ends, Still
<1>2. /\ dvCtrl' \in DvHolders \cup {"none"} /\ dvKeys' = [b \in DvHolders |-> dvKeys'[b]]
      /\ dvKeys'[a] = {} /\ \A b \in DvHolders \ {a} : dvKeys'[b] = dvKeys[b]
      /\ dvCtrl' = IF dvCtrl = a THEN "none" ELSE dvCtrl
  BY DEF DvTyped, Ends, LetGo, DvHolders
<1>3. KeysUnderControl'
  BY <1>1, <1>2 DEF KeysUnderControl, DvHolders
<1> QED
  BY <1>1, <1>2, <1>3

\* reconcile_drive under the controller keeps the invariant.
LEMMA DvReconcileCaptureInv ==
  ASSUME DvInv, ReconcileCapture
  PROVE  DvInv'
<1> DvTyped /\ AnchorsBehind /\ KeysUnderControl /\ RunsKnow /\ FillKnows
  BY DEF DvInv
<1> USE DEF ReconcileCapture, Evidence, CtrlTaken, DvAt
<1>0. /\ dvRun' = [b \in Operators |-> [pc |-> dvRun'[b].pc, saw |-> dvRun'[b].saw,
                                        print |-> dvRun'[b].print, seen |-> dvRun'[b].seen]]
      /\ dvRun'["reconcile"].pc = "fence" /\ dvRun'["reconcile"].saw = {dvRow}
      /\ dvRun'["reconcile"].print = LivePrint /\ dvRun'["repair"] = dvRun["repair"]
  BY DEF DvTyped, Operators
<1>l. LivePrint \in DvPrints
  BY DEF LivePrint, IdentitySerial, DvTyped, DvDisks, DvRows, DvPrints, Serials
<1>1. DvTyped'
  BY <1>0 DEF DvTyped, DvHolders, Operators
<1>2. AnchorsBehind'
  BY <1>0 DEF AnchorsBehind, Matches
<1>3. KeysUnderControl'
  BY <1>0 DEF KeysUnderControl, DvHolders, Operators, DvTyped
<1>4. RunsKnow'
  BY <1>0, <1>l DEF RunsKnow
<1>5. FillKnows'
  BY <1>0 DEF FillKnows, AnchorsOf
<1> QED
  BY <1>1, <1>2, <1>3, <1>4, <1>5 DEF DvInv

\* Taking the fences of the observed and of the recorded identity keeps the invariant.
LEMMA DvReconcileFenceInv ==
  ASSUME DvInv, ReconcileFence
  PROVE  DvInv'
<1> DvTyped /\ AnchorsBehind /\ KeysUnderControl /\ RunsKnow /\ FillKnows
  BY DEF DvInv
<1> USE DEF ReconcileFence, Evidence, Fenced, DvAt
<1>0. /\ dvRun' = [b \in Operators |-> [pc |-> dvRun'[b].pc, saw |-> dvRun'[b].saw,
                                        print |-> dvRun'[b].print, seen |-> dvRun'[b].seen]]
      /\ dvRun'["reconcile"].saw = dvRun["reconcile"].saw /\ dvRun'["reconcile"].print = dvRun["reconcile"].print
      /\ \A b \in Operators \ {"reconcile"} : dvRun'[b] = dvRun[b]
  BY DvGoes DEF Operators
<1>p. dvRun'["reconcile"].pc = "inventory"
  BY DvGoes DEF Operators
<1>1. DvTyped'
  BY <1>0, <1>p DEF DvTyped, DvHolders, Operators
<1>2. AnchorsBehind'
  BY <1>0, <1>p DEF AnchorsBehind, Matches
<1>3. KeysUnderControl'
  BY <1>0, <1>p DEF KeysUnderControl, DvHolders, Operators, DvTyped
<1>4. RunsKnow'
  BY <1>0, <1>p DEF RunsKnow, Operators
<1>5. FillKnows'
  BY <1>0, <1>p DEF FillKnows, AnchorsOf
<1> QED
  BY <1>1, <1>2, <1>3, <1>4, <1>5 DEF DvInv

\* _require_complete_inventory and _final_observation keeps the invariant.
LEMMA DvReconcileInventoryInv ==
  ASSUME DvInv, ReconcileInventory
  PROVE  DvInv'
<1> DvTyped /\ AnchorsBehind /\ KeysUnderControl /\ RunsKnow /\ FillKnows
  BY DEF DvInv
<1> USE DEF ReconcileInventory, Evidence, Locks, DvAt
<1>0. /\ dvRun' = [b \in Operators |-> [pc |-> dvRun'[b].pc, saw |-> dvRun'[b].saw,
                                        print |-> dvRun'[b].print, seen |-> dvRun'[b].seen]]
      /\ dvRun'["reconcile"].saw = dvRun["reconcile"].saw /\ dvRun'["reconcile"].print = dvRun["reconcile"].print
      /\ \A b \in Operators \ {"reconcile"} : dvRun'[b] = dvRun[b]
  BY DvGoes DEF Operators
<1>p. dvRun'["reconcile"].pc = "commit"
  BY DvGoes DEF Operators
<1>1. DvTyped'
  BY <1>0, <1>p DEF DvTyped, DvHolders, Operators
<1>2. AnchorsBehind'
  BY <1>0, <1>p DEF AnchorsBehind, Matches
<1>3. KeysUnderControl'
  BY <1>0, <1>p DEF KeysUnderControl, DvHolders, Operators, DvTyped
<1>4. RunsKnow'
  BY <1>0, <1>p DEF RunsKnow, Operators
<1>5. FillKnows'
  BY <1>0, <1>p DEF FillKnows, AnchorsOf
<1> QED
  BY <1>1, <1>2, <1>3, <1>4, <1>5 DEF DvInv

\* A refusal of reconcile_drive keeps the invariant.
LEMMA DvReconcileRefuseInv ==
  ASSUME DvInv, ReconcileRefuse
  PROVE  DvInv'
<1> DvTyped /\ AnchorsBehind /\ KeysUnderControl /\ RunsKnow /\ FillKnows
  BY DEF DvInv
<1> USE DEF ReconcileRefuse, Evidence, DvAt
<1>0. /\ dvRun' = [b \in Operators |-> [pc |-> dvRun'[b].pc, saw |-> dvRun'[b].saw,
                                        print |-> dvRun'[b].print, seen |-> dvRun'[b].seen]]
      /\ dvRun'["reconcile"].pc = "idle" /\ \A b \in Operators \ {"reconcile"} : dvRun'[b] = dvRun[b]
      /\ dvCtrl' \in DvHolders \cup {"none"} /\ dvKeys' = [b \in DvHolders |-> dvKeys'[b]]
      /\ KeysUnderControl'
  BY DvEnds DEF Operators
<1>1. DvTyped'
  BY <1>0 DEF DvTyped, DvHolders, Operators
<1>2. AnchorsBehind'
  BY <1>0 DEF AnchorsBehind, Matches
<1>3. KeysUnderControl'
  BY <1>0 DEF KeysUnderControl, DvHolders, Operators, DvTyped
<1>4. RunsKnow'
  BY <1>0 DEF RunsKnow, Operators
<1>5. FillKnows'
  BY <1>0 DEF FillKnows, AnchorsOf
<1> QED
  BY <1>1, <1>2, <1>3, <1>4, <1>5 DEF DvInv

\* inspect_serial_identity, which names a repair only when there is one, keeps the invariant.
LEMMA DvInspectSerialInv ==
  ASSUME DvInv, InspectSerial
  PROVE  DvInv'
<1> DvTyped /\ AnchorsBehind /\ KeysUnderControl /\ RunsKnow /\ FillKnows
  BY DEF DvInv
<1> USE DEF InspectSerial, Evidence, Locks, DvAt
<1>0. /\ dvRun' = [b \in Operators |-> [pc |-> dvRun'[b].pc, saw |-> dvRun'[b].saw,
                                        print |-> dvRun'[b].print, seen |-> dvRun'[b].seen]]
      /\ dvRun'["repair"].pc = "asked" /\ dvRun'["repair"].saw = {Binding}
      /\ dvRun'["reconcile"] = dvRun["reconcile"]
  BY DEF DvTyped, Operators
<1>1. DvTyped'
  BY <1>0 DEF DvTyped, DvHolders, Operators
<1>2. AnchorsBehind'
  BY <1>0 DEF AnchorsBehind, Matches
<1>3. KeysUnderControl'
  BY <1>0 DEF KeysUnderControl, DvHolders, Operators, DvTyped
<1>4. RunsKnow'
  BY <1>0 DEF RunsKnow, Binding, Repairable, CleanRepairs
<1>5. FillKnows'
  BY <1>0 DEF FillKnows, AnchorsOf
<1> QED
  BY <1>1, <1>2, <1>3, <1>4, <1>5 DEF DvInv

\* repair_serial_identity under the controller keeps the invariant.
LEMMA DvRepairHoldInv ==
  ASSUME DvInv, RepairHold
  PROVE  DvInv'
<1> DvTyped /\ AnchorsBehind /\ KeysUnderControl /\ RunsKnow /\ FillKnows
  BY DEF DvInv
<1> USE DEF RepairHold, Evidence, CtrlTaken, DvAt
<1>0. /\ dvRun' = [b \in Operators |-> [pc |-> dvRun'[b].pc, saw |-> dvRun'[b].saw,
                                        print |-> dvRun'[b].print, seen |-> dvRun'[b].seen]]
      /\ dvRun'["repair"].saw = dvRun["repair"].saw /\ dvRun'["repair"].print = dvRun["repair"].print
      /\ \A b \in Operators \ {"repair"} : dvRun'[b] = dvRun[b]
  BY DvGoes DEF Operators
<1>p. dvRun'["repair"].pc = "fence"
  BY DvGoes DEF Operators
<1>1. DvTyped'
  BY <1>0, <1>p DEF DvTyped, DvHolders, Operators
<1>2. AnchorsBehind'
  BY <1>0, <1>p DEF AnchorsBehind, Matches
<1>3. KeysUnderControl'
  BY <1>0, <1>p DEF KeysUnderControl, DvHolders, Operators, DvTyped
<1>4. RunsKnow'
  BY <1>0, <1>p DEF RunsKnow, Operators
<1>5. FillKnows'
  BY <1>0, <1>p DEF FillKnows, AnchorsOf
<1> QED
  BY <1>1, <1>2, <1>3, <1>4, <1>5 DEF DvInv

\* Taking the fences of the repair keeps the invariant.
LEMMA DvRepairFenceInv ==
  ASSUME DvInv, RepairFence
  PROVE  DvInv'
<1> DvTyped /\ AnchorsBehind /\ KeysUnderControl /\ RunsKnow /\ FillKnows
  BY DEF DvInv
<1> USE DEF RepairFence, Evidence, Fenced, DvAt
<1>0. /\ dvRun' = [b \in Operators |-> [pc |-> dvRun'[b].pc, saw |-> dvRun'[b].saw,
                                        print |-> dvRun'[b].print, seen |-> dvRun'[b].seen]]
      /\ dvRun'["repair"].saw = dvRun["repair"].saw /\ dvRun'["repair"].print = dvRun["repair"].print
      /\ \A b \in Operators \ {"repair"} : dvRun'[b] = dvRun[b]
  BY DvGoes DEF Operators
<1>p. dvRun'["repair"].pc = "inventory"
  BY DvGoes DEF Operators
<1>1. DvTyped'
  BY <1>0, <1>p DEF DvTyped, DvHolders, Operators
<1>2. AnchorsBehind'
  BY <1>0, <1>p DEF AnchorsBehind, Matches
<1>3. KeysUnderControl'
  BY <1>0, <1>p DEF KeysUnderControl, DvHolders, Operators, DvTyped
<1>4. RunsKnow'
  BY <1>0, <1>p DEF RunsKnow, Operators
<1>5. FillKnows'
  BY <1>0, <1>p DEF FillKnows, AnchorsOf
<1> QED
  BY <1>1, <1>2, <1>3, <1>4, <1>5 DEF DvInv

\* The inventory and the rehearsal of a repair keeps the invariant.
LEMMA DvRepairInventoryInv ==
  ASSUME DvInv, RepairInventory
  PROVE  DvInv'
<1> DvTyped /\ AnchorsBehind /\ KeysUnderControl /\ RunsKnow /\ FillKnows
  BY DEF DvInv
<1> USE DEF RepairInventory, Evidence, Locks, DvAt
<1>0. /\ dvRun' = [b \in Operators |-> [pc |-> dvRun'[b].pc, saw |-> dvRun'[b].saw,
                                        print |-> dvRun'[b].print, seen |-> dvRun'[b].seen]]
      /\ dvRun'["repair"].saw = dvRun["repair"].saw /\ dvRun'["repair"].print = dvRun["repair"].print
      /\ \A b \in Operators \ {"repair"} : dvRun'[b] = dvRun[b]
  BY DvGoes DEF Operators
<1>p. dvRun'["repair"].pc = (IF Status = "legacy_dirty" THEN "recover" ELSE "enrich")
  BY DvGoes DEF Operators
<1>1. DvTyped'
  BY <1>0, <1>p DEF DvTyped, DvHolders, Operators
<1>2. AnchorsBehind'
  BY <1>0, <1>p DEF AnchorsBehind, Matches
<1>3. KeysUnderControl'
  BY <1>0, <1>p DEF KeysUnderControl, DvHolders, Operators, DvTyped
<1>4. RunsKnow'
  BY <1>0, <1>p DEF RunsKnow, GuardHolds, Binding, Operators
<1>5. FillKnows'
  BY <1>0, <1>p DEF FillKnows, AnchorsOf
<1> QED
  BY <1>1, <1>2, <1>3, <1>4, <1>5 DEF DvInv

\* A refusal of repair_serial_identity keeps the invariant.
LEMMA DvRepairRefuseInv ==
  ASSUME DvInv, RepairRefuse
  PROVE  DvInv'
<1> DvTyped /\ AnchorsBehind /\ KeysUnderControl /\ RunsKnow /\ FillKnows
  BY DEF DvInv
<1> USE DEF RepairRefuse, Evidence, DvAt
<1>0. /\ dvRun' = [b \in Operators |-> [pc |-> dvRun'[b].pc, saw |-> dvRun'[b].saw,
                                        print |-> dvRun'[b].print, seen |-> dvRun'[b].seen]]
      /\ dvRun'["repair"].pc = "idle" /\ \A b \in Operators \ {"repair"} : dvRun'[b] = dvRun[b]
      /\ dvCtrl' \in DvHolders \cup {"none"} /\ dvKeys' = [b \in DvHolders |-> dvKeys'[b]]
      /\ KeysUnderControl'
  BY DvEnds DEF Operators
<1>1. DvTyped'
  BY <1>0 DEF DvTyped, DvHolders, Operators
<1>2. AnchorsBehind'
  BY <1>0 DEF AnchorsBehind, Matches
<1>3. KeysUnderControl'
  BY <1>0 DEF KeysUnderControl, DvHolders, Operators, DvTyped
<1>4. RunsKnow'
  BY <1>0 DEF RunsKnow, Operators
<1>5. FillKnows'
  BY <1>0 DEF FillKnows, AnchorsOf
<1> QED
  BY <1>1, <1>2, <1>3, <1>4, <1>5 DEF DvInv

\* The preview of a loss keeps the invariant.
LEMMA DvLossPreviewInv ==
  ASSUME DvInv, LossPreview
  PROVE  DvInv'
<1> DvTyped /\ AnchorsBehind /\ KeysUnderControl /\ RunsKnow /\ FillKnows
  BY DEF DvInv
<1> USE DEF LossPreview, Locks
<1>1. DvTyped'
  BY DEF DvTyped, DvHolders, Operators
<1>2. AnchorsBehind'
  BY DEF AnchorsBehind, Matches
<1>3. KeysUnderControl'
  BY DEF KeysUnderControl, DvHolders, Operators, DvTyped
<1>4. RunsKnow'
  BY DEF RunsKnow, Operators
<1>5. FillKnows'
  BY DEF FillKnows, AnchorsOf
<1> QED
  BY <1>1, <1>2, <1>3, <1>4, <1>5 DEF DvInv

\* declare_lost keeps the invariant.
LEMMA DvDeclareLostInv ==
  ASSUME DvInv, DeclareLost
  PROVE  DvInv'
<1> DvTyped /\ AnchorsBehind /\ KeysUnderControl /\ RunsKnow /\ FillKnows
  BY DEF DvInv
<1> USE DEF DeclareLost, Locks, NoLiveSession
<1>1. DvTyped'
  BY DEF DvTyped, DvHolders, Operators, DvRows
<1>2. AnchorsBehind'
  BY DEF AnchorsBehind, Matches
<1>3. KeysUnderControl'
  BY DEF KeysUnderControl, DvHolders, Operators, DvTyped
<1>4. RunsKnow'
  BY DEF RunsKnow, Operators
<1>5. FillKnows'
  BY DEF FillKnows, AnchorsOf
<1> QED
  BY <1>1, <1>2, <1>3, <1>4, <1>5 DEF DvInv

\* The death of a Fill, with or without a child, keeps the invariant.
LEMMA DvFillDiesInv ==
  ASSUME DvInv, FillDies
  PROVE  DvInv'
<1> DvTyped /\ AnchorsBehind /\ KeysUnderControl /\ RunsKnow /\ FillKnows
  BY DEF DvInv
<1> USE DEF FillDies, Evidence, Locks, LetGo
<1>1. DvTyped'
  BY DEF DvTyped, DvHolders, Operators
<1>2. AnchorsBehind'
  BY DEF AnchorsBehind, Matches
<1>3. KeysUnderControl'
  BY DEF KeysUnderControl, DvHolders, Operators, DvTyped
<1>4. RunsKnow'
  BY DEF RunsKnow, Operators
<1>5. FillKnows'
  BY DEF FillKnows, AnchorsOf
<1> QED
  BY <1>1, <1>2, <1>3, <1>4, <1>5 DEF DvInv

\* The exit of the child keeps the invariant.
LEMMA DvChildExitsInv ==
  ASSUME DvInv, ChildExits
  PROVE  DvInv'
<1> DvTyped /\ AnchorsBehind /\ KeysUnderControl /\ RunsKnow /\ FillKnows
  BY DEF DvInv
<1> USE DEF ChildExits, Evidence, LetGo
<1>1. DvTyped'
  BY DEF DvTyped, DvHolders, Operators
<1>2. AnchorsBehind'
  BY DEF AnchorsBehind, Matches
<1>3. KeysUnderControl'
  BY DEF KeysUnderControl, DvHolders, Operators, DvTyped
<1>4. RunsKnow'
  BY DEF RunsKnow, Operators
<1>5. FillKnows'
  BY DEF FillKnows, AnchorsOf
<1> QED
  BY <1>1, <1>2, <1>3, <1>4, <1>5 DEF DvInv

\* The disk after the operator's hands.
LEMMA DvDiskEdits ==
  \A d \in DvDisks, x \in Serials :
    /\ [d EXCEPT !.in = ~@] \in DvDisks
    /\ [d EXCEPT !.in = TRUE, !.serial = x] \in DvDisks
    /\ [d EXCEPT !.cap = 2] \in DvDisks
    /\ [d EXCEPT !.whole = ~@] \in DvDisks
<1> SUFFICES ASSUME NEW d \in DvDisks, NEW x \in Serials
             PROVE  /\ [d EXCEPT !.in = ~@] \in DvDisks
                    /\ [d EXCEPT !.in = TRUE, !.serial = x] \in DvDisks
                    /\ [d EXCEPT !.cap = 2] \in DvDisks
                    /\ [d EXCEPT !.whole = ~@] \in DvDisks
  OBVIOUS
<1>1. [d EXCEPT !.in = ~@] \in DvDisks
  BY DEF DvDisks
<1>2. [d EXCEPT !.in = TRUE, !.serial = x] \in DvDisks
  BY DEF DvDisks
<1>3. [d EXCEPT !.cap = 2] \in DvDisks
  BY DEF DvDisks
<1>4. [d EXCEPT !.whole = ~@] \in DvDisks
  BY DEF DvDisks
<1> QED
  BY <1>1, <1>2, <1>3, <1>4

\* A disk that is pulled, moved, resized or damaged keeps the invariant.
LEMMA DvDiskChangesInv ==
  ASSUME DvInv, DiskChanges
  PROVE  DvInv'
<1> DvTyped /\ AnchorsBehind /\ KeysUnderControl /\ RunsKnow /\ FillKnows
  BY DEF DvInv
<1> USE DEF DiskChanges, Evidence, Locks
<1>e. dvDisk' \in DvDisks
  <2>1. dvDisk \in DvDisks /\ {"s", "hex"} \subseteq Serials
    BY DEF DvTyped, Serials
  <2>2. CASE dvDisk' = [dvDisk EXCEPT !.in = ~@]
    BY <2>1, <2>2, DvDiskEdits
  <2>3. CASE \E serial \in {"s", "hex"} \ {dvDisk.serial} : dvDisk' = [dvDisk EXCEPT !.in = TRUE, !.serial = serial]
    <3> PICK x \in {"s", "hex"} : dvDisk' = [dvDisk EXCEPT !.in = TRUE, !.serial = x]
      BY <2>3
    <3> QED
      BY <2>1, DvDiskEdits
  <2>4. CASE dvDisk' = [dvDisk EXCEPT !.cap = 2]
    BY <2>1, <2>4, DvDiskEdits
  <2>5. CASE dvDisk' = [dvDisk EXCEPT !.whole = ~@]
    BY <2>1, <2>5, DvDiskEdits
  <2> QED
    BY <2>2, <2>3, <2>4, <2>5
<1>1. DvTyped'
  BY <1>e DEF DvTyped, DvHolders, Operators, Serials
<1>2. AnchorsBehind'
  BY DEF AnchorsBehind, Matches
<1>3. KeysUnderControl'
  BY DEF KeysUnderControl, DvHolders, Operators, DvTyped
<1>4. RunsKnow'
  BY DEF RunsKnow, Operators
<1>5. FillKnows'
  BY DEF FillKnows, AnchorsOf
<1> QED
  BY <1>1, <1>2, <1>3, <1>4, <1>5 DEF DvInv

\* The death of reconcile or repair keeps the invariant.
LEMMA DvCrashInv ==
  ASSUME DvInv, NEW a \in Operators, DvCrash(a)
  PROVE  DvInv'
<1> DvTyped /\ AnchorsBehind /\ KeysUnderControl /\ RunsKnow /\ FillKnows
  BY DEF DvInv
<1> USE DEF DvCrash, Evidence
<1>0. /\ dvRun' = [b \in Operators |-> [pc |-> dvRun'[b].pc, saw |-> dvRun'[b].saw,
                                        print |-> dvRun'[b].print, seen |-> dvRun'[b].seen]]
      /\ dvRun'[a].pc = "idle" /\ \A b \in Operators \ {a} : dvRun'[b] = dvRun[b]
      /\ dvCtrl' \in DvHolders \cup {"none"} /\ dvKeys' = [b \in DvHolders |-> dvKeys'[b]]
      /\ KeysUnderControl'
  BY DvEnds DEF Operators
<1>1. DvTyped'
  BY <1>0 DEF DvTyped, DvHolders, Operators
<1>2. AnchorsBehind'
  BY <1>0 DEF AnchorsBehind, Matches
<1>3. KeysUnderControl'
  BY <1>0 DEF KeysUnderControl, DvHolders, Operators, DvTyped
<1>4. RunsKnow'
  BY <1>0 DEF RunsKnow, Operators
<1>5. FillKnows'
  BY <1>0 DEF FillKnows, AnchorsOf
<1> QED
  BY <1>1, <1>2, <1>3, <1>4, <1>5 DEF DvInv

-----------------------------------------------------------------------------
\* A new generation with its anchor, in this epoch or as the first of the next.
LEMMA DvPublishNew ==
  ASSUME DvTyped, AnchorsBehind, NEW row \in DvRows, NEW op \in Operations, NEW seen,
         row.auth, row.print[2] = row.cap,
         \/ row.epoch = dvRow.epoch /\ row.gen = dvRow.gen
         \/ row.epoch = dvRow.epoch + 1 /\ row.gen = 0,
         PublishNew(row, op, seen)
  PROVE  /\ dvRow' \in DvRows /\ dvRow'.print = row.print /\ dvRow'.epoch = row.epoch
         /\ \A g \in dvDirty' : g.op \in Operations
         /\ AnchorsBehind' /\ Clean'
<1> DEFINE new == Anchor(row.epoch, row.gen + 1, row.print, seen)
<1>1. /\ dvRow' \in DvRows /\ dvRow'.print = row.print /\ dvRow'.epoch = row.epoch /\ dvRow'.gen = row.gen + 1
      /\ dvRow'.cap = row.cap /\ dvRow'.auth = TRUE
  <2>1. dvRow' = [row EXCEPT !.gen = row.gen + 1]
    BY DEF PublishNew
  <2>2. row.auth = TRUE
    BY DEF DvRows
  <2> QED
    BY <2>1, <2>2 DEF DvRows
<1>2. \A g \in dvDirty' : g.op \in Operations
  BY DEF PublishNew, DvTyped
<1>3. /\ new.epoch = row.epoch /\ new.gen = row.gen + 1 /\ new.print = row.print
      /\ new.cap = row.cap /\ new.auth = TRUE /\ new.print = <<new.proof, new.cap>>
  <2>1. row.print = <<row.print[1], row.print[2]>>
    BY DEF DvRows, DvPrints
  <2> QED
    BY <2>1 DEF Anchor
<1>4. dvAnchors' = dvAnchors \cup {new}
  BY DEF PublishNew
<1> HIDE DEF new
<1>5. \A a \in dvAnchors : a.epoch # dvRow'.epoch \/ a.gen < dvRow'.gen
  BY <1>1 DEF AnchorsBehind, DvTyped, DvRows
<1>6. \A a \in dvAnchors : a.epoch \in 0..dvRow'.epoch
  BY <1>1 DEF AnchorsBehind, DvTyped, DvRows
<1>7. Matches(new)'
  BY <1>1, <1>3, <1>4 DEF Matches, DvRows
<1>8. AnchorsBehind'
  <2>1. dvRow'.auth /\ dvRow'.print[2] = dvRow'.cap
    BY <1>1
  <2>2. ASSUME NEW a \in dvAnchors'
        PROVE  /\ a.epoch \in 0..dvRow'.epoch /\ a.gen \in Nat /\ (a.epoch = dvRow'.epoch => a.gen <= dvRow'.gen)
               /\ a.print = <<a.proof, a.cap>>
               /\ a.epoch = dvRow'.epoch /\ a.gen = dvRow'.gen => Matches(a)'
    <3>1. CASE a = new
      BY <1>1, <1>3, <1>7, <3>1 DEF DvRows
    <3>2. CASE a \in dvAnchors
      BY <1>1, <1>5, <1>6, <3>2 DEF AnchorsBehind, DvRows
    <3> QED
      BY <1>4, <3>1, <3>2
  <2>3. \A a, b \in dvAnchors' : a.epoch = b.epoch /\ a.gen = b.gen => a = b
    BY <1>1, <1>3, <1>4, <1>5 DEF AnchorsBehind, DvRows
  <2> QED
    BY <2>1, <2>2, <2>3 DEF AnchorsBehind
<1>9. Clean'
  BY <1>1, <1>3, <1>4, <1>7 DEF Clean, AnchorsOf
<1> QED
  BY <1>1, <1>2, <1>8, <1>9

\* The anchor of a generation that had none.
LEMMA DvPublishCurrent ==
  ASSUME DvTyped, AnchorsBehind, ~Clean, NEW seen, dvRow.auth, dvRow.print[2] = dvRow.cap, PublishCurrent(seen)
  PROVE  AnchorsBehind' /\ Clean'
<1>0. PICK new : new = Anchor(dvRow.epoch, dvRow.gen, dvRow.print, seen)
  OBVIOUS
<1>1. dvAnchors' = dvAnchors \cup {new} /\ dvRow' = dvRow
  BY <1>0 DEF PublishCurrent
<1>2. /\ new.epoch = dvRow.epoch /\ new.gen = dvRow.gen /\ new.print = dvRow.print
      /\ new.cap = dvRow.cap /\ new.auth = TRUE /\ new.print = <<new.proof, new.cap>>
  <2>1. dvRow.print = <<dvRow.print[1], dvRow.print[2]>>
    BY DEF DvTyped, DvRows, DvPrints
  <2> QED
    BY <1>0, <2>1 DEF Anchor
<1>3. \A a \in dvAnchors : a.epoch # dvRow.epoch \/ a.gen # dvRow.gen
  BY DEF Clean, AnchorsOf, AnchorsBehind
<1>4. Matches(new)'
  <2>1. dvRow.auth = TRUE
    BY DEF DvTyped, DvRows
  <2> QED
    BY <1>1, <1>2, <2>1 DEF Matches
<1>5. AnchorsBehind'
  <2>1. ASSUME NEW a \in dvAnchors'
        PROVE  /\ a.epoch \in 0..dvRow'.epoch /\ a.gen \in Nat /\ (a.epoch = dvRow'.epoch => a.gen <= dvRow'.gen)
               /\ a.print = <<a.proof, a.cap>>
               /\ a.epoch = dvRow'.epoch /\ a.gen = dvRow'.gen => Matches(a)'
    <3>1. CASE a = new
      BY <1>1, <1>2, <1>4, <3>1 DEF DvTyped, DvRows
    <3>2. CASE a \in dvAnchors
      BY <1>1, <1>3, <3>2 DEF AnchorsBehind
    <3> QED
      BY <1>1, <3>1, <3>2
  <2>2. \A a, b \in dvAnchors' : a.epoch = b.epoch /\ a.gen = b.gen => a = b
    BY <1>1, <1>2, <1>3 DEF AnchorsBehind
  <2> QED
    BY <1>1, <2>1, <2>2 DEF AnchorsBehind
<1>6. Clean'
  BY <1>1, <1>2, <1>4 DEF Clean, AnchorsOf
<1> QED
  BY <1>5, <1>6

-----------------------------------------------------------------------------
\* What every step keeps of an identity.
IdentityStep == EvidenceEarned /\ LostIsFinal /\ IdentityMovesWhole

\* _decide_and_commit: a new fingerprint comes with its anchor, and only a first identity or a new epoch
\* has one.
LEMMA DvCommitEffect ==
  ASSUME DvInv, ReconcileCommit
  PROVE  /\ dvRow' \in DvRows /\ (\A g \in dvDirty' : g.op \in Operations) /\ AnchorsBehind' /\ Clean'
         /\ dvRow'.print # dvRow.print => dvRow.print = NoPrint \/ dvRow'.epoch # dvRow.epoch
         /\ dvRow.life = "active" /\ OwnerProven /\ NoLiveSession
<1> DEFINE run == dvRun["reconcile"]
           row == [dvRow EXCEPT !.cap = run.print[2], !.print = run.print]
           first == [row EXCEPT !.auth = TRUE]
           next == [row EXCEPT !.epoch = @ + 1, !.gen = 0]
<1>0. DvTyped /\ AnchorsBehind /\ RunsKnow
  BY DEF DvInv
<1>1. /\ DvAt("reconcile", "commit") /\ OwnerProven /\ NoLiveSession /\ dvRow \in run.saw
      /\ IF dvRow.print = NoPrint THEN PublishNew(first, "bootstrap", run.seen)
         ELSE IF run.print[2] # dvRow.cap THEN PublishNew(next, "epoch", run.seen)
         ELSE /\ row = dvRow /\ dvRow.auth
              /\ IF dvRow.gen = 0 \/ Clean THEN PublishNew(dvRow, "reconcile", run.seen)
                 ELSE PublishCurrent(run.seen)
  BY DEF ReconcileCommit, ReconcileChecked
<1>2. dvRow.life = "active" /\ run.print \in DvPrints
  BY <1>0, <1>1 DEF RunsKnow, DvAt
<1>3. dvRow \in DvRows /\ run.print[2] \in 0..2
  BY <1>0, <1>2 DEF DvTyped, DvPrints
<1>4. /\ row \in DvRows /\ row.print = run.print /\ row.cap = run.print[2]
      /\ row.epoch = dvRow.epoch /\ row.gen = dvRow.gen
  BY <1>2, <1>3 DEF DvRows
<1> HIDE DEF row
<1>5. /\ first \in DvRows /\ first.auth = TRUE /\ first.print = row.print /\ first.cap = row.cap
      /\ first.epoch = row.epoch /\ first.gen = row.gen
  BY <1>4 DEF DvRows
<1>6. /\ next \in DvRows /\ next.print = row.print /\ next.cap = row.cap
      /\ next.epoch = row.epoch + 1 /\ next.gen = 0
  <2> DEFINE up == [row EXCEPT !.epoch = row.epoch + 1]
  <2>1. /\ up \in DvRows /\ up.print = row.print /\ up.cap = row.cap /\ up.epoch = row.epoch + 1
    BY <1>4 DEF DvRows
  <2>2. next = [up EXCEPT !.gen = 0]
    OBVIOUS
  <2> HIDE DEF up, next
  <2> QED
    BY <2>1, <2>2 DEF DvRows
<1>7. row.auth = TRUE => next.auth = TRUE
  BY <1>4 DEF DvRows
<1>8. dvRow.auth = TRUE => row.auth = TRUE
  BY <1>3 DEF row, DvRows
<1>9. {"bootstrap", "epoch", "reconcile"} \subseteq Operations
  BY DEF Operations
<1> HIDE DEF run, first, next
<1>10. CASE dvRow.print = NoPrint
  <2>1. PublishNew(first, "bootstrap", run.seen)
    BY <1>1, <1>10
  <2> QED
    BY <1>0, <1>1, <1>2, <1>4, <1>5, <1>9, <1>10, <2>1, DvPublishNew
<1>11. CASE dvRow.print # NoPrint /\ run.print[2] # dvRow.cap
  <2>1. PublishNew(next, "epoch", run.seen)
    BY <1>1, <1>11
  <2>2. next.auth = TRUE /\ dvRow.epoch + 1 # dvRow.epoch
    BY <1>0, <1>3, <1>7, <1>8, <1>11 DEF AnchorsBehind, DvRows
  <2> QED
    BY <1>0, <1>1, <1>2, <1>4, <1>6, <1>9, <2>1, <2>2, DvPublishNew
<1>12. CASE dvRow.print # NoPrint /\ run.print[2] = dvRow.cap
  <2>1. row = dvRow /\ dvRow.auth = TRUE /\ dvRow.print[2] = dvRow.cap
    BY <1>0, <1>1, <1>3, <1>12 DEF AnchorsBehind, DvRows
  <2>2. CASE PublishNew(dvRow, "reconcile", run.seen)
    <3>1. dvRow'.print = dvRow.print
      BY <1>0, <1>3, <1>9, <2>1, <2>2, DvPublishNew
    <3> QED
      BY <1>0, <1>1, <1>2, <1>3, <1>9, <2>1, <2>2, <3>1, DvPublishNew
  <2>3. CASE ~Clean /\ PublishCurrent(run.seen)
    <3>1. UNCHANGED <<dvRow, dvDirty>>
      BY <2>3 DEF PublishCurrent
    <3> QED
      BY <1>0, <1>1, <1>2, <1>3, <2>1, <2>3, <3>1, DvPublishCurrent DEF DvTyped
  <2> QED
    BY <1>1, <1>12, <2>2, <2>3
<1> QED
  BY <1>10, <1>11, <1>12

\* The transaction of reconcile_drive keeps the invariant and what an identity is promised.
LEMMA DvReconcileCommitInv ==
  ASSUME DvInv, ReconcileCommit
  PROVE  DvInv' /\ IdentityStep
<1> DvTyped /\ AnchorsBehind /\ KeysUnderControl /\ RunsKnow /\ FillKnows
  BY DEF DvInv
<1>0. /\ dvRun' = [b \in Operators |-> [pc |-> dvRun'[b].pc, saw |-> dvRun'[b].saw,
                                        print |-> dvRun'[b].print, seen |-> dvRun'[b].seen]]
      /\ dvRun'["reconcile"].pc = "idle" /\ \A b \in Operators \ {"reconcile"} : dvRun'[b] = dvRun[b]
      /\ dvCtrl' \in DvHolders \cup {"none"} /\ dvKeys' = [b \in DvHolders |-> dvKeys'[b]]
      /\ KeysUnderControl'
  BY DvEnds DEF Operators, ReconcileCommit
<1>1. UNCHANGED <<dvBound, dvDisk, dvFill, dvLeft>>
  BY DEF ReconcileCommit
<1>2. /\ dvRow' \in DvRows /\ (\A g \in dvDirty' : g.op \in Operations) /\ AnchorsBehind' /\ Clean'
      /\ dvRow'.print # dvRow.print => dvRow.print = NoPrint \/ dvRow'.epoch # dvRow.epoch
      /\ dvRow.life = "active" /\ OwnerProven /\ NoLiveSession
  BY DvCommitEffect
<1>3. DvTyped'
  BY <1>0, <1>1, <1>2 DEF DvTyped
<1>4. RunsKnow' /\ FillKnows'
  BY <1>0, <1>1, <1>2 DEF RunsKnow, FillKnows, NoLiveSession, Operators
<1>5. IdentityStep
  BY <1>2 DEF IdentityStep, EvidenceEarned, LostIsFinal, IdentityMovesWhole, OwnerProven
<1> QED
  BY <1>0, <1>2, <1>3, <1>4, <1>5 DEF DvInv

\* What a repair has seen is still so when the guard holds.
LEMMA DvGuardKnows ==
  ASSUME RunsKnow, dvRun["repair"].pc # "idle", GuardHolds
  PROVE  /\ Binding \in dvRun["repair"].saw /\ NoLiveSession
         /\ Status \in CleanRepairs \cup {"legacy_dirty"}
         /\ dvRun["repair"].pc = "enrich" => Status \in CleanRepairs
         /\ dvRun["repair"].pc = "recover" => Status = "legacy_dirty"
<1>1. Binding \in dvRun["repair"].saw /\ NoLiveSession /\ Binding[4] = Status
  BY DEF GuardHolds, Binding
<1> QED
  BY <1>1 DEF RunsKnow

\* What _serial_repair_state has found when it names a repair.
LEMMA DvRepairableMeans ==
  ASSUME Status \in CleanRepairs \cup {"legacy_dirty"}
  PROVE  /\ dvRow.auth /\ dvRow.life = "active"
         /\ Status = "legacy_dirty" => ~Clean /\ dvRow.print = <<"none", dvRow.cap>>
         /\ Status \in CleanRepairs => Clean
<1> DEFINE a == CHOOSE x \in Proof : TRUE
<1>0. Status # "unproven" /\ Status # "already_correct" /\ Status # "correct_identity_dirty"
  BY DEF CleanRepairs
<1>1. /\ dvRow.auth /\ dvRow.life = "active"
      /\ ~(AnchorsOf(dvRow.gen) # {} /\ ~Clean)
  BY <1>0 DEF Status
<1>2. CASE dvRow.serial = "none"
  <2>1. Status = "observed_serial_clean" /\ IsObserved(a)
    BY <1>0, <1>1, <1>2 DEF Status
  <2> QED
    BY <1>1, <2>1 DEF IsObserved, CleanRepairs
<1>3. CASE dvRow.serial # "none" /\ dvRow.print # Canonical
  <2>1. CASE IsLegacy(a)
    <3>1. Status = IF Clean THEN "legacy_clean" ELSE "legacy_dirty"
      BY <1>0, <1>1, <1>3, <2>1 DEF Status
    <3> QED
      BY <1>1, <2>1, <3>1 DEF IsLegacy, CleanRepairs
  <2>2. CASE ~IsLegacy(a)
    <3>1. Status = "bridge_encoded_clean" /\ IsBridge(a)
      BY <1>0, <1>1, <1>3, <2>2 DEF Status
    <3> QED
      BY <1>1, <3>1 DEF IsBridge, CleanRepairs
  <2> QED
    BY <2>1, <2>2
<1>4. CASE dvRow.serial # "none" /\ dvRow.print = Canonical
  BY <1>0, <1>1, <1>4 DEF Status
<1> QED
  BY <1>2, <1>3, <1>4

\* _serial_recover_locked ends the dirty generation under the old identity; the rest of the repair
\* sees a clean anchor.
LEMMA DvSerialRecoverInv ==
  ASSUME DvInv, SerialRecover
  PROVE  DvInv' /\ IdentityStep
<1> DvTyped /\ AnchorsBehind /\ KeysUnderControl /\ RunsKnow /\ FillKnows
  BY DEF DvInv
<1> USE DEF DvAt
<1>0. /\ dvRun' = [b \in Operators |-> [pc |-> dvRun'[b].pc, saw |-> dvRun'[b].saw,
                                        print |-> dvRun'[b].print, seen |-> dvRun'[b].seen]]
      /\ dvRun'["repair"].pc = "enrich" /\ dvRun'["repair"].saw = {<<dvRow, dvDirty, dvAnchors', "legacy_clean">>}
      /\ dvRun'["reconcile"] = dvRun["reconcile"]
  BY DEF DvTyped, Operators, SerialRecover
<1>1. /\ dvRun["repair"].pc = "recover" /\ GuardHolds /\ OwnerProven /\ PublishCurrent(dvDisk.serial)
      /\ UNCHANGED <<dvBound, dvDisk, dvFill, Locks, dvLeft>> /\ UNCHANGED <<dvRow, dvDirty>>
  BY DEF SerialRecover, PublishCurrent
<1>2. /\ Status \in CleanRepairs \cup {"legacy_dirty"} /\ NoLiveSession
  BY <1>1, DvGuardKnows
<1>3. dvRow.auth /\ dvRow.life = "active" /\ ~Clean /\ dvRow.print = <<"none", dvRow.cap>>
  BY <1>1, <1>2, DvRepairableMeans, DvGuardKnows
<1>4. dvRow.print[2] = dvRow.cap
  BY <1>3
<1>5. AnchorsBehind' /\ Clean'
  BY <1>1, <1>3, <1>4, DvPublishCurrent
<1>6. DvTyped'
  BY <1>0, <1>1 DEF DvTyped, Locks
<1>7. KeysUnderControl'
  BY <1>0, <1>1 DEF KeysUnderControl, Operators, DvHolders, Locks
<1>8. RunsKnow' /\ FillKnows'
  BY <1>0, <1>1, <1>2 DEF RunsKnow, FillKnows, NoLiveSession, CleanRepairs
<1>9. IdentityStep
  BY <1>1, <1>3 DEF IdentityStep, EvidenceEarned, LostIsFinal, IdentityMovesWhole, OwnerProven
<1> QED
  BY <1>5, <1>6, <1>7, <1>8, <1>9 DEF DvInv


\* _serial_enrich_locked moves generation, identity, anchor and approvals in one transaction.
LEMMA DvSerialEnrichInv ==
  ASSUME DvInv, SerialEnrich
  PROVE  DvInv' /\ IdentityStep
<1> DvTyped /\ AnchorsBehind /\ KeysUnderControl /\ RunsKnow /\ FillKnows
  BY DEF DvInv
<1> DEFINE row == [dvRow EXCEPT !.print = Canonical]
<1>0. /\ dvRun' = [b \in Operators |-> [pc |-> dvRun'[b].pc, saw |-> dvRun'[b].saw,
                                        print |-> dvRun'[b].print, seen |-> dvRun'[b].seen]]
      /\ dvRun'["repair"].pc = "idle" /\ \A b \in Operators \ {"repair"} : dvRun'[b] = dvRun[b]
      /\ dvCtrl' \in DvHolders \cup {"none"} /\ dvKeys' = [b \in DvHolders |-> dvKeys'[b]]
      /\ KeysUnderControl'
  BY DvEnds DEF Operators, SerialEnrich
<1>1. /\ dvRun["repair"].pc = "enrich" /\ GuardHolds /\ dvBound' = FALSE
      /\ PublishNew(row, "serial_identity_repair", dvDisk.serial) /\ UNCHANGED <<dvDisk, dvFill>>
  BY DEF SerialEnrich, DvAt, SupersedeApprovals
<1>2. dvRow.auth /\ dvRow.life = "active" /\ Clean /\ NoLiveSession
  BY <1>1, DvGuardKnows, DvRepairableMeans
<1>3. /\ row \in DvRows /\ row.auth = TRUE /\ row.print[2] = row.cap
      /\ row.epoch = dvRow.epoch /\ row.gen = dvRow.gen
  <2>1. Canonical \in DvPrints /\ Canonical[2] = dvRow.cap
    BY DEF Canonical, DvTyped, DvRows, DvPrints
  <2>2. dvRow.auth = TRUE
    BY <1>2 DEF DvTyped, DvRows
  <2> QED
    BY <2>1, <2>2 DEF DvTyped, DvRows
<1> HIDE DEF row
<1>4. "serial_identity_repair" \in Operations
  BY DEF Operations
<1>5. /\ dvRow' \in DvRows /\ (\A g \in dvDirty' : g.op \in Operations) /\ AnchorsBehind' /\ Clean'
  BY <1>1, <1>3, <1>4, DvPublishNew
<1>6. DvTyped'
  BY <1>0, <1>1, <1>5 DEF DvTyped
<1>7. RunsKnow' /\ FillKnows'
  BY <1>0, <1>1, <1>2 DEF RunsKnow, FillKnows, NoLiveSession, Operators
<1>8. IdentityStep
  BY <1>1, <1>2, <1>5 DEF IdentityStep, EvidenceEarned, LostIsFinal, IdentityMovesWhole, Owned
<1> QED
  BY <1>0, <1>5, <1>6, <1>7, <1>8 DEF DvInv

\* An admitted Fill opens a generation that has no anchor yet.
LEMMA DvFillOpensInv ==
  ASSUME DvInv, FillOpens
  PROVE  DvInv' /\ IdentityStep
<1> DvTyped /\ AnchorsBehind /\ KeysUnderControl /\ RunsKnow /\ FillKnows
  BY DEF DvInv
<1>1. /\ dvFill' = "live" /\ dvCtrl = "none" /\ dvCtrl' = "fill" /\ dvKeys' = [dvKeys EXCEPT !["fill"] = RowKeys]
      /\ dvRow' = [dvRow EXCEPT !.gen = dvRow.gen + 1] /\ UNCHANGED <<dvAnchors, dvBound, dvDisk, dvRun>>
      /\ dvDirty' = dvDirty \cup {[epoch |-> dvRow.epoch, gen |-> dvRow.gen + 1, op |-> "fill", owned |-> TRUE]}
      /\ dvRow.life = "active" /\ dvRow.auth /\ Fenceable
  BY DEF FillOpens, CtrlTaken, Fenced
<1>2. /\ dvRow' \in DvRows /\ dvRow'.gen = dvRow.gen + 1 /\ dvRow'.epoch = dvRow.epoch
      /\ dvRow'.print = dvRow.print /\ dvRow'.cap = dvRow.cap /\ dvRow'.auth = dvRow.auth /\ dvRow'.life = "active"
  <2>1. dvRow \in DvRows /\ dvRow.gen + 1 \in Nat /\ dvRow.auth = TRUE
    BY <1>1 DEF DvTyped, DvRows
  <2>2. dvRow' \in DvRows /\ dvRow'.gen = dvRow.gen + 1 /\ dvRow'.epoch = dvRow.epoch
    BY <1>1, <2>1 DEF DvRows
  <2>3. dvRow'.print = dvRow.print /\ dvRow'.cap = dvRow.cap /\ dvRow'.life = "active"
    BY <1>1, <2>1 DEF DvRows
  <2>4. dvRow'.auth = TRUE
    BY <1>1, <2>1 DEF DvRows
  <2> QED
    BY <2>1, <2>2, <2>3, <2>4
<1>3. dvRow.print[2] = dvRow.cap
  BY <1>1 DEF Fenceable, LockPrints
<1>4. DvTyped'
  <2>1. \A g \in dvDirty' : g.op \in Operations
    BY <1>1 DEF DvTyped, Operations
  <2>2. dvKeys' = [b \in DvHolders |-> dvKeys'[b]]
    BY <1>1 DEF DvTyped, DvHolders
  <2> QED
    BY <1>1, <1>2, <2>1, <2>2 DEF DvTyped, DvHolders
<1>5. \A a \in dvAnchors : a.epoch # dvRow'.epoch \/ a.gen < dvRow'.gen
  BY <1>2 DEF AnchorsBehind, DvTyped, DvRows
<1>6. AnchorsBehind'
  <2>1. dvRow'.print = NoPrint \/ (dvRow'.auth /\ dvRow'.print[2] = dvRow'.cap)
    BY <1>2 DEF AnchorsBehind
  <2>2. ASSUME NEW a \in dvAnchors
        PROVE  /\ a.epoch \in 0..dvRow'.epoch /\ a.gen \in Nat /\ (a.epoch = dvRow'.epoch => a.gen <= dvRow'.gen)
               /\ a.print = <<a.proof, a.cap>> /\ ~(a.epoch = dvRow'.epoch /\ a.gen = dvRow'.gen)
    BY <1>2, <1>5 DEF AnchorsBehind, DvTyped, DvRows
  <2>3. \A a, b \in dvAnchors : a.epoch = b.epoch /\ a.gen = b.gen => a = b
    BY DEF AnchorsBehind
  <2> QED
    BY <1>1, <2>1, <2>2, <2>3 DEF AnchorsBehind
<1>7. KeysUnderControl'
  BY <1>1 DEF KeysUnderControl, Operators, DvHolders, DvTyped
<1>8. RunsKnow'
  BY <1>1 DEF RunsKnow
<1>9. FillKnows'
  BY <1>1, <1>2, <1>3, <1>5 DEF FillKnows, AnchorsOf, DvRows
<1>10. IdentityStep
  BY <1>1, <1>2 DEF IdentityStep, EvidenceEarned, LostIsFinal, IdentityMovesWhole
<1> QED
  BY <1>4, <1>6, <1>7, <1>8, <1>9, <1>10 DEF DvInv

\* The Fill closes its own generation and ends.
LEMMA DvFillAnchorsInv ==
  ASSUME DvInv, FillAnchors
  PROVE  DvInv' /\ IdentityStep
<1> DvTyped /\ AnchorsBehind /\ KeysUnderControl /\ RunsKnow /\ FillKnows
  BY DEF DvInv
<1>1. /\ dvFill = "live" /\ dvFill' = "ended" /\ LetGo("fill") /\ PublishCurrent(dvDisk.serial)
      /\ UNCHANGED <<dvRow, dvDirty, dvBound, dvDisk, dvRun>>
  BY DEF FillAnchors, PublishCurrent
<1>2. /\ dvRow.life = "active" /\ dvRow.auth /\ dvRow.print[2] = dvRow.cap /\ ~Clean
  BY <1>1 DEF FillKnows, Clean
<1>3. AnchorsBehind' /\ Clean'
  BY <1>1, <1>2, DvPublishCurrent
<1>4. DvTyped'
  BY <1>1 DEF DvTyped, LetGo, DvHolders
<1>5. KeysUnderControl'
  BY <1>1 DEF KeysUnderControl, LetGo, Operators, DvHolders, DvTyped
<1>6. RunsKnow' /\ FillKnows'
  BY <1>1 DEF RunsKnow, FillKnows
<1>7. IdentityStep
  BY <1>1, <1>2 DEF IdentityStep, EvidenceEarned, LostIsFinal, IdentityMovesWhole
<1> QED
  BY <1>3, <1>4, <1>5, <1>6, <1>7 DEF DvInv

\* A step that leaves row, generations and anchors alone, or only says that the drive is lost.
LEMMA DvOtherIdentityStep ==
  ASSUME \/ UNCHANGED <<dvRow, dvDirty, dvAnchors>>
         \/ DvTyped /\ DeclareLost
  PROVE  IdentityStep
<1>1. CASE UNCHANGED <<dvRow, dvDirty, dvAnchors>>
  BY <1>1 DEF IdentityStep, EvidenceEarned, LostIsFinal, IdentityMovesWhole
<1>2. CASE DvTyped /\ DeclareLost
  <2>1. dvRow.life = "active" /\ dvAnchors' = dvAnchors /\ dvRow'.print = dvRow.print
    BY <1>2 DEF DeclareLost, DvTyped, DvRows
  <2> QED
    BY <2>1 DEF IdentityStep, EvidenceEarned, LostIsFinal, IdentityMovesWhole
<1> QED
  BY <1>1, <1>2

\* Every step keeps the invariant and what an identity is promised.
LEMMA DvStepInv ==
  ASSUME DvInv, [DvNext]_dvVars
  PROVE  DvInv' /\ (IdentityStep \/ UNCHANGED dvVars)
<1>1. CASE UNCHANGED dvVars
  BY <1>1 DEF dvVars, Evidence, Locks, DvInv, DvTyped, AnchorsBehind, Matches, KeysUnderControl, RunsKnow,
              FillKnows, AnchorsOf
<1>2. CASE ReconcileCapture
  BY <1>2, DvReconcileCaptureInv, DvOtherIdentityStep DEF ReconcileCapture, Evidence
<1>3. CASE ReconcileFence
  BY <1>3, DvReconcileFenceInv, DvOtherIdentityStep DEF ReconcileFence, Evidence
<1>4. CASE ReconcileInventory
  BY <1>4, DvReconcileInventoryInv, DvOtherIdentityStep DEF ReconcileInventory, Evidence
<1>5. CASE ReconcileCommit
  BY <1>5, DvReconcileCommitInv
<1>6. CASE ReconcileRefuse
  BY <1>6, DvReconcileRefuseInv, DvOtherIdentityStep DEF ReconcileRefuse, Evidence
<1>7. CASE InspectSerial
  BY <1>7, DvInspectSerialInv, DvOtherIdentityStep DEF InspectSerial, Evidence
<1>8. CASE RepairHold
  BY <1>8, DvRepairHoldInv, DvOtherIdentityStep DEF RepairHold, Evidence
<1>9. CASE RepairFence
  BY <1>9, DvRepairFenceInv, DvOtherIdentityStep DEF RepairFence, Evidence
<1>10. CASE RepairInventory
  BY <1>10, DvRepairInventoryInv, DvOtherIdentityStep DEF RepairInventory, Evidence
<1>11. CASE SerialRecover
  BY <1>11, DvSerialRecoverInv
<1>12. CASE SerialEnrich
  BY <1>12, DvSerialEnrichInv
<1>13. CASE RepairRefuse
  BY <1>13, DvRepairRefuseInv, DvOtherIdentityStep DEF RepairRefuse, Evidence
<1>14. CASE LossPreview
  BY <1>14, DvLossPreviewInv, DvOtherIdentityStep DEF LossPreview
<1>15. CASE DeclareLost
  BY <1>15, DvDeclareLostInv, DvOtherIdentityStep DEF DvInv
<1>16. CASE FillOpens
  BY <1>16, DvFillOpensInv
<1>17. CASE FillAnchors
  BY <1>17, DvFillAnchorsInv
<1>18. CASE FillDies
  BY <1>18, DvFillDiesInv, DvOtherIdentityStep DEF FillDies, Evidence
<1>19. CASE ChildExits
  BY <1>19, DvChildExitsInv, DvOtherIdentityStep DEF ChildExits, Evidence
<1>20. CASE DiskChanges
  BY <1>20, DvDiskChangesInv, DvOtherIdentityStep DEF DiskChanges, Evidence
<1>21. CASE \E a \in Operators : DvCrash(a)
  BY <1>21, DvCrashInv, DvOtherIdentityStep DEF DvCrash, Evidence
<1> QED
  BY <1>1, <1>2, <1>3, <1>4, <1>5, <1>6, <1>7, <1>8, <1>9, <1>10, <1>11, <1>12, <1>13, <1>14, <1>15, <1>16,
     <1>17, <1>18, <1>19, <1>20, <1>21 DEF DvNext, ReconcileStep, RepairStep

\* The row, the anchors, the fences and what each run has seen fit together in every reachable state
\* of reconcile_drive, repair_serial_identity, declare_lost, a Fill and the operator's hands.
THEOREM IdentityInvariant == DvSpec => []DvInv
<1>1. DvInit => DvInv
  BY DvInitInv
<1>2. DvInv /\ [DvNext]_dvVars => DvInv'
  BY DvStepInv
<1> QED
  BY <1>1, <1>2, PTL DEF DvSpec

\* One current anchor at most per generation, and it never contradicts the row.
LEMMA DvAnchorsConsistent ==
  ASSUME DvInv
  PROVE  DvTypeOK /\ AnchorsConsistent
<1> DvTyped /\ AnchorsBehind
  BY DEF DvInv
<1>1. DvTypeOK
  BY DEF DvTypeOK, DvTyped, DvRows, DvHolders
<1>2. AnchorsConsistent
  <2>1. AnchorsOf(dvRow.gen) # {} => Clean
    BY DEF AnchorsBehind, AnchorsOf, Clean
  <2>2. \A a \in dvAnchors : a.print = <<a.proof, a.cap>>
    BY DEF AnchorsBehind
  <2>3. \A a, b \in dvAnchors : a.epoch = b.epoch /\ a.gen = b.gen => a = b
    BY DEF AnchorsBehind
  <2> QED
    BY <2>1, <2>2, <2>3 DEF AnchorsConsistent
<1> QED
  BY <1>1, <1>2

\* Fences are held under the controller only, which one operation has.
LEMMA DvOneWorker ==
  ASSUME DvInv
  PROVE  OneWorkerPerIdentity
<1> DEFINE busy == {a \in DOMAIN dvKeys : dvKeys[a] # {}}
<1>1. \A a \in busy : a = dvCtrl
  BY DEF DvInv, DvTyped, KeysUnderControl
<1>2. busy = {} \/ busy = {dvCtrl}
  BY <1>1
<1>3. Cardinality(busy) = 0 \/ Cardinality(busy) = 1
  BY <1>2, FS_EmptySet, FS_Singleton
<1> QED
  BY <1>3 DEF OneWorkerPerIdentity

\* The property IdentityKept of the portal run, for every saved catalog, disk and bound: anchors never
\* contradict the row, one operation at a time has fenced the drive, evidence is published for an active
\* drive by whoever may, a lost drive keeps its history, and a fingerprint moves with its anchor.
THEOREM IdentityIsKept == DvSpec => IdentityKept
<1>1. DvInv => DvTypeOK /\ AnchorsConsistent /\ OneWorkerPerIdentity
  BY DvAnchorsConsistent, DvOneWorker
<1>2. DvInv /\ [DvNext]_dvVars => [EvidenceEarned /\ LostIsFinal /\ IdentityMovesWhole]_dvVars
  BY DvStepInv DEF IdentityStep
<1> QED
  BY <1>1, <1>2, IdentityInvariant, PTL DEF DvSpec, IdentityKept
=============================================================================

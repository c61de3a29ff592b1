--------------------------- MODULE NativeCommand ---------------------------
(***************************************************************************)
(* One native Git or git-annex command with a deadline                     *)
(* (publication_native.py, _bounded_process and _reap_group).  A command   *)
(* forks as it likes and its processes hold the fences it was given: after *)
(* a timeout all of them, and nobody else, must be killed.  Threads of     *)
(* this process may each run one.                                          *)
(*                                                                         *)
(* Process numbers are handed out in order and not again: a number stands  *)
(* for its pidfd and its start time.                                       *)
(***************************************************************************)
EXTENDS Integers

CONSTANTS NvWorlds,  \* threads; whether a cgroup and a subreaper can be had; how many processes
          NvMax,     \* the most processes of any of them
          NvPasses   \* _REAP_PASSES
ASSUME NvWorldsAssumption ==
  /\ NvMax \in Nat \ {0} /\ NvPasses \in Nat \ {0}
  /\ \A w \in NvWorlds :
       /\ w.cgroup \in BOOLEAN /\ w.subreaper \in BOOLEAN /\ w.leave \in BOOLEAN
       /\ {"free", "no", "nobody"} \cap w.threads = {}

VARIABLES
  nvWorld,
  nvProc,  \* the process table: state, parent, group, whose command, killed by; and, that
           \* nobody reads, whom it descends from and how many forks of them went unseen
  nvRun,   \* each thread's command: step, leader, what its scans saw
  nvLock,  \* _SPAWN_REAP
  nvSub    \* PR_SET_CHILD_SUBREAPER of this process

nvVars == <<nvWorld, nvProc, nvRun, nvLock, nvSub>>

NvIds == 1..NvMax
Ours == 0
Pid1 == -1

NvInit ==
  /\ nvWorld \in NvWorlds
  /\ nvProc = [p \in NvIds |-> [st |-> "none", up |-> Ours, grp |-> p, of |-> "nobody", hit |-> "no",
                          line |-> {}, late |-> 0]]
  /\ nvRun = [t \in nvWorld.threads |->
                [at |-> "idle", child |-> 1, seen |-> {}, left |-> {}, pre |-> {}, pass |-> 0, result |-> "none"]]
  /\ nvLock = "free" /\ nvSub = FALSE

-----------------------------------------------------------------------------
(***************************************************************************)
(* What processes do: fork, leave their group, end.  The children of one   *)
(* that ends go to this process while it is a subreaper, else to init.     *)
(***************************************************************************)
Live(p) == nvProc[p].st = "run"
Listed == {p \in NvIds : nvProc[p].st \in {"run", "zombie"}}
Fresh(p) == nvProc[p].st = "none" /\ p <= nvWorld.max /\ \A q \in NvIds : q < p => nvProc[q].st # "none"
\* Parent by parent, as far as they live: the child of one that ended has another.
Forebears(p) == {p} \cup {q \in nvProc[p].line : \A r \in nvProc[p].line : r >= q => Live(r)}
OfInit(p) == \E q \in Forebears(p) : nvProc[q].up = Pid1
\* What a process does after its command is of no interest.
Free(p) == Live(p) /\ nvProc[p].hit = "no" /\ nvRun[nvProc[p].of].at # "end"

\* How many scans in a row do not see a fork of now: the one under way has its
\* list; the last one of all is not repeated.
Missed(step) == CASE step \in {"read1", "read2"} -> 1 [] step = "read3" -> 2 [] OTHER -> 0
Forks(p, q) ==
  /\ Free(p) /\ Fresh(q)
  /\ nvProc' = [nvProc EXCEPT ![q] =
       [nvProc[p] EXCEPT !.up = p, !.line = @ \cup {p}, !.late = @ + Missed(nvRun[nvProc[p].of].at)]]
  /\ UNCHANGED <<nvWorld, nvRun, nvLock, nvSub>>

Leaves(p) ==
  /\ nvWorld.leave /\ Free(p) /\ nvProc[p].grp # p
  /\ nvProc' = [nvProc EXCEPT ![p].grp = p]
  /\ UNCHANGED <<nvWorld, nvRun, nvLock, nvSub>>

Gone(p) ==
  LET adopted == nvSub /\ ~OfInit(p) IN
  /\ nvProc' = [q \in NvIds |->
       LET x == nvProc[q] IN
       CASE q = p -> [x EXCEPT !.st = IF x.up = Pid1 THEN "gone" ELSE "zombie"]
         [] x.up = p -> [x EXCEPT !.up = IF adopted THEN Ours ELSE Pid1,
                                  !.st = IF @ = "zombie" /\ ~adopted THEN "gone" ELSE @]
         [] OTHER -> x]
  /\ UNCHANGED <<nvWorld, nvRun, nvLock, nvSub>>
Exits(p) == Free(p) /\ Gone(p)

NvDies == \E p \in NvIds : Live(p) /\ nvProc[p].hit # "no" /\ Gone(p)

-----------------------------------------------------------------------------
(***************************************************************************)
(* _bounded_process: the spawn and its proof under the lock, the pipes     *)
(* until both end or time is up, the wait.                                 *)
(***************************************************************************)
Leader(t) == nvRun[t].child
NvAt(t, step) == t \in DOMAIN nvRun /\ nvRun[t].at = step
NvTo(t, step) == nvRun' = [nvRun EXCEPT ![t].at = step]
Says(t, result, step) == nvRun' = [nvRun EXCEPT ![t].at = step, ![t].result = result]
Hit(t, ps) == [p \in NvIds |-> IF p \in ps /\ Live(p) /\ nvProc[p].hit = "no"
                               THEN [nvProc[p] EXCEPT !.hit = t] ELSE nvProc[p]]
\* waitpid reaches the children of this process only.
Collected(procs, ps) == [p \in NvIds |-> IF p \in ps /\ procs[p].st = "zombie" /\ procs[p].up = Ours
                                         THEN [procs[p] EXCEPT !.st = "gone"] ELSE procs[p]]

\* Mutant: a reap does not wait for a spawn or a reap of another thread.
LockFree_Ignored == nvLock \in {"free"} \cup DOMAIN nvRun
LockFree == nvLock = "free"

NvSpawn(t) ==
  /\ NvAt(t, "idle") /\ LockFree /\ nvLock' = t
  /\ \E p \in NvIds :
       /\ Fresh(p)
       /\ nvProc' = [nvProc EXCEPT ![p] = [@ EXCEPT !.st = "run", !.of = t]]
       /\ nvRun' = [nvRun EXCEPT ![t].at = "spawned", ![t].child = p]
  /\ UNCHANGED <<nvWorld, nvSub>>

\* Without a pidfd and a start time the group is killed while it is known.
NvReady(t) ==
  /\ NvAt(t, "spawned")
  /\ \/ NvTo(t, "run") /\ nvLock' = "free" /\ UNCHANGED nvProc
     \/ NvTo(t, "unproven") /\ nvProc' = Hit(t, {p \in NvIds : nvProc[p].grp = Leader(t)}) /\ UNCHANGED nvLock
  /\ UNCHANGED <<nvWorld, nvSub>>

NvUnproven(t) ==
  /\ NvAt(t, "unproven") /\ ~Live(Leader(t))
  /\ nvProc' = Collected(nvProc, {Leader(t)}) /\ Says(t, "unproven", "close") /\ nvLock' = "free"
  /\ UNCHANGED <<nvWorld, nvSub>>

NvFinish(t) ==
  /\ NvAt(t, "run") /\ ~Live(Leader(t))
  /\ nvProc' = Collected(nvProc, {Leader(t)}) /\ Says(t, "ok", "close")
  /\ UNCHANGED <<nvWorld, nvLock, nvSub>>

\* The deadline, a budget of output, a failing pipe.
NvLate(t) == NvAt(t, "run") /\ NvTo(t, "reap") /\ UNCHANGED <<nvWorld, nvProc, nvLock, nvSub>>

-----------------------------------------------------------------------------
(***************************************************************************)
(* _kill_cgroup: the kernel kills every member at once, again until none   *)
(* lives.                                                                  *)
(***************************************************************************)
Members(t) == {p \in NvIds : nvProc[p].of = t}

NvKillCgroup(t) ==
  /\ \/ NvAt(t, "cgroup") /\ NvTo(t, "cgroupLook")
     \/ NvAt(t, "close") /\ nvWorld.cgroup /\ NvTo(t, "closeLook")
  /\ nvProc' = Hit(t, Members(t))
  /\ UNCHANGED <<nvWorld, nvLock, nvSub>>

\* Mutant: a reap that gives up keeps the lock.
Release_Kept == UNCHANGED nvLock
Release == nvLock' = "free"

NvLookCgroup(t) ==
  /\ NvAt(t, "cgroupLook") \/ NvAt(t, "closeLook")
  /\ LET closing == nvRun[t].at = "closeLook"
         more == \E p \in Members(t) : Live(p)
         again == nvRun[t].pass + 1 < NvPasses IN
     CASE ~more -> IF closing THEN NvTo(t, "end") /\ UNCHANGED nvLock
                   ELSE nvRun' = [nvRun EXCEPT ![t].at = "adopt", ![t].pass = 0] /\ UNCHANGED nvLock
       [] more /\ again -> nvRun' = [nvRun EXCEPT ![t].at = IF closing THEN "close" ELSE "cgroup", ![t].pass = @ + 1]
                           /\ UNCHANGED nvLock
       [] OTHER -> IF closing THEN Says(t, "incomplete", "end") /\ UNCHANGED nvLock
                   ELSE nvRun' = [nvRun EXCEPT ![t].at = "wait", ![t].result = "incomplete", ![t].pass = 0] /\ Release
  /\ UNCHANGED <<nvWorld, nvProc, nvSub>>

-----------------------------------------------------------------------------
(***************************************************************************)
(* _reap_group: what is left of the command by three scans of the process  *)
(* table; they kill until two scans in a row are empty.  A scan lists the  *)
(* numbers first and reads what is there of them afterwards.               *)
(***************************************************************************)
Tree(t, seen) == {p \in NvIds : Leader(t) \in Forebears(p) /\ \A q \in Forebears(p) : q > Leader(t) => q \in seen}
Orphans(t, seen) == {p \in seen \ nvRun[t].pre : nvProc[p].up = Ours /\ p >= Leader(t)}
Group(t, seen) == {p \in seen : nvProc[p].grp = Leader(t) /\ p >= Leader(t)}

\* Mutant: only the process group is scanned, as before DEC-159.
Leftovers_Group(t, seen) == {p \in Group(t, seen) : Live(p)}
Leftovers(t, seen) == {p \in (Tree(t, seen) \cap seen) \cup Orphans(t, seen) \cup Group(t, seen) : Live(p)}

NvReap(t) ==
  /\ NvAt(t, "reap") /\ LockFree /\ nvLock' = t /\ NvTo(t, IF nvWorld.cgroup THEN "cgroup" ELSE "adopt")
  /\ UNCHANGED <<nvWorld, nvProc, nvSub>>

NvAdopt(t) ==
  /\ NvAt(t, "adopt") /\ nvSub' = nvWorld.subreaper
  /\ IF nvWorld.subreaper \/ nvWorld.cgroup
     THEN /\ nvRun' = [nvRun EXCEPT ![t].at = "look", ![t].pre = {p \in Listed : nvProc[p].up = Ours} \cup {Leader(t)}]
          /\ UNCHANGED <<nvProc, nvLock>>
     ELSE Says(t, "subreaper", "wait") /\ nvProc' = Hit(t, {Leader(t)}) /\ Release
  /\ UNCHANGED nvWorld

NvLook(t) ==
  /\ NvAt(t, "look")
  /\ nvProc' = Hit(t, {Leader(t)})
  /\ nvRun' = [nvRun EXCEPT ![t].at = "slay", ![t].left = Leftovers(t, Listed)]
  /\ UNCHANGED <<nvWorld, nvLock, nvSub>>

NvSlay(t) ==
  /\ NvAt(t, "slay")
  /\ nvProc' = Collected(Hit(t, nvRun[t].left), nvRun[t].left \cup Orphans(t, Listed) \cup {Leader(t)})
  /\ nvRun' = [nvRun EXCEPT ![t].at = "list1", ![t].left = {}]
  /\ UNCHANGED <<nvWorld, nvLock, nvSub>>

NvList(t) ==
  /\ \/ NvAt(t, "list1") /\ nvRun' = [nvRun EXCEPT ![t].at = "read1", ![t].seen = Listed]
     \/ NvAt(t, "list2") /\ nvRun' = [nvRun EXCEPT ![t].at = "read2", ![t].seen = Listed]
     \/ NvAt(t, "list3") /\ nvRun' = [nvRun EXCEPT ![t].at = "read3", ![t].seen = Listed]
  /\ UNCHANGED <<nvWorld, nvProc, nvLock, nvSub>>

\* Mutant: one empty scan is believed.
Confirm_Once == "done"
Confirm == "list2"

NvRead(t) ==
  /\ NvAt(t, "read1") \/ NvAt(t, "read2")
  /\ LET empty == Leftovers(t, nvRun[t].seen) = {} /\ ~Live(Leader(t))
         last == nvRun[t].pass + 1 = NvPasses IN
     nvRun' = [nvRun EXCEPT ![t].seen = {},
                 ![t].pass = IF empty \/ last THEN @ ELSE @ + 1,
                 ![t].at = IF empty THEN IF @ = "read1" THEN Confirm ELSE "done"
                           ELSE IF last THEN "list3" ELSE "look"]
  /\ UNCHANGED <<nvWorld, nvProc, nvLock, nvSub>>

NvGiveUp(t) ==
  /\ NvAt(t, "read3")
  /\ IF Leftovers(t, nvRun[t].seen) = {}
     THEN nvRun' = [nvRun EXCEPT ![t].at = "done", ![t].seen = {}] /\ UNCHANGED <<nvLock, nvSub>>
     ELSE nvRun' = [nvRun EXCEPT ![t].at = "wait", ![t].seen = {}, ![t].result = "incomplete"] /\ Release /\ nvSub' = FALSE
  /\ UNCHANGED <<nvWorld, nvProc>>

NvReaped(t) ==
  /\ NvAt(t, "done") /\ ~Live(Leader(t))
  /\ nvProc' = Collected(nvProc, Orphans(t, Listed) \cup {Leader(t)})
  /\ nvRun' = [nvRun EXCEPT ![t].at = "wait", ![t].result = "refused", ![t].pass = 0]
  /\ nvSub' = FALSE /\ Release /\ UNCHANGED nvWorld

\* Popen's own exit waits for the leader, whatever was raised.
NvWait(t) ==
  /\ NvAt(t, "wait") /\ ~Live(Leader(t))
  /\ nvProc' = Collected(nvProc, {Leader(t)})
  /\ nvRun' = [nvRun EXCEPT ![t].at = "close", ![t].pre = {}, ![t].pass = 0]
  /\ UNCHANGED <<nvWorld, nvLock, nvSub>>

NvClose(t) ==
  /\ NvAt(t, "close") /\ ~nvWorld.cgroup /\ NvTo(t, "end")
  /\ UNCHANGED <<nvWorld, nvProc, nvLock, nvSub>>

-----------------------------------------------------------------------------
NvAct(t) ==
  \/ NvSpawn(t) \/ NvReady(t) \/ NvUnproven(t) \/ NvFinish(t) \/ NvLate(t) \/ NvKillCgroup(t) \/ NvLookCgroup(t)
  \/ NvReap(t) \/ NvAdopt(t) \/ NvLook(t) \/ NvSlay(t) \/ NvList(t) \/ NvRead(t) \/ NvGiveUp(t) \/ NvReaped(t)
  \/ NvWait(t) \/ NvClose(t)
NvNext ==
  \/ \E t \in DOMAIN nvRun : NvAct(t)
  \/ NvDies
  \/ \E p \in NvIds : Exits(p) \/ Leaves(p) \/ \E q \in NvIds : Forks(p, q)

\* Time passes and what is killed dies; nothing else a process does is owed.
NvSpec == NvInit /\ [][NvNext]_nvVars
FairNvSpec ==
  /\ NvSpec
  /\ WF_nvVars(NvAct("a")) /\ WF_nvVars(NvAct("b")) /\ WF_nvVars(NvDies)

-----------------------------------------------------------------------------
NvTypeOK ==
  /\ \A p \in NvIds : nvProc[p].up \in NvIds \cup {Ours, Pid1} /\ nvProc[p].hit \in {"no"} \cup DOMAIN nvRun
  /\ nvLock \in {"free"} \cup DOMAIN nvRun /\ (nvSub => nvLock # "free")
  /\ \A t \in DOMAIN nvRun : nvRun[t].child \in NvIds /\ nvRun[t].pass \in 0..NvPasses

(***************************************************************************)
(* A command leaves nobody behind who holds its fences: in a cgroup never, *)
(* without one not when it was refused for a timeout, unless somebody had  *)
(* gone over to init before the reap, or to this process in the reap of    *)
(* another command (or descends from one that had), or a line forks away   *)
(* under two scans in a row.                                               *)
(***************************************************************************)
Survivors(t) == {p \in Members(t) : Live(p) /\ nvProc[p].hit = "no"}
Eludes(t, p) ==
  nvProc[p].late > 1 \/ OfInit(p) \/ \E q \in ({p} \cup nvProc[p].line) \ {Leader(t)} : q \in nvRun[t].pre
Contained ==
  \A t \in DOMAIN nvRun :
    /\ nvWorld.cgroup /\ nvRun[t].at = "end" => nvRun[t].result = "incomplete" \/ ~\E p \in Members(t) : Live(p)
    /\ nvRun[t].at = "wait" /\ nvRun[t].result = "refused" => \A p \in Survivors(t) : Eludes(t, p)

(***************************************************************************)
(* A reap spares the other thread's command: it does not kill its leader,  *)
(* nor take the exit status for which that thread waits.                   *)
(***************************************************************************)
LeadersSpared ==
  \A t \in DOMAIN nvRun :
    nvRun[t].at # "idle" =>
      /\ nvProc[Leader(t)].hit \in {"no", t}
      /\ nvRun[t].at \in {"spawned", "run"} => nvProc[Leader(t)].st # "gone"

ContainmentSound == NvTypeOK /\ Contained /\ LeadersSpared

\* A command ends: by itself, or killed.
CommandsDue == \E t \in DOMAIN nvRun : nvRun[t].at \notin {"idle", "end"}

=============================================================================

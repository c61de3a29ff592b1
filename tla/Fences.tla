------------------------------- MODULE Fences -------------------------------
(***************************************************************************)
(* The advisory flocks of drive_fence.py: one controller lock per catalog  *)
(* and one lock per physical drive identity and epoch.  A flock belongs to *)
(* an open file description, which a monitored child inherits: closing the *)
(* parent's descriptor, or killing the parent, leaves the lock with the    *)
(* child until the child exits too.                                        *)
(***************************************************************************)
EXTENDS Catalog

VARIABLES
  ctrl,       \* the process with the controller lock's descriptor, or None
  ctrlChild,  \* the process whose child has inherited that descriptor, or None
  held,       \* held[p]: drive lock keys p holds a descriptor of
  child       \* child[p]: keys whose descriptor a child of p has inherited

fenceVars == <<ctrl, ctrlChild, held, child>>

\* drive_lock_key: identity and epoch, never a label or a mount point.
Keys == Drives \X Nat

FenceTypeOK ==
  /\ ctrl \in Procs \cup {None}
  /\ ctrlChild \in Procs \cup {None}
  /\ held \in [Procs -> SUBSET Keys]
  /\ child \in [Procs -> SUBSET Keys]

FenceInit ==
  /\ ctrl = None
  /\ ctrlChild = None
  /\ held = [p \in Procs |-> {}]
  /\ child = [p \in Procs |-> {}]

\* drive_identity.compatible_keys over the identities the catalog holds now.
KeysOf(D) == {<<d, drive[d].epoch>> : d \in D}

\* The canonical order of hold_drives_sorted.
KeyLeq(j, k) == j[1] < k[1] \/ (j[1] = k[1] /\ j[2] <= k[2])

\* Mutant: children do not inherit the descriptors (close_fds).
Free_NotInherited(k) == \A r \in Procs : k \notin held[r]

\* No other description of the key's lock file is locked.
Free(k) == \A r \in Procs : k \notin held[r] /\ k \notin child[r]

\* hold_controller, blocking: no open descriptor of a locked description remains.
ControllerFree == ctrl = None /\ ctrlChild = None
HoldController(p) == ControllerFree /\ ctrl' = p

\* One blocking _acquire of hold_drives_sorted: the least key not yet held.
HoldNextDrive(p, keys) ==
  \E k \in keys \ held[p] :
    /\ \A j \in keys \ held[p] : KeyLeq(k, j)
    /\ Free(k)
    /\ held' = [held EXCEPT ![p] = @ \cup {k}]

\* Handles are closed, never unlocked: what a child inherited stays locked.
CloseAll(p) ==
  /\ ctrl' = IF ctrl = p THEN None ELSE ctrl
  /\ held' = [held EXCEPT ![p] = {}]
  /\ UNCHANGED <<ctrlChild, child>>

=============================================================================

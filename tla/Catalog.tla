------------------------------ MODULE Catalog ------------------------------
(***************************************************************************)
(* The rows of the SQLite catalog that the control plane decides on        *)
(* (modelark/core/schema.sql), and the queries the Python code asks of     *)
(* them.  Every action of the other modules that reads or writes these     *)
(* variables is one committed SQLite transaction, or one autocommitted     *)
(* statement where the code opens no transaction.                          *)
(***************************************************************************)
EXTENDS Integers, FiniteSets

CONSTANTS
  Procs,        \* processes that open the catalog: portal, CLI, systemd resume
  Proposals,    \* placement proposal ids
  Sids,         \* execution session ids, numbered in the order of insertion
  Drives,       \* registered drives, numbered in the order of their lock keys
  DrivesOf,     \* DrivesOf[q]: target, source and satisfying drives of q's tasks
  Facts,        \* values of the semantic input hash of the catalog graph
  MaxRev,       \* bound on planner_revision
  MaxEpoch,     \* bound on drives.identity_epoch
  None          \* SQL NULL

ASSUME CatalogAssumption ==
  /\ Sids \subseteq Nat \ {0}
  /\ Drives \subseteq Nat
  /\ DrivesOf \in [Proposals -> SUBSET Drives]
  /\ MaxRev \in Nat
  /\ MaxEpoch \in Nat \ {0}
  /\ None \notin Procs \cup Proposals \cup Sids

VARIABLES
  planner_revision,     \* planner_state.planner_revision
  next_fencing_token,   \* planner_state.next_fencing_token
  active_approved,      \* planner_state.active_approved_proposal_id
  facts,                \* the graph facts _semantic_input_hash binds
  proposal,             \* placement_proposals
  session,              \* execution_sessions
  drive,                \* drives: identity_epoch and write_generation
  dirty,                \* drive_dirty_generations
  anchor                \* drive_clean_anchors

plannerVars == <<planner_revision, next_fencing_token, active_approved>>
driveVars   == <<drive, dirty, anchor>>
catalogVars == <<plannerVars, facts, proposal, session, driveVars>>

-----------------------------------------------------------------------------
LIVE_STATES      == {"starting", "running", "stopping"}
RESUMABLE_STATES == {"paused", "blocked", "stopped", "failed"}
TERMINAL_STATES  == RESUMABLE_STATES \cup {"done"}

Lifecycles == {"absent", "draft", "approved", "superseded"}

\* expires_at as the recovery code sees it: NULL, in the future, in the past.
Leases == {"null", "held", "expired"}

ProposalRow == [lifecycle : Lifecycles,
                based_on  : Nat,                 \* based_on_revision
                semantic  : Facts]               \* semantic_input_hash

SessionRow == [state  : {"absent"} \cup LIVE_STATES \cup TERMINAL_STATES,
               prop   : Proposals \cup {None},   \* approved_proposal_id
               pred   : Sids \cup {None},        \* resumed_from_session_id
               bound  : Nat,                     \* bound_planner_revision
               token  : Nat,                     \* fencing_token
               worker : Procs \cup {None},       \* worker_identity
               lease  : Leases,                  \* expires_at
               ended  : BOOLEAN]                 \* terminal_at IS NOT NULL

NoSession == [state |-> "absent", prop |-> None, pred |-> None, bound |-> 0,
              token |-> 0, worker |-> None, lease |-> "null", ended |-> FALSE]

Generation == [drive : Drives, epoch : Nat, gen : Nat]
DirtyRow   == [drive : Drives, epoch : Nat, gen : Nat,
               owner : Sids \cup {None}]         \* owner_session_id

CatalogTypeOK ==
  /\ planner_revision \in Nat
  /\ next_fencing_token \in Nat
  /\ active_approved \in Proposals \cup {None}
  /\ facts \in Facts
  /\ proposal \in [Proposals -> ProposalRow]
  /\ session \in [Sids -> SessionRow]
  /\ drive \in [Drives -> [epoch : Nat, gen : Nat]]
  /\ dirty \subseteq DirtyRow
  /\ anchor \subseteq Generation

-----------------------------------------------------------------------------
(* Queries. *)

\* live_session_exists / live_owner: at most one row by idx_execution_sessions_one_live.
Live == {s \in Sids : session[s].state \in LIVE_STATES}

\* proposal.current_draft_ids: drafts made against the current revision.
CurrentDrafts ==
  {q \in Proposals : /\ proposal[q].lifecycle = "draft"
                     /\ proposal[q].based_on = planner_revision}

\* execution_session._selected_approval: an omitted id means the active approval,
\* an explicit one must itself be the active approval.
SelectedApproval(requested) ==
  LET q == IF requested = None THEN active_approved ELSE requested
  IN  IF q \in Proposals /\ q = active_approved /\ proposal[q].lifecycle = "approved"
      THEN q
      ELSE None

\* execution_recovery.owned_dirty_generations.  The token column is the owner row's
\* own token, which never changes, so the session id identifies the pair.
OwnedDirty(s) == {r \in dirty : r.owner = s}

\* drive_mutation._generation_is_clean for the current generation of d.
CurrentGeneration(d) == [drive |-> d, epoch |-> drive[d].epoch, gen |-> drive[d].gen]
GenerationIsClean(d) == CurrentGeneration(d) \in anchor

=============================================================================

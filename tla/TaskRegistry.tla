----------------------------- MODULE TaskRegistry -----------------------------
(***************************************************************************)
(* The durable task table of pi_agent_bridge/registry.py as a value, and   *)
(* the registry's operations as operators on it.  Every registry method    *)
(* runs synchronously under one lock and one SQLite transaction, so each   *)
(* operator is a single indivisible step of whoever calls it.              *)
(*                                                                         *)
(* A row keeps what the lifecycle depends on: the status, the process id   *)
(* (the worker the row was last written for) and the event cursor up to    *)
(* which the worker's events were observed.  Owner, origin, prompt,        *)
(* context, paths and timestamps are left out.                             *)
(*                                                                         *)
(* A definition introduced by "Mutant:" is not part of the model, but a    *)
(* plausible bug in the definition that follows it.                        *)
(***************************************************************************)
EXTENDS Naturals

CONSTANTS
  Tasks,    \* task ids: uuid4 strings, never reused
  Workers,  \* Pi worker processes: each start of a process is a new one
  None      \* Python's None

ASSUME NoneAssumption == None \notin Tasks \cup Workers

Statuses == {"queued", "running", "needs_user_decision", "completed",
             "failed", "cancelled", "orphaned"}

\* A task whose row was not inserted yet, or was removed again.
Absent == {"unborn", "deleted"}

Terminal == {"completed", "failed", "cancelled"}

Active == {"running", "needs_user_decision"}

\* Mutant: a cancelled task can be resumed.
ResumableAgain == {"needs_user_decision", "orphaned", "cancelled"}

\* The rows that resume_task accepts.
Resumable == {"needs_user_decision", "orphaned"}

\* The transition table of the registry: where a row may go from status s.
Transitions(s) ==
  CASE s = "queued"              -> {"running", "cancelled", "failed"}
    [] s = "running"             -> {"needs_user_decision", "completed", "failed",
                                     "cancelled", "orphaned"}
    [] s = "needs_user_decision" -> {"running", "orphaned", "cancelled", "failed"}
    [] s = "orphaned"            -> {"running", "failed", "cancelled"}
    [] OTHER                     -> {}

Row == [status: Statuses \cup Absent, pid: Workers \cup {None}, cursor: Nat]

\* A fresh row, and what is left of one after DELETE.
NewRow(s) == [status |-> s, pid |-> None, cursor |-> 0]

\* transition_status raises unless the target is the current status or the
\* table allows the move.
CanMove(row, s) == s = row.status \/ s \in Transitions(row.status)

Moved(rows, t, s) == [rows EXCEPT ![t].status = s]

\* update_runtime and update_event_cursor overwrite only the fields given.
WithProcess(rows, t, w) == [rows EXCEPT ![t].pid = w]

WithCursor(rows, t, n) == [rows EXCEPT ![t].cursor = n]

\* delete_task, and purge_expired_tasks for one expired row.
Removed(rows, t) == [rows EXCEPT ![t] = NewRow("deleted")]

\* The scheduler's _mark_orphaned for every task of T at once: a row that may
\* become orphaned does, and its process id is cleared; others stay as they are.
MarkOrphaned(rows, T) ==
  [t \in Tasks |->
     IF t \in T /\ rows[t].status \in Active \cup {"orphaned"}
     THEN [rows[t] EXCEPT !.status = "orphaned", !.pid = None]
     ELSE rows[t]]
===============================================================================

----------------------------- MODULE TaskLifecycle -----------------------------
(***************************************************************************)
(* What the bridge promises about the life of a task, whoever works on it: *)
(*   - a task is completed only after a worker of its own reported         *)
(*     agent_end; nothing else ends in completed;                          *)
(*   - only a running task is orphaned, and an orphaned task goes back to  *)
(*     work only at an explicit resume, never by itself or at a restart;   *)
(*   - a completed, failed or cancelled task stays so until it is removed, *)
(*     and a removed one never comes back.                                 *)
(* Workers, coroutines, locks and the plugin's own life are not part of    *)
(* the promise.  TaskScheduler is shown to keep it.                        *)
(***************************************************************************)
CONSTANT Tasks

VARIABLES
  status,     \* the status of each task, "unborn" before and "deleted" after
  signalled,  \* the tasks whose agent has reported agent_end
  resuming    \* the tasks somebody is asking to resume

vars == <<status, signalled, resuming>>

Goes(t, from, to) == status[t] \in from /\ status'[t] = to

Submit(t) == Goes(t, {"unborn"}, "queued")

Start(t) == Goes(t, {"queued"}, "running")

Complete(t) == Goes(t, {"running"}, "completed") /\ t \in signalled

Fail(t) == Goes(t, {"queued", "running"}, "failed")

Cancel(t) == Goes(t, {"queued", "running", "orphaned"}, "cancelled")

Interrupt(t) == Goes(t, {"running"}, "orphaned")

Resume(t) == Goes(t, {"orphaned"}, "running") /\ t \in resuming \cup resuming'

Remove(t) ==
  Goes(t, {"queued", "running", "completed", "failed", "cancelled", "orphaned"}, "deleted")

Move(t) ==
  \/ Submit(t)
  \/ Start(t)
  \/ Complete(t)
  \/ Fail(t)
  \/ Cancel(t)
  \/ Interrupt(t)
  \/ Resume(t)
  \/ Remove(t)

Init ==
  /\ status = [t \in Tasks |-> "unborn"]
  /\ signalled = {}
  /\ resuming = {}

\* Several tasks may move in one step (a shutdown fails or orphans all of them);
\* a signal is never taken back.
Next ==
  /\ DOMAIN status' = Tasks
  /\ \A t \in Tasks : status'[t] = status[t] \/ Move(t)
  /\ signalled \subseteq signalled'
  /\ signalled' \subseteq Tasks
  /\ resuming' \subseteq Tasks

Spec == Init /\ [][Next]_vars
===============================================================================

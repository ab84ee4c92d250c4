----------------------------- MODULE TaskScheduler -----------------------------
(***************************************************************************)
(* pi_agent_bridge/scheduler.py and the parts of service.py, rpc.py and    *)
(* main.py that drive it: one asyncio event loop that launches, observes,  *)
(* steers, resumes, cancels and deletes tasks, each task served by a Pi    *)
(* worker process of its own, with the task rows in a durable registry.    *)
(*                                                                         *)
(* A coroutine runs without interruption from one suspending await to the  *)
(* next, so an action below is exactly such a run: it starts where the     *)
(* coroutine was suspended and covers everything up to its next await.     *)
(* Registry calls, dictionary updates and the start of a notification      *)
(* never suspend.  The two asyncio locks that are held across an await are *)
(* derived from where the coroutines are: SubmitLockFree and               *)
(* ObservationFree.                                                        *)
(*                                                                         *)
(* A definition introduced by "Mutant:" is not part of the model: it is a  *)
(* plausible bug in the definition that follows it, with which a property  *)
(* below must fail.                                                        *)
(***************************************************************************)
EXTENDS TaskRegistry, FiniteSets

CONSTANTS
  Clients,        \* slots for background launches, recovery and tool calls
  MaxConcurrent,  \* max_concurrent_tasks
  Retention,      \* session_retention_hours is set: ended tasks get purged
  Offered,        \* the tool calls clients make, a subset of ToolCalls
  Interruptions,  \* what may stop the plugin, a subset of {"unload", "crash"}
  MaxEvents,      \* bound: events a worker emits
  MaxRestarts     \* bound: times the plugin is stopped and loaded again

ToolCalls == {"poll", "follow_up", "resume", "cancel", "delete"}

ASSUME ClientsAssumption == Clients \cap Tasks = {} /\ None \notin Clients
ASSUME LimitAssumption == MaxConcurrent \in Nat \ {0}
ASSUME OptionsAssumption == /\ Retention \in BOOLEAN
                            /\ Offered \subseteq ToolCalls
                            /\ Interruptions \subseteq {"unload", "crash"}
ASSUME BoundsAssumption == MaxEvents \in Nat /\ MaxRestarts \in Nat

VARIABLES
  rows,      \* the registry's table
  adapters,  \* _adapters: the worker registered for a task, or None
  wk,        \* every worker process with its adapter
  co,        \* what every coroutine is doing
  notified,  \* _terminal_notified: (task, status) pairs the callback was given
  files,     \* tasks that own a workspace, session or agent directory
  phase,     \* where the plugin is between load and unload
  agenda,    \* tasks that startup recovery, or service shutdown, has to settle
  doomed,    \* the workers scheduler.shutdown is terminating
  epoch      \* times the plugin was loaded again

sys  == <<phase, agenda, doomed, epoch>>
vars == <<rows, adapters, wk, co, notified, files, sys>>

(***************************************************************************)
(* Coroutines.  The poll that the observer loop runs for task t is the     *)
(* coroutine t; every other one occupies a client slot.                    *)
(***************************************************************************)
Actors == Tasks \cup Clients

Ops == {"idle", "launch", "abandoned", "poll", "follow_up", "resume",
        "recover", "cancel", "delete"}

\* Where a coroutine is suspended: on a lock, on the process start, on the
\* RPC handshake, on the flush of the prompt, on get_state, on the answer to a
\* steer, on the way to releasing a worker, or on the end of a process.
Awaits == {"idle", "submit_lock", "starting", "handshake", "prompting",
           "obs_lock", "get_state", "steering", "releasing", "killing"}

Frame == [op: Ops, at: Awaits, t: Tasks \cup {None}, w: Workers \cup {None},
          seen: Statuses \cup Absent]

Call(op, at, t, w, seen) == [op |-> op, at |-> at, t |-> t, w |-> w, seen |-> seen]

Idle == Call("idle", "idle", None, None, "unborn")

At(a, ops, at) == co[a].op \in ops /\ co[a].at = at

Pending(t, ops) == \E a \in Actors : co[a].op \in ops /\ co[a].t = t

InFlight(t) == Pending(t, Ops \ {"idle"})

Goto(a, at) == co' = [co EXCEPT ![a].at = at]

GotoOn(a, at, w) == co' = [co EXCEPT ![a].at = at, ![a].w = w]

Return(a) == co' = [co EXCEPT ![a] = Idle]

HoldsSubmitLock(a) ==
  /\ co[a].op \in {"launch", "abandoned"}
  /\ co[a].at # "submit_lock"

\* Mutant: submit and its users take no lock.
NoSubmitLock == TRUE

SubmitLockFree == \A a \in Actors : ~HoldsSubmitLock(a)

\* Mutant: a poll that waits for the lock counts as one that holds it.
ObservationUncontended(t) ==
  Cardinality({a \in Actors : co[a].op = "poll" /\ co[a].t = t}) <= 1

ObservationFree(t) ==
  \A a \in Actors : co[a].op = "poll" /\ co[a].t = t => co[a].at = "obs_lock"

\* The observer loop is between two cycles: gather returned for every poll.
ObserverResting == \A t \in Tasks : co[t] = Idle

(***************************************************************************)
(* Workers.  "created" is an adapter whose process was not started,        *)
(* "closing" one on which terminate was called, "gone" a process that      *)
(* ended, and "stray" a process that outlived the plugin instance which    *)
(* started it.  ends holds the cursors of the agent_end events among the   *)
(* sent ones.                                                              *)
(***************************************************************************)
WorkerStates == {"unused", "created", "running", "closing", "gone", "stray"}

Worker == [st: WorkerStates, t: Tasks \cup {None}, sent: Nat, ends: SUBSET Nat]

\* is_running of an adapter that may be None.
Running(w) == w \in Workers /\ wk[w].st = "running"

\* Mutant: only a process of this plugin instance counts.
OwnProcessAlive(w) == w \in Workers /\ wk[w].st \in {"running", "closing"}

\* _is_process_alive on the recorded process id.
ProcessAlive(w) == w \in Workers /\ wk[w].st \in {"running", "closing", "stray"}

Started(w, t) == [wk EXCEPT ![w].st = "created", ![w].t = t]

\* Mutant: terminate() spares a process that still runs.
Spared(W) ==
  [w \in Workers |-> [wk[w] EXCEPT !.st = IF w \in W /\ @ = "created" THEN "gone" ELSE @]]

\* terminate() up to its first await, on every worker of W.
Closed(W) ==
  [w \in Workers |->
     [wk[w] EXCEPT !.st = IF w \in W /\ @ = "running" THEN "closing"
                          ELSE IF w \in W /\ @ = "created" THEN "gone" ELSE @]]

\* terminate() has returned.
Ended(w) == w = None \/ (w \in Workers /\ wk[w].st # "closing")

\* Mutant: a task that is over is taken to have no worker.
RegisteredRunning == {t \in Tasks : adapters[t] # None /\ rows[t].status = "running"}

Registered == {t \in Tasks : adapters[t] # None}

LiveTasks == {t \in Tasks : Running(adapters[t])}

(***************************************************************************)
(* The registry as a coroutine sees it: a lookup fails when the row is     *)
(* missing or the database is closed; the error ends the call.             *)
(***************************************************************************)
Present(t) == phase # "down" /\ rows[t].status \in Statuses

\* Mutant: notifications are kept by task instead of by task and status.
AnnouncedTask(t, s) == notified \cup {t}

Announced(t, s) == notified \cup {<<t, s>>}

\* Mutants: only a queued row fails, only a running row fails, nobody is told.
FailQueued(t) ==
  IF Present(t) /\ rows[t].status = "queued"
  THEN rows' = Moved(rows, t, "failed") /\ notified' = Announced(t, "failed")
  ELSE UNCHANGED <<rows, notified>>

FailStarted(t) ==
  IF Present(t) /\ rows[t].status = "running"
  THEN rows' = Moved(rows, t, "failed") /\ notified' = Announced(t, "failed")
  ELSE UNCHANGED <<rows, notified>>

FailQuietly(t) ==
  /\ rows' = IF Present(t) /\ rows[t].status \in {"queued", "running"}
             THEN Moved(rows, t, "failed") ELSE rows
  /\ UNCHANGED notified

\* _mark_failed_start, then _launch's notification of the status found.
FailLaunch(t) ==
  LET s == IF rows[t].status \in {"queued", "running"} THEN "failed"
           ELSE rows[t].status
  IN IF Present(t)
     THEN rows' = Moved(rows, t, s) /\ notified' = Announced(t, s)
     ELSE UNCHANGED <<rows, notified>>

Init ==
  /\ rows = [t \in Tasks |-> NewRow("unborn")]
  /\ adapters = [t \in Tasks |-> None]
  /\ wk = [w \in Workers |-> [st |-> "unused", t |-> None, sent |-> 0, ends |-> {}]]
  /\ co = [a \in Actors |-> Idle]
  /\ notified = {}
  /\ files = {}
  /\ phase = "up"
  /\ agenda = {}
  /\ doomed = {}
  /\ epoch = 0
-------------------------------------------------------------------------------
(***************************************************************************)
(* Launching: PiTaskService.create_task and its background _launch.        *)
(***************************************************************************)
\* create_task inserts the row and hands the launch to the event loop, which
\* runs it up to the submit lock.
Create(c, t) ==
  /\ phase = "up"
  /\ co[c] = Idle
  /\ rows[t].status = "unborn"
  /\ rows' = [rows EXCEPT ![t] = NewRow("queued")]
  /\ co' = [co EXCEPT ![c] = Call("launch", "submit_lock", t, None, "queued")]
  /\ UNCHANGED <<adapters, wk, notified, files, sys>>

\* submit got its lock, passed the limit and registers an adapter.  The row
\* is not read again here.
LaunchStarts(c, w) ==
  LET t == co[c].t IN
  /\ At(c, {"launch"}, "submit_lock")
  /\ SubmitLockFree
  /\ adapters[t] = None
  /\ Cardinality(LiveTasks) < MaxConcurrent
  /\ wk[w].st = "unused"
  /\ files' = files \cup {t}
  /\ adapters' = [adapters EXCEPT ![t] = w]
  /\ wk' = Started(w, t)
  /\ GotoOn(c, "starting", w)
  /\ UNCHANGED <<rows, notified, sys>>

\* submit raises before it has an adapter: the limit is reached, or the
\* worker's configuration or executable cannot be resolved.
LaunchRefused(c) ==
  LET t == co[c].t IN
  /\ At(c, {"launch"}, "submit_lock")
  /\ SubmitLockFree
  /\ IF adapters[t] # None \/ Cardinality(LiveTasks) >= MaxConcurrent
     THEN UNCHANGED files
     ELSE files' = files \cup {t}
  /\ FailLaunch(t)
  /\ Return(c)
  /\ UNCHANGED <<adapters, wk, sys>>

\* adapter.start() returned, in submit or in _restart_from_session.
ProcessStarts(c) ==
  /\ At(c, {"launch", "resume", "recover"}, "starting")
  /\ wk' = [wk EXCEPT ![co[c].w].st = "running"]
  /\ Goto(c, "handshake")
  /\ UNCHANGED <<rows, adapters, notified, files, sys>>

\* The handshake succeeded: record the process, mark the task running and
\* write the prompt.  (A worker that died right after its last answer makes the
\* write fail: the same as dying during the flush.)
LaunchReady(c) ==
  LET t == co[c].t IN
  /\ At(c, {"launch"}, "handshake")
  /\ Running(co[c].w)
  /\ Present(t)
  /\ CanMove(rows[t], "running")
  /\ rows' = Moved(WithProcess(rows, t, co[c].w), t, "running")
  /\ Goto(c, "prompting")
  /\ UNCHANGED <<adapters, wk, notified, files, sys>>

\* The prompt was flushed and the row is still there to be returned.
LaunchDone(c) ==
  /\ At(c, {"launch"}, "prompting")
  /\ Present(co[c].t)
  /\ Return(c)
  /\ UNCHANGED <<rows, adapters, wk, notified, files, sys>>

\* Any exception between registration and return: the process does not start,
\* an RPC fails, or the registry refuses the move.  Whatever adapter is
\* registered for the task is dropped, the launch's own one is terminated.
LaunchFails(c) ==
  LET t == co[c].t IN
  /\ \E at \in {"starting", "handshake", "prompting"} : At(c, {"launch"}, at)
  /\ \/ UNCHANGED rows
     \/ /\ co[c].at = "handshake"
        /\ Present(t)
        /\ ~CanMove(rows[t], "running")
        /\ rows' = WithProcess(rows, t, co[c].w)
  /\ adapters' = [adapters EXCEPT ![t] = None]
  /\ wk' = Closed({co[c].w})
  /\ Goto(c, "killing")
  /\ UNCHANGED <<notified, files, sys>>

LaunchFailed(c) ==
  /\ At(c, {"launch"}, "killing")
  /\ Ended(co[c].w)
  /\ FailLaunch(co[c].t)
  /\ Return(c)
  /\ UNCHANGED <<adapters, wk, files, sys>>
-------------------------------------------------------------------------------
(***************************************************************************)
(* Observation: poll_task, called by the observer loop and by clients.     *)
(***************************************************************************)
PollCall(t) == Call("poll", "obs_lock", t, None, "unborn")

\* One cycle of _observe_loop: a poll for each running task with a worker; the
\* next cycle waits for all of them.
ObserverCycle ==
  LET due == {t \in Registered : rows[t].status = "running"} IN
  /\ phase \in {"boot", "up", "stopping"}
  /\ ObserverResting
  /\ due # {}
  /\ co' = [a \in Actors |-> IF a \in due THEN PollCall(a) ELSE co[a]]
  /\ UNCHANGED <<rows, adapters, wk, notified, files, sys>>

\* The observation lock is granted, and there is nothing to observe.
PollFindsNothing(a) ==
  LET t == co[a].t IN
  /\ At(a, {"poll"}, "obs_lock")
  /\ ObservationFree(t)
  /\ \/ ~Present(t)
     \/ rows[t].status \in Terminal
     \/ adapters[t] = None /\ rows[t].status # "running"
  /\ Return(a)
  /\ UNCHANGED <<rows, adapters, wk, notified, files, sys>>

\* A running task has no worker: it is orphaned on the spot.
PollFindsNoWorker(a) ==
  LET t == co[a].t IN
  /\ At(a, {"poll"}, "obs_lock")
  /\ ObservationFree(t)
  /\ Present(t)
  /\ rows[t].status = "running"
  /\ adapters[t] = None
  /\ rows' = Moved(rows, t, "orphaned")
  /\ notified' = Announced(t, "orphaned")
  /\ Return(a)
  /\ UNCHANGED <<adapters, wk, files, sys>>

\* get_state is sent; a worker that is not running fails it at once, which the
\* next action covers by running at once.
PollAsksState(a) ==
  LET t == co[a].t IN
  /\ At(a, {"poll"}, "obs_lock")
  /\ ObservationFree(t)
  /\ Present(t)
  /\ rows[t].status \notin Terminal
  /\ adapters[t] # None
  /\ GotoOn(a, "get_state", adapters[t])
  /\ UNCHANGED <<rows, adapters, wk, notified, files, sys>>

\* Mutant: off by one.
SawLaterEnd(t, w) == \E e \in wk[w].ends : e > rows[t].cursor + 1

\* The events after the row's cursor hold an agent_end.  (The code reads the
\* cursor before get_state; only polls of t move it, one at a time.)
SawAgentEnd(t, w) == \E e \in wk[w].ends : e > rows[t].cursor

\* Mutants: a worker that exited has finished its task, or is waited for.
VerdictExitCompletes(t, w) ==
  IF rows[t].status \notin Active THEN rows[t].status
  ELSE IF SawAgentEnd(t, w) \/ ~Running(w) THEN "completed"
  ELSE rows[t].status

VerdictExitIgnored(t, w) ==
  IF rows[t].status \in Active /\ SawAgentEnd(t, w) THEN "completed" ELSE rows[t].status

\* What the events and the process tell of an active task.
Verdict(t, w) ==
  IF rows[t].status \notin Active THEN rows[t].status
  ELSE IF SawAgentEnd(t, w) THEN "completed"
  ELSE IF ~Running(w) THEN "orphaned"
  ELSE rows[t].status

\* get_state returned or failed: drain the buffer, store the cursor, settle the
\* task.  A settled task is announced and its worker is to be released.
PollReads(a) ==
  LET t == co[a].t
      w == co[a].w
      s == Verdict(t, w) IN
  /\ At(a, {"poll"}, "get_state")
  /\ Present(t)
  /\ rows' = Moved(WithCursor(rows, t, wk[w].sent), t, s)
  /\ IF s # rows[t].status
     THEN notified' = Announced(t, s) /\ Goto(a, "releasing")
     ELSE UNCHANGED notified /\ Return(a)
  /\ UNCHANGED <<adapters, wk, files, sys>>

\* The row disappeared, or the registry was closed, during get_state.
PollLosesRow(a) ==
  /\ At(a, {"poll"}, "get_state")
  /\ ~Present(co[a].t)
  /\ Return(a)
  /\ UNCHANGED <<rows, adapters, wk, notified, files, sys>>

\* _release_terminal_worker, for a poll (after its callback) and for a cancel
\* (after its abort).  If the task's registered worker is not this one any
\* more, the caller goes on without waiting for anything.
Release(a) ==
  LET t == co[a].t IN
  /\ At(a, {"poll", "cancel"}, "releasing")
  /\ SubmitLockFree
  /\ IF adapters[t] = co[a].w
     THEN /\ adapters' = [adapters EXCEPT ![t] = None]
          /\ wk' = Closed({co[a].w})
          /\ Goto(a, "killing")
     ELSE /\ GotoOn(a, "killing", None)
          /\ UNCHANGED <<adapters, wk>>
  /\ UNCHANGED <<rows, notified, files, sys>>

\* A poll or a resume whose worker is closed has nothing left to do.
KillerReturns(a) ==
  /\ At(a, {"poll", "resume", "abandoned"}, "killing")
  /\ Ended(co[a].w)
  /\ Return(a)
  /\ UNCHANGED <<rows, adapters, wk, notified, files, sys>>
-------------------------------------------------------------------------------
(***************************************************************************)
(* Tool calls on an existing task.  Until terminate() has shut the service *)
(* down, they reach the scheduler.                                         *)
(***************************************************************************)
Calls(c, t, op) ==
  /\ op \in Offered
  /\ phase \in {"up", "stopping"}
  /\ co[c] = Idle
  /\ Present(t)

Poll(c, t) ==
  /\ Calls(c, t, "poll")
  /\ co' = [co EXCEPT ![c] = PollCall(t)]
  /\ UNCHANGED <<rows, adapters, wk, notified, files, sys>>

\* follow_up writes its steer to a live worker.
FollowUp(c, t) ==
  /\ Calls(c, t, "follow_up")
  /\ rows[t].status \in Active
  /\ Running(adapters[t])
  /\ rows' = Moved(rows, t, "running")
  /\ co' = [co EXCEPT ![c] = Call("follow_up", "steering", t, adapters[t], "unborn")]
  /\ UNCHANGED <<adapters, wk, notified, files, sys>>

\* resume of a task whose worker still runs: only a steer.
ResumeInPlace(c, t) ==
  /\ Calls(c, t, "resume")
  /\ rows[t].status \in Active \cup Resumable
  /\ Running(adapters[t])
  /\ rows' = Moved(rows, t, "running")
  /\ co' = [co EXCEPT ![c] = Call("resume", "steering", t, adapters[t], rows[t].status)]
  /\ UNCHANGED <<adapters, wk, notified, files, sys>>

\* resume of a task without a live worker: _restart_from_session starts one,
\* unregistered, without the submit lock and without the limit.
ResumeRestarts(c, t, w) ==
  /\ Calls(c, t, "resume")
  /\ rows[t].status \in Active \cup Resumable
  /\ ~Running(adapters[t])
  /\ ~ProcessAlive(rows[t].pid)
  /\ wk[w].st = "unused"
  /\ wk' = Started(w, t)
  /\ files' = files \cup {t}
  /\ co' = [co EXCEPT ![c] = Call("resume", "starting", t, w, rows[t].status)]
  /\ UNCHANGED <<rows, adapters, notified, sys>>

\* The restarted worker answered: register it over whatever is there, record
\* it, bring the row back to running if the status read at the start asks for
\* it, and steer.  Each of those steps may raise, and resume then ends without
\* undoing the ones before it.
ResumeReady(c) ==
  LET t == co[c].t
      w == co[c].w
      revive == co[c].seen \in Resumable IN
  /\ At(c, {"resume"}, "handshake")
  /\ Present(t)
  /\ adapters' = [adapters EXCEPT ![t] = w]
  /\ rows' = IF revive /\ rows[t].status \in Resumable
             THEN Moved(WithProcess(rows, t, w), t, "running")
             ELSE WithProcess(rows, t, w)
  /\ IF Running(w) /\ (revive => rows[t].status \in Resumable)
     THEN Goto(c, "steering")
     ELSE Return(c)
  /\ UNCHANGED <<wk, notified, files, sys>>

\* The restarted worker answered but its row is gone: it stays registered and
\* is terminated.
RestartLosesRow(c) ==
  LET t == co[c].t IN
  /\ At(c, {"resume", "recover"}, "handshake")
  /\ ~Present(t)
  /\ adapters' = [adapters EXCEPT ![t] = co[c].w]
  /\ wk' = Closed({co[c].w})
  /\ Goto(c, "killing")
  /\ UNCHANGED <<rows, notified, files, sys>>

\* The restarted process does not start or does not answer.
RestartFails(c) ==
  /\ \E at \in {"starting", "handshake"} : At(c, {"resume", "recover"}, at)
  /\ wk' = Closed({co[c].w})
  /\ Goto(c, "killing")
  /\ UNCHANGED <<rows, adapters, notified, files, sys>>

\* The steer was acknowledged: follow_up and resume go on to a poll.
Steered(c) ==
  /\ At(c, {"follow_up", "resume"}, "steering")
  /\ co' = [co EXCEPT ![c] = PollCall(co[c].t)]
  /\ UNCHANGED <<rows, adapters, wk, notified, files, sys>>

\* The steer was refused or not answered in time: the call ends.
SteerFails(c) ==
  /\ At(c, {"follow_up", "resume"}, "steering")
  /\ Return(c)
  /\ UNCHANGED <<rows, adapters, wk, notified, files, sys>>

\* cancel of a task without a live worker settles at once.
CancelNow(c, t) ==
  /\ Calls(c, t, "cancel")
  /\ ~Running(adapters[t])
  /\ rows[t].status \notin Terminal
  /\ rows' = Moved(rows, t, "cancelled")
  /\ notified' = Announced(t, "cancelled")
  /\ UNCHANGED <<adapters, wk, co, files, sys>>

\* cancel of a task with a live worker first sends abort; the status it read
\* decides later whether to settle the row.
CancelAborts(c, t) ==
  /\ Calls(c, t, "cancel")
  /\ Running(adapters[t])
  /\ co' = [co EXCEPT ![c] = Call("cancel", "releasing", t, adapters[t], rows[t].status)]
  /\ UNCHANGED <<rows, adapters, wk, notified, files, sys>>

CancelSettles(c) ==
  LET t == co[c].t IN
  /\ At(c, {"cancel"}, "killing")
  /\ Ended(co[c].w)
  /\ IF Present(t) /\ co[c].seen \notin Terminal /\ CanMove(rows[t], "cancelled")
     THEN rows' = Moved(rows, t, "cancelled") /\ notified' = Announced(t, "cancelled")
     ELSE UNCHANGED <<rows, notified>>
  /\ Return(c)
  /\ UNCHANGED <<adapters, wk, files, sys>>

Delete(c, t) ==
  /\ Calls(c, t, "delete")
  /\ co' = [co EXCEPT ![c] = Call("delete", "submit_lock", t, None, "unborn")]
  /\ UNCHANGED <<rows, adapters, wk, notified, files, sys>>

\* Mutants: delete takes no lock; or it is granted in any order.
DeleteUnlocked(c) == At(c, {"delete"}, "submit_lock")

DeleteOvertakes(c) == At(c, {"delete"}, "submit_lock") /\ SubmitLockFree

\* delete has the submit lock.  The lock is granted in FIFO order and a task's
\* launch asks for it before anybody knows the task, so a delete comes after.
DeleteLocked(c) ==
  /\ At(c, {"delete"}, "submit_lock")
  /\ SubmitLockFree
  /\ ~Pending(co[c].t, {"launch"})

\* It found a worker, which is unregistered and terminated.
DeleteTakesWorker(c) ==
  LET t == co[c].t IN
  /\ DeleteLocked(c)
  /\ adapters[t] # None
  /\ adapters' = [adapters EXCEPT ![t] = None]
  /\ wk' = Closed({adapters[t]})
  /\ GotoOn(c, "killing", adapters[t])
  /\ UNCHANGED <<rows, notified, files, sys>>

\* There is no worker, or it ended: the row and then the task's directories
\* are removed.
DeleteRemoves(c) ==
  LET t == co[c].t IN
  /\ \/ DeleteLocked(c) /\ adapters[t] = None
     \/ At(c, {"delete"}, "killing") /\ Ended(co[c].w)
  /\ IF Present(t)
     THEN rows' = Removed(rows, t) /\ files' = files \ {t}
     ELSE UNCHANGED <<rows, files>>
  /\ Return(c)
  /\ UNCHANGED <<adapters, wk, notified, sys>>

\* cleanup_expired_tasks, at the top of an observer cycle or at the start of
\* recovery: an expired row goes with its directories; a worker still
\* registered is terminated in the background.  The retention time is an hour
\* or more (_conf_schema.json), so whatever was under way for the task when it
\* ended is over.
Purge(t) ==
  /\ Retention
  /\ phase \in {"boot", "up", "stopping"}
  /\ ObserverResting
  /\ rows[t].status \in Terminal
  /\ ~InFlight(t)
  /\ rows' = Removed(rows, t)
  /\ files' = files \ {t}
  /\ adapters' = [adapters EXCEPT ![t] = None]
  /\ wk' = Closed({adapters[t]})
  /\ UNCHANGED <<co, notified, sys>>
-------------------------------------------------------------------------------
(***************************************************************************)
(* Unloading: PiTaskService.shutdown, then TaskScheduler.shutdown, then    *)
(* the registry is closed.                                                 *)
(***************************************************************************)
\* Every pending launch is cancelled where it is suspended.  One that has an
\* adapter drops it and terminates it; one that was already terminating its
\* adapter, or was waiting for the lock, just ends.
StopService ==
  LET launches == {c \in Clients : co[c].op = "launch"}
      halfway  == {c \in launches : co[c].at \in {"starting", "handshake", "prompting"}}
  IN
  /\ "unload" \in Interruptions
  /\ phase = "up"
  /\ epoch < MaxRestarts
  /\ phase' = "stopping"
  /\ agenda' = {t \in Tasks : \E c \in launches : co[c].t = t}
  /\ adapters' = [t \in Tasks |->
                    IF \E c \in halfway : co[c].t = t THEN None ELSE adapters[t]]
  /\ wk' = Closed({w \in Workers : \E c \in halfway : co[c].w = w})
  /\ co' = [a \in Actors |->
              IF a \in halfway
              THEN [co[a] EXCEPT !.op = "abandoned", !.at = "killing"]
              ELSE IF a \in launches THEN Idle ELSE co[a]]
  /\ UNCHANGED <<rows, notified, files, doomed, epoch>>

\* The launches are over: tasks still queued become failed.  The scheduler is
\* then closed and the observer cancelled together with the polls it runs.
StopObserver ==
  /\ phase = "stopping"
  /\ \A c \in Clients : co[c].op \notin {"launch", "abandoned"}
  /\ rows' = [t \in Tasks |->
                IF t \in agenda /\ rows[t].status = "queued"
                THEN [rows[t] EXCEPT !.status = "failed"] ELSE rows[t]]
  /\ co' = [a \in Actors |-> IF a \in Tasks THEN Idle ELSE co[a]]
  /\ phase' = "closing"
  /\ agenda' = {}
  /\ UNCHANGED <<adapters, wk, notified, files, doomed, epoch>>

\* Under the submit lock the registered workers are taken over and terminated;
\* with none there is nothing to wait for, and the registry is closed.
StopWorkers ==
  /\ phase = "closing"
  /\ SubmitLockFree
  /\ doomed' = {adapters[t] : t \in Registered}
  /\ adapters' = [t \in Tasks |-> IF t \in Registered THEN None ELSE adapters[t]]
  /\ wk' = Closed(doomed')
  /\ phase' = IF doomed' = {} THEN "down" ELSE "killing"
  /\ UNCHANGED <<rows, co, notified, files, agenda, epoch>>

\* They ended: their tasks are orphaned, and the registry is closed.
CloseRegistry ==
  /\ phase = "killing"
  /\ \A w \in doomed : Ended(w)
  /\ rows' = MarkOrphaned(rows, {wk[w].t : w \in doomed})
  /\ doomed' = {}
  /\ phase' = "down"
  /\ UNCHANGED <<adapters, wk, co, notified, files, agenda, epoch>>

\* The host process dies: all of the event loop is lost, and any of the worker
\* processes may live on.
Crash ==
  LET alive == {w \in Workers : wk[w].st \in {"running", "closing"}} IN
  /\ "crash" \in Interruptions
  /\ phase # "down"
  /\ epoch < MaxRestarts
  /\ \E survivors \in SUBSET alive :
       wk' = [w \in Workers |->
                [wk[w] EXCEPT !.st = IF w \in survivors THEN "stray"
                                     ELSE IF w \in alive \/ @ = "created"
                                     THEN "gone" ELSE @]]
  /\ co' = [a \in Actors |-> Idle]
  /\ adapters' = [t \in Tasks |-> None]
  /\ agenda' = {}
  /\ doomed' = {}
  /\ phase' = "down"
  /\ UNCHANGED <<rows, notified, files, epoch>>
-------------------------------------------------------------------------------
(***************************************************************************)
(* Loading again: a new scheduler on the old table.  Its observer starts   *)
(* first, then recovery goes through the interrupted tasks one by one;     *)
(* tool calls come after it.                                               *)
(***************************************************************************)
Load ==
  /\ phase = "down"
  /\ \A a \in Actors : co[a] = Idle
  /\ phase' = "boot"
  /\ epoch' = epoch + 1
  /\ agenda' = {t \in Tasks : rows[t].status \in Active}
  /\ notified' = {}
  /\ adapters' = [t \in Tasks |-> None]
  /\ wk' = [w \in Workers |->
              [wk[w] EXCEPT !.st = IF @ \in {"running", "closing"} THEN "stray" ELSE @]]
  /\ UNCHANGED <<rows, co, files, doomed>>

\* recover_existing_tasks turns to its next candidate.
Recovers(t) ==
  /\ phase = "boot"
  /\ \A c \in Clients : co[c] = Idle
  /\ t \in agenda
  /\ agenda' = agenda \ {t}

\* Mutant: off by one.
RecoveryHasRoom == Cardinality(Registered) <= MaxConcurrent

RecoveryHasSlot == Cardinality(Registered) < MaxConcurrent

\* The limit is reached: the task is orphaned, and nobody is told.
RecoverySkips(t) ==
  /\ Recovers(t)
  /\ ~RecoveryHasSlot
  /\ rows' = MarkOrphaned(rows, {t})
  /\ UNCHANGED <<adapters, wk, co, notified, files, phase, doomed, epoch>>

\* Mutant: a task that cannot be recovered is only reported.
RecoveryReports(t) ==
  /\ notified' = IF Present(t) THEN Announced(t, rows[t].status) ELSE notified
  /\ UNCHANGED rows

\* Mutant: a task that cannot be recovered is orphaned in silence.
RecoverySilent(t) == rows' = MarkOrphaned(rows, {t}) /\ UNCHANGED notified

\* _mark_orphaned and the notification of the row it returns.
RecoveryOrphans(t) ==
  /\ rows' = MarkOrphaned(rows, {t})
  /\ notified' = IF Present(t) THEN Announced(t, rows'[t].status) ELSE notified

\* The old process is alive, or there is no native session to restart from.
RecoveryImpossible(t) ==
  /\ Recovers(t)
  /\ RecoveryHasSlot
  /\ RecoveryOrphans(t)
  /\ UNCHANGED <<adapters, wk, co, files, phase, doomed, epoch>>

RecoveryRestarts(c, t, w) ==
  /\ Recovers(t)
  /\ RecoveryHasSlot
  /\ ~ProcessAlive(rows[t].pid)
  /\ wk[w].st = "unused"
  /\ wk' = Started(w, t)
  /\ files' = files \cup {t}
  /\ co' = [co EXCEPT ![c] = Call("recover", "starting", t, w, rows[t].status)]
  /\ UNCHANGED <<rows, adapters, notified, phase, doomed, epoch>>

\* The restarted worker answered: register, record and steer it.
RecoveryReady(c) ==
  LET t == co[c].t IN
  /\ At(c, {"recover"}, "handshake")
  /\ Present(t)
  /\ adapters' = [adapters EXCEPT ![t] = co[c].w]
  /\ rows' = WithProcess(rows, t, co[c].w)
  /\ Goto(c, "steering")
  /\ UNCHANGED <<wk, notified, files, sys>>

\* The steer was acknowledged: this task is recovered.
RecoverySteered(c) ==
  /\ At(c, {"recover"}, "steering")
  /\ Return(c)
  /\ UNCHANGED <<rows, adapters, wk, notified, files, sys>>

\* The steer failed: the worker is dropped again.
RecoverySteerFails(c) ==
  LET t == co[c].t IN
  /\ At(c, {"recover"}, "steering")
  /\ adapters' = [adapters EXCEPT ![t] = None]
  /\ wk' = Closed({co[c].w})
  /\ Goto(c, "killing")
  /\ UNCHANGED <<rows, notified, files, sys>>

RecoveryGivesUp(c) ==
  /\ At(c, {"recover"}, "killing")
  /\ Ended(co[c].w)
  /\ RecoveryOrphans(co[c].t)
  /\ Return(c)
  /\ UNCHANGED <<adapters, wk, files, sys>>

\* Recovery is over and the service is published.
Publish ==
  /\ phase = "boot"
  /\ agenda = {}
  /\ \A c \in Clients : co[c] = Idle
  /\ phase' = "up"
  /\ UNCHANGED <<rows, adapters, wk, co, notified, files, agenda, doomed, epoch>>
-------------------------------------------------------------------------------
(***************************************************************************)
(* The worker processes.                                                   *)
(***************************************************************************)
\* Nothing was asked of w yet: its start-up RPCs are still going on.
Untold(w) ==
  \E a \in Actors : co[a].w = w /\ co[a].at \in {"starting", "handshake"}

\* The adapter of a worker that was given work records its next event.
WorkerEvent(w) ==
  /\ wk[w].st = "running"
  /\ ~Untold(w)
  /\ wk[w].sent < MaxEvents
  /\ \E ends \in {wk[w].ends, wk[w].ends \cup {wk[w].sent + 1}} :
       wk' = [wk EXCEPT ![w].sent = @ + 1, ![w].ends = ends]
  /\ UNCHANGED <<rows, adapters, co, notified, files, sys>>

\* A process ends: by itself, or because terminate() told it to.
WorkerEnds(w) ==
  /\ wk[w].st \in {"running", "closing", "stray"}
  /\ wk' = [wk EXCEPT ![w].st = "gone"]
  /\ UNCHANGED <<rows, adapters, co, notified, files, sys>>
-------------------------------------------------------------------------------
(***************************************************************************)
(* The specification.                                                      *)
(***************************************************************************)
\* What coroutine a does when its await is over.
Continue(a) ==
  \/ PollFindsNothing(a)
  \/ PollFindsNoWorker(a)
  \/ PollAsksState(a)
  \/ PollReads(a)
  \/ PollLosesRow(a)
  \/ Release(a)
  \/ KillerReturns(a)
  \/ \E w \in Workers : LaunchStarts(a, w)
  \/ LaunchRefused(a)
  \/ ProcessStarts(a)
  \/ LaunchReady(a)
  \/ LaunchDone(a)
  \/ LaunchFails(a)
  \/ LaunchFailed(a)
  \/ ResumeReady(a)
  \/ RestartLosesRow(a)
  \/ RestartFails(a)
  \/ Steered(a)
  \/ SteerFails(a)
  \/ CancelSettles(a)
  \/ DeleteTakesWorker(a)
  \/ DeleteRemoves(a)
  \/ RecoveryReady(a)
  \/ RecoverySteered(a)
  \/ RecoverySteerFails(a)
  \/ RecoveryGivesUp(a)

\* A client calls a tool.
CallTool(c, t) ==
  \/ Create(c, t)
  \/ Poll(c, t)
  \/ FollowUp(c, t)
  \/ ResumeInPlace(c, t)
  \/ \E w \in Workers : ResumeRestarts(c, t, w)
  \/ CancelNow(c, t)
  \/ CancelAborts(c, t)
  \/ Delete(c, t)

\* The plugin is unloaded.
Unload == StopService \/ StopObserver \/ StopWorkers \/ CloseRegistry

\* The plugin is loaded again.
Recover(t) ==
  \/ RecoverySkips(t)
  \/ RecoveryImpossible(t)
  \/ \E c \in Clients, w \in Workers : RecoveryRestarts(c, t, w)

Next ==
  \/ \E a \in Actors : Continue(a)
  \/ \E c \in Clients, t \in Tasks : CallTool(c, t)
  \/ ObserverCycle
  \/ \E t \in Tasks : Purge(t)
  \/ Unload
  \/ Crash
  \/ Load
  \/ \E t \in Tasks : Recover(t)
  \/ Publish
  \/ \E w \in Workers : WorkerEvent(w)
  \/ \E w \in Workers : WorkerEnds(w)

Spec == Init /\ [][Next]_vars

\* The event loop runs every coroutine whose await is over; the asyncio locks
\* wake their waiters in FIFO order, so a coroutine that can get a lock again
\* and again does get it (SF); every RPC ends by its timeout, so no
\* await on a worker is forever (PiRpc shows what this takes: a worker that reads
\* its input); the observer loop goes on; and terminate() kills a process that does
\* not end within five seconds.
Fairness ==
  /\ \A a \in Actors : SF_vars(Continue(a))
  /\ WF_vars(ObserverCycle)
  /\ \A w \in Workers : WF_vars(wk[w].st = "closing" /\ WorkerEnds(w))

FairSpec == Spec /\ Fairness
-------------------------------------------------------------------------------
(***************************************************************************)
(* Properties.                                                             *)
(***************************************************************************)
\* Values of every variable; a busy coroutine names a task, and one that waits
\* for a worker names that worker (what the handlers rely on when they resume).
FrameOK(f) ==
  /\ f.op # "idle" => f.t \in Tasks
  /\ f.at \in {"starting", "handshake", "prompting", "get_state", "steering"}
       => f.w \in Workers

TypeOK ==
  /\ rows \in [Tasks -> Row]
  /\ adapters \in [Tasks -> Workers \cup {None}]
  /\ wk \in [Workers -> Worker]
  /\ co \in [Actors -> Frame] /\ \A a \in Actors : FrameOK(co[a])
  /\ notified \subseteq Tasks \X Statuses
  /\ files \subseteq Tasks
  /\ phase \in {"boot", "up", "stopping", "closing", "killing", "down"}
  /\ agenda \subseteq Tasks
  /\ doomed \subseteq Workers
  /\ epoch \in Nat

\* A finished task stays what it is whatever calls, polls, launches, recoveries
\* and shutdowns are still under way for it; its row can only be removed.
TerminalFinal ==
  [][\A t \in Tasks : rows[t].status \in Terminal =>
       rows'[t].status \in {rows[t].status, "deleted"}]_vars

\* completed is never a guess: some worker of this very task signalled
\* agent_end (_observe_task's comment on the native signal).
CompletedByAgentEnd ==
  \A t \in Tasks : rows[t].status = "completed" =>
    \E w \in Workers : wk[w].t = t /\ wk[w].ends # {}

\* Coroutine a is starting a worker that is not registered yet.
Restarting(a, w) ==
  /\ co[a].w = w
  /\ co[a].op \in {"resume", "recover"}
  /\ co[a].at \in {"starting", "handshake"}

\* No worker process runs out of the scheduler's sight: it is registered for
\* its task, or a restart that will register or terminate it is under way.
Supervised ==
  \A w \in Workers : wk[w].st = "running" =>
    \/ adapters[wk[w].t] = w
    \/ \E a \in Actors : Restarting(a, w)

\* At most max_concurrent_tasks worker processes run at a time, not counting those that
\* are being terminated or outlived a crash.
WorkersWithinLimit ==
  Cardinality({w \in Workers : wk[w].st = "running"}) <= MaxConcurrent

\* While the plugin serves calls, a running task has a registered worker, so
\* the observer polls it, or a call that will settle it is under way: no task
\* is left running for ever with nobody looking.
RunningIsWatched ==
  \A t \in Tasks : phase = "up" /\ rows[t].status = "running" =>
    \/ adapters[t] # None
    \/ Pending(t, {"launch", "cancel", "delete"})

\* Until a crash, a queued task has its launch still to come, or is on the list
\* of those that service shutdown fails.
QueuedHasLaunch ==
  \A t \in Tasks : rows[t].status = "queued" =>
    Pending(t, {"launch"}) \/ (phase = "stopping" /\ t \in agenda)

\* When, with the plugin at work, nothing is under way for a task that is over or
\* interrupted, none of its workers runs: its slot is free again.
SettledFreesSlot ==
  \A t \in Tasks :
    phase \in {"boot", "up"} /\ rows[t].status \in Terminal \cup {"orphaned", "deleted"} =>
      InFlight(t) \/ \A w \in Workers : wk[w].t = t => wk[w].st # "running"

\* w is the only worker that t ever had: the task was never restarted.
OnlyWorker(t, w) == \A v \in Workers : wk[v].t = t => v = w

\* The observation cursor of a running task that was never restarted does not
\* move past an agent_end of its worker: the signal is still ahead, to be seen by
\* a later poll.  (A restarted worker numbers its events from 1 again while the row
\* keeps the cursor: run stale_cursor.)
NoEndSkipped ==
  \A t \in Tasks, w \in Workers :
    rows[t].status = "running" /\ adapters[t] = w /\ OnlyWorker(t, w) =>
      \A e \in wk[w].ends : e > rows[t].cursor

Resting == Terminal \cup {"orphaned"}

\* A task that completes, fails or is cancelled is handed to the notification
\* callback in that very step, and never was before: a user hears of an end once,
\* whatever restarts the task has behind it.  (Unloading alone fails queued tasks
\* in silence.)
FinishAnnounced ==
  [][\A t \in Tasks :
       phase' = phase /\ rows[t].status \notin Terminal /\ rows'[t].status \in Terminal =>
         <<t, rows'[t].status>> \in notified' \ notified]_vars

\* The same for every task that stops running, the orphaned ones included, as
\* long as nobody resumes: a task that is orphaned a second time has had its one
\* notification.  (Unloading and a recovery without a free slot are silent.)
EndAnnounced ==
  [][\A t \in Tasks :
       /\ phase' = phase /\ (agenda' = agenda \/ RecoveryHasSlot)
       /\ rows[t].status \notin Resting /\ rows'[t].status \in Resting
       => <<t, rows'[t].status>> \in notified' \ notified]_vars

\* When the plugin is unloaded and its last call has returned, no worker it
\* manages is left running.
UnloadStopsWorkers ==
  phase = "down" /\ (\A a \in Actors : co[a] = Idle) => LiveTasks = {}

\* A task never has two live worker processes, of this or of an earlier
\* instance of the plugin.  (As long as nobody resumes; and with crashes only
\* across one further load, MaxRestarts = 1: one that hits a recovery between the
\* start of its worker and the recording of its process id leaves a process that
\* the load after that does not know of.)
OneProcessPerTask ==
  \A v, w \in {x \in Workers : wk[x].st \in {"running", "closing", "stray"}} :
    wk[v].t = wk[w].t => v = w

\* Once a task was removed and no call on it is under way, none of its
\* directories is left.
DeletedHasNoFiles ==
  \A t \in Tasks : rows[t].status = "deleted" /\ t \in files =>
    InFlight(t)

\* The lifecycle promised for every task, as this scheduler realises it.
Lifecycle == INSTANCE TaskLifecycle WITH
  status    <- [t \in Tasks |-> rows[t].status],
  signalled <- {t \in Tasks : \E w \in Workers : wk[w].t = t /\ wk[w].ends # {}},
  resuming  <- {t \in Tasks : Pending(t, {"resume"})}

\* Every step of the scheduler is a step of the promised lifecycle.
KeepsLifecycle == Lifecycle!Spec

\* The workers as their users know them.  A process that outlived its plugin
\* instance has no adapter any more.
Adapter == INSTANCE PiWorker WITH
  st   <- [w \in Workers |-> IF wk[w].st \in {"unused", "created"} THEN "new"
                             ELSE IF wk[w].st = "stray" THEN "gone" ELSE wk[w].st],
  sent <- [w \in Workers |-> wk[w].sent],
  ends <- [w \in Workers |-> wk[w].ends]

\* However calls, shutdowns and recoveries overtake each other, no worker is started
\* twice or after it was terminated, and what it has told stays told.
KeepsContract == Adapter!Spec

\* Every launch ends: the task starts, fails, or is cancelled or removed.
LaunchSettles ==
  \A t \in Tasks : rows[t].status = "queued" ~> rows[t].status # "queued"

\* An agent_end of the worker in charge is observed in time.
EndObserved ==
  \A t \in Tasks :
    rows[t].status = "running" /\ adapters[t] # None /\ wk[adapters[t]].ends # {}
      ~> rows[t].status # "running"

\* A running task whose worker died does not stay running.
DeathObserved ==
  \A t \in Tasks :
    rows[t].status = "running" /\ ~Running(adapters[t]) ~> rows[t].status # "running"

\* Every call and every poll returns: the locks never block each other.
CallsReturn == \A a \in Actors : co[a] # Idle ~> co[a] = Idle
===============================================================================

# A verification project for the Pi agent plugin

The plugin (`src/main.py`, `src/pi_agent_bridge/`) lets AstrBot's main model hand long tasks to
Pi, a coding agent that runs as a child process of its own for every task.  This directory models
the plugin's control in TLA+, checks it with TLC and proves the most important facts with TLAPS.

All of the plugin runs in one asyncio event loop.  Between two suspending `await`s nothing else
runs, so **an action of a model is one run of a coroutine from one suspension to the next**: it
covers every state change on the way, including the ones made in functions it calls.

## 1. The system

| Part | State it keeps | Operations | What makes it correct |
|---|---|---|---|
| `registry.py` TaskRegistry, `models.py` | the SQLite table of tasks: status, process id, event cursor, session, timestamps | create, transition (by a table), resume, update runtime and cursor, detach, delete, purge | rows move along the table only; a finished row stays finished |
| `scheduler.py` TaskScheduler | `_adapters` (task -> worker), submit lock, a lock per task for observation, `_terminal_notified`, observer task, `_closed`, `_recovered` | submit, poll, follow-up, resume, cancel, delete, purge, recover, shutdown | one worker per task, the limit, no task unattended, completion only by `agent_end` |
| `service.py` PiTaskService | background launches | create, the tool calls, search in sessions, shutdown | a launch always settles its row; results read without disturbing the task |
| `rpc.py` PiRpcAdapter | a child process, event buffer with a cursor, futures of pending commands, reader, wait and stderr tasks | start, commands, drain, terminate | an answer goes to its own call; nobody waits for an answer that cannot come; terminate ends the process |
| `main.py` PiAgentPlugin | service, scheduler, registry, deferred wake-ups, progress digests | initialize, terminate, permissions, tools, the two callbacks | every end is told once; unloading leaves nothing behind, with the exceptions of section 5 |
| `normal_pipeline.py` | none | put one event on AstrBot's queue | - |
| `runtime.py` | the bundled Pi runtime and its vendor archive on disk | download, extract, drop the archive, resolve | what is used is whole and executable; the archive goes only when the tree is there |
| `provider.py` | `models.json` of a task | translate AstrBot's provider configuration, rewrite the file | the file is never torn |
| `worker.py` | none | environment, paths and descriptor of a worker | pure data |
| `context.py`, `security.py` | none | owner keys, session origins, redaction | pure data |
| `artifacts.py`, `tools.py`, `astrbot_adapter.py` | - | not used by the plugin, or re-exports | - |

How they interact: a tool call enters `main.py`, which builds the service lazily and calls it; the
service inserts the row and starts a launch in the background, or passes the call on to the
scheduler.  The scheduler owns the adapters, starts and ends processes, and polls every running
task from one observer loop: it asks the worker for its state, drains the adapter's event buffer
beyond the cursor stored in the row, and settles the task.  A settled task is handed to
`wake_terminal_task`, a running one to `progress_task`; both put an event on AstrBot's queue.

Hard behaviour: every one of these coroutines can be overtaken at each await; a worker can die, be
mute or stop reading at any time; the plugin can be unloaded and loaded, and its host killed, with
calls under way; three asyncio locks are held across awaits.  Downloads and
extractions are synchronous, stop the whole event loop, and may be cut off at every file.

## 2. The modules

| Module | Models |
|---|---|
| `TaskRegistry` | The table as a value (`rows`) and the registry's operations as operators on it.  Every registry method is synchronous, so each is part of its caller's step. |
| `TaskScheduler` | The scheduler, the service's launches and the load/unload order of `main.py`, over `TaskRegistry`. |
| `TaskLifecycle` | The abstract specification of the scheduler: what a task may do, with no workers, locks or coroutines. |
| `PiWorker` | The abstract contract of an adapter, as its users know it: a worker is started once, ends, and numbers its events one by one. `PiRpc` provides it, `TaskScheduler` keeps to it. |
| `PiRpc` | One adapter with its process, its reader and wait loop, commands, event buffer, `terminate()`, and the poll that drains it. |
| `Wakeup` | The terminal wake-up with its deferred retry and the progress relay of `main.py`. |
| `Runtime` | The bundled runtime on disk: download from several URLs, extraction part by part, the dropping of the archive, and `resolve()`, with disk faults and crashes between any two steps. |
| `ModelsFile` | `models.json` of a task and the temporary file it is rewritten with, with crashes and power loss. |
| `Plugin` | The plugin object: `initialize`, `_ensure_task_service` under its lock, `terminate`, and tool calls that launch or resume a worker around them, composed with `Runtime` and `ModelsFile`, which every worker start goes through. |
| `SessionText` | The reading of a session that Pi goes on writing: the tail by bytes and the search by lines, as operators, against reference definitions. |
| `MCTaskScheduler`, `MCPiRpc`, `MCWakeup`, `MCPlugin`, `MCSessionText` | The instances that TLC checks (symmetry sets, keywords). |
| `TaskScheduler_proofs`, `TaskLifecycle_proofs`, `TaskWatch_proofs`, `TaskSlots_proofs`, `TaskEvents_proofs` | The theorems about `TaskScheduler` and their proofs, each module extending an earlier one: types; the lifecycle; no task left behind; every worker accounted for; no end missed. |
| `PiRpc_proofs`, `Wakeup_proofs`, `Plugin_proofs` | The theorems about the other modules and their proofs. |

`TaskScheduler` EXTENDS `TaskRegistry`, and implements `TaskLifecycle` through
`Lifecycle == INSTANCE TaskLifecycle WITH ...`.  `PiRpc` is the detail behind its workers, `Wakeup`
the detail behind its notifications.  They are checked apart, because together they would only
multiply states that do not interact.  Scheduler and adapter meet in `PiWorker`: both modules map their
state to it (`Adapter == INSTANCE PiWorker WITH ...`) and are shown to implement it (`KeepsContract`).
`Plugin` EXTENDS `Runtime` and `ModelsFile` and takes a scheduler as one record (a *triplet*): there the
question is how many there are, who shuts them down and what is on disk when they start a worker, and
`TaskScheduler` says what one of them does.  What each assumes of the other is in section 6.

### TaskScheduler: state and code

| Variable | Code |
|---|---|
| `rows` | the registry's table: status, `pid` (`process_id`), `cursor` (`event_cursor`) |
| `adapters` | `_adapters` |
| `wk` | every process with its adapter: created, running, closing (`terminate()` began), gone, or stray (outlived its plugin instance); the events recorded and which of them are `agent_end` |
| `co` | what every coroutine is doing: operation, await, task, worker, and the status it read at the start.  The observer's poll of task t is the coroutine `t`; tool calls, launches and recovery use client slots |
| `notified` | `_terminal_notified` |
| `files` | tasks with a workspace, session or agent directory |
| `phase`, `agenda`, `doomed`, `epoch` | load, unload and recovery |

The two locks are not variables: who holds one follows from where the coroutines are
(`SubmitLockFree`, `ObservationFree`).  A launch holds the submit lock from the registration of its
adapter to the end of the handshake, or of its termination; a release and a delete take it without
suspending.

| Code | Actions |
|---|---|
| `PiTaskService.create_task`, `_launch`, `submit` | `Create`, `LaunchStarts`, `LaunchRefused`, `ProcessStarts`, `LaunchReady`, `LaunchDone`, `LaunchFails`, `LaunchFailed` |
| `_observe_loop`, `poll_task`, `_observe_task` | `ObserverCycle`, `Poll`, `PollFindsNothing`, `PollFindsNoWorker`, `PollAsksState`, `PollReads`, `PollLosesRow`, `Release`, `KillerReturns` |
| `follow_up`, `resume`, `_restart_from_session` | `FollowUp`, `ResumeInPlace`, `ResumeRestarts`, `ProcessStarts`, `ResumeReady`, `RestartLosesRow`, `RestartFails`, `Steered`, `SteerFails` |
| `cancel` | `CancelNow`, `CancelAborts`, `Release`, `CancelSettles` |
| `delete`, `cleanup_expired_tasks` | `Delete`, `DeleteTakesWorker`, `DeleteRemoves`, `Purge` |
| `shutdown` of service and scheduler | `StopService`, `StopObserver`, `StopWorkers`, `CloseRegistry` |
| the host dies | `Crash` |
| `recover_existing_tasks` | `Load`, `RecoverySkips`, `RecoveryImpossible`, `RecoveryRestarts`, `RecoveryReady`, `RecoverySteered`, `RecoverySteerFails`, `RecoveryGivesUp`, `Publish` |
| the worker (external) | `WorkerEvent`, `WorkerEnds` |

### PiRpc: state and code

`proc` is the process, "exited" from the moment asyncio has its return code; `pipe` holds the lines
it wrote that the reader did not take; `log` all events recorded (its length is `_next_cursor`; the
deque is its last `BufferSize` entries); `calls`, `futures` and `pending` are the calls of
`_send_and_wait`, their futures and `_pending_responses`; `reader`, `waiter` and `term` are the
background tasks and `terminate()`; `cursor` and `verdict` belong to the scheduler's poll.  An
answer is identified with the command it answers.  `Faults` selects what may go wrong beyond a
worker that is slow or dies: it stops reading (`jam`), it writes a line over the stream limit
(`overlong`), the coroutine of a command or of `terminate()` is cancelled (`cancel`).

### Wakeup: state and code

`wakes` is the notification of one end of a task: the direct attempt (`sending`), the deferred task
(`sleeping`, `resending`, `left` delays of five), and how it ended.  `digests` is
`_progress_digests`, `progress` the running progress callback, `inbox` AstrBot's queue.  The session
text is a version number.

### Runtime, ModelsFile, Plugin: state and code

| Variable | Code |
|---|---|
| `archive`, `partial` | `runtime/vendor/pi-runtime-<tag>.tar.xz` and its `.partial` file |
| `tree`, `executable` | the Node binary and the Pi package under `runtime/`, the x bits of the binary |
| `job`, `url`, `left` | where the synchronous code is, the URL it tries, the members it has not begun to extract |
| `answer` | what the last `resolve()` gave |
| `models`, `durable`, `temporary`, `writing` | `models.json`, whether it reached the disk, the `mkstemp` file, the step of `write_models_json` |
| `phase`, `leaving` | where `initialize()` and `terminate()` are |
| `service`, `scheduler`, `registry` | `pi_task_service`, `pi_task_scheduler`, `_task_registry` |
| `triplet` | every registry with its scheduler and service: open, observing, closed, its `_resolved_executable`; the process a launch or the recovery started (`worker`), the one a resume restarted (`resumed`), and whether shutdown missed it (`missed`) |
| `calls`, `setup` | what each call and `initialize()` do; which of them prepares a worker, synchronously |
| `row` | whether the database holds a running task |

| Code | Actions |
|---|---|
| `install_bundled_runtime`, `_download_url_to` | `Load` with `InstallBegins`, `FetchWrites`, `FetchFails`, `FetchRaises`, `FetchReplaces`, `Discards` |
| `_extract_archive`, `_chmod_extracted_node` | `ExtractOpens`, `ExtractCloses`, `ExtractEnds`, `ExtractRaises`, `Marks` |
| `resolve` | `SetupResolves` with `ResolveBegins`, `Decides` |
| `write_models_json` | `BindingFails`, `WriteBegins`, `WriteFlushes`, `WriteSyncs`, `WriteReplaces`, `WriteRaises` |
| `_ensure_task_service`, `_create_task_service` | `CallServed`, `CallWaits`, `CreationFails`, `CreationPublishes`, `CreationRecovers`, `RecoveryEnds`, `RecoveryRaises` |
| a launch, as far as the disk and `terminate` matter | `LaunchPrepares`, `LaunchRefused`, `WorkerStarts`, `SetupFails`, `LaunchEnds`, `WorkerFinishes` |
| `resume` with `_restart_from_session`, likewise | `Resumes` (in `CallServed`, `Publishes`), `WorkerStarts`, `SetupFails`, `ResumeEnds` |
| `terminate` | `UnloadBegins`, `ServiceStops`, `SchedulerCollects`, `SchedulerStops`; `ObserverDies` for a scheduler left behind |
| the host, the user (external) | `Crash` (its workers become strays, unless the power is lost), `ArchivePlaced` |

### SessionText: state and code

`text` is what Pi ever writes, `size` how many bytes of it are on disk, `reader` one reader of
`_read_session_tail` (which asks the size and then reads) or `_search_session_context`.  A character
is one of six kinds that differ in what the code depends on: bytes in UTF-8 and what `casefold()`
makes of it.  `Decode`, `WindowStart`, `LastOf`, `Rolling`, `Search` are the code;
`Places`, `Around` and the whole text `Seen` are the reference.

## 3. The runs

Every run is a `.cfg` of one of the MC modules.  `CHECK_DEADLOCK FALSE` everywhere: a system whose
tasks are all over, with no worker left to start or no line left to write, rightly stops, and the
bounds on workers, events and restarts make every behaviour end so.

| Run | Instance | Shows |
|---|---|---|
| `tools` | 1 task, 2 workers, 2 clients, all tool calls, purge, 2 events | the abstract lifecycle is implemented (`KeepsLifecycle`), so finished tasks stay; workers are used as their contract allows (`KeepsContract`); tasks are announced as they finish (`FinishAnnounced`), `completed` had an `agent_end` (`CompletedByAgentEnd`), the cursor of a task that was never restarted skips none (`NoEndSkipped`), no queued row is left without its launch (`QueuedHasLaunch`), no directory outlives its task (`DeletedHasNoFiles`) |
| `slots` | 2 tasks, 2 workers, 2 clients, limit 1, all calls but resume | the limit (`WorkersWithinLimit`), no process out of sight (`Supervised`), settled tasks free their slot (`SettledFreesSlot`) |
| `reload` | 2 tasks, 4 workers, 1 client, unload or crash, one reload | unloading stops every worker (`UnloadStopsWorkers`), recovery doubles no process across one further load (`OneProcessPerTask`), keeps the limit (`WorkersWithinLimit`), leaves no running row unattended (`RunningIsWatched`) and announces what it orphans (`EndAnnounced`) |
| `liveness` | 1 task, 2 workers, 2 clients, 2 events, fair | launches settle, `agent_end` and deaths are observed, every call returns |
| `rpc` | 2 commands, buffer of 2, 2 events, every fault | answers go to their own calls (`AnswersAreOwn`), no call waits for an answer that cannot come (`NobodyForgotten`), `terminate()` leaves nothing that runs (`QuietAfterTerminate`), a poll misses an `agent_end` only if a full buffer of newer events pushed it out (`EndSeenUnlessFlooded`), the contract of a worker is provided (`KeepsContract`) |
| `rpc_liveness` | 2 commands, 1 event, a process that may stop reading, fair | commands and `terminate()` return unless the worker does not read, `agent_end` is recorded even after the exit |
| `wakeup` | 1 task, 5 attempts, 2 text versions, fair | each end is told at most once, progress is never repeated, a platform that loads in time is told, every wake-up settles |
| `plugin` | 1 tool call, which launches or resumes, and `initialize()`, 2 triplets, 2 loads, 2 URLs, archives that are whole, cut or of another version, disk faults, crashes, power loss, fair | a bundled runtime that is used is whole and executable (`BundledIsWhole`), the archive is dropped only for a whole tree (`ArchiveKept`), `models.json` is never torn (`ModelsReadable`), one scheduler works on the database (`OneScheduler`), unloading leaves no observer, and no worker but that of a resume under way and of lost or late triplets (`UnloadLeavesNothing`), every call, load and unload ends (`EverythingReturns`) |
| `session` | all files of up to 4 characters out of 4 kinds, up to 4 characters asked for, 3 keywords, the file growing byte by byte | the tail is the tail of what was read and `has_more` is right (`TailIsTail`), the search by lines finds what a search of the whole text finds (`SearchFindsFirst`) |

Why these bounds.  A task meets every race of its own calls with two concurrent callers plus the
observer, which is a third; a second worker allows one restart, which is what makes stale adapters,
cursors and process ids possible.  In a run with one task, the submit lock of other tasks is still
there: a lock can be granted arbitrarily late.  Limit and slots need two tasks and a limit of one.
Two events let an `agent_end` come first, last, twice or not at all.  The adapter needs two commands
for a mix-up of answers and for contention on the write lock, and a buffer of two that answers,
events and the exit overflow.  `reload` needs four
workers: a worker that died unnoticed lets a second task start under a limit of one, and after a
crash recovery has two running rows to restart.  In `plugin` one call next to `initialize()` already
contends for the lock, waits behind a recovery, and overtakes `terminate()` at each of its awaits, a
resume also with the worker it restarts; the second triplet is the one of the second load, or the one
a call builds while the plugin is being unloaded.  Two URLs make the loop over them real, and two parts (the binary and the package) are
what the code tests.  In `session` windows of up to 3 characters (4, 8, 12 bytes) are smaller than a
file of four wide ones and begin inside characters when narrow and wide ones mix; four characters make
several lines, and text before a match that has to be kept across line breaks.

`resume` is offered in `tools` (and in `Plugin`'s run `plugin`), and not in `slots`, `reload` and `liveness`: it does not take the
submit lock, does not know the limit and keeps the old cursor, and with it `WorkersWithinLimit`,
`OneProcessPerTask`, `UnloadStopsWorkers` and `EndObserved` are not true of the code (section 5).
Those runs say what holds as long as nobody resumes.

### Fairness

* Every coroutine goes on when its await is over: the event loop is fair.  For calls that wait for a
  lock this is strong fairness, since the lock may be taken and freed in between; asyncio's locks
  wake their waiters in FIFO order.
* RPC awaits end: each command has a timeout.  This is checked in `PiRpc` (`CommandReturns`), where
  it is true as long as the worker reads its input (section 5 says what happens otherwise).
* The observer loop goes on.  It would not after an exception of the purge or of `list_tasks`.
* A process that was told to end does end: `terminate()` sends SIGKILL after five seconds
  (`TerminateReturns` in `PiRpc`).
* In `Plugin`, synchronous code runs on (weak fairness), and a coroutine whose await is over goes on
  (strong fairness, since the synchronous code of others stops the event loop in between).
* Nothing is assumed of clients, of workers that were not killed, of unloads and of crashes.

## 4. What is proved

For every set of tasks, workers and clients, every limit and every bound
(`TaskScheduler_proofs`, `TaskLifecycle_proofs`):

* `TypeCorrect`: `Spec => []TypeOK`.
* `IInvCorrect`: `Spec => []IInv`, the inductive invariant behind the rest.
* `FinishedTasksStay`: `Spec => TerminalFinal`.
* `CompletedTasksSignalled`: `Spec => []CompletedByAgentEnd`.
* `LifecycleKept`: `Spec => KeepsLifecycle`, the refinement.

The argument.  Types alone do not give the refinement: a poll may complete a task only if the worker
whose events it reads is a worker *of that task*, and a launch may revive a row only if no other
launch did.  `IInv` adds these facts: workers never used are silent and serve nobody
(`UnusedSilent`); a registered worker and a worker some coroutine waits for serve that task
(`AdaptersOwned`, `FramesOwned`); a row has at most one launch, and while it is unborn or queued
nobody else can have moved it (`LaunchesOnce`, `LaunchesFirst`); no row ever is
`needs_user_decision` (`NoDecision`: no code sets it).  The proof goes action by action, each with
the conjuncts it can disturb.  Every step then maps to a step of `TaskLifecycle` or to a stutter.
The assumptions are the named ASSUMEs of `TaskRegistry` and `TaskScheduler`: ids of tasks, clients
and `None` differ, the limit is positive, the options are among those offered.  TLC evaluates them
in every run.

No task is left behind (`TaskWatch_proofs`):

* `WInvCorrect`: `Spec => []WInv`.
* `RunningTasksWatched`: `Spec => []RunningIsWatched`.
* `DeletedTasksCleaned`: `Spec => []DeletedHasNoFiles`.
* `QueuedTasksLaunched`: `Spec => []QueuedHasLaunch`, if no crash is allowed: a launch dies with its
  host, and recovery does not take up queued rows.

A running task is watched because whoever takes its worker out of `_adapters` goes on to settle it,
and that is not one coroutine's business: the observer releases a worker, recovery hands it over,
shutdown cancels a launch, a delete takes an adapter that a cancel is still aborting.  So `Watched`
says for every phase, boot included, who attends the task, and rests on where coroutines can be:
each holds a worker of its own task (`AllOwned`), in the phases its call can run in (`Stages`); a
worker being restarted is nobody else's (`Fresh`); a launch halfway has its adapter registered and
its row in the table (`LaunchPlaces`); a task that a cancel found over stays over (`CancelSeen`), and
one whose worker a poll releases is over, or interrupted with its worker dead (`ReleasesSettled`);
recovery's list holds only running tasks without adapter or call (`AgendaFresh`).  `NoFiles` is
`DeletedHasNoFiles` as it is kept.  The step lemmas say, for every action at once, how a
frame, the phase, an adapter and a row may change and by which action (`FrameStep`, `PhaseStep`,
`AdapterStep`, `RowStep`); each part of the invariant is then proved from those causes.

Every worker is accounted for (`TaskSlots_proofs`), as long as `resume_task` is not offered:

* `SInvCorrect`: `Spec => []SInv`.
* `WorkersSupervised`, `WorkersLimited`, `SettledTasksFreeSlot`, `UnloadedWorkersStopped`:
  `Supervised`, `WorkersWithinLimit`, `SettledFreesSlot`, `UnloadStopsWorkers`, for every limit.
* `OneProcessEach`: `Spec => []OneProcessPerTask`, if no crash is allowed, with any number of
  reloads, or if the plugin is loaded again at most once.

The limit is the one that looks simplest and needs most.  `submit` counts `_adapters`, not
processes, and suspends between that and the start of its process.  `InSight` says that every worker
that was created or runs is in `_adapters` under its task or with the one recovery
(`OneRecovers`) that restarts it, and `WithinLimit` bounds created and running workers together, so
that a start changes nothing.  That no adapter is overwritten or dropped while its worker runs needs
that recovery has a task to itself (`Sole`), that a launch keeps its adapter and a steer, a poll or a
cancel finds the worker it looked at or none (`LaunchOwns`, `SteerOwns`, `LookOwns`), and that who
terminates a worker has dropped it (`KillDrops`).  `Freeing` follows a settled task until its worker
is closed.  `OneProcessPerTask` adds processes of earlier instances: a live process of a running task
is the one its row records, or that of the recovery which brings it up (`PidKnown`), and the record is
where recovery looks before it starts another.  The hypothesis that nobody resumes
is not for convenience: with `resume` the statements are false (section 5).

No end is missed (`TaskEvents_proofs`), with every call offered, unloads, crashes and reloads:

* `EInvCorrect`: `Spec => []EInv`.
* `EndsStayAhead`: `Spec => []NoEndSkipped`.
* `FinishesAnnounced`: `Spec => FinishAnnounced`.
* `EndsAnnounced`: `Spec => EndAnnounced`, if nobody resumes.
* `ContractKept`: `Spec => KeepsContract`, the second refinement.

A poll reads the row's cursor before it asks the worker for its state and drains the buffer after
that; meanwhile the worker goes on sending, and the task may be cancelled, deleted or restarted
(not polled: the observation lock is held).  `CursorBehind` says that a running task's cursor is at
most what its worker sent, and that every `agent_end` lies beyond it; for a new worker this needs that the cursor of a queued task is 0 and its worker has sent nothing
(`QueuedSilent`).  It is said of tasks with one worker, because a restarted worker numbers its events
from 1 under the cursor of the old one.  So the proof has to know of every restart that it is one: a
task that a resume or a recovery is about to restart ran on an earlier worker (`RanOnWorker`), and the
one being restarted is not the only worker of its task (`RestartsSecond`, `LateSecond`).
That an end is announced in its own step, and was not announced before, needs that a task with an
announced end is in it for good (`Told`).  An orphaning is no such end, for a task may be resumed: that
is the hypothesis of `EndsAnnounced`, and without it the statement is false (section 5).

The contract has one place where it could break.  `start()` clears `_closed` before it awaits the spawn
(`rpc.py:335`), and a `terminate()` in between finds no process to end (`PiWorker`: such a worker is
over, and may not be started).  The adapter does not exclude this; its users do, each in its own way: a
launch starts its registered worker under the submit lock, which delete and release need to take it away,
and a resume or a recovery starts one that is registered nowhere yet (`Fresh`), so that a shutdown does not
find it either.  `StartingCreated`, a part of `EInv`, is what this comes to: a worker somebody is
starting is still to be started.

For every set of commands, every buffer limit and every selection of faults (`PiRpc_proofs`):

* `RpcTypeCorrect`: `Spec => []TypeOK`.
* `RpcInvCorrect`: `Spec => []IInv`.
* `OwnAnswers`: `Spec => []AnswersAreOwn`.
* `NobodyWaitsInVain`: `Spec => []NobodyForgotten`.
* `TerminateLeavesNothing`: `Spec => []QuietAfterTerminate`.
* `EndIsSeen`: `Spec => EndSeenUnlessFlooded`, for every size of the buffer.
* `ContractProvided`: `Spec => KeepsContract`: with `ContractKept`, the adapter is what the scheduler
  takes it for.

Again none of the three invariants is inductive alone.  That a call returns its own answer needs that every
answer still in the pipe, and every future that is set, was given by the process (`Truthful`).
That nobody is forgotten needs that a call which waits on an open future has it in `pending`, where
`_fail_pending` finds it, and that the wait task ends before `terminate()` only with the process, so
no call can register later (`Registered`).  That `terminate()` leaves nothing needs its stages:
the tasks are stopped only once the process is gone (`Settled`, which also says that the reader is off
before the start, so that no event comes before it).  The assumption is
`CommandsAssumption`: ids of commands are not kinds of events.

For every set of tasks, every number of delays and text versions (`Wakeup_proofs`):

* `WakeupTypeCorrect`: `Spec => []TypeOK`.
* `WokenOnce`: `Spec => []ToldOnce`.
* `ProgressOnlyNews`: `Spec => ProgressIsNews`.

That a conversation is woken once needs to know more than the queue: an end has an event there only
if its notification is over and was told, so whatever is still being sent, sleeping or sent again
finds none (`Untold`), and no end has two places (`OnePlace`).  Types need `Untold` too: a retry that
sleeps has a delay left.  Progress is news although only the last digest is kept, because a session
text only grows: until unloading forgets the digests, the digest is the newest text any progress event
of the task carries, and a text being sent is newer than all of them (`Relayed`).

For every set of calls, every number of triplets, loads and URLs, every set of archives a server may
deliver and every selection of faults (`Plugin_proofs`, about `Plugin` with `Runtime` and
`ModelsFile`):

* `PluginTypeCorrect`: `Spec => []TypeOK`, and `PluginInvCorrect`: `Spec => []IInv`.
* `ModelsStayReadable`: `Spec => []ModelsReadable`.
* `BundleIsUsable`: `Spec => []BundledIsWhole`; `ArchiveIsKept`: `Spec => ArchiveKept`.
* `SchedulerIsOne`: `Spec => []OneScheduler`; `UnloadIsComplete`: `Spec => []UnloadLeavesNothing`.

`IInv` has three parts.  `ModelsInv`: what is renamed was dumped and synced, so nothing a crash can
tear is ever in place.  `RuntimeInv` with `Disk`: without an interrupted extraction the Pi package is
absent or the whole tree is there, since the binary alone comes from an archive that names no
package; the archive is dropped only by code that has seen both files; and whenever the installation
is not at work while the plugin is in use, a ready runtime is executable (`Usable`), so a worker
prepared later need not set the bits.  `LifeInv` follows `initialize` and `terminate`: what the three
attributes are in each phase (`Services`), that one coroutine builds at a time and none while a
service is published (`Builders`), which stage works with a triplet (`Workings`), that a restarted
worker without an answer has a resume that waits for it (`Restarts`), that only resumes work with a
triplet that is not at home any more (`Users`), and that such a triplet observes nothing and runs
nothing else (`Warmth`).  A triplet is at home while it is recovered at load or published; there is
one such triplet, which is `OneScheduler`, and none once the plugin is down, which is
`UnloadLeavesNothing`.  Launches are cancelled before a triplet leaves its home; a resume is not.
When the workers are collected, one that is `running` is terminated with the others, and one that is
`starting` belongs, by `Restarts`, to a resume that is still waiting, so the triplet becomes `missed`:
from then on only that resume (`Overtaken`) can make a worker run there.

The assumptions are `RuntimeAssumption` and `PluginAssumption`, about the constants alone.

Model-checked only: all liveness properties (`LaunchSettles`, `EndObserved`, `CallsReturn` and the
other `~>` properties of the runs; fairness is out of the prover's reach), and the two properties of
`SessionText`, whose operators recurse over the text (induction over data is out of its reach too).
Every other property of a passing run is stated by a theorem.  Where a theorem about
`TaskScheduler` has a hypothesis on the options, the runs that check the property satisfy it, but
for `reload`'s crashes, which `OneProcessEach` covers with its second alternative.

## 5. Where the code differs from what it says

| Run | Property | What TLC shows |
|---|---|---|
| `double_resume` | `OneProcessPerTask` | `resume` takes no lock: two of them start two processes on one session ("Supervise one Pi process per task", scheduler.py:61) |
| `stale_cursor` | `EndObserved` | a resumed worker numbers its events from 1, the row keeps the old cursor: its `agent_end` is drained unseen (scheduler.py:583) |
| `exit_overtakes` | `OrphanedHadNoEnd` | between the return code and the last line read, a poll takes a finished task for an interrupted one (README.md:113, 169) |

The same models show more of the kind when the exceptions of a property are taken away or more is
offered:

* With `resume`, `slots` violates `WorkersWithinLimit` (the limit is only tested in `submit` and in
  recovery) and `reload` violates `UnloadStopsWorkers` (a resume registers its worker after shutdown
  collected them) and, after a crash, `OneProcessPerTask` (orphaning forgets the process id).
  `EndAnnounced` (not `FinishAnnounced`) fails too: `(task, "orphaned")` is announced once for the
  life of the scheduler (`scheduler.py:606`), so a task that is resumed and interrupted again is not
  announced, against "When the task reaches completed, failed, cancelled, or orphaned, the plugin submits an AstrBot wake event" (`SKILL.md:16`).
* Recovery starts a process and records its id three awaits later (`scheduler.py:364` and `:373`).  A
  crash in between leaves a process that no row names, and the load after that starts another one
  on the same session: with `MaxRestarts = 2` (1 task, 3 workers) `reload` violates
  `OneProcessPerTask`, against "Supervise one Pi process per task" (`scheduler.py:61`).
  `OneProcessEach` marks the line: unloading alone never leads there, nor does a single further load.
* A worker restarted by recovery meets the old cursor as a resumed one does, so with reloads
  `EndObserved` fails as in `stale_cursor`, and so does `NoEndSkipped` of tasks that have a second
  worker (`OnlyWorker` excepts them).
* Shutdown fails queued tasks and orphans running ones, and recovery orphans those beyond the limit,
  without a notification.  `FinishAnnounced` and `EndAnnounced` except steps that change the phase,
  `EndAnnounced` those of a recovery without a free slot.
* `drain()` has no timeout (`rpc.py:604`, against `rpc.py:195`): without the exception of a process
  that stopped reading, `CommandReturns` and `TerminateReturns` fail.  With `{"overlong"}`,
  `EndRecorded` fails: one line over the stream limit ends the reader for good.
* A tool call that arrives during the last await of `terminate()` finds no service and builds a
  second triplet.  `terminate()` then drops that scheduler without shutting it down and closes the
  second registry, while the first stays open; `main.py:124` says "Terminate all managed pi
  connections when the plugin is unloaded".  `OneScheduler` and `UnloadLeavesNothing` except
  triplets built in that window (`apart = "late"`).
* A resume in flight when the plugin is unloaded is a tool call, which nobody cancels
  (`service.py:125-138` cancels launches), and its worker is not registered before it has answered
  (`scheduler.py:372`), so shutdown does not collect it either (`scheduler.py:241-243`).  The worker
  outlives the unload until its commands have ended, and for good if it answers before the registry
  is closed, also against `main.py:124`.  `Plugin` lets calls resume, and `UnloadLeavesNothing`
  excepts the worker of such a resume (`missed`); without the exception TLC finds it registered in a
  plugin that is gone.
* When the recovery raises after its first tasks, the registry is closed and the scheduler dropped
  with the workers it started (`main.py:398`); nobody supervises them (`apart = "lost"`).
* An extraction that was interrupted once both tested files existed counts as a ready runtime: it is
  not extracted again and its archive is dropped.  `BundledIsWhole` and `ArchiveKept` except it
  (`interrupted`).  A bundle of which one file is missing, or whose manifest is torn, raises instead
  of falling back to PATH, as `README.md:49` offers where no package can be used.
* A download that was cut off after 32 bytes is accepted, fails in the extraction at every
  load, and is never replaced by another download.
* `casefold()` can lengthen a text ("ß" becomes "ss"); the search takes places in the folded text
  for places in the text and returns a shifted context (`SearchFindsFirst` excepts such texts).
  `start_byte` and `has_more` are off if the file grew between the two reads of
  `_read_session_tail` or its last character is cut (`TailIsTail` says the tail itself is right even
  then).

## 6. What is left out, and assumptions between the models

* What `TaskScheduler` takes for granted of its workers is `PiWorker`, which `PiRpc` provides.
  `PiRpc` in turn leaves out a `terminate()` of an adapter before or during its start (`proc # "none"`
  in `Terminate`): by `ContractKept` no such adapter is started afterwards.  A command to an adapter
  without a process is refused at once (`rpc.py:590`).  `PiWorker` allows events to be recorded after the
  end of the process, as `PiRpc` does; in `TaskScheduler` lines read late count as recorded before the end
  or not at all, between which no poll can tell (`exit_overtakes` shows the poll that comes in between).
* In `TaskScheduler` an event exists from the moment the adapter recorded it; lines lost between
  the process and the buffer are `PiRpc`'s matter.  `process_exit` and answers are not counted as
  events, so cursors are smaller than the real ones, which changes no comparison.
* The callback is *started* in the step that settles a task; waiting for it is folded into the await
  before the release (`releasing`), and so is the answer to `abort`.  Delivery is `Wakeup`'s matter.
* A process id names a process for ever: reuse by the operating system is not modelled.
* In `TaskScheduler` SQLite and the file system do not fail; in `Plugin` the runtime's and
  `models.json`'s files do.  Removal of a task's directories is one step.
* In `Plugin` a triplet has at most one worker at a time that a launch or the recovery started and
  one that a resume restarted, and all of its workers share one `models.json`: what a scheduler does
  with several is `TaskScheduler`'s matter.  A prepared worker is started in the step that ends its
  preparation.  That there is a task to be resumed is taken for granted, and a resume of a task whose
  worker runs, which starts nothing, is left out.
* In `Plugin` a crash leaves the workers as strays, which may end at any time; what recovery makes of
  their process ids is `TaskScheduler`'s matter.  `UnloadLeavesNothing` is about workers of the
  instance that is unloaded: no instance owns a stray.
* `PiRpc` has no process that closes its input and lives on (`WriteFails` needs an exit or a
  `terminate()`), and `kill()` finds its process: a `ProcessLookupError` from it, in the turn of the
  loop in which the five seconds and the process end together, is not modelled.
* A `terminate()` that is cancelled while it waits (the observer's polls at shutdown) ends outside
  what `TerminateReturns` says, and a wake-up that a poll starts after `terminate()` cancelled the
  deferred ones (`main.py:126`) may outlive the plugin, which no property of `Wakeup` forbids.
* `WorkersWithinLimit` counts processes that run for the loaded plugin.  One that is being terminated
  or that a crash left behind is not counted, as it is not by the code's own test of the limit.
* `terminate()` is not called while `initialize()` runs, and a plugin whose `initialize()` raised is
  not terminated; the next load waits for the calls on the old object.
* The x bits of the Node binary can always be set; a rename reaches the disk with its content or not
  at all, and what was not synced may be lost with the power.  An archive has two members that
  matter, extracted in either order.
* `SessionText` models reads that are atomic except for the size asked before a tail; a search reads
  the file as it is at one moment.  Keywords have no line breaks (`search_session` strips them at
  their ends; one inside can match only across lines and is left out).
* Loading again waits until the calls on the previous instance have returned.
* The retention time is at least an hour, so nothing is under way for a task that is purged.
* `needs_user_decision` is in the types, but no code sets it.
* Properties with exceptions: `OneScheduler`, `UnloadLeavesNothing`, `BundledIsWhole`, `ArchiveKept`,
  `NoEndSkipped`, `FinishAnnounced`, `EndAnnounced`, `SearchFindsFirst`, `TailIsTail`,
  `CommandReturns` and `TerminateReturns` name what they except in
  their comments; section 5 says what the code does there.
* Not modelled: permissions and tool texts, the translation of provider settings, worker
  configuration, redaction, identity helpers (pure data); `artifacts.py`, `tools.py`,
  `astrbot_adapter.py` (unused or re-exports).

## 7. Plan

1. Done: every module of section 2, the runs of section 3, and the theorems of section 4.
2. What the proofs could still take up: the exact condition under which `NoEndSkipped` survives a
   recovery (a worker that emits more than the old cursor before its end).

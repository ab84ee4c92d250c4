-------------------------------- MODULE Plugin --------------------------------
(***************************************************************************)
(* The life of the plugin object of main.py (initialize, terminate,        *)
(* _ensure_task_service, _create_task_service) together with the two       *)
(* things on disk that a worker needs before it can start: the runtime     *)
(* (module Runtime) and its models.json (module ModelsFile).               *)
(*                                                                         *)
(* A triplet is one registry with its scheduler and its service.  The      *)
(* plugin publishes the three in three attributes; a call that finds no    *)
(* service builds a triplet under a lock, and building it may suspend, in  *)
(* the recovery of interrupted tasks.  What a scheduler does with its      *)
(* workers is TaskScheduler's matter: here the calls start workers, and a  *)
(* triplet has at most one at a time that a launch or the recovery         *)
(* started, and one that a resume restarted: the scheduler sees the first  *)
(* from its start and the second only when it has answered.                *)
(*                                                                         *)
(* A definition introduced by "Mutant:" is not part of the model, but a    *)
(* plausible bug in the definition that follows it.                        *)
(***************************************************************************)
EXTENDS Runtime, ModelsFile

CONSTANTS
  Calls,      \* tool calls that start a worker (pi_agent, pi_task_resume)
  Boot,       \* the coroutine of initialize()
  None,       \* Python's None
  MaxTriplets,   \* how many triplets can be built (bound)
  MaxLoads,   \* how often the plugin is loaded (bound)
  Power       \* whether the host may lose its power

ASSUME PluginAssumption ==
  /\ Boot \notin Calls
  /\ None \notin Nat \cup Calls \cup {Boot}
  /\ MaxTriplets \in Nat /\ MaxLoads \in Nat
  /\ Power \in BOOLEAN

VARIABLES
  phase,      \* of the plugin: gone, being loaded, loaded, being unloaded
  leaving,    \* terminate(): the scheduler being shut down, None before that
  service, scheduler, registry,   \* pi_task_service, pi_task_scheduler, _task_registry
  triplet,    \* every triplet that was built
  calls,      \* what every coroutine does, and with which triplet
  setup,      \* the coroutine that is preparing a worker, synchronously
  row,        \* whether the database has a running task
  loads       \* how often the plugin was loaded (bound)

pluginVars == <<phase, leaving, service, scheduler, registry, triplet, calls, setup, row, loads>>
vars == <<pluginVars, runtimeVars, modelsVars>>

Coroutines == Calls \cup {Boot}

Triplets == 1..MaxTriplets

Unbuilt == [registry |-> "none", observer |-> "none", closed |-> FALSE, shut |-> FALSE,
            worker |-> "none", resumed |-> "none", missed |-> FALSE,
            command |-> "none", apart |-> "no"]

Built == [Unbuilt EXCEPT !.registry = "open", !.observer = "running"]

\* A worker process: "none" before its start and after its end, "closing" while it is
\* terminated, "stray" when it has outlived its host.
Processes == {"none", "starting", "running", "closing", "stray"}

TripletType ==
  [registry : {"none", "open", "closed"},
   observer : {"none", "running", "stopped"},
   closed : BOOLEAN,      \* the scheduler's _closed
   shut : BOOLEAN,        \* the service's _closed
   worker : Processes,    \* of a launch or of the recovery
   resumed : Processes,   \* of a resume
   missed : BOOLEAN,      \* history: a resume was restarting a worker when the
                          \* others were collected to be terminated
   command : {"none", "bundled", "path"},   \* _resolved_executable
   apart : {"no", "late", "lost"}]   \* history: built while the plugin was on its
                                     \* way out, or given up during recovery

Resting == [at |-> "idle", on |-> None]

TypeOK ==
  /\ RuntimeTypeOK /\ ModelsTypeOK
  /\ phase \in {"down", "installing", "loading", "up", "stopping", "leaving", "killing"}
  /\ {leaving, service, scheduler, registry} \subseteq Triplets \cup {None}
  /\ triplet \in [Triplets -> TripletType]
  /\ calls \in [Coroutines ->
       [at : {"idle", "waiting", "recovering", "queued", "preparing", "handshake",
              "reviving", "resuming"},
        on : Triplets \cup {None}]]
  /\ setup \in Coroutines \cup {None}
  /\ row \in BOOLEAN
  /\ loads \in 0..MaxLoads

Init ==
  /\ RuntimeInit /\ ModelsInit
  /\ phase = "down"
  /\ leaving = None /\ service = None /\ scheduler = None /\ registry = None
  /\ triplet = [g \in Triplets |-> Unbuilt]
  /\ calls = [c \in Coroutines |-> Resting]
  /\ setup = None
  /\ row \in BOOLEAN
  /\ loads = 0

-----------------------------------------------------------------------------
\* The event loop is free: no coroutine is in synchronous runtime or file code.
Free == setup = None /\ job = Idle

DiskUnchanged == UNCHANGED <<runtimeVars, modelsVars>>

\* Coroutine c goes on to a stage of its work with triplet g.
Goes(c, stage, g) == calls' = [calls EXCEPT ![c] = [at |-> stage, on |-> g]]

\* Mutant: the lock is not taken.
LockForgotten == FALSE

\* _task_service_lock: whoever is suspended while it builds a triplet has it.
LockHeld == \E c \in Coroutines : calls[c].at = "recovering"

\* g is the next triplet; they are numbered in the order they are built.
Unused(g) ==
  /\ triplet[g].registry = "none"
  /\ \A h \in 1..(g - 1) : triplet[h].registry # "none"

\* AstrBot loads the plugin: a new object, whose initialize() first installs the
\* runtime.  It is taken to wait for the calls on the previous object.
Load ==
  /\ phase = "down" /\ Free /\ loads < MaxLoads
  /\ \A c \in Coroutines : calls[c].at = "idle"
  /\ InstallBegins
  /\ phase' = "installing" /\ loads' = loads + 1
  /\ service' = None /\ scheduler' = None /\ registry' = None /\ leaving' = None
  /\ UNCHANGED <<triplet, calls, setup, row, modelsVars>>

\* initialize() comes to _ensure_task_service first; tool calls as long as
\* anybody has the object.
Arrives(c) ==
  IF c = Boot THEN phase = "installing"
  ELSE phase \in {"loading", "up", "stopping", "leaving", "killing"}

\* c is where it tests pi_task_service: at its start, or when it got the lock.
Looks(c) ==
  /\ Free
  /\ \/ calls[c].at = "idle" /\ Arrives(c)
     \/ calls[c].at = "waiting" /\ ~LockHeld

\* The plugin's phase once initialize() has come to a suspension or to its end.
PhaseAfter(c, p) == phase' = IF c = Boot THEN p ELSE phase

\* A launch is a coroutine of its own, which waits for the submit lock.
Launches(c, g) == Goes(c, "queued", g) /\ UNCHANGED setup

\* resume() does not suspend before the start of the worker.  (That the database has
\* a task to be resumed is taken for granted.)
Resumes(c, g) ==
  /\ triplet[g].resumed = "none"
  /\ Goes(c, "reviving", g) /\ setup' = c

\* A service is there.  It refuses new tasks once it was shut down, but no resumes.
CallServed(c) ==
  /\ Looks(c) /\ service # None
  /\ \/ IF triplet[service].shut THEN Goes(c, "idle", None) /\ UNCHANGED setup
                                 ELSE Launches(c, service)
     \/ Resumes(c, service)
  /\ UNCHANGED <<phase, leaving, service, scheduler, registry, triplet, row, loads>>
  /\ DiskUnchanged

\* Another coroutine is building the triplet.
CallWaits(c) ==
  /\ Free /\ calls[c].at = "idle" /\ Arrives(c)
  /\ service = None /\ LockHeld
  /\ Goes(c, "waiting", None)
  /\ UNCHANGED <<phase, leaving, service, scheduler, registry, triplet, setup, row, loads>>
  /\ DiskUnchanged

\* c builds a triplet: it has the lock and still finds no service.
Builds(c) == Looks(c) /\ service = None /\ ~LockHeld

\* No directory, no database, a setting the scheduler refuses: the registry is
\* closed again and the call fails.
CreationFails(c) ==
  /\ Builds(c)
  /\ Goes(c, "idle", None) /\ PhaseAfter(c, "down")
  /\ UNCHANGED <<leaving, service, scheduler, registry, triplet, setup, row, loads>>
  /\ DiskUnchanged

\* History: the object was on its way out when the triplet was built.
Apart == IF phase \in {"installing", "loading", "up"} THEN "no" ELSE "late"

\* The three attributes; the call that built the triplet goes on with it.
Publishes(c, g) ==
  /\ service' = g /\ scheduler' = g /\ registry' = g
  /\ \/ c = Boot /\ Goes(c, "idle", None) /\ UNCHANGED setup
     \/ c # Boot /\ (Launches(c, g) \/ Resumes(c, g))
  /\ PhaseAfter(c, "up")

\* With nothing to recover, building and publishing do not suspend.
CreationPublishes(c, g) ==
  /\ Builds(c) /\ Unused(g) /\ ~row
  /\ triplet' = [triplet EXCEPT ![g] = [Built EXCEPT !.apart = Apart]]
  /\ Publishes(c, g)
  /\ UNCHANGED <<leaving, row, loads>>
  /\ DiskUnchanged

\* The observer is started and the recovery of the running task begins: its
\* worker is prepared anew, or, if the old process is alive or the session is
\* gone, the task is orphaned and its notification awaited.
CreationRecovers(c, g) ==
  /\ Builds(c) /\ Unused(g) /\ row
  /\ triplet' = [triplet EXCEPT ![g] = [Built EXCEPT !.apart = Apart]]
  /\ Goes(c, "recovering", g) /\ PhaseAfter(c, "loading")
  /\ \/ setup' = c /\ UNCHANGED row
     \/ UNCHANGED setup /\ row' = FALSE
  /\ UNCHANGED <<leaving, service, scheduler, registry, loads>>
  /\ DiskUnchanged

\* The recovery is over: a worker that was started runs, or ended and its task
\* is orphaned.
RecoveryEnds(c) ==
  /\ Free /\ calls[c].at = "recovering"
  /\ LET g == calls[c].on IN
       /\ Publishes(c, g)
       /\ IF triplet[g].worker = "starting"
          THEN \/ triplet' = [triplet EXCEPT ![g].worker = "running"] /\ UNCHANGED row
               \/ triplet' = [triplet EXCEPT ![g].worker = "none"] /\ row' = FALSE
          ELSE UNCHANGED <<triplet, row>>
  /\ UNCHANGED <<leaving, loads>>
  /\ DiskUnchanged

\* The recovery raises, at this task or at a later one: the registry is closed
\* and the scheduler dropped as it is, with its observer and its worker.
RecoveryRaises(c) ==
  /\ Free /\ calls[c].at = "recovering"
  /\ \E w \in IF triplet[calls[c].on].worker = "starting" THEN {"running", "none"}
              ELSE {triplet[calls[c].on].worker} :
       triplet' = [triplet EXCEPT ![calls[c].on].registry = "closed",
                                  ![calls[c].on].apart = "lost",
                                  ![calls[c].on].worker = w]
  /\ Goes(c, "idle", None) /\ PhaseAfter(c, "down")
  /\ UNCHANGED <<leaving, service, scheduler, registry, setup, row, loads>>
  /\ DiskUnchanged

-----------------------------------------------------------------------------
\* submit() has its lock and begins to prepare the worker.
LaunchPrepares(c) ==
  /\ Free /\ calls[c].at = "queued"
  /\ LET g == calls[c].on IN
       /\ triplet[g].registry = "open" /\ ~triplet[g].closed
       /\ triplet[g].worker = "none"
       /\ Goes(c, "preparing", g)
  /\ setup' = c
  /\ UNCHANGED <<phase, leaving, service, scheduler, registry, triplet, row, loads>>
  /\ DiskUnchanged

\* The scheduler is shut down, its limit reached, or the registry closed.
LaunchRefused(c) ==
  /\ Free /\ calls[c].at = "queued"
  /\ LET g == calls[c].on IN
       \/ triplet[g].registry = "closed" \/ triplet[g].closed
       \/ "running" \in {triplet[g].worker, triplet[g].resumed}
  /\ Goes(c, "idle", None)
  /\ UNCHANGED <<phase, leaving, service, scheduler, registry, triplet, setup, row, loads>>
  /\ DiskUnchanged

\* One step of write_models_json for the worker being prepared.
SetupWrites == setup # None /\ ModelsStep /\ UNCHANGED <<pluginVars, runtimeVars>>

NeedsCommand == triplet[calls[setup].on].command = "none" /\ answer = "none"

\* resolve_executable: the command is resolved once for a scheduler.
SetupResolves ==
  /\ setup # None /\ writing = "done" /\ NeedsCommand
  /\ ResolveBegins
  /\ UNCHANGED <<pluginVars, modelsVars>>

\* The preparation is over: models.json and the answer were used.
SetupOver ==
  /\ setup' = None
  /\ writing' = "idle" /\ UNCHANGED <<models, durable, temporary>>
  /\ answer' = "none"
  /\ UNCHANGED <<archive, partial, tree, executable, left, job, url, interrupted>>

\* The worker process is started with the command and its models.json; who
\* started it waits for it to be up.
WorkerStarts ==
  /\ setup # None /\ writing = "done" /\ job = Idle
  /\ ~NeedsCommand /\ answer # "error"
  /\ LET g == calls[setup].on
         command == IF answer = "none" THEN triplet[g].command ELSE answer IN
       \/ /\ calls[setup].at # "reviving"
          /\ triplet' = [triplet EXCEPT ![g].worker = "starting", ![g].command = command]
          /\ IF calls[setup].at = "preparing" THEN Goes(setup, "handshake", g)
                                              ELSE UNCHANGED calls
       \/ /\ calls[setup].at = "reviving"
          /\ triplet' = [triplet EXCEPT ![g].resumed = "starting", ![g].command = command]
          /\ Goes(setup, "resuming", g)
  /\ SetupOver
  /\ UNCHANGED <<phase, leaving, service, scheduler, registry, row, loads>>

\* Something it needs is missing: a launch or a resume fails; a recovery orphans
\* the task and goes on.
SetupFails ==
  /\ setup # None /\ job = Idle
  /\ writing = "failed" \/ answer = "error"
  /\ IF calls[setup].at = "recovering"
     THEN row' = FALSE /\ UNCHANGED calls
     ELSE Goes(setup, "idle", None) /\ UNCHANGED row
  /\ SetupOver
  /\ UNCHANGED <<phase, leaving, service, scheduler, registry, triplet, loads>>

\* The handshake of a launch ends: the row is running, or the worker is
\* terminated, also if the registry was closed meanwhile.
LaunchEnds(c) ==
  /\ Free /\ calls[c].at = "handshake"
  /\ LET g == calls[c].on IN
       \/ /\ triplet[g].registry = "open"
          /\ triplet' = [triplet EXCEPT ![g].worker = "running"]
          /\ row' = TRUE
       \/ /\ triplet' = [triplet EXCEPT ![g].worker = "none"]
          /\ UNCHANGED row
  /\ Goes(c, "idle", None)
  /\ UNCHANGED <<phase, leaving, service, scheduler, registry, setup, loads>>
  /\ DiskUnchanged

\* The restarted worker answers: it is registered and recorded, whatever became of
\* the plugin meanwhile.  Or it does not, or it cannot be recorded in a closed
\* registry: it is terminated.
ResumeEnds(c) ==
  /\ Free /\ calls[c].at = "resuming"
  /\ LET g == calls[c].on IN
       \/ /\ triplet[g].registry = "open"
          /\ triplet' = [triplet EXCEPT ![g].resumed = "running"]
          /\ row' = TRUE
       \/ /\ triplet' = [triplet EXCEPT ![g].resumed = "none"]
          /\ UNCHANGED row
  /\ Goes(c, "idle", None)
  /\ UNCHANGED <<phase, leaving, service, scheduler, registry, setup, loads>>
  /\ DiskUnchanged

\* A scheduler that settles rows of the database.
Observing(g) == triplet[g].observer = "running" /\ triplet[g].registry = "open"

\* A worker is through with its task, and the observer settles that task's row.
WorkerFinishes(g) ==
  /\ \/ /\ triplet[g].worker \in {"running", "stray"}
        /\ triplet' = [triplet EXCEPT ![g].worker = "none"]
     \/ /\ triplet[g].resumed \in {"running", "stray"}
        /\ triplet' = [triplet EXCEPT ![g].resumed = "none"]
  /\ row' = (row /\ ~(Observing(g) /\ "running" \notin {triplet'[g].worker, triplet'[g].resumed}))
  /\ UNCHANGED <<phase, leaving, service, scheduler, registry, calls, setup, loads>>
  /\ DiskUnchanged

\* The observer loop ends with the error of its closed registry.
ObserverDies(g) ==
  /\ Free /\ triplet[g].observer = "running" /\ triplet[g].registry = "closed"
  /\ triplet' = [triplet EXCEPT ![g].observer = "stopped"]
  /\ UNCHANGED <<phase, leaving, service, scheduler, registry, calls, setup, row, loads>>
  /\ DiskUnchanged

-----------------------------------------------------------------------------
\* terminate(): the service refuses calls and cancels its launches.
UnloadBegins ==
  /\ phase = "up" /\ Free
  /\ phase' = "stopping"
  /\ triplet' = [triplet EXCEPT ![service].shut = TRUE]
  /\ UNCHANGED <<leaving, service, scheduler, registry, calls, setup, row, loads>>
  /\ DiskUnchanged

LaunchesOf(g) == {c \in Calls : calls[c].on = g /\ calls[c].at \in {"queued", "handshake"}}

\* The cancelled launches have ended, and with them the worker one was starting; a
\* resume belongs to its tool call and goes on.
\* The service is forgotten; the scheduler refuses workers and stops observing.
ServiceStops ==
  /\ phase = "stopping" /\ Free
  /\ calls' = [c \in Coroutines |-> IF c \in LaunchesOf(service) THEN Resting ELSE calls[c]]
  /\ triplet' = [triplet EXCEPT
       ![service].worker = IF @ = "starting" THEN "none" ELSE @,
       ![scheduler].closed = TRUE,
       ![scheduler].observer = "stopped"]
  /\ service' = None /\ leaving' = scheduler
  /\ phase' = "leaving"
  /\ UNCHANGED <<scheduler, registry, setup, row, loads>>
  /\ DiskUnchanged

\* The plugin is gone; the registry that is published now is closed, which need
\* not be the one of the scheduler that was shut down.
Gone(t) ==
  /\ triplet' = [t EXCEPT ![registry].registry = "closed"]
  /\ scheduler' = None /\ registry' = None /\ leaving' = None
  /\ phase' = "down"
  /\ UNCHANGED <<service, calls, setup, loads>>
  /\ DiskUnchanged

\* Mutant: the workers are left running.
Detached(w) == w

\* terminate() of a registered worker begins.
Doomed(w) == IF w = "running" THEN "closing" ELSE w

\* The registered workers of the scheduler are collected and terminated.  With none
\* there is nothing to wait for.
SchedulerCollects ==
  /\ phase = "leaving" /\ Free
  /\ LET resuming == \E c \in Coroutines : calls[c] = [at |-> "resuming", on |-> leaving]
         doomed == [triplet EXCEPT ![leaving].worker = Doomed(@),
                                   ![leaving].resumed = Doomed(@),
                                   ![leaving].missed = resuming] IN
       \/ /\ doomed[leaving].worker # "closing" /\ doomed[leaving].resumed # "closing"
          /\ Gone(doomed) /\ UNCHANGED row
       \/ /\ "closing" \in {doomed[leaving].worker, doomed[leaving].resumed}
          /\ triplet' = doomed /\ phase' = "killing"
          /\ UNCHANGED <<leaving, service, scheduler, registry, calls, setup, row, loads>>
          /\ DiskUnchanged

Ended(w) == IF w = "closing" THEN "none" ELSE w

\* They have ended and their tasks are orphaned, but not the task of a worker that
\* was registered since.
SchedulerStops ==
  /\ phase = "killing" /\ Free
  /\ Gone([triplet EXCEPT ![leaving].worker = Ended(@), ![leaving].resumed = Ended(@)])
  /\ row' = (row /\ triplet[leaving].resumed = "running")

\* A process outlives its host, unless that loses its power.
Left(w, power) ==
  IF ~power /\ w \in {"starting", "running", "closing", "stray"} THEN "stray" ELSE "none"

\* The host dies: the coroutines and the triplets with it.
Crash ==
  /\ RuntimeCrash
  /\ \E power \in {FALSE, Power} :
       /\ ModelsCrash(power)
       /\ triplet' = [g \in Triplets |->
            IF triplet[g].registry = "none" THEN Unbuilt
            ELSE [Unbuilt EXCEPT !.registry = "closed",
                                 !.worker = Left(triplet[g].worker, power),
                                 !.resumed = Left(triplet[g].resumed, power)]]
  /\ phase' = "down"
  /\ leaving' = None /\ service' = None /\ scheduler' = None /\ registry' = None
  /\ calls' = [c \in Coroutines |-> Resting]
  /\ setup' = None
  /\ UNCHANGED <<row, loads>>

CoroutineStep ==
  \E c \in Coroutines :
    \/ CallServed(c) \/ CallWaits(c) \/ CreationFails(c)
    \/ \E g \in Triplets : CreationPublishes(c, g) \/ CreationRecovers(c, g)
    \/ RecoveryEnds(c) \/ RecoveryRaises(c)
    \/ LaunchPrepares(c) \/ LaunchRefused(c) \/ LaunchEnds(c) \/ ResumeEnds(c)

SetupStep == SetupWrites \/ SetupResolves \/ WorkerStarts \/ SetupFails

DiskStep == RuntimeStep /\ UNCHANGED <<pluginVars, modelsVars>>

\* A user places an archive.
UserStep == (\E a \in Downloads : ArchivePlaced(a)) /\ UNCHANGED <<pluginVars, modelsVars>>

Next ==
  \/ Load
  \/ CoroutineStep \/ SetupStep \/ DiskStep \/ UserStep
  \/ \E g \in Triplets : WorkerFinishes(g) \/ ObserverDies(g)
  \/ UnloadBegins \/ ServiceStops \/ SchedulerCollects \/ SchedulerStops
  \/ Crash

Spec == Init /\ [][Next]_vars

(***************************************************************************)
(* What goes on by itself: synchronous code, a coroutine whose await is    *)
(* over, initialize() and terminate().  A call that is idle need not come. *)
(* Fairness is strong where other coroutines may block the event loop in   *)
(* between.                                                                *)
(***************************************************************************)
Proceeds(c) ==
  \/ calls[c].at = "waiting" /\ (CallServed(c) \/ CreationFails(c)
       \/ \E g \in Triplets : CreationPublishes(c, g) \/ CreationRecovers(c, g))
  \/ RecoveryEnds(c) \/ RecoveryRaises(c)
  \/ LaunchPrepares(c) \/ LaunchRefused(c) \/ LaunchEnds(c) \/ ResumeEnds(c)

BootArrives ==
  CreationFails(Boot) \/ \E g \in Triplets : CreationPublishes(Boot, g) \/ CreationRecovers(Boot, g)

FairSpec ==
  /\ Spec
  /\ WF_vars(SetupStep) /\ WF_vars(DiskStep)
  /\ \A c \in Coroutines : SF_vars(Proceeds(c))
  /\ WF_vars(BootArrives)
  /\ SF_vars(ServiceStops \/ SchedulerCollects \/ SchedulerStops)

-----------------------------------------------------------------------------

Live == {"starting", "running", "closing"}

(***************************************************************************)
(* Two schedulers never work on the database at once, however calls        *)
(* overlap with initialize() and terminate(): each would recover the tasks *)
(* of the other.  Triplets built while the plugin was being unloaded are   *)
(* the exception (README, section 6).                                      *)
(***************************************************************************)
OneScheduler ==
  \A g, h \in Triplets :
    Observing(g) /\ Observing(h) /\ triplet[g].apart = "no" /\ triplet[h].apart = "no" => g = h

(***************************************************************************)
(* Once the plugin is unloaded, no scheduler observes and no worker it     *)
(* started runs or is about to, wherever launches, restarts and the        *)
(* recovery were.  The exceptions are triplets built meanwhile, those      *)
(* whose recovery failed, which nobody shuts down, and the worker of a     *)
(* resume that was under way when shutdown collected the workers: only     *)
(* launches are cancelled, and only registered workers are terminated.     *)
(* (A stray is what a crash left, not the unloading: the next instance     *)
(* does not own it.)                                                       *)
(***************************************************************************)
UnloadLeavesNothing ==
  phase = "down" => \A g \in Triplets :
    triplet[g].apart = "no" =>
      /\ triplet[g].observer # "running"
      /\ triplet[g].worker \notin Live
      /\ triplet[g].resumed \in Live => triplet[g].missed

\* Every call is answered, and loading and unloading come to an end, whatever
\* fails: no lock is kept, no URL is tried for ever.
EverythingReturns ==
  /\ \A c \in Calls : calls[c].at # "idle" ~> calls[c].at = "idle"
  /\ phase \in {"installing", "loading", "stopping", "leaving", "killing"} ~> phase \in {"up", "down"}
===============================================================================

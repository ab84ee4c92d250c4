---------------------------- MODULE TaskSlots_proofs ----------------------------
(***************************************************************************)
(* Worker processes of TaskScheduler stay in sight and within the limit,   *)
(* for every value of the constants under which no client resumes a task:  *)
(* resume_task starts its worker without the submit lock and without the   *)
(* limit, and run double_resume shows what it does to these properties.    *)
(*                                                                         *)
(* The argument is about who holds a worker.  A launch and its adapter     *)
(* name the same worker, a recovery has its task to itself, and whoever    *)
(* drops an adapter closes the worker in the same step; so a process that  *)
(* was created or runs is registered, or a recovery is bringing it up.     *)
(***************************************************************************)
EXTENDS TaskWatch_proofs, FiniteSetTheorems

USE NoneAssumption, ClientsAssumption
-------------------------------------------------------------------------------
(***************************************************************************)
(* Nobody resumes.                                                         *)
(***************************************************************************)
NoResume == "resume" \notin Offered /\ \A a \in Actors : co[a].op # "resume"

LEMMA NothingResumes ==
  ASSUME NoResume
  PROVE  /\ \A c \in Clients, t \in Tasks :
              ~ResumeInPlace(c, t) /\ \A w \in Workers : ~ResumeRestarts(c, t, w)
         /\ \A a \in Actors : ~ResumeReady(a)
         /\ \A a \in Actors : RestartLosesRow(a) \/ RestartFails(a) => co[a].op = "recover"
  BY DEF NoResume, ResumeInPlace, ResumeRestarts, Calls, ResumeReady, RestartLosesRow,
         RestartFails, At

LEMMA StepNoResume ==
  ASSUME IInv, NoResume, Next
  PROVE  NoResume'
<1> SUFFICES ASSUME NEW a \in Actors, co'[a].op = "resume" PROVE FALSE
  BY DEF NoResume
<1>1. FrameStep(a) /\ co[a].op # "resume"
  BY StepCauses DEF NoResume
<1>2. ~Ceases(a) /\ ~Goes(a) /\ ~Abandons(a)
  BY <1>1 DEF Ceases, Idle, Call, Goes, Advances, Abandons, Becomes
<1>3. ~Begins(a)
  BY NothingResumes DEF Begins, Becomes
<1> QED
  BY <1>1, <1>2, <1>3 DEF FrameStep

\* Who recovers a task after a step did so before, or has just turned to it.
LEMMA RecoverBefore ==
  ASSUME TypeOK, NEW a \in Actors, FrameStep(a), co'[a].op = "recover"
  PROVE  \/ \E t \in Tasks, w \in Workers :
              /\ a \in Clients /\ RecoveryRestarts(a, t, w)
              /\ co'[a].t = t /\ co'[a].at = "starting" /\ co'[a].w = w
         \/ /\ co[a].op = "recover"
            /\ co'[a].t = co[a].t
            /\ co'[a].w = co[a].w
            /\ \/ co'[a] = co[a]
               \/ ProcessStarts(a) /\ co'[a].at = "handshake"
               \/ RecoveryReady(a) /\ co'[a].at = "steering"
               \/ /\ RestartLosesRow(a) \/ RestartFails(a) \/ RecoverySteerFails(a)
                  /\ co'[a].at = "killing"
<1>1. CASE co'[a] = co[a]
  BY <1>1
<1>2. CASE Ceases(a) \/ Abandons(a)
  BY <1>2 DEF Ceases, Idle, Call, Abandons, Becomes
<1>3. CASE Goes(a)
  <2>1. co[a].op = "recover" /\ co'[a].t = co[a].t
    BY <1>3 DEF Goes, Advances, Becomes
  <2>2. /\ \A w \in Workers : ~LaunchStarts(a, w)
        /\ ~LaunchReady(a) /\ ~PollAsksState(a) /\ ~ResumeReady(a) /\ ~PollReads(a)
        /\ ~LaunchFails(a) /\ ~Release(a) /\ ~DeleteTakesWorker(a)
    BY <2>1 DEF At, LaunchStarts, LaunchReady, PollAsksState, ResumeReady, PollReads,
                LaunchFails, Release, DeleteTakesWorker, DeleteLocked
  <2> QED
    BY <1>3, <2>1, <2>2 DEF Goes, Advances, Becomes
<1>4. CASE Begins(a)
  BY <1>4 DEF Begins, Becomes
<1> QED
  BY <1>1, <1>2, <1>3, <1>4 DEF FrameStep

\* Recovery goes through its tasks one by one.
OneRecovers ==
  \A a, b \in Actors : co[a].op = "recover" /\ co[b].op = "recover" => a = b

LEMMA StepOneRecovers ==
  ASSUME IInv, Stages, OneRecovers, Next
  PROVE  OneRecovers'
<1> TypeOK
  BY DEF IInv
<1>1. ASSUME NEW a \in Actors, NEW t \in Tasks, NEW w \in Workers, RecoveryRestarts(a, t, w),
             a \in Clients, NEW b \in Actors, co'[b].op = "recover"
      PROVE  a = b
  <2>1. \A d \in Actors : co[d].op # "recover"
    BY <1>1 DEF RecoveryRestarts, Recovers, Stages, Idle, Call, Actors
  <2>2. \A d \in Actors \ {a} : co'[d] = co[d]
    BY <1>1, CallBegins DEF RecoveryRestarts
  <2> QED
    BY <1>1, <2>1, <2>2
<1>2. ASSUME NEW a \in Actors, NEW b \in Actors, co'[a].op = "recover", co'[b].op = "recover"
      PROVE  a = b
  <2>1. FrameStep(a) /\ FrameStep(b)
    BY StepCauses
  <2> QED
    BY <1>1, <1>2, <2>1, RecoverBefore DEF OneRecovers
<1> QED
  BY <1>2 DEF OneRecovers
-------------------------------------------------------------------------------
(***************************************************************************)
(* A task that was not launched yet has no worker, one that is being       *)
(* cancelled has one.                                                      *)
(***************************************************************************)
\* A worker gets its task when it is created, from the call that creates it.
LEMMA StepGiven ==
  ASSUME TypeOK, Next, NEW w \in Workers
  PROVE  \/ wk'[w].t = wk[w].t
         \/ \E a \in Actors : LaunchStarts(a, w) /\ wk'[w].t = co[a].t
         \/ \E c \in Clients, t \in Tasks : /\ ResumeRestarts(c, t, w) \/ RecoveryRestarts(c, t, w)
                                            /\ wk'[w].t = t
<1>1. ASSUME UNCHANGED wk \/ \E W : wk' = Closed(W) PROVE wk'[w].t = wk[w].t
  BY <1>1 DEF Closed, TypeOK, Worker
<1>2. ASSUME NEW v \in Workers, NEW t, wk' = Started(v, t), v # w PROVE wk'[w].t = wk[w].t
  BY <1>2 DEF Started, TypeOK
<1>3. ASSUME NEW a \in Actors, NEW v \in Workers, LaunchStarts(a, v)
      PROVE  wk'[w].t = wk[w].t \/ (LaunchStarts(a, w) /\ wk'[w].t = co[a].t)
  BY <1>2, <1>3, StartedState DEF LaunchStarts
<1>4. ASSUME NEW c \in Clients, NEW t \in Tasks, NEW v \in Workers,
             ResumeRestarts(c, t, v) \/ RecoveryRestarts(c, t, v)
      PROVE  wk'[w].t = wk[w].t \/ (v = w /\ wk'[w].t = t)
  BY <1>2, <1>4, StartedState DEF ResumeRestarts, RecoveryRestarts
<1>5. ASSUME NEW a \in Actors, ProcessStarts(a) PROVE wk'[w].t = wk[w].t
  BY <1>5 DEF ProcessStarts, TypeOK, Worker
<1>6. ASSUME NEW v \in Workers, WorkerEvent(v) \/ WorkerEnds(v) PROVE wk'[w].t = wk[w].t
  BY <1>6 DEF WorkerEvent, WorkerEnds, TypeOK, Worker
<1>7. ASSUME Load \/ Crash PROVE wk'[w].t = wk[w].t
  BY <1>7 DEF Load, Crash, TypeOK, Worker
<1>8. ASSUME NEW a \in Actors, Continue(a), ~ProcessStarts(a),
             \A v \in Workers : ~LaunchStarts(a, v)
      PROVE  wk'[w].t = wk[w].t
  BY <1>1, <1>8
     DEF Continue, PollFindsNothing, PollFindsNoWorker, PollAsksState, PollReads,
         PollLosesRow, Release, KillerReturns, LaunchRefused, LaunchReady, LaunchDone,
         LaunchFails, LaunchFailed, ResumeReady, RestartLosesRow, RestartFails, Steered,
         SteerFails, CancelSettles, DeleteTakesWorker, DeleteRemoves, RecoveryReady,
         RecoverySteered, RecoverySteerFails, RecoveryGivesUp
<1> QED
  BY <1>1, <1>3, <1>4, <1>5, <1>6, <1>7, <1>8
     DEF Next, CallTool, Create, Poll, FollowUp, ResumeInPlace, CancelNow, CancelAborts,
         Delete, ObserverCycle, Purge, Unload, StopService, StopObserver, StopWorkers,
         CloseRegistry, Recover, RecoverySkips, RecoveryImpossible, Publish

Worked ==
  \A a \in Actors : co[a].op = "cancel" => \E w \in Workers : Owned(co[a].t, w)

LEMMA StepWorked ==
  ASSUME IInv, Worked, Next
  PROVE  Worked'
<1> TypeOK /\ Owners
  BY DEF IInv
<1> SUFFICES ASSUME NEW a \in Actors, co'[a].op = "cancel"
             PROVE  \E w \in Workers : OwnedThen(co'[a].t, w)
  BY DEF Worked, Owned, OwnedThen
<1>1. FrameStep(a) /\ WorkersKept
  BY StepCauses
<1>2. CASE co[a].op = "cancel" /\ co'[a].t = co[a].t
  BY <1>1, <1>2, StaysOwned DEF Worked
<1>3. CASE Begins(a)
  <2>1. PICK t \in Tasks : CancelAborts(a, t) /\ co'[a].t = t
    BY <1>3 DEF Begins, Becomes
  <2>2. adapters[t] \in Workers /\ adapters[t] # None
    BY <2>1 DEF CancelAborts, Running
  <2> QED
    BY <1>1, <2>1, <2>2, StaysOwned DEF Owners, AdaptersOwned
<1>4. ~Ceases(a) /\ ~Abandons(a)
  BY DEF Ceases, Idle, Call, Abandons, Becomes
<1> QED
  BY <1>1, <1>2, <1>3, <1>4 DEF FrameStep, Goes, Advances, Becomes

\* The launch of t is still to get the submit lock.
Waiting(t) ==
  \E a \in Actors : co[a].op = "launch" /\ co[a].at = "submit_lock" /\ co[a].t = t

Unstarted ==
  \A t \in Tasks : rows[t].status = "unborn" \/ Waiting(t) =>
    \A w \in Workers : wk[w].t # t

LEMMA StepUnstarted ==
  ASSUME IInv, Stages, AgendaFresh, Unstarted, Next
  PROVE  Unstarted'
<1> TypeOK /\ Launches /\ NoDecision
  BY DEF IInv
<1> SUFFICES ASSUME NEW t \in Tasks,
                    \/ rows'[t].status = "unborn"
                    \/ \E a \in Actors : /\ co'[a].op = "launch" /\ co'[a].at = "submit_lock"
                                         /\ co'[a].t = t,
                    NEW w \in Workers, wk'[w].t = t
             PROVE  FALSE
  BY DEF Unstarted, Waiting
<1>1. \/ rows[t].status = "unborn"
      \/ \E a \in Actors : /\ co[a].op = "launch" /\ co[a].at = "submit_lock" /\ co[a].t = t
                           /\ co'[a].at = "submit_lock"
  <2>1. rows'[t].status = "unborn" => rows[t].status = "unborn"
    BY StepCauses DEF StatusStep
  <2>2. ASSUME NEW a \in Actors, co'[a].op = "launch", co'[a].at = "submit_lock", co'[a].t = t
        PROVE  \/ rows[t].status = "unborn"
               \/ co[a].op = "launch" /\ co[a].at = "submit_lock" /\ co[a].t = t
    <3>1. \A u \in Tasks : Create(a, u) => rows[u].status = "unborn"
      BY DEF Create
    <3> QED
      BY <2>2, <3>1, StepCauses, LaunchBefore
  <2> QED
    BY <2>1, <2>2
<1>2. wk[w].t # t
  BY <1>1 DEF Unstarted, Waiting
<1>3. ASSUME NEW b \in Actors, LaunchStarts(b, w), co[b].t = t PROVE FALSE
  <2>1. co[b].op = "launch" /\ rows[t].status # "unborn" /\ co'[b].at = "starting"
    BY <1>3, GotoOnAdvances DEF LaunchStarts, At, Launches, LaunchesFirst, Advances, Becomes
  <2> QED
    BY <1>1, <1>3, <2>1 DEF Launches, LaunchesOnce
<1>4. ASSUME NEW c \in Clients, RecoveryRestarts(c, t, w) PROVE FALSE
  <2>1. phase = "boot" /\ rows[t].status = "running"
    BY <1>4 DEF RecoveryRestarts, Recovers, AgendaFresh
  <2> QED
    BY <1>1, <2>1, StageOf
<1>5. ASSUME NEW c \in Clients, ResumeRestarts(c, t, w) PROVE FALSE
  <2>1. rows[t].status \in Active \cup {"orphaned"}
    BY <1>5 DEF ResumeRestarts, Active, Resumable, NoDecision
  <2> QED
    BY <1>1, <2>1 DEF Launches, LaunchesFirst, Unprompted, Active
<1> QED
  BY <1>2, <1>3, <1>4, <1>5, StepGiven
-------------------------------------------------------------------------------
(***************************************************************************)
(* Recovery has its task to itself until the worker is registered.         *)
(***************************************************************************)
BringingUp == {"starting", "handshake"}

Sole ==
  \A a \in Actors : co[a].op = "recover" /\ co[a].at \in BringingUp =>
    /\ rows[co[a].t].status = "running"
    /\ adapters[co[a].t] = None
    /\ \A b \in Actors \ {a} : co[b].op # "idle" => co[b].t # co[a].t

LEMMA NoRowLost ==
  ASSUME Stages, NoResume, Sole, NEW a \in Actors
  PROVE  ~RestartLosesRow(a)
<1> SUFFICES ASSUME RestartLosesRow(a) PROVE FALSE
  OBVIOUS
<1>1. co[a].op = "recover" /\ co[a].at = "handshake" /\ ~Present(co[a].t)
  BY NothingResumes DEF RestartLosesRow, At
<1> QED
  BY <1>1, StageOf DEF Sole, BringingUp, Present, Statuses

\* A worker is registered by a launch that has just got the submit lock, for a
\* task without one, or by the recovery that brought it up.
LaunchRegisters(b, t) ==
  /\ co[b].op = "launch" /\ co[b].at = "submit_lock" /\ co[b].t = t
  /\ phase = "up" /\ adapters[t] = None
  /\ co'[b].at = "starting"
  /\ \E w \in Workers : LaunchStarts(b, w) /\ adapters'[t] = w

RecoveryRegisters(b, t) ==
  /\ co[b].op = "recover" /\ co[b].at = "handshake" /\ co[b].t = t
  /\ phase = "boot" /\ adapters[t] = None
  /\ co'[b].at = "steering"
  /\ RecoveryReady(b)
  /\ adapters'[t] = co[b].w

LEMMA StepRegisters ==
  ASSUME IInv, Stages, NoResume, Sole, Next, NEW t \in Tasks
  PROVE  \/ adapters'[t] = adapters[t]
         \/ adapters'[t] = None /\ Drops(t)
         \/ \E b \in Actors : LaunchRegisters(b, t) \/ RecoveryRegisters(b, t)
<1> TypeOK
  BY DEF IInv
<1>1. ASSUME NEW b \in Actors, co[b].t = t, NEW w \in Workers, LaunchStarts(b, w),
             adapters'[t] = w
      PROVE  LaunchRegisters(b, t)
  <2>1. At(b, {"launch"}, "submit_lock") /\ adapters[t] = None
    BY <1>1 DEF LaunchStarts
  <2>2. co'[b].at = "starting"
    BY <1>1, GotoOnAdvances DEF LaunchStarts, Advances, Becomes
  <2> QED
    BY <1>1, <2>1, <2>2, StageOf DEF At, LaunchRegisters
<1>2. ASSUME NEW b \in Actors, co[b].t = t, RecoveryReady(b), adapters'[t] = co[b].w
      PROVE  RecoveryRegisters(b, t)
  <2>1. co[b].op = "recover" /\ co[b].at = "handshake"
    BY <1>2 DEF RecoveryReady, At
  <2>2. co'[b].at = "steering"
    BY <1>2, GotoAdvances DEF RecoveryReady, Advances, Becomes
  <2> QED
    BY <1>2, <2>1, <2>2, StageOf DEF Sole, BringingUp, RecoveryRegisters
<1> QED
  BY <1>1, <1>2, StepCauses, NothingResumes, NoRowLost DEF AdapterStep

\* While a recovery has its task to itself, nobody else begins a call on it.
LEMMA NobodyBegins ==
  ASSUME IInv, Stages, AgendaFresh, NoResume, Sole, NEW a \in Actors, NEW t \in Tasks,
         co[a].op = "recover", co[a].at \in BringingUp, co[a].t = t,
         NEW b \in Actors, b # a, Begins(b), co'[b].t = t
  PROVE  FALSE
<1>1. /\ phase = "boot" /\ adapters[t] = None
      /\ co[b].op # "idle" => co[b].t # t
  BY StageOf DEF Sole
<1>2. CASE Steered(b) /\ co[b].t = t
  BY <1>1, <1>2 DEF Steered, At
<1>3. CASE b \in Registered /\ b = t
  BY <1>1, <1>3 DEF Registered
<1>4. ASSUME b \in Clients, NEW w \in Workers, RecoveryRestarts(b, t, w) PROVE FALSE
  <2>1. co[a].op = "idle"
    BY <1>4, StageOf DEF RecoveryRestarts, Recovers, Idle, Call
  <2> QED
    BY <2>1
<1>5. co'[b].op = "recover" \/ b \notin Clients
  BY <1>1, BeginsPhase
<1> QED
  BY <1>2, <1>3, <1>4, <1>5 DEF Begins, Becomes, Registered

LEMMA StepSole ==
  ASSUME IInv, Stages, AgendaFresh, NoResume, Sole, Next
  PROVE  Sole'
<1> TypeOK
  BY DEF IInv
<1> SUFFICES ASSUME NEW a \in Actors, NEW t, co'[a].op = "recover", co'[a].at \in BringingUp,
                    co'[a].t = t
             PROVE  /\ rows'[t].status = "running"
                    /\ adapters'[t] = None
                    /\ \A b \in Actors \ {a} : co'[b].op # "idle" => co'[b].t # t
  BY DEF Sole
<1>1. ASSUME NEW w \in Workers, t \in Tasks, RecoveryRestarts(a, t, w)
      PROVE  /\ rows'[t].status = "running"
             /\ adapters'[t] = None
             /\ \A b \in Actors \ {a} : co'[b].op # "idle" => co'[b].t # t
  <2>1. /\ rows' = rows /\ adapters' = adapters /\ phase = "boot" /\ t \in agenda
        /\ \A b \in Actors \ {a} : co'[b] = co[b]
    BY <1>1, CallBegins DEF RecoveryRestarts, Recovers
  <2> QED
    BY <2>1, InFlightBy DEF AgendaFresh
<1>2. ASSUME co[a].op = "recover", co[a].t = t, co'[a] = co[a] \/ ProcessStarts(a)
      PROVE  /\ rows'[t].status = "running"
             /\ adapters'[t] = None
             /\ \A b \in Actors \ {a} : co'[b].op # "idle" => co'[b].t # t
  <2>1. co[a].at \in BringingUp /\ t \in Tasks /\ phase = "boot"
    BY <1>2, FrameTypes, StageOf DEF ProcessStarts, At, BringingUp
  <2>2. /\ rows[t].status = "running" /\ adapters[t] = None
        /\ \A b \in Actors \ {a} : co[b].op # "idle" => co[b].t # t
    BY <1>2, <2>1 DEF Sole
  <2>3. InFlight(t)
    BY <1>2, InFlightBy
  <2>4. rows'[t] = rows[t]
    <3>1. ASSUME Continue(a) PROVE rows' = rows
      <4>1. co'[a].at \in BringingUp /\ co[a].op = "recover" /\ co[a].at \in BringingUp
        BY <1>2, <2>1
      <4>2. ~RecoveryReady(a)
        BY <4>1, GotoAdvances DEF RecoveryReady, Advances, Becomes, BringingUp
      <4> QED
        BY <3>1, <4>1, <4>2
           DEF BringingUp, Continue, At, PollFindsNothing, PollFindsNoWorker, PollAsksState,
               PollReads, PollLosesRow, Release, KillerReturns, LaunchStarts, LaunchRefused,
               ProcessStarts, LaunchReady, LaunchDone, LaunchFails, LaunchFailed, ResumeReady,
               RestartLosesRow, RestartFails, Steered, SteerFails, CancelSettles,
               DeleteTakesWorker, DeleteRemoves, DeleteLocked, RecoverySteered,
               RecoverySteerFails, RecoveryGivesUp
    <3>2. \A c \in Clients : ~CallTool(c, t)
      BY <2>1 DEF CallTool, Create, Poll, FollowUp, ResumeInPlace, ResumeRestarts, CancelNow,
                  CancelAborts, Delete, Calls
    <3>3. ~Purge(t) /\ ~StopObserver /\ ~CloseRegistry
      BY <2>1, <2>2, PhaseMoves DEF Purge, Terminal
    <3>4. ~Recover(t)
      BY <2>1, <2>3 DEF Recover, RecoverySkips, RecoveryImpossible, RecoveryRestarts, Recovers,
                        AgendaFresh
    <3> QED
      BY <2>1, <2>2, <3>1, <3>2, <3>3, <3>4, StepTouches, Continues DEF Touches
  <2>5. adapters'[t] = None
    <3>1. ASSUME NEW b \in Actors, LaunchRegisters(b, t) \/ RecoveryRegisters(b, t) PROVE FALSE
      <4>1. b = a
        BY <2>2, <3>1 DEF LaunchRegisters, RecoveryRegisters
      <4> QED
        BY <1>2, <3>1, <4>1 DEF LaunchRegisters, RecoveryRegisters, BringingUp
    <3> QED
      BY <2>1, <2>2, <3>1, StepRegisters
  <2>6. ASSUME NEW b \in Actors, b # a, co'[b].op # "idle", co'[b].t = t PROVE FALSE
    BY <1>2, <2>1, <2>2, <2>6, StepCauses, WorkBefore, NobodyBegins
  <2> QED
    BY <2>2, <2>4, <2>5, <2>6
<1> QED
  BY <1>1, <1>2, StepCauses, RecoverBefore DEF BringingUp
-------------------------------------------------------------------------------
(***************************************************************************)
(* Whose worker is registered while a coroutine holds one.                 *)
(***************************************************************************)
Looking == {"get_state", "releasing"}

LaunchOwns ==
  \A a \in Actors : co[a].op = "launch" /\ co[a].at \in Halfway => adapters[co[a].t] = co[a].w

SteerOwns ==
  \A a \in Actors : co[a].op = "recover" /\ co[a].at = "steering" =>
    adapters[co[a].t] \in {None, co[a].w}

LookOwns ==
  \A a \in Actors : co[a].op \in {"poll", "cancel"} /\ co[a].at \in Looking =>
    co[a].w \in Workers /\ adapters[co[a].t] \in {None, co[a].w}

\* Who terminates the worker of its task has dropped it.
KillDrops ==
  \A a \in Actors : co[a].op \in {"launch", "recover", "cancel", "delete"}
                      /\ co[a].at = "killing" => adapters[co[a].t] = None

LEMMA StepLaunchOwns ==
  ASSUME IInv, Stages, HalfwayRegistered, NoResume, Sole, LaunchOwns, Next
  PROVE  LaunchOwns'
<1> TypeOK /\ Launches
  BY DEF IInv
<1> SUFFICES ASSUME NEW a \in Actors, NEW t, co'[a].op = "launch", co'[a].at \in Halfway,
                    co'[a].t = t
             PROVE  adapters'[t] = co'[a].w
  BY DEF LaunchOwns
<1>1. /\ co[a].op = "launch" /\ co[a].t = t /\ t \in Tasks
      /\ \/ co'[a].w = co[a].w /\ co[a].at \in Halfway
         \/ \E w \in Workers : LaunchStarts(a, w) /\ co'[a].w = w
  <2>1. ProcessStarts(a) \/ LaunchReady(a) => co[a].at \in Halfway
    BY DEF ProcessStarts, LaunchReady, At, Halfway
  <2>2. co'[a].at \notin {"submit_lock", "killing"}
    BY DEF Halfway
  <2> QED
    BY <2>1, <2>2, StepCauses, LaunchBefore, FrameTypes
<1>2. ASSUME NEW w \in Workers, LaunchStarts(a, w), co'[a].w = w PROVE adapters'[t] = w
  BY <1>1, <1>2 DEF LaunchStarts, TypeOK
<1>3. CASE co'[a].w = co[a].w /\ co[a].at \in Halfway
  <2>1. adapters[t] = co[a].w /\ ~Drops(t)
    BY <1>1, <1>3, HalfwayKept DEF LaunchOwns
  <2>2. ASSUME NEW b \in Actors, LaunchRegisters(b, t) \/ RecoveryRegisters(b, t) PROVE FALSE
    BY <1>1, <1>3, <2>1, <2>2 DEF HalfwayRegistered, LaunchRegisters, RecoveryRegisters
  <2> QED
    BY <1>1, <1>3, <2>1, <2>2, StepRegisters
<1> QED
  BY <1>1, <1>2, <1>3

LEMMA StepSteerOwns ==
  ASSUME IInv, Stages, NoResume, Sole, OneRecovers, SteerOwns, Next
  PROVE  SteerOwns'
<1> TypeOK
  BY DEF IInv
<1> SUFFICES ASSUME NEW a \in Actors, NEW t, co'[a].op = "recover", co'[a].at = "steering",
                    co'[a].t = t
             PROVE  adapters'[t] \in {None, co'[a].w}
  BY DEF SteerOwns
<1>1. /\ co[a].op = "recover" /\ co[a].t = t /\ co'[a].w = co[a].w /\ t \in Tasks
      /\ co'[a] = co[a] \/ RecoveryReady(a)
  BY StepCauses, RecoverBefore, FrameTypes
<1>2. CASE RecoveryReady(a)
  BY <1>1, <1>2 DEF RecoveryReady, TypeOK
<1>3. CASE co'[a] = co[a]
  <2>1. adapters[t] \in {None, co[a].w} /\ phase = "boot"
    BY <1>1, <1>3, StageOf DEF SteerOwns
  <2>2. ASSUME NEW b \in Actors, LaunchRegisters(b, t) \/ RecoveryRegisters(b, t) PROVE FALSE
    BY <1>1, <1>3, <2>1, <2>2 DEF OneRecovers, LaunchRegisters, RecoveryRegisters
  <2> QED
    BY <1>1, <1>3, <2>1, <2>2, StepRegisters
<1> QED
  BY <1>1, <1>2, <1>3

\* Who looks at a worker after a step did so before, or has just picked the one
\* registered.
LEMMA LookBefore ==
  ASSUME TypeOK, NEW a \in Actors, FrameStep(a), co'[a].op \in {"poll", "cancel"},
         co'[a].at \in Looking
  PROVE  \/ /\ co[a].op \in {"poll", "cancel"} /\ co[a].at \in Looking
            /\ co'[a].t = co[a].t /\ co'[a].w = co[a].w
         \/ PollAsksState(a) /\ co'[a].t = co[a].t /\ co'[a].w = adapters[co[a].t]
         \/ \E t \in Tasks : /\ a \in Clients /\ CancelAborts(a, t)
                             /\ co'[a].t = t /\ co'[a].w = adapters[t]
<1>1. CASE co'[a] = co[a]
  BY <1>1
<1>2. CASE Ceases(a) \/ Abandons(a)
  BY <1>2 DEF Ceases, Idle, Call, Abandons, Becomes
<1>3. CASE Goes(a)
  <2>1. PollReads(a) => co[a].op = "poll" /\ co[a].at \in Looking
    BY DEF PollReads, At, Looking
  <2> QED
    BY <1>3, <2>1 DEF Goes, Advances, Becomes, Looking
<1>4. CASE Begins(a)
  BY <1>4 DEF Begins, Becomes, Looking
<1> QED
  BY <1>1, <1>2, <1>3, <1>4 DEF FrameStep

LEMMA StepLookOwns ==
  ASSUME IInv, AllOwned, Stages, NoResume, Sole, Unstarted, LookOwns, Next
  PROVE  LookOwns'
<1> TypeOK
  BY DEF IInv
<1> SUFFICES ASSUME NEW a \in Actors, NEW t, co'[a].op \in {"poll", "cancel"},
                    co'[a].at \in Looking, co'[a].t = t
             PROVE  co'[a].w \in Workers /\ adapters'[t] \in {None, co'[a].w}
  BY DEF LookOwns
<1>1. CASE PollAsksState(a) /\ co[a].t = t /\ co'[a].w = adapters[t]
  <2>1. t \in Tasks /\ adapters[t] # None /\ adapters' = adapters
    BY <1>1, Resumes DEF PollAsksState
  <2> QED
    BY <1>1, <2>1 DEF TypeOK
<1>2. ASSUME t \in Tasks, CancelAborts(a, t), co'[a].w = adapters[t]
      PROVE  co'[a].w \in Workers /\ adapters'[t] \in {None, co'[a].w}
  BY <1>2 DEF CancelAborts, Running
<1>3. CASE /\ co[a].op \in {"poll", "cancel"} /\ co[a].at \in Looking
           /\ co[a].t = t /\ co'[a].w = co[a].w
  <2>1. co[a].w \in Workers /\ adapters[t] \in {None, co[a].w} /\ t \in Tasks
    BY <1>3, FrameTypes DEF LookOwns
  <2>2. wk[co[a].w].t = t
    BY <1>3, <2>1 DEF AllOwned, Owned
  <2>3. ASSUME NEW b \in Actors, LaunchRegisters(b, t) PROVE FALSE
    BY <2>1, <2>2, <2>3 DEF LaunchRegisters, Unstarted, Waiting
  <2>4. ASSUME NEW b \in Actors, RecoveryRegisters(b, t) PROVE FALSE
    BY <1>3, <2>4 DEF RecoveryRegisters, Sole, BringingUp
  <2> QED
    BY <1>3, <2>1, <2>3, <2>4, StepRegisters
<1> QED
  BY <1>1, <1>2, <1>3, StepCauses, LookBefore

LEMMA CancelKillBefore ==
  ASSUME TypeOK, NEW a \in Actors, FrameStep(a), co'[a].op = "cancel", co'[a].at = "killing"
  PROVE  co'[a] = co[a] \/ (Release(a) /\ co[a].op = "cancel" /\ co'[a].t = co[a].t)
<1>1. ~Ceases(a) /\ ~Abandons(a) /\ ~Begins(a)
  BY DEF Ceases, Idle, Call, Abandons, Begins, Becomes
<1>2. ASSUME Goes(a) PROVE Release(a) /\ co[a].op = "cancel" /\ co'[a].t = co[a].t
  <2>1. co[a].op = "cancel" /\ co'[a].t = co[a].t
    BY <1>2 DEF Goes, Advances, Becomes
  <2>2. /\ ~LaunchFails(a) /\ ~RestartLosesRow(a) /\ ~RestartFails(a)
        /\ ~RecoverySteerFails(a) /\ ~DeleteTakesWorker(a)
    BY <2>1 DEF At, LaunchFails, RestartLosesRow, RestartFails, RecoverySteerFails,
                DeleteTakesWorker, DeleteLocked
  <2> QED
    BY <1>2, <2>1, <2>2 DEF Goes, Advances, Becomes
<1> QED
  BY <1>1, <1>2 DEF FrameStep

LEMMA StepKillDrops ==
  ASSUME IInv, Stages, DeletesLast, NoResume, Worked, Unstarted, Sole, LookOwns, KillDrops, Next
  PROVE  KillDrops'
<1> TypeOK /\ Launches
  BY DEF IInv
<1> SUFFICES ASSUME NEW a \in Actors, NEW t,
                    co'[a].op \in {"launch", "recover", "cancel", "delete"},
                    co'[a].at = "killing", co'[a].t = t
             PROVE  adapters'[t] = None
  BY DEF KillDrops
<1>0. FrameStep(a)
  BY StepCauses
<1>1. /\ co[a].op = co'[a].op /\ co[a].t = t /\ t \in Tasks
      /\ \/ co'[a] = co[a]
         \/ LaunchFails(a) \/ RestartFails(a) \/ RecoverySteerFails(a) \/ DeleteTakesWorker(a)
         \/ Release(a) /\ co[a].op = "cancel"
  <2>1. CASE co'[a].op = "launch"
    BY <1>0, <2>1, LaunchBefore, FrameTypes
  <2>2. CASE co'[a].op = "recover"
    BY <1>0, <2>2, RecoverBefore, NoRowLost, FrameTypes
  <2>3. CASE co'[a].op = "delete"
    BY <1>0, <2>3, DeleteBefore, FrameTypes
  <2>4. CASE co'[a].op = "cancel"
    BY <1>0, <2>4, CancelKillBefore, FrameTypes
  <2> QED
    BY <2>1, <2>2, <2>3, <2>4
<1>2. CASE LaunchFails(a) \/ RecoverySteerFails(a) \/ DeleteTakesWorker(a)
  BY <1>1, <1>2 DEF LaunchFails, RecoverySteerFails, DeleteTakesWorker, TypeOK
<1>3. CASE RestartFails(a)
  <2>1. co[a].op = "recover" /\ co[a].at \in BringingUp /\ adapters' = adapters
    BY <1>3, NothingResumes DEF RestartFails, At, BringingUp
  <2> QED
    BY <1>1, <2>1 DEF Sole
<1>4. CASE Release(a) /\ co[a].op = "cancel"
  <2>1. adapters[t] \in {None, co[a].w}
    BY <1>1, <1>4 DEF Release, At, LookOwns, Looking
  <2> QED
    BY <1>1, <1>4, <2>1 DEF Release, TypeOK
<1>5. CASE co'[a] = co[a]
  <2>1. adapters[t] = None
    BY <1>1, <1>5 DEF KillDrops
  <2>2. ASSUME NEW b \in Actors, RecoveryRegisters(b, t) PROVE FALSE
    BY <1>1, <1>5, <2>2 DEF RecoveryRegisters, Sole, BringingUp
  <2>3. ASSUME NEW b \in Actors, LaunchRegisters(b, t) PROVE FALSE
    <3>1. co[b].op = "launch" /\ co[b].at = "submit_lock" /\ co[b].t = t /\ phase = "up"
      BY <2>3 DEF LaunchRegisters
    <3>2. co[a].op # "launch" /\ co[a].op # "recover"
      BY <1>1, <1>5, <3>1, StageOf DEF Launches, LaunchesOnce
    <3>3. co[a].op # "delete"
      BY <1>1, <1>5, <3>1 DEF DeletesLast, Pending
    <3>4. co[a].op # "cancel"
      BY <1>1, <3>1 DEF Worked, Owned, Unstarted, Waiting
    <3> QED
      BY <1>1, <3>2, <3>3, <3>4
  <2> QED
    BY <1>1, <2>1, <2>2, <2>3, StepRegisters
<1> QED
  BY <1>1, <1>2, <1>3, <1>4, <1>5
-------------------------------------------------------------------------------
(***************************************************************************)
(* Who closes a worker.                                                    *)
(***************************************************************************)
Closes(w) ==
  \/ \E a \in Actors : /\ co[a].w = w
                       /\ \/ LaunchFails(a) \/ RestartLosesRow(a) \/ RestartFails(a)
                          \/ RecoverySteerFails(a)
                          \/ Release(a) /\ adapters[co[a].t] = w
  \/ \E a \in Actors : DeleteTakesWorker(a) /\ adapters[co[a].t] = w
  \/ \E t \in Tasks : (Purge(t) \/ StopWorkers) /\ adapters[t] = w
  \/ /\ StopService
     /\ \E a \in Actors : co[a].op = "launch" /\ co[a].at \in Halfway /\ co[a].w = w
  \/ Crash

BusyStates == {"created", "running"}

HalfwayWorkers ==
  {w \in Workers : \E c \in Clients :
     co[c].op = "launch" /\ co[c].at \in Halfway /\ co[c].w = w}

LEMMA StopServiceCloses ==
  ASSUME StopService
  PROVE  wk' = Closed(HalfwayWorkers)
<1> DEFINE launches == {c \in Clients : co[c].op = "launch"}
           halfway  == {c \in launches : co[c].at \in {"starting", "handshake", "prompting"}}
           W        == {w \in Workers : \E c \in halfway : co[c].w = w}
<1>1. wk' = Closed(W)
  BY DEF StopService
<1>2. W = HalfwayWorkers
  BY DEF HalfwayWorkers, Halfway
<1> HIDE DEF W
<1> QED
  BY <1>1, <1>2

LEMMA ClosedEnds ==
  ASSUME TypeOK, NEW W, wk' = Closed(W), NEW w \in Workers
  PROVE  /\ w \in W => wk'[w].st \notin BusyStates
         /\ w \notin W => wk'[w] = wk[w]
<1>1. wk[w] \in Worker
  BY DEF TypeOK
<1>2. CASE w \in W /\ wk[w].st \in BusyStates
  BY <1>1, <1>2 DEF Closed, Worker, BusyStates
<1>3. CASE w \in W /\ wk[w].st \notin BusyStates
  BY <1>1, <1>3 DEF Closed, Worker, BusyStates
<1>4. CASE w \notin W
  <2>1. wk'[w] = [wk[w] EXCEPT !.st = wk[w].st]
    BY <1>4 DEF Closed
  <2> QED
    BY <1>1, <1>4, <2>1 DEF Worker
<1> QED
  BY <1>2, <1>3, <1>4

\* A closed worker is neither created nor running any more.
LEMMA ClosesEnds ==
  ASSUME TypeOK, Stages, NEW w \in Workers, Closes(w)
  PROVE  wk'[w].st \notin BusyStates
<1>1. CASE \E W : wk' = Closed(W) /\ w \in W
  BY <1>1, ClosedEnds
<1>2. CASE Crash
  BY <1>2 DEF Crash, TypeOK, Worker, BusyStates
<1>3. CASE StopWorkers /\ \E t \in Tasks : adapters[t] = w
  <2>1. wk' = Closed({adapters[t] : t \in Registered})
    BY <1>3 DEF StopWorkers
  <2>2. w \in {adapters[t] : t \in Registered}
    BY <1>3 DEF Registered
  <2> QED
    BY <1>1, <2>1, <2>2
<1>4. CASE /\ StopService
           /\ \E a \in Actors : co[a].op = "launch" /\ co[a].at \in Halfway /\ co[a].w = w
  <2>1. w \in HalfwayWorkers
    BY <1>4, StageOf DEF HalfwayWorkers
  <2> QED
    BY <1>1, <1>4, <2>1, StopServiceCloses
<1>5. ASSUME NEW a \in Actors, co[a].w = w, Release(a), adapters[co[a].t] = w
      PROVE  wk' = Closed({w})
  BY <1>5 DEF Release
<1> QED
  BY <1>1, <1>2, <1>3, <1>4, <1>5
     DEF Closes, LaunchFails, RestartLosesRow, RestartFails, RecoverySteerFails,
         DeleteTakesWorker, Purge

\* A created worker stays so until its process starts or it is closed.
LEMMA CreatedStays ==
  ASSUME TypeOK, Next, NEW w \in Workers, wk[w].st = "created"
  PROVE  \/ wk'[w].st = "created"
         \/ \E a \in Actors : ProcessStarts(a) /\ co[a].w = w
         \/ Closes(w)
<1>1. ASSUME NEW W, wk' = Closed(W), w \notin W PROVE wk'[w].st = "created"
  BY <1>1, ClosedEnds
<1>2. ASSUME NEW v \in Workers, NEW t, wk' = Started(v, t) PROVE wk'[w].st = "created"
  BY <1>2 DEF Started, TypeOK, Worker
<1>3. ASSUME NEW a \in Actors, ProcessStarts(a), co[a].w # w PROVE wk'[w].st = "created"
  BY <1>3 DEF ProcessStarts, TypeOK
<1>4. ASSUME NEW v \in Workers, WorkerEvent(v) \/ WorkerEnds(v) PROVE wk'[w].st = "created"
  BY <1>4 DEF WorkerEvent, WorkerEnds, TypeOK, Worker
<1>5. ASSUME Load PROVE wk'[w].st = "created"
  BY <1>5 DEF Load, TypeOK, Worker
<1>6. ASSUME NEW a \in Actors, LaunchFails(a) \/ RestartLosesRow(a) \/ RestartFails(a)
                                 \/ RecoverySteerFails(a)
      PROVE  wk'[w].st = "created" \/ Closes(w)
  <2>1. wk' = Closed({co[a].w})
    BY <1>6 DEF LaunchFails, RestartLosesRow, RestartFails, RecoverySteerFails
  <2> QED
    BY <1>1, <1>6, <2>1 DEF Closes
<1>7. ASSUME NEW a \in Actors, Release(a) PROVE wk'[w].st = "created" \/ Closes(w)
  BY <1>1, <1>7 DEF Release, Closes
<1>8. ASSUME NEW a \in Actors, DeleteTakesWorker(a) PROVE wk'[w].st = "created" \/ Closes(w)
  BY <1>1, <1>8 DEF DeleteTakesWorker, Closes
<1>9. ASSUME NEW t \in Tasks, Purge(t) PROVE wk'[w].st = "created" \/ Closes(w)
  BY <1>1, <1>9 DEF Purge, Closes
<1>10. ASSUME StopWorkers PROVE wk'[w].st = "created" \/ Closes(w)
  <2>1. wk' = Closed({adapters[t] : t \in Registered})
    BY <1>10 DEF StopWorkers
  <2> QED
    BY <1>1, <1>10, <2>1 DEF Closes, Registered
<1>11. ASSUME StopService PROVE wk'[w].st = "created" \/ Closes(w)
  <2>1. w \in HalfwayWorkers => Closes(w)
    BY <1>11 DEF HalfwayWorkers, Closes, Actors
  <2> QED
    BY <1>1, <1>11, <2>1, StopServiceCloses
<1>12. ASSUME NEW a \in Actors, Continue(a) PROVE
         \/ wk'[w].st = "created" \/ Closes(w) \/ (ProcessStarts(a) /\ co[a].w = w)
  BY <1>2, <1>3, <1>6, <1>7, <1>8, <1>12
     DEF Continue, PollFindsNothing, PollFindsNoWorker, PollAsksState, PollReads,
         PollLosesRow, KillerReturns, LaunchStarts, LaunchRefused, LaunchReady, LaunchDone,
         LaunchFailed, ResumeReady, Steered, SteerFails, CancelSettles, DeleteRemoves,
         RecoveryReady, RecoverySteered, RecoveryGivesUp
<1> QED
  BY <1>2, <1>4, <1>5, <1>9, <1>10, <1>11, <1>12, ZenonT(60)
     DEF Next, CallTool, Create, Poll, FollowUp, ResumeInPlace, ResumeRestarts, CancelNow,
         CancelAborts, Delete, ObserverCycle, Unload, StopObserver, CloseRegistry, Recover,
         RecoverySkips, RecoveryImpossible, RecoveryRestarts, Publish, Closes
-------------------------------------------------------------------------------
(***************************************************************************)
(* A created worker is one whose process is being started.                 *)
(***************************************************************************)
Starter(a) == co[a].op \in {"launch", "resume", "recover"} /\ co[a].at = "starting"

StartingCreated == \A a \in Actors : Starter(a) => wk[co[a].w].st = "created"

CreatedStarting ==
  \A w \in Workers : wk[w].st = "created" => \E a \in Actors : Starter(a) /\ co[a].w = w

\* Nobody closes or starts the process that another coroutine is starting: the
\* submit lock protects a launch, and nobody else knows a worker being restarted.
LEMMA StarterAlone ==
  ASSUME IInv, AllOwned, Stages, Fresh, Next, NEW a \in Actors, Starter(a),
         co'[a] = co[a]
  PROVE  ~Closes(co[a].w) /\ \A b \in Actors : ProcessStarts(b) => co[b].w # co[a].w
<1> TypeOK /\ Owners /\ Launches
  BY DEF IInv
<1> DEFINE w == co[a].w
           t == co[a].t
<1>0. w \in Workers /\ t \in Tasks /\ wk[w].t = t /\ InFlight(t)
  BY FrameTypes, InFlightBy DEF Starter, OnWorker, AllOwned, Owned
<1>1. \A at : ~Goto(a, at) \/ at = "starting"
  BY GotoAdvances DEF Starter, Advances, Becomes
<1>2. ~Crash
  BY PhaseEnds DEF Starter
<1>3. /\ ~LaunchFails(a) /\ ~RestartLosesRow(a) /\ ~RestartFails(a) /\ ~RecoverySteerFails(a)
      /\ ~ProcessStarts(a)
  BY <1>1 DEF LaunchFails, RestartLosesRow, RestartFails, RecoverySteerFails, ProcessStarts
<1>4. CASE co[a].op \in {"resume", "recover"}
  <2>1. /\ \A b \in Actors \ {a} : co[b].w # w
        /\ \A u \in Tasks : adapters[u] # w
    BY <1>0, <1>4 DEF Fresh, Restarting, Starter
  <2>2. \A b \in Actors : DeleteTakesWorker(b) \/ Release(b) => co[b].t \in Tasks
    BY Resumes DEF DeleteTakesWorker, DeleteLocked, Release
  <2> HIDE DEF w
  <2> QED
    BY <1>2, <1>3, <1>4, <2>1, <2>2 DEF Closes, w
<1>5. CASE co[a].op = "launch"
  <2>1. phase = "up" /\ ~SubmitLockFree
    BY <1>5, StageOf DEF Starter, SubmitLockFree, HoldsSubmitLock
  <2>2. \A b \in Actors : co[b].op = "launch" /\ co[b].w = w => b = a
    BY <1>0, <1>5 DEF AllOwned, Owned, Launches, LaunchesOnce
  <2>3. ~StopService /\ ~StopWorkers
    BY <1>5, <2>1, PhaseEnds, PhaseMoves DEF Starter
  <2>4. \A b \in Actors : ~Release(b) /\ ~DeleteTakesWorker(b) /\ ~RecoverySteerFails(b)
    <3>1. \A b \in Actors : co[b].op # "recover"
      BY <2>1, StageOf
    <3> QED
      BY <2>1, <3>1 DEF Release, DeleteTakesWorker, DeleteLocked, RecoverySteerFails, At
  <2>5. \A b \in Actors : ~Restarting(b, w)
    BY <1>0, <1>5 DEF Fresh, Restarting
  <2>6. \A b \in Actors : co[b].w = w => ~RestartLosesRow(b) /\ ~RestartFails(b)
    BY <2>5 DEF RestartLosesRow, RestartFails, At, Restarting
  <2>7. \A b \in Actors : co[b].w = w /\ (LaunchFails(b) \/ ProcessStarts(b)) => co[b].op = "launch"
    BY <2>5 DEF LaunchFails, ProcessStarts, At, Restarting
  <2>8. \A u \in Tasks : Purge(u) => adapters[u] # w
    BY <1>0 DEF Purge, Owners, AdaptersOwned, Owned
  <2> HIDE DEF w
  <2> QED
    BY <1>2, <1>3, <2>2, <2>3, <2>4, <2>6, <2>7, <2>8 DEF Closes, w
<1> QED
  BY <1>4, <1>5 DEF Starter

LEMMA StepStartingCreated ==
  ASSUME IInv, AllOwned, Stages, Fresh, StartingCreated, Next
  PROVE  StartingCreated'
<1> TypeOK
  BY DEF IInv
<1> SUFFICES ASSUME NEW a \in Actors, NEW w, co'[a].op \in {"launch", "resume", "recover"},
                    co'[a].at = "starting", co'[a].w = w
             PROVE  wk'[w].st = "created"
  BY DEF StartingCreated, Starter
<1>1. \/ co'[a] = co[a] /\ Starter(a)
      \/ \E v \in Workers : LaunchStarts(a, v) /\ w = v
      \/ \E t \in Tasks, v \in Workers :
           (ResumeRestarts(a, t, v) \/ RecoveryRestarts(a, t, v)) /\ w = v
  <2>1. FrameStep(a)
    BY StepCauses
  <2>2. CASE co'[a] = co[a]
    BY <2>2 DEF Starter
  <2>3. CASE Goes(a)
    BY <2>3 DEF Goes, Advances, Becomes
  <2>4. CASE Begins(a)
    BY <2>4 DEF Begins, Becomes
  <2>5. ~Ceases(a) /\ ~Abandons(a)
    BY DEF Ceases, Idle, Call, Abandons, Becomes
  <2> QED
    BY <2>1, <2>2, <2>3, <2>4, <2>5 DEF FrameStep
<1>2. CASE co'[a] = co[a] /\ Starter(a)
  <2>1. w \in Workers /\ wk[w].st = "created"
    BY <1>2, FrameTypes DEF Starter, OnWorker, StartingCreated
  <2> QED
    BY <1>2, <2>1, CreatedStays, StarterAlone
<1>3. ASSUME NEW v \in Workers, LaunchStarts(a, v) PROVE wk'[v].st = "created"
  BY <1>3, StartedState DEF LaunchStarts
<1>4. ASSUME NEW t \in Tasks, NEW v \in Workers,
             ResumeRestarts(a, t, v) \/ RecoveryRestarts(a, t, v)
      PROVE  wk'[v].st = "created"
  BY <1>4, StartedState DEF ResumeRestarts, RecoveryRestarts
<1> QED
  BY <1>1, <1>2, <1>3, <1>4

LEMMA StepCreatedStarting ==
  ASSUME IInv, Stages, NoResume, CreatedStarting, Next
  PROVE  CreatedStarting'
<1> TypeOK
  BY DEF IInv
<1> DEFINE Held(w) == \E a \in Actors : /\ co'[a].op \in {"launch", "recover"}
                                        /\ co'[a].at = "starting" /\ co'[a].w = w
<1> SUFFICES ASSUME NEW w \in Workers, wk'[w].st = "created"
             PROVE  Held(w)
  BY DEF CreatedStarting, Starter
<1>1. ASSUME NEW a \in Actors, LaunchStarts(a, w) PROVE Held(w)
  <2>1. co'[a].at = "starting" /\ co'[a].w = w /\ co'[a].op = co[a].op
    BY <1>1, GotoOnAdvances DEF LaunchStarts, Advances, Becomes
  <2>2. co[a].op = "launch"
    BY <1>1 DEF LaunchStarts, At
  <2> QED
    BY <2>1, <2>2
<1>2. ASSUME NEW c \in Clients, NEW t \in Tasks, RecoveryRestarts(c, t, w) PROVE Held(w)
  <2>1. c \in Actors /\ Becomes(c, "recover", "starting", t, w, rows[t].status)
    BY <1>2, CallBegins DEF RecoveryRestarts, Actors
  <2> QED
    BY <2>1 DEF Becomes
<1>3. CASE wk[w].st = "created"
  <2>1. PICK a \in Actors : Starter(a) /\ co[a].w = w
    BY <1>3 DEF CreatedStarting
  <2>2. ~Closes(w)
    BY ClosesEnds DEF BusyStates
  <2>3. ~ProcessStarts(a)
    <3>1. ProcessStarts(a) => wk'[w].st = "running"
      BY <2>1 DEF ProcessStarts, TypeOK, Worker
    <3> QED
      BY <3>1
  <2>4. ~LaunchFails(a) /\ ~RestartFails(a)
    BY <2>1, <2>2 DEF Closes
  <2>5. ~Continue(a)
    BY <2>1, <2>3, <2>4
       DEF Starter, Continue, At, PollFindsNothing, PollFindsNoWorker, PollAsksState, PollReads,
           PollLosesRow, Release, KillerReturns, LaunchStarts, LaunchRefused, LaunchReady,
           LaunchDone, LaunchFailed, ResumeReady, RestartLosesRow, Steered, SteerFails,
           CancelSettles, DeleteTakesWorker, DeleteRemoves, DeleteLocked, RecoveryReady,
           RecoverySteered, RecoverySteerFails, RecoveryGivesUp
  <2>6. ~StopService /\ ~Crash
    BY <2>1, <2>2, StageOf, PhaseMoves DEF Closes, Starter, Halfway, NoResume
  <2>7. ~StopObserver
    BY <2>1, StageOf, PhaseMoves DEF Starter, NoResume
  <2>8. ~Goes(a)
    <3>1. \A v \in Workers : LaunchStarts(a, v) => Continue(a)
      BY DEF Continue
    <3> QED
      BY <2>5, <3>1 DEF Goes, Continue
  <2>9. ~Begins(a)
    <3>1. Steered(a) => Continue(a)
      BY DEF Continue
    <3> QED
      BY <2>1, <2>5, <3>1 DEF Begins, Starter, Idle, Call
  <2>10. co'[a] = co[a]
    BY <2>5, <2>6, <2>7, <2>8, <2>9, StepCauses DEF FrameStep, Ceases, Abandons
  <2> QED
    BY <2>1, <2>10 DEF Starter, NoResume
<1> QED
  BY <1>1, <1>2, <1>3, StepCauses, NothingResumes DEF WorkerStep
-------------------------------------------------------------------------------
(***************************************************************************)
(* Every worker that was created or runs is registered, or recovery is     *)
(* bringing it up; and none is registered once the plugin is down.         *)
(***************************************************************************)
Loaded == phase \in {"killing", "down"} => \A t \in Tasks : adapters[t] = None

LEMMA StepLoaded ==
  ASSUME IInv, Stages, NoResume, Sole, Loaded, Next
  PROVE  Loaded'
<1> SUFFICES ASSUME phase' \in {"killing", "down"}, NEW t \in Tasks PROVE adapters'[t] = None
  BY DEF Loaded
<1>1. CASE phase \in {"killing", "down"}
  <2>1. adapters[t] = None
    BY <1>1 DEF Loaded
  <2> QED
    BY <1>1, <2>1, StepRegisters DEF LaunchRegisters, RecoveryRegisters
<1>2. CASE StopWorkers
  BY <1>2 DEF StopWorkers, Registered
<1>3. CASE Crash
  BY <1>3 DEF Crash
<1> QED
  BY <1>1, <1>2, <1>3, StepCauses, PhaseMoves DEF PhaseStep

\* The worker of a task that is dropped is closed.
LEMMA DropsClose ==
  ASSUME IInv, Stages, LaunchOwns, SteerOwns, Loaded, Next,
         NEW t \in Tasks, NEW w \in Workers, adapters[t] = w, Drops(t)
  PROVE  Closes(w)
<1>1. ASSUME NEW a \in Actors, co[a].t = t, LaunchFails(a) PROVE Closes(w)
  <2>1. co[a].op = "launch" /\ co[a].at \in Halfway
    BY <1>1 DEF LaunchFails, At, Halfway
  <2> QED
    BY <1>1, <2>1 DEF LaunchOwns, Closes
<1>2. ASSUME NEW a \in Actors, co[a].t = t, Release(a), adapters[t] = co[a].w PROVE Closes(w)
  BY <1>2 DEF Closes
<1>3. ASSUME NEW a \in Actors, co[a].t = t, RecoverySteerFails(a) PROVE Closes(w)
  <2>1. co[a].op = "recover" /\ co[a].at = "steering" /\ w # None
    BY <1>3 DEF RecoverySteerFails, At
  <2> QED
    BY <1>3, <2>1 DEF SteerOwns, Closes
<1>4. ASSUME NEW a \in Actors, co[a].t = t, DeleteTakesWorker(a) PROVE Closes(w)
  BY <1>4 DEF Closes
<1>5. ASSUME StopService, NEW a \in Actors, co[a].op = "launch", co[a].at \in Halfway,
             co[a].t = t
      PROVE  Closes(w)
  BY <1>5 DEF LaunchOwns, Closes
<1>6. ~Load
  BY DEF Load, Loaded
<1>7. CASE Purge(t) \/ StopWorkers \/ Crash
  BY <1>7 DEF Closes
<1> QED
  BY <1>1, <1>2, <1>3, <1>4, <1>5, <1>6, <1>7 DEF Drops

Held(w) == (\E t \in Tasks : adapters[t] = w) \/ \E a \in Actors : Restarting(a, w)

\* Held, once the step is taken.
HeldThen(w) ==
  \/ \E t \in Tasks : adapters'[t] = w
  \/ \E a \in Actors : /\ co'[a].w = w /\ co'[a].op \in {"resume", "recover"}
                       /\ co'[a].at \in BringingUp

InSight == \A w \in Workers : wk[w].st \in BusyStates => Held(w)

\* Recovery keeps the worker it is bringing up, registers it, or closes it.
LEMMA RestartGoesOn ==
  ASSUME IInv, Stages, NoResume, Next, NEW a \in Actors, NEW w \in Workers, Restarting(a, w)
  PROVE  HeldThen(w) \/ Closes(w)
<1> TypeOK
  BY DEF IInv
<1>1. /\ co[a].op = "recover" /\ co[a].at \in BringingUp /\ co[a].w = w /\ phase = "boot"
      /\ co[a].t \in Tasks
  BY StageOf, FrameTypes DEF Restarting, NoResume, BringingUp
<1>2. CASE Continue(a)
  <2>1. ProcessStarts(a) \/ RecoveryReady(a) \/ RestartLosesRow(a) \/ RestartFails(a)
    BY <1>1, <1>2
       DEF BringingUp, Continue, At, PollFindsNothing, PollFindsNoWorker, PollAsksState,
           PollReads, PollLosesRow, Release, KillerReturns, LaunchStarts, LaunchRefused,
           LaunchReady, LaunchDone, LaunchFails, LaunchFailed, ResumeReady, Steered,
           SteerFails, CancelSettles, DeleteTakesWorker, DeleteRemoves, DeleteLocked,
           RecoverySteered, RecoverySteerFails, RecoveryGivesUp
  <2>2. CASE ProcessStarts(a)
    <3>1. Advances(a, "handshake", w)
      BY <1>1, <2>2, GotoAdvances DEF ProcessStarts
    <3> QED
      BY <1>1, <3>1 DEF Advances, Becomes, HeldThen, BringingUp
  <2>3. CASE RecoveryReady(a)
    <3>1. adapters'[co[a].t] = w
      BY <1>1, <2>3 DEF RecoveryReady, TypeOK
    <3> QED
      BY <1>1, <3>1 DEF HeldThen
  <2>4. CASE RestartLosesRow(a) \/ RestartFails(a)
    BY <1>1, <2>4 DEF Closes
  <2> QED
    BY <2>1, <2>2, <2>3, <2>4
<1>3. CASE ~Continue(a)
  <2>1. ~StopService /\ ~StopObserver
    BY <1>1, PhaseMoves
  <2>2. ~Goes(a)
    <3>1. \A v \in Workers : LaunchStarts(a, v) => Continue(a)
      BY DEF Continue
    <3> QED
      BY <1>3, <3>1 DEF Goes, Continue
  <2>3. ~Begins(a)
    BY <1>1 DEF Begins, Steered, At, Idle, Call
  <2>4. co'[a] = co[a] \/ Crash
    BY <1>3, <2>1, <2>2, <2>3, StepCauses DEF FrameStep, Ceases, Abandons
  <2> QED
    BY <1>1, <2>4 DEF Closes, HeldThen
<1> QED
  BY <1>2, <1>3

LEMMA StepInSight ==
  ASSUME IInv, Stages, NoResume, Sole, LaunchOwns, SteerOwns, StartingCreated, Loaded, InSight,
         Next
  PROVE  InSight'
<1> TypeOK
  BY DEF IInv
<1> SUFFICES ASSUME NEW w \in Workers, wk'[w].st \in BusyStates
             PROVE  HeldThen(w)
  BY DEF InSight, Held, HeldThen, Restarting, BringingUp
<1>1. ~Closes(w)
  BY ClosesEnds
<1>2. CASE wk[w].st \in BusyStates
  <2>1. ASSUME NEW t \in Tasks, adapters[t] = w PROVE HeldThen(w)
    <3>1. ~Drops(t)
      BY <1>1, <2>1, DropsClose
    <3>2. \A b \in Actors : ~LaunchRegisters(b, t) /\ ~RecoveryRegisters(b, t)
      BY <2>1 DEF LaunchRegisters, RecoveryRegisters
    <3>3. adapters'[t] = w
      BY <2>1, <3>1, <3>2, StepRegisters
    <3> QED
      BY <3>3 DEF HeldThen
  <2>2. ASSUME NEW a \in Actors, Restarting(a, w) PROVE HeldThen(w)
    BY <1>1, <2>2, RestartGoesOn
  <2> QED
    BY <1>2, <2>1, <2>2 DEF InSight, Held
<1>3. ASSUME NEW a \in Actors, ProcessStarts(a), co[a].w = w PROVE wk[w].st \in BusyStates
  BY <1>3 DEF ProcessStarts, At, NoResume, StartingCreated, Starter, BusyStates
<1>4. ASSUME NEW a \in Actors, LaunchStarts(a, w) PROVE HeldThen(w)
  <2>1. co[a].t \in Tasks
    BY <1>4, Resumes DEF LaunchStarts
  <2> QED
    BY <1>4, <2>1 DEF LaunchStarts, HeldThen, TypeOK
<1>5. ASSUME NEW c \in Clients, NEW t \in Tasks, RecoveryRestarts(c, t, w) PROVE HeldThen(w)
  <2>1. c \in Actors /\ Becomes(c, "recover", "starting", t, w, rows[t].status)
    BY <1>5, CallBegins DEF RecoveryRestarts, Actors
  <2> QED
    BY <2>1 DEF Becomes, HeldThen, BringingUp
<1> QED
  BY <1>2, <1>3, <1>4, <1>5, StepCauses, NothingResumes DEF WorkerStep, BusyStates
-------------------------------------------------------------------------------
(***************************************************************************)
(* The limit: the worker a launch or a recovery adds is the only one that  *)
(* is not counted by the check before it.                                  *)
(***************************************************************************)
Busy == {w \in Workers : wk[w].st \in BusyStates}

WithinLimit ==
  /\ IsFiniteSet(Registered)
  /\ IsFiniteSet(Busy)
  /\ Cardinality(Busy) <= MaxConcurrent

\* Workers registered for tasks of T are no more than those tasks.
LEMMA CountByTask ==
  ASSUME IInv, IsFiniteSet(Busy), NEW T \in SUBSET Tasks, IsFiniteSet(T),
         \A w \in Busy : \E t \in T : adapters[t] = w
  PROVE  Cardinality(Busy) <= Cardinality(T)
<1> DEFINE f == [w \in Busy |-> wk[w].t]
<1>1. \A w \in Busy : f[w] \in T /\ adapters[f[w]] = w
  <2> SUFFICES ASSUME NEW w \in Busy PROVE wk[w].t \in T /\ adapters[wk[w].t] = w
    OBVIOUS
  <2>1. PICK t \in T : adapters[t] = w
    OBVIOUS
  <2>2. wk[w].t = t
    BY <2>1 DEF Busy, IInv, Owners, AdaptersOwned, Owned
  <2> QED
    BY <2>1, <2>2
<1>2. f \in [Busy -> T]
  BY <1>1
<1>3. \A v, w \in Busy : f[v] = f[w] => v = w
  BY <1>1
<1> HIDE DEF f
<1>4. Cardinality(Busy) \in Nat /\ Cardinality(T) \in Nat
  BY FS_CardinalityType
<1>5. ~(Cardinality(T) < Cardinality(Busy))
  BY <1>2, <1>3, FS_PigeonHole
<1> QED
  BY <1>4, <1>5

\* When no process is being started, every busy worker is registered.
LEMMA BusyRegistered ==
  ASSUME CreatedStarting, InSight, \A a \in Actors : ~Starter(a),
         \A a \in Actors, w \in Workers : ~Restarting(a, w), NEW w \in Busy
  PROVE  wk[w].st = "running" /\ \E t \in Tasks : adapters[t] = w
  BY DEF Busy, BusyStates, CreatedStarting, InSight, Held

\* The check of submit leaves room for one more worker.
LEMMA LaunchHasRoom ==
  ASSUME IInv, Stages, NoResume, CreatedStarting, InSight, WithinLimit,
         NEW a \in Actors, NEW w \in Workers, LaunchStarts(a, w)
  PROVE  Cardinality(Busy) < MaxConcurrent
<1>1. phase = "up" /\ SubmitLockFree /\ Cardinality(LiveTasks) < MaxConcurrent
  BY StageOf DEF LaunchStarts, At
<1>2. \A b \in Actors : co[b].op \notin {"recover", "resume"}
  BY <1>1, StageOf DEF NoResume
<1>3. \A b \in Actors : ~Starter(b) /\ \A v \in Workers : ~Restarting(b, v)
  BY <1>1, <1>2 DEF Starter, SubmitLockFree, HoldsSubmitLock, Restarting
<1>4. \A v \in Busy : \E t \in LiveTasks : adapters[t] = v
  BY <1>3, BusyRegistered DEF LiveTasks, Running, Busy
<1>5. LiveTasks \in SUBSET Registered /\ LiveTasks \in SUBSET Tasks
  BY DEF LiveTasks, Running, Registered
<1>6. IsFiniteSet(LiveTasks)
  BY <1>5, FS_Subset DEF WithinLimit
<1>7. Cardinality(Busy) <= Cardinality(LiveTasks)
  BY <1>4, <1>5, <1>6, CountByTask DEF WithinLimit
<1> QED
  BY <1>1, <1>6, <1>7, FS_CardinalityType, LimitAssumption DEF WithinLimit

\* So does the check of recovery.
LEMMA RestartHasRoom ==
  ASSUME IInv, Stages, NoResume, CreatedStarting, InSight, WithinLimit,
         NEW c \in Clients, NEW t \in Tasks, NEW w \in Workers, RecoveryRestarts(c, t, w)
  PROVE  Cardinality(Busy) < MaxConcurrent
<1>1. Cardinality(Registered) < MaxConcurrent /\ \A d \in Clients : co[d] = Idle
  BY DEF RecoveryRestarts, Recovers, RecoveryHasSlot
<1>2. \A b \in Actors : co[b].op \in {"idle", "poll"}
  BY <1>1 DEF Stages, Actors, Idle, Call
<1>3. \A b \in Actors : ~Starter(b) /\ \A v \in Workers : ~Restarting(b, v)
  BY <1>2 DEF Starter, Restarting
<1>4. \A v \in Busy : \E u \in Registered : adapters[u] = v
  BY <1>3, BusyRegistered DEF Registered, Busy
<1>5. Cardinality(Busy) <= Cardinality(Registered)
  BY <1>4, CountByTask DEF WithinLimit, Registered
<1> QED
  BY <1>1, <1>5, FS_CardinalityType, LimitAssumption DEF WithinLimit

\* A worker becomes busy only by being created.
LEMMA StepBusy ==
  ASSUME IInv, NoResume, StartingCreated, Next
  PROVE  \/ Busy' \subseteq Busy
         \/ \E w \in Workers :
              /\ Busy' \subseteq Busy \cup {w}
              /\ \/ \E a \in Actors : LaunchStarts(a, w)
                 \/ \E c \in Clients, t \in Tasks : RecoveryRestarts(c, t, w)
<1> TypeOK
  BY DEF IInv
<1>1. ASSUME NEW w \in Workers, NEW t, wk' = Started(w, t)
      PROVE  Busy' \subseteq Busy \cup {w}
  <2>1. \A v \in Workers \ {w} : wk'[v] = wk[v]
    BY <1>1 DEF Started, TypeOK
  <2> QED
    BY <2>1 DEF Busy
<1>2. ASSUME NEW w \in Workers, NEW a \in Actors, LaunchStarts(a, w)
      PROVE  Busy' \subseteq Busy \cup {w}
  BY <1>1, <1>2 DEF LaunchStarts
<1>3. ASSUME NEW w \in Workers, NEW c \in Clients, NEW t \in Tasks, RecoveryRestarts(c, t, w)
      PROVE  Busy' \subseteq Busy \cup {w}
  BY <1>1, <1>3 DEF RecoveryRestarts
<1>4. CASE /\ \A w \in Workers, a \in Actors : ~LaunchStarts(a, w)
           /\ \A w \in Workers, c \in Clients, t \in Tasks : ~RecoveryRestarts(c, t, w)
  <2> SUFFICES ASSUME NEW w \in Workers, wk'[w].st \in BusyStates PROVE wk[w].st \in BusyStates
    BY DEF Busy
  <2>1. ASSUME NEW a \in Actors, ProcessStarts(a), co[a].w = w PROVE wk[w].st \in BusyStates
    BY <2>1 DEF ProcessStarts, At, NoResume, StartingCreated, Starter, BusyStates
  <2> QED
    BY <1>4, <2>1, StepCauses, NothingResumes DEF WorkerStep, BusyStates
<1> QED
  BY <1>2, <1>3, <1>4

LEMMA StepRegistered ==
  ASSUME IInv, Stages, NoResume, Sole, Next
  PROVE  \E t : Registered' \subseteq Registered \cup {t}
<1> TypeOK
  BY DEF IInv
<1>1. ASSUME NEW t \in Tasks, NEW b \in Actors, LaunchRegisters(b, t) \/ RecoveryRegisters(b, t)
      PROVE  Registered' \subseteq Registered \cup {t}
  <2>1. \A u \in Tasks \ {t} : adapters'[u] = adapters[u]
    BY <1>1 DEF LaunchRegisters, LaunchStarts, RecoveryRegisters, RecoveryReady, TypeOK
  <2> QED
    BY <2>1 DEF Registered
<1>2. CASE \A t \in Tasks, b \in Actors : ~LaunchRegisters(b, t) /\ ~RecoveryRegisters(b, t)
  <2>1. \A t \in Tasks : adapters'[t] \in {None, adapters[t]}
    BY <1>2, StepRegisters
  <2>2. Registered' \subseteq Registered
    BY <2>1 DEF Registered
  <2> QED
    BY <2>2
<1> QED
  BY <1>1, <1>2

LEMMA StepWithinLimit ==
  ASSUME IInv, Stages, NoResume, Sole, StartingCreated, CreatedStarting, InSight, WithinLimit,
         Next
  PROVE  WithinLimit'
<1>1. IsFiniteSet(Registered')
  <2>1. PICK t : Registered' \subseteq Registered \cup {t}
    BY StepRegistered
  <2>2. IsFiniteSet(Registered \cup {t})
    BY FS_AddElement DEF WithinLimit
  <2> QED
    BY <2>1, <2>2, FS_Subset
<1>2. CASE Busy' \subseteq Busy
  <2>1. IsFiniteSet(Busy') /\ Cardinality(Busy') <= Cardinality(Busy)
    BY <1>2, FS_Subset DEF WithinLimit
  <2>2. Cardinality(Busy') \in Nat /\ Cardinality(Busy) \in Nat
    BY <2>1, FS_CardinalityType DEF WithinLimit
  <2> QED
    BY <1>1, <2>1, <2>2, LimitAssumption DEF WithinLimit
<1>3. ASSUME NEW w \in Workers, Busy' \subseteq Busy \cup {w}, Cardinality(Busy) < MaxConcurrent
      PROVE  WithinLimit'
  <2>1. /\ IsFiniteSet(Busy \cup {w})
        /\ Cardinality(Busy \cup {w}) \in {Cardinality(Busy), Cardinality(Busy) + 1}
        /\ Cardinality(Busy) \in Nat
    BY FS_AddElement, FS_CardinalityType DEF WithinLimit
  <2>2. IsFiniteSet(Busy') /\ Cardinality(Busy') <= Cardinality(Busy \cup {w})
    BY <1>3, <2>1, FS_Subset
  <2>3. Cardinality(Busy') \in Nat
    BY <2>2, FS_CardinalityType
  <2>4. Cardinality(Busy') <= MaxConcurrent
    BY <1>3, <2>1, <2>2, <2>3, LimitAssumption
  <2> QED
    BY <1>1, <2>2, <2>4 DEF WithinLimit
<1>4. ASSUME NEW w \in Workers,
             \/ \E a \in Actors : LaunchStarts(a, w)
             \/ \E c \in Clients, t \in Tasks : RecoveryRestarts(c, t, w)
      PROVE  Cardinality(Busy) < MaxConcurrent
  BY <1>4, LaunchHasRoom, RestartHasRoom
<1> QED
  BY <1>2, <1>3, <1>4, StepBusy
-------------------------------------------------------------------------------
(***************************************************************************)
(* A task that is over keeps a running worker only while the call that     *)
(* will release it is under way.                                           *)
(***************************************************************************)
Settled == Terminal \cup {"orphaned", "deleted"}

\* A coroutine with this frame has the release of the worker of t ahead of it.
Frees(f, t) ==
  /\ f.t = t
  /\ \/ f.op = "launch" /\ f.at = "handshake"
     \/ f.op \in {"poll", "cancel"} /\ f.at = "releasing"

Freeing ==
  \A t \in Tasks : phase \in {"boot", "up"} /\ rows[t].status \in Settled /\ Running(adapters[t])
    => \E a \in Actors : Frees(co[a], t)

\* Who is to release the registered worker goes on waiting to, or releases it.
LEMMA KeepsFreeing ==
  ASSUME IInv, Stages, LookOwns, Next, NEW a \in Actors, NEW t \in Tasks, NEW w \in Workers,
         Frees(co[a], t), adapters[t] = w, adapters'[t] = w,
         phase \in {"boot", "up"}, phase' \in {"boot", "up"}, rows'[t].status \in Settled
  PROVE  Frees(co'[a], t)
<1> TypeOK
  BY DEF IInv
<1>1. ~LaunchReady(a)
  <2>1. ASSUME LaunchReady(a) PROVE FALSE
    <3>1. PICK v \in Workers : v = co[a].w
      BY <2>1, Resumes DEF LaunchReady, OnWorker
    <3>2. rows' = Moved(WithProcess(rows, t, v), t, "running")
      BY <2>1, <3>1 DEF LaunchReady, Frees
    <3> QED
      BY <3>2, RecordedStatus DEF Settled, Terminal
  <2> QED
    BY <2>1
<1>2. ~LaunchFails(a)
  <2>1. LaunchFails(a) => adapters'[t] = None
    BY DEF LaunchFails, Frees, TypeOK
  <2> QED
    BY <2>1
<1>3. ~Release(a)
  <2>1. ASSUME Release(a) PROVE FALSE
    <3>1. adapters[t] = co[a].w
      BY <2>1 DEF Release, At, Frees, LookOwns, Looking
    <3>2. adapters'[t] = None
      BY <2>1, <3>1 DEF Release, Frees, TypeOK
    <3> QED
      BY <3>2
  <2> QED
    BY <2>1
<1>4. ~Continue(a)
  BY <1>1, <1>2, <1>3
     DEF Frees, Continue, At, PollFindsNothing, PollFindsNoWorker, PollAsksState, PollReads,
         PollLosesRow, KillerReturns, LaunchStarts, LaunchRefused, ProcessStarts, LaunchDone,
         LaunchFailed, ResumeReady, RestartLosesRow, RestartFails, Steered, SteerFails,
         CancelSettles, DeleteTakesWorker, DeleteRemoves, DeleteLocked, RecoveryReady,
         RecoverySteered, RecoverySteerFails, RecoveryGivesUp
<1>5. ~StopService /\ ~StopObserver /\ ~Crash
  BY PhaseMoves
<1>6. ~Goes(a)
  <2>1. \A v \in Workers : LaunchStarts(a, v) => Continue(a)
    BY DEF Continue
  <2> QED
    BY <1>4, <2>1 DEF Goes, Continue
<1>7. ~Begins(a)
  BY DEF Frees, Begins, Steered, At, Idle, Call
<1>8. co'[a] = co[a]
  BY <1>4, <1>5, <1>6, <1>7, StepCauses DEF FrameStep, Ceases, Abandons
<1> QED
  BY <1>8

\* A coroutine that settles a task with a registered worker is a poll, and goes
\* on to release the worker.
LEMMA SettlesFreeing ==
  ASSUME IInv, NoResume, Unstarted, KillDrops, NEW a \in Actors, NEW t \in Tasks,
         NEW w \in Workers, Continue(a), co[a].t = t, adapters[t] = w,
         rows[t].status \notin Settled, rows'[t].status \in Settled
  PROVE  Frees(co'[a], t)
<1> TypeOK /\ Owners
  BY DEF IInv
<1>1. ~LaunchRefused(a)
  <2>1. wk[w].t = t
    BY DEF Owners, AdaptersOwned, Owned
  <2> QED
    BY <2>1 DEF LaunchRefused, At, Unstarted, Waiting
<1>2. ~LaunchFailed(a) /\ ~CancelSettles(a) /\ ~DeleteRemoves(a) /\ ~RecoveryGivesUp(a)
  BY DEF LaunchFailed, CancelSettles, DeleteRemoves, DeleteLocked, RecoveryGivesUp, At, KillDrops
<1>3. ~PollFindsNoWorker(a)
  BY DEF PollFindsNoWorker
<1>4. ~LaunchReady(a) /\ ~LaunchFails(a) /\ ~RecoveryReady(a)
  <2>1. ASSUME LaunchReady(a) \/ LaunchFails(a) \/ RecoveryReady(a) PROVE FALSE
    <3>1. PICK v \in Workers : v = co[a].w
      BY <2>1, Resumes DEF LaunchReady, LaunchFails, RecoveryReady, OnWorker
    <3>2. \/ rows' = Moved(WithProcess(rows, t, v), t, "running")
          \/ rows' = WithProcess(rows, t, v)
          \/ rows' = rows
      BY <2>1, <3>1 DEF LaunchReady, LaunchFails, RecoveryReady
    <3>3. rows'[t].status \in {"running", rows[t].status}
      BY <3>2, WithStatus, RecordedStatus DEF TypeOK
    <3> QED
      BY <3>3 DEF Settled, Terminal
  <2> QED
    BY <2>1
<1>5. PollReads(a)
  BY <1>1, <1>2, <1>3, <1>4, NothingResumes
     DEF Continue, PollFindsNothing, PollAsksState, PollLosesRow, Release, KillerReturns,
         LaunchStarts, ProcessStarts, LaunchDone, RestartLosesRow, RestartFails, Steered,
         SteerFails, DeleteTakesWorker, RecoverySteered, RecoverySteerFails
<1>6. PICK v \in Workers : v = co[a].w
  BY <1>5, Resumes DEF PollReads, OnWorker
<1>7. rows'[t].status = Verdict(t, v)
  <2>1. rows' = Moved(WithCursor(rows, t, wk[v].sent), t, Verdict(t, v))
    BY <1>5, <1>6 DEF PollReads
  <2>2. WithCursor(rows, t, wk[v].sent) \in [Tasks -> Row]
    BY <1>6, WithCursorType DEF TypeOK, Worker
  <2> HIDE DEF Verdict
  <2> QED
    BY <2>1, <2>2, MovedStatus
<1>8. Goto(a, "releasing") /\ co[a].op = "poll"
  BY <1>5, <1>6, <1>7 DEF PollReads, At
<1> QED
  BY <1>8, GotoAdvances DEF Advances, Becomes, Frees

LEMMA StepFreeing ==
  ASSUME IInv, AllOwned, Stages, Fresh, AgendaFresh, NoResume, Unstarted, Sole, LookOwns,
         KillDrops, StartingCreated, Freeing, Next
  PROVE  Freeing'
<1> TypeOK /\ Owners
  BY DEF IInv
<1> SUFFICES ASSUME NEW t \in Tasks, phase' \in {"boot", "up"}, rows'[t].status \in Settled,
                    NEW w \in Workers, adapters'[t] = w, wk'[w].st = "running"
             PROVE  \E a \in Actors : Frees(co'[a], t)
  BY DEF Freeing, Running
<1>1. phase \in {"boot", "up"}
  <2>1. ~Load
    BY DEF Load
  <2> QED
    BY <2>1, StepCauses, PhaseMoves DEF PhaseStep
<1>2. adapters[t] = w
  <2>1. ASSUME NEW b \in Actors, LaunchRegisters(b, t) PROVE FALSE
    BY <2>1, StartedState DEF LaunchRegisters, LaunchStarts
  <2>2. ASSUME NEW b \in Actors, RecoveryRegisters(b, t) PROVE FALSE
    <3>1. rows[t].status = "running" /\ RecoveryReady(b) /\ co[b].t = t
      BY <2>2 DEF RecoveryRegisters, Sole, BringingUp
    <3>2. rows' = WithProcess(rows, t, w)
      BY <2>2, <3>1 DEF RecoveryRegisters, RecoveryReady
    <3> QED
      BY <3>1, <3>2, WithStatus DEF Settled, Terminal, TypeOK
  <2> QED
    BY <2>1, <2>2, StepRegisters
<1>3. wk[w].t = t
  BY <1>2 DEF Owners, AdaptersOwned, Owned
<1>4. ASSUME NEW b \in Actors, ProcessStarts(b), co[b].w = w
      PROVE  Frees(co'[b], t)
  <2>1. co[b].op \in {"launch", "recover"} /\ co[b].at = "starting"
    BY <1>4 DEF ProcessStarts, At, NoResume
  <2>2. co[b].op # "recover"
    BY <1>2, <1>4, <2>1 DEF Fresh, Restarting
  <2>3. co[b].t = t
    BY <1>3, <1>4 DEF AllOwned, Owned
  <2>4. Advances(b, "handshake", w)
    BY <1>4, GotoAdvances DEF ProcessStarts
  <2> QED
    BY <2>1, <2>2, <2>3, <2>4 DEF Advances, Becomes, Frees
<1>5. CASE wk[w].st = "running" /\ rows[t].status \in Settled
  <2>1. PICK a \in Actors : Frees(co[a], t)
    BY <1>1, <1>2, <1>5 DEF Freeing, Running
  <2> QED
    BY <1>1, <1>2, <2>1, KeepsFreeing
<1>6. CASE wk[w].st = "running" /\ rows[t].status \notin Settled
  <2>1. ASSUME NEW a \in Actors, co[a].t = t, Continue(a) PROVE Frees(co'[a], t)
    BY <1>2, <1>6, <2>1, SettlesFreeing
  <2>2. ASSUME NEW c \in Clients, CallTool(c, t) PROVE FALSE
    <3>1. ~CancelNow(c, t)
      BY <1>2, <1>6 DEF CancelNow, Running
    <3>2. ASSUME NEW s \in {"queued", "running"},
                 rows' = [rows EXCEPT ![t] = NewRow(s)] \/ rows' = Moved(rows, t, s)
          PROVE  FALSE
      <4>1. rows'[t].status = s
        BY <3>2, MovedStatus DEF TypeOK, NewRow
      <4> QED
        BY <4>1 DEF Settled, Terminal
    <3>3. ~Create(c, t) /\ ~FollowUp(c, t) /\ ~ResumeInPlace(c, t)
      BY <3>2, NothingResumes DEF Create, FollowUp
    <3> QED
      BY <1>6, <2>2, <3>1, <3>3, NothingResumes
         DEF CallTool, Poll, CancelAborts, Delete
  <2>3. ~Purge(t)
    BY <1>6 DEF Purge, Settled
  <2>4. ~Recover(t)
    BY <1>2 DEF Recover, RecoverySkips, RecoveryImpossible, RecoveryRestarts, Recovers, AgendaFresh
  <2>5. ~StopObserver /\ ~CloseRegistry
    BY <1>1, PhaseMoves
  <2> QED
    BY <1>6, <2>1, <2>2, <2>3, <2>4, <2>5, StepTouches DEF Touches
<1> QED
  BY <1>4, <1>5, <1>6, StepCauses DEF WorkerStep
-------------------------------------------------------------------------------
(***************************************************************************)
(* The invariant, and what it gives.                                       *)
(***************************************************************************)
SInv ==
  /\ WInv
  /\ NoResume /\ OneRecovers
  /\ Worked /\ Unstarted /\ Sole
  /\ LaunchOwns /\ SteerOwns /\ LookOwns /\ KillDrops
  /\ StartingCreated /\ CreatedStarting
  /\ Loaded /\ InSight /\ WithinLimit
  /\ Freeing

LEMMA InitSInv ==
  ASSUME "resume" \notin Offered, Init
  PROVE  SInv
<1>1. WInv
  BY InitWInv
<1>2. /\ \A a \in Actors : co[a].op = "idle" /\ co[a].at = "idle"
      /\ \A t \in Tasks : adapters[t] = None
      /\ \A w \in Workers : wk[w].st = "unused" /\ wk[w].t = None
      /\ phase = "up"
  BY DEF Init, Idle, Call
<1>3. /\ NoResume /\ OneRecovers /\ Worked /\ Unstarted /\ Sole
      /\ LaunchOwns /\ SteerOwns /\ LookOwns /\ KillDrops
  BY <1>2 DEF NoResume, OneRecovers, Worked, Unstarted, Sole, LaunchOwns, SteerOwns, LookOwns,
              KillDrops
<1>4. StartingCreated /\ CreatedStarting /\ Loaded /\ InSight
  BY <1>2 DEF StartingCreated, Starter, CreatedStarting, Loaded, InSight, BusyStates
<1>5. Freeing
  <2>1. \A t \in Tasks : ~Running(adapters[t])
    BY <1>2 DEF Running
  <2> QED
    BY <2>1 DEF Freeing
<1>6. WithinLimit
  <2>1. Registered = {} /\ Busy = {}
    BY <1>2 DEF Registered, Busy, BusyStates
  <2> QED
    BY <2>1, FS_EmptySet, LimitAssumption DEF WithinLimit
<1> QED
  BY <1>1, <1>3, <1>4, <1>5, <1>6 DEF SInv

LEMMA StepSInv ==
  ASSUME SInv, Next
  PROVE  SInv'
<1>0. WInv /\ IInv /\ AllOwned /\ Stages /\ Fresh /\ AgendaFresh /\ HalfwayRegistered /\ DeletesLast
  BY DEF SInv, WInv, LaunchPlaces
<1>1. WInv'
  BY <1>0, StepWInv
<1>2. NoResume' /\ OneRecovers' /\ Worked' /\ Unstarted' /\ Sole'
  BY <1>0, StepNoResume, StepOneRecovers, StepWorked, StepUnstarted, StepSole DEF SInv
<1>3. LaunchOwns' /\ SteerOwns' /\ LookOwns' /\ KillDrops'
  BY <1>0, StepLaunchOwns, StepSteerOwns, StepLookOwns, StepKillDrops DEF SInv
<1>4. StartingCreated' /\ CreatedStarting'
  BY <1>0, StepStartingCreated, StepCreatedStarting DEF SInv
<1>5. Loaded' /\ InSight' /\ WithinLimit' /\ Freeing'
  BY <1>0, StepLoaded, StepInSight, StepWithinLimit, StepFreeing DEF SInv
<1> QED
  BY <1>1, <1>2, <1>3, <1>4, <1>5 DEF SInv

LEMMA SameSInv ==
  ASSUME SInv, UNCHANGED vars
  PROVE  SInv'
<1>1. WInv'
  BY SameWInv DEF SInv
<1>2. NoResume' /\ OneRecovers' /\ Worked' /\ Unstarted' /\ Sole'
  BY DEF vars, sys, SInv, NoResume, OneRecovers, Worked, Owned, Unstarted, Waiting, Sole
<1>3. LaunchOwns' /\ SteerOwns' /\ LookOwns' /\ KillDrops'
  BY DEF vars, sys, SInv, LaunchOwns, SteerOwns, LookOwns, KillDrops
<1>4. StartingCreated' /\ CreatedStarting' /\ Loaded' /\ InSight'
  BY DEF vars, sys, SInv, StartingCreated, Starter, CreatedStarting, Loaded, InSight, Held,
         Restarting
<1>5. WithinLimit' /\ Freeing'
  <2>1. Registered' = Registered /\ Busy' = Busy
    BY DEF vars, Registered, Busy
  <2> QED
    BY <2>1 DEF vars, sys, SInv, WithinLimit, Freeing, Frees, Running
<1> QED
  BY <1>1, <1>2, <1>3, <1>4, <1>5 DEF SInv

\* The invariant under which every worker is accounted for.  What it says of
\* adapters fails with resume_task, which registers its worker over whatever is
\* there: hence the hypothesis.
THEOREM SInvCorrect ==
  ASSUME "resume" \notin Offered
  PROVE  Spec => []SInv
<1>1. Init => SInv
  BY InitSInv
<1>2. SInv /\ [Next]_vars => SInv'
  BY StepSInv, SameSInv
<1> QED
  BY <1>1, <1>2, PTL DEF Spec

\* Without resume_task, no worker process runs out of sight of the scheduler:
\* _adapters holds it under its own task, or the recovery that is starting it
\* will register or terminate it (submit, _restart_from_session).
THEOREM WorkersSupervised ==
  ASSUME "resume" \notin Offered
  PROVE  Spec => []Supervised
<1>1. SInv => Supervised
  <2> SUFFICES ASSUME SInv, NEW w \in Workers, wk[w].st = "running"
               PROVE  adapters[wk[w].t] = w \/ \E a \in Actors : Restarting(a, w)
    BY DEF Supervised
  <2>1. Held(w)
    BY DEF SInv, InSight, BusyStates
  <2>2. \A t \in Tasks : adapters[t] = w => wk[w].t = t
    BY DEF SInv, WInv, IInv, Owners, AdaptersOwned, Owned
  <2> QED
    BY <2>1, <2>2 DEF Held
<1> QED
  BY <1>1, SInvCorrect, PTL

\* Without resume_task, max_concurrent_tasks bounds the worker processes at any
\* moment, a starting one and those of recovery counted (the checks of submit and
\* of recover_existing_tasks, made before the await on the process start).
THEOREM WorkersLimited ==
  ASSUME "resume" \notin Offered
  PROVE  Spec => []WorkersWithinLimit
<1>1. SInv => WorkersWithinLimit
  <2> DEFINE R == {w \in Workers : wk[w].st = "running"}
  <2> SUFFICES ASSUME SInv PROVE Cardinality(R) <= MaxConcurrent
    BY DEF WorkersWithinLimit
  <2>1. IsFiniteSet(Busy) /\ Cardinality(Busy) <= MaxConcurrent
    BY DEF SInv, WithinLimit
  <2>2. R \subseteq Busy
    BY DEF Busy, BusyStates
  <2> HIDE DEF R
  <2>3. IsFiniteSet(R) /\ Cardinality(R) <= Cardinality(Busy)
    BY <2>1, <2>2, FS_Subset
  <2> QED
    BY <2>1, <2>3, FS_CardinalityType, LimitAssumption
<1> QED
  BY <1>1, SInvCorrect, PTL

\* Without resume_task, the plugin that was unloaded manages no running worker:
\* shutdown takes over every registered one, and a late recovery or launch cannot
\* register another (TaskScheduler.shutdown).
THEOREM UnloadedWorkersStopped ==
  ASSUME "resume" \notin Offered
  PROVE  Spec => []UnloadStopsWorkers
<1>1. SInv => UnloadStopsWorkers
  BY DEF SInv, Loaded, UnloadStopsWorkers, LiveTasks, Running
<1> QED
  BY <1>1, SInvCorrect, PTL

\* Without resume_task, a task that ended or was interrupted keeps no running
\* worker once nothing is under way for it, so its slot is free again
\* (_release_terminal_worker, _launch and delete of scheduler.py).
THEOREM SettledTasksFreeSlot ==
  ASSUME "resume" \notin Offered
  PROVE  Spec => []SettledFreesSlot
<1>1. SInv => SettledFreesSlot
  <2> SUFFICES ASSUME SInv, NEW t \in Tasks, phase \in {"boot", "up"},
                      rows[t].status \in Settled, ~InFlight(t),
                      NEW w \in Workers, wk[w].t = t, wk[w].st = "running"
               PROVE  FALSE
    BY DEF SettledFreesSlot, Settled
  <2>1. TypeOK /\ Owners /\ AllOwned
    BY DEF SInv, WInv, IInv
  <2>2. \A a \in Actors : ~(co[a].op # "idle" /\ co[a].t = t)
    BY <2>1, InFlightBy
  <2>3. ~\E a \in Actors : Restarting(a, w)
    BY <2>1, <2>2 DEF Restarting, AllOwned, Owned
  <2>4. adapters[t] = w
    BY <2>1, <2>3 DEF SInv, InSight, BusyStates, Held, Owners, AdaptersOwned, Owned
  <2>5. PICK a \in Actors : Frees(co[a], t)
    BY <2>4 DEF SInv, Freeing, Running
  <2> QED
    BY <2>2, <2>5 DEF Frees
<1> QED
  BY <1>1, SInvCorrect, PTL
-------------------------------------------------------------------------------
(***************************************************************************)
(* A task has one process, however often the plugin is unloaded and loaded *)
(* again.  The process of a running task is the one its row records, so    *)
(* recovery finds out whether it is still alive; the only one not recorded *)
(* yet is the one recovery is bringing up.  A crash at that very moment    *)
(* leaves a process that no later recovery finds: hence the hypothesis     *)
(* that there is no crash, or no second load after it.                     *)
(***************************************************************************)
LiveStates == {"running", "closing", "stray"}

BootEpoch == epoch \in Nat /\ (phase = "boot" => epoch > 0)

\* The task of a launch or a recovery has no live process but the call's own.
Alone ==
  \A a \in Actors : co[a].op \in {"launch", "recover"} =>
    \A v \in Workers : wk[v].st \in LiveStates /\ wk[v].t = co[a].t => v = co[a].w

\* Coroutine a recovers with worker w, which is not recorded, or is closed.
Recovering(a, w) ==
  co[a].op = "recover" /\ co[a].at \in BringingUp \cup {"killing"} /\ co[a].w = w

PidKnown ==
  \A t \in Tasks, w \in Workers :
    rows[t].status = "running" /\ wk[w].st \in LiveStates /\ wk[w].t = t =>
      rows[t].pid = w \/ \E a \in Actors : Recovering(a, w)

LEMMA StepBootEpoch ==
  ASSUME BootEpoch, Next
  PROVE  BootEpoch'
<1>1. CASE Load
  BY <1>1 DEF Load, BootEpoch
<1>2. CASE ~Load
  <2>1. epoch' = epoch
    <3>1. ASSUME NEW a \in Actors, Continue(a) PROVE epoch' = epoch
      BY <3>1
         DEF Continue, PollFindsNothing, PollFindsNoWorker, PollAsksState, PollReads,
             PollLosesRow, Release, KillerReturns, LaunchStarts, LaunchRefused, ProcessStarts,
             LaunchReady, LaunchDone, LaunchFails, LaunchFailed, ResumeReady, RestartLosesRow,
             RestartFails, Steered, SteerFails, CancelSettles, DeleteTakesWorker, DeleteRemoves,
             RecoveryReady, RecoverySteered, RecoverySteerFails, RecoveryGivesUp, sys
    <3>2. ASSUME NEW c \in Clients, NEW t \in Tasks, CallTool(c, t) PROVE epoch' = epoch
      BY <3>2 DEF CallTool, Create, Poll, FollowUp, ResumeInPlace, ResumeRestarts, CancelNow,
                  CancelAborts, Delete, sys
    <3>3. ASSUME Unload \/ Crash \/ Publish PROVE epoch' = epoch
      BY <3>3 DEF Unload, StopService, StopObserver, StopWorkers, CloseRegistry, Crash, Publish
    <3>4. ASSUME NEW t \in Tasks, Purge(t) \/ Recover(t) PROVE epoch' = epoch
      BY <3>4 DEF Purge, Recover, RecoverySkips, RecoveryImpossible, RecoveryRestarts, sys
    <3>5. ASSUME ObserverCycle \/ \E w \in Workers : WorkerEvent(w) \/ WorkerEnds(w)
          PROVE  epoch' = epoch
      BY <3>5 DEF ObserverCycle, WorkerEvent, WorkerEnds, sys
    <3> QED
      BY <1>2, <3>1, <3>2, <3>3, <3>4, <3>5 DEF Next
  <2>2. phase' = "boot" => phase = "boot"
    BY <1>2, StepPhase, PhaseMoves DEF PhaseStep
  <2> QED
    BY <2>1, <2>2 DEF BootEpoch
<1> QED
  BY <1>1, <1>2

\* A process becomes alive only by being started.
LEMMA StepLive ==
  ASSUME TypeOK, Next, NEW w \in Workers, wk'[w].st \in LiveStates
  PROVE  \/ wk[w].st \in LiveStates
         \/ \E a \in Actors : ProcessStarts(a) /\ co[a].w = w
<1>1. ASSUME UNCHANGED wk \/ \E W : wk' = Closed(W) PROVE wk[w].st \in LiveStates
  BY <1>1 DEF Closed, TypeOK, Worker, LiveStates
<1>2. ASSUME NEW v \in Workers, NEW t, wk' = Started(v, t) PROVE wk[w].st \in LiveStates
  BY <1>2, StartedState DEF Started, TypeOK, LiveStates
<1>3. ASSUME NEW a \in Actors, ProcessStarts(a), co[a].w # w PROVE wk[w].st \in LiveStates
  BY <1>3 DEF ProcessStarts, TypeOK
<1>4. ASSUME NEW v \in Workers, WorkerEvent(v) \/ WorkerEnds(v) PROVE wk[w].st \in LiveStates
  BY <1>4 DEF WorkerEvent, WorkerEnds, TypeOK, Worker, LiveStates
<1>5. ASSUME Load PROVE wk[w].st \in LiveStates
  BY <1>5 DEF Load, TypeOK, Worker, LiveStates
<1>6. ASSUME Crash PROVE wk[w].st \in LiveStates
  BY <1>6 DEF Crash, TypeOK, Worker, LiveStates
<1>7. ASSUME NEW a \in Actors, Continue(a), ~ProcessStarts(a) PROVE wk[w].st \in LiveStates
  BY <1>1, <1>2, <1>7
     DEF Continue, PollFindsNothing, PollFindsNoWorker, PollAsksState, PollReads,
         PollLosesRow, Release, KillerReturns, LaunchStarts, LaunchRefused, LaunchReady,
         LaunchDone, LaunchFails, LaunchFailed, ResumeReady, RestartLosesRow, RestartFails,
         Steered, SteerFails, CancelSettles, DeleteTakesWorker, DeleteRemoves, RecoveryReady,
         RecoverySteered, RecoverySteerFails, RecoveryGivesUp
<1> QED
  BY <1>1, <1>2, <1>3, <1>4, <1>5, <1>6, <1>7, ZenonT(60)
     DEF Next, CallTool, Create, Poll, FollowUp, ResumeInPlace, ResumeRestarts, CancelNow,
         CancelAborts, Delete, ObserverCycle, Purge, Unload, StopService, StopObserver,
         StopWorkers, CloseRegistry, Recover, RecoverySkips, RecoveryImpossible,
         RecoveryRestarts, Publish

\* How operations on rows leave the other fields.
LEMMA MovedRest ==
  ASSUME NEW rs \in [Tasks -> Row], NEW t \in Tasks, NEW s, NEW u \in Tasks
  PROVE  Moved(rs, t, s)[u].pid = rs[u].pid /\ Moved(rs, t, s)[u].cursor = rs[u].cursor
  BY DEF Moved, Row

LEMMA ProcessRest ==
  ASSUME NEW rs \in [Tasks -> Row], NEW t \in Tasks, NEW w, NEW u \in Tasks
  PROVE  /\ WithProcess(rs, t, w)[u].pid = IF u = t THEN w ELSE rs[u].pid
         /\ WithProcess(rs, t, w)[u].cursor = rs[u].cursor
  BY DEF WithProcess, Row

LEMMA CursorRest ==
  ASSUME NEW rs \in [Tasks -> Row], NEW t \in Tasks, NEW n, NEW u \in Tasks
  PROVE  /\ WithCursor(rs, t, n)[u].pid = rs[u].pid
         /\ WithCursor(rs, t, n)[u].cursor = IF u = t THEN n ELSE rs[u].cursor
  BY DEF WithCursor, Row

LEMMA FailLaunchRest ==
  ASSUME TypeOK, NEW u \in Tasks, FailLaunch(u), NEW t \in Tasks
  PROVE  rows'[t].pid = rows[t].pid /\ rows'[t].cursor = rows[t].cursor
<1>1. rows' = rows \/ \E s : rows' = Moved(rows, u, s)
  BY DEF FailLaunch
<1> QED
  BY <1>1, MovedRest DEF TypeOK

\* The process recorded for a task that runs after a step.
Records(t) ==
  \E a \in Actors : /\ co[a].t = t
                    /\ LaunchReady(a) \/ RecoveryReady(a)
                    /\ rows'[t].pid = co[a].w

\* A launch or a recovery whose worker answered has recorded it.
LEMMA ReadyRecords ==
  ASSUME TypeOK, NEW a \in Actors, LaunchReady(a) \/ RecoveryReady(a)
  PROVE  rows'[co[a].t].pid = co[a].w
<1>1. PICK w \in Workers, t \in Tasks : w = co[a].w /\ t = co[a].t
  BY Resumes DEF LaunchReady, RecoveryReady, OnWorker
<1>2. WithProcess(rows, t, w) \in [Tasks -> Row] /\ WithProcess(rows, t, w)[t].pid = w
  BY WithProcessType, ProcessRest DEF TypeOK
<1>3. CASE LaunchReady(a)
  <2>1. rows' = Moved(WithProcess(rows, t, w), t, "running")
    BY <1>1, <1>3 DEF LaunchReady
  <2> QED
    BY <1>1, <1>2, <2>1, MovedRest
<1>4. CASE RecoveryReady(a)
  <2>1. rows' = WithProcess(rows, t, w)
    BY <1>1, <1>4 DEF RecoveryReady
  <2> QED
    BY <1>1, <1>2, <2>1
<1> QED
  BY <1>3, <1>4

LEMMA StepPid ==
  ASSUME IInv, NoResume, Next, NEW t \in Tasks, rows'[t].status = "running"
  PROVE  rows'[t].pid = rows[t].pid \/ Records(t)
<1> TypeOK /\ Launches /\ NoDecision
  BY DEF IInv
<1>1. ASSUME NEW s, rows' = Moved(rows, t, s) PROVE rows'[t].pid = rows[t].pid
  BY <1>1, MovedRest DEF TypeOK
<1>2. ASSUME NEW T, rows' = MarkOrphaned(rows, T) PROVE rows'[t].pid = rows[t].pid
  <2>1. rows[t] \in Row
    BY DEF TypeOK
  <2>2. \/ rows'[t] = rows[t]
        \/ rows'[t] = [rows[t] EXCEPT !.status = "orphaned", !.pid = None]
    BY <1>2 DEF MarkOrphaned
  <2>3. [rows[t] EXCEPT !.status = "orphaned", !.pid = None].status = "orphaned"
    BY <2>1 DEF Row
  <2> QED
    BY <2>2, <2>3
<1>3. rows' # Removed(rows, t)
  BY RemovedStatus DEF TypeOK
<1>4. ASSUME NEW a \in Actors, co[a].t = t, LaunchReady(a) \/ RecoveryReady(a) PROVE Records(t)
  BY <1>4, ReadyRecords DEF Records
<1>6. ASSUME NEW a \in Actors, co[a].t = t, PollReads(a) PROVE rows'[t].pid = rows[t].pid
  <2>1. PICK w \in Workers : w = co[a].w
    BY <1>6, Resumes DEF PollReads, OnWorker
  <2>2. WithCursor(rows, t, wk[w].sent) \in [Tasks -> Row]
    BY WithCursorType DEF TypeOK, Worker
  <2>3. \E s : rows' = Moved(WithCursor(rows, t, wk[w].sent), t, s)
    BY <1>6, <2>1 DEF PollReads
  <2> QED
    BY <2>2, <2>3, MovedRest, CursorRest DEF TypeOK
<1>7. ASSUME NEW a \in Actors, co[a].t = t, LaunchFails(a) PROVE rows' = rows
  <2>1. co[a].op = "launch"
    BY <1>7 DEF LaunchFails, At
  <2>2. CASE rows' = WithProcess(rows, t, co[a].w) /\ co[a].at = "handshake"
    <3>1. rows[t].status = "running"
      BY <2>2, WithStatus DEF TypeOK
    <3> QED
      BY <1>7, <2>1, <2>2, <3>1 DEF Launches, LaunchesFirst, Unprompted, Active
  <2> QED
    BY <1>7, <2>2 DEF LaunchFails
<1>8. ASSUME NEW a \in Actors, co[a].t = t, Continue(a)
      PROVE  rows'[t].pid = rows[t].pid \/ Records(t)
  BY <1>1, <1>2, <1>3, <1>4, <1>6, <1>7, <1>8, FailLaunchRest, NothingResumes
     DEF Continue, PollFindsNothing, PollFindsNoWorker, PollAsksState, PollLosesRow, Release,
         KillerReturns, LaunchStarts, LaunchRefused, ProcessStarts, LaunchDone, LaunchFailed,
         RestartLosesRow, RestartFails, Steered, SteerFails, CancelSettles, DeleteTakesWorker,
         DeleteRemoves, RecoverySteered, RecoverySteerFails, RecoveryGivesUp, RecoveryOrphans
<1>9. ASSUME NEW c \in Clients, CallTool(c, t) PROVE rows'[t].pid = rows[t].pid
  <2>1. ~Create(c, t)
    BY DEF Create, TypeOK, NewRow
  <2> QED
    BY <1>1, <1>9, <2>1, NothingResumes
       DEF CallTool, Poll, FollowUp, CancelNow, CancelAborts, Delete
<1>10. ASSUME StopObserver PROVE rows'[t].pid = rows[t].pid
  BY <1>10 DEF StopObserver, TypeOK, Row
<1>11. ASSUME Recover(t) PROVE rows'[t].pid = rows[t].pid
  BY <1>2, <1>11
     DEF Recover, RecoverySkips, RecoveryImpossible, RecoveryOrphans, RecoveryRestarts
<1> QED
  BY <1>2, <1>3, <1>8, <1>9, <1>10, <1>11, StepTouches DEF Touches, Purge, CloseRegistry

\* Two calls that bring up a process are never for the same task.
LEMMA BringersDiffer ==
  ASSUME IInv, Stages, OneRecovers, NEW a \in Actors, NEW b \in Actors,
         co[a].op \in {"launch", "recover"}, co[b].op \in {"launch", "recover"},
         co[a].t = co[b].t
  PROVE  a = b
<1>1. co[a].op = "launch" <=> co[b].op = "launch"
  BY StageOf
<1> QED
  BY <1>1 DEF OneRecovers, IInv, Launches, LaunchesOnce

\* The task a live process has after a step is the one it had before.
LEMMA LiveTaskKept ==
  ASSUME IInv, Next, NEW w \in Workers, wk'[w].st \in LiveStates
  PROVE  wk'[w].t = wk[w].t
<1>1. ASSUME NEW t, wk' = Started(w, t) PROVE FALSE
  BY <1>1, StartedState DEF IInv, LiveStates
<1>2. /\ \A a \in Actors : ~LaunchStarts(a, w)
      /\ \A c \in Clients, t \in Tasks : ~ResumeRestarts(c, t, w) /\ ~RecoveryRestarts(c, t, w)
  BY <1>1 DEF LaunchStarts, ResumeRestarts, RecoveryRestarts
<1> QED
  BY <1>2, StepGiven DEF IInv

LEMMA StepAlone ==
  ASSUME IInv, AllOwned, Stages, AgendaFresh, NoResume, OneRecovers, Unstarted, PidKnown, Alone,
         Next
  PROVE  Alone'
<1> TypeOK
  BY DEF IInv
<1> SUFFICES ASSUME NEW a \in Actors, NEW t, co'[a].op \in {"launch", "recover"}, co'[a].t = t,
                    NEW v \in Workers, wk'[v].st \in LiveStates, wk'[v].t = t
             PROVE  v = co'[a].w
  BY DEF Alone
<1>1. wk[v].t = t
  BY LiveTaskKept
<1>2. ASSUME t \in Tasks, rows[t].status = "unborn" \/ Waiting(t) PROVE FALSE
  BY <1>1, <1>2 DEF Unstarted
<1>3. ASSUME NEW w \in Workers, t \in Tasks, RecoveryRestarts(a, t, w), a \in Clients
      PROVE  FALSE
  <2>1. /\ phase = "boot" /\ t \in agenda /\ \A c \in Clients : co[c] = Idle
        /\ ~ProcessAlive(rows[t].pid)
    BY <1>3 DEF RecoveryRestarts, Recovers
  <2>2. \A b \in Actors : co[b].op \in {"idle", "poll"}
    BY <2>1 DEF Stages, Actors, Idle, Call
  <2>3. wk[v].st \in LiveStates
    <3>1. \A b \in Actors : ~ProcessStarts(b)
      BY <2>2 DEF ProcessStarts, At
    <3> QED
      BY <3>1, StepLive
  <2>4. rows[t].status = "running"
    BY <2>1 DEF AgendaFresh
  <2>5. rows[t].pid = v
    BY <1>1, <1>3, <2>2, <2>3, <2>4 DEF PidKnown, Recovering
  <2> QED
    BY <2>1, <2>3, <2>5 DEF ProcessAlive, LiveStates
<1>4. CASE co[a].op = co'[a].op /\ co[a].t = t /\ co'[a].w = co[a].w
  <2>1. CASE wk[v].st \in LiveStates
    BY <1>1, <1>4, <2>1 DEF Alone
  <2>2. ASSUME NEW b \in Actors, ProcessStarts(b), co[b].w = v PROVE v = co'[a].w
    <3>1. co[b].op \in {"launch", "recover"} /\ co[b].t = t
      BY <1>1, <2>2 DEF ProcessStarts, At, NoResume, AllOwned, Owned
    <3>2. a = b
      BY <1>4, <3>1, BringersDiffer
    <3> QED
      BY <1>4, <2>2, <3>2
  <2> QED
    BY <2>1, <2>2, StepLive
<1>5. ASSUME NEW w \in Workers, LaunchStarts(a, w), co[a].op = "launch", co[a].t = t PROVE FALSE
  <2>1. t \in Tasks /\ co[a].at = "submit_lock"
    BY <1>5, FrameTypes DEF LaunchStarts, At
  <2> QED
    BY <1>2, <1>5, <2>1 DEF Waiting
<1>6. ASSUME t \in Tasks, Create(a, t) PROVE FALSE
  BY <1>2, <1>6 DEF Create
<1>7. CASE co'[a].op = "launch"
  BY <1>4, <1>5, <1>6, <1>7, StepCauses, LaunchBefore
<1>8. CASE co'[a].op = "recover"
  BY <1>3, <1>4, <1>8, StepCauses, RecoverBefore
<1> QED
  BY <1>7, <1>8

LEMMA StepOneProcess ==
  ASSUME IInv, AllOwned, Stages, NoResume, Alone, OneProcessPerTask, Next
  PROVE  OneProcessPerTask'
<1> TypeOK
  BY DEF IInv
<1> SUFFICES ASSUME NEW v \in Workers, NEW w \in Workers, wk'[v].st \in LiveStates,
                    wk'[w].st \in LiveStates, wk'[v].t = wk'[w].t
             PROVE  v = w
  BY DEF OneProcessPerTask, LiveStates
<1>1. wk[v].t = wk[w].t
  BY LiveTaskKept
<1>2. ASSUME NEW x \in Workers, NEW y \in Workers, wk[x].t = wk[y].t, wk'[y].st \in LiveStates,
             NEW b \in Actors, ProcessStarts(b), co[b].w = x
      PROVE  x = y
  <2>1. co[b].op \in {"launch", "recover"} /\ co[b].t = wk[x].t
    BY <1>2 DEF ProcessStarts, At, NoResume, AllOwned, Owned
  <2>2. y # x => wk'[y] = wk[y]
    BY <1>2 DEF ProcessStarts, TypeOK
  <2> QED
    BY <1>2, <2>1, <2>2 DEF Alone
<1>3. CASE wk[v].st \in LiveStates /\ wk[w].st \in LiveStates
  BY <1>1, <1>3 DEF OneProcessPerTask, LiveStates
<1> QED
  BY <1>1, <1>2, <1>3, StepLive

\* Recovery goes on with its worker until it is recorded or given up.
LEMMA RecoveringOn ==
  ASSUME IInv, Stages, NoResume, Next, ~Crash, NEW a \in Actors, NEW w \in Workers,
         Recovering(a, w)
  PROVE  \/ /\ co'[a].op = "recover" /\ co'[a].at \in BringingUp \cup {"killing"}
            /\ co'[a].w = w
         \/ RecoveryReady(a) \/ RecoveryGivesUp(a)
<1> TypeOK
  BY DEF IInv
<1>1. /\ co[a].op = "recover" /\ co[a].at \in BringingUp \cup {"killing"} /\ co[a].w = w
      /\ phase = "boot"
  BY StageOf DEF Recovering
<1>2. CASE Continue(a)
  <2>1. \/ ProcessStarts(a) \/ RestartLosesRow(a) \/ RestartFails(a)
        \/ RecoveryReady(a) \/ RecoveryGivesUp(a)
    BY <1>1, <1>2
       DEF BringingUp, Continue, At, PollFindsNothing, PollFindsNoWorker, PollAsksState,
           PollReads, PollLosesRow, Release, KillerReturns, LaunchStarts, LaunchRefused,
           LaunchReady, LaunchDone, LaunchFails, LaunchFailed, ResumeReady, Steered,
           SteerFails, CancelSettles, DeleteTakesWorker, DeleteRemoves, DeleteLocked,
           RecoverySteered, RecoverySteerFails
  <2>2. CASE ProcessStarts(a) \/ RestartLosesRow(a) \/ RestartFails(a)
    <3>1. Advances(a, "handshake", w) \/ Advances(a, "killing", w)
      BY <1>1, <2>2, GotoAdvances DEF ProcessStarts, RestartLosesRow, RestartFails
    <3> QED
      BY <1>1, <3>1 DEF Advances, Becomes, BringingUp
  <2> QED
    BY <2>1, <2>2
<1>3. CASE ~Continue(a)
  <2>1. ~StopService /\ ~StopObserver
    BY <1>1, PhaseMoves
  <2>2. ~Goes(a)
    <3>1. \A v \in Workers : LaunchStarts(a, v) => Continue(a)
      BY DEF Continue
    <3> QED
      BY <1>3, <3>1 DEF Goes, Continue
  <2>3. ~Begins(a)
    BY <1>1 DEF Begins, Steered, At, Idle, Call
  <2>4. co'[a] = co[a]
    BY <1>3, <2>1, <2>2, <2>3, StepCauses DEF FrameStep, Ceases, Abandons
  <2> QED
    BY <1>1, <2>4
<1> QED
  BY <1>2, <1>3

CrashesOnce == "crash" \notin Interruptions \/ MaxRestarts <= 1

LEMMA StepPidKnown ==
  ASSUME CrashesOnce, IInv, AllOwned, Stages, NoResume, BootEpoch, Alone, PidKnown, Next
  PROVE  PidKnown'
<1> TypeOK /\ Launches
  BY DEF IInv
<1> DEFINE RecoveringThen(w) ==
             \E a \in Actors : /\ co'[a].op = "recover"
                               /\ co'[a].at \in BringingUp \cup {"killing"}
                               /\ co'[a].w = w
<1> SUFFICES ASSUME NEW t \in Tasks, NEW v \in Workers, rows'[t].status = "running",
                    wk'[v].st \in LiveStates, wk'[v].t = t
             PROVE  rows'[t].pid = v \/ RecoveringThen(v)
  BY DEF PidKnown, Recovering
<1>1. wk[v].t = t
  BY LiveTaskKept
<1>2. CASE Records(t)
  <2>1. PICK a \in Actors : /\ co[a].t = t
                            /\ LaunchReady(a) \/ RecoveryReady(a)
                            /\ rows'[t].pid = co[a].w
    BY <1>2 DEF Records
  <2>2. co[a].op \in {"launch", "recover"} /\ wk' = wk
    BY <2>1 DEF LaunchReady, RecoveryReady, At
  <2> QED
    BY <1>1, <2>1, <2>2 DEF Alone
<1>3. CASE ~Records(t)
  <2>1. rows'[t].pid = rows[t].pid
    BY <1>3, StepPid
  <2>2. rows[t].status = "running"
    <3>1. \A a \in Actors : co[a].t = t /\ LaunchReady(a) => Records(t)
      BY ReadyRecords DEF Records
    <3> QED
      BY <1>3, <3>1, StepCauses, NothingResumes DEF RowStep, Runs
  <2>3. ASSUME NEW b \in Actors, ProcessStarts(b), co[b].w = v PROVE RecoveringThen(v)
    <3>1. co[b].op \in {"launch", "recover"} /\ co[b].at = "starting" /\ co[b].t = t
      BY <1>1, <2>3 DEF ProcessStarts, At, NoResume, AllOwned, Owned
    <3>2. co[b].op = "recover"
      BY <2>2, <3>1 DEF Launches, LaunchesFirst, Unprompted, Active
    <3>3. Advances(b, "handshake", v)
      BY <2>3, GotoAdvances DEF ProcessStarts
    <3> QED
      BY <3>2, <3>3 DEF Advances, Becomes, BringingUp
  <2>4. ASSUME NEW a \in Actors, Recovering(a, v) PROVE RecoveringThen(v)
    <3>1. co[a].op = "recover" /\ co[a].t = t
      BY <1>1, <2>4 DEF Recovering, AllOwned, Owned
    <3>2. ~Crash
      <4>1. epoch > 0 /\ epoch \in Nat
        BY <3>1, StageOf DEF BootEpoch
      <4> QED
        BY <4>1, BoundsAssumption DEF Crash, CrashesOnce
    <3>3. ~RecoveryReady(a)
      BY <1>3, <3>1, ReadyRecords DEF Records
    <3>4. ~RecoveryGivesUp(a)
      <4>1. RecoveryGivesUp(a) => rows' = MarkOrphaned(rows, {t})
        BY <3>1 DEF RecoveryGivesUp, RecoveryOrphans
      <4>2. MarkOrphaned(rows, {t})[t].status = "orphaned"
        BY <2>2 DEF MarkOrphaned, Active, TypeOK, Row
      <4> QED
        BY <4>1, <4>2
    <3> QED
      BY <2>4, <3>2, <3>3, <3>4, RecoveringOn
  <2>5. CASE wk[v].st \in LiveStates
    BY <1>1, <2>1, <2>2, <2>4, <2>5 DEF PidKnown
  <2> QED
    BY <2>3, <2>5, StepLive
<1> QED
  BY <1>2, <1>3

PInv == SInv /\ BootEpoch /\ Alone /\ PidKnown /\ OneProcessPerTask

\* Without resume_task, a task never has two live processes, those that earlier
\* instances of the plugin left behind counted, however often it is unloaded and
\* loaded again; with crashes it holds across one further load.  What it takes is
\* that recovery finds the process of a running task under the id its row records
\* (_is_process_alive in recover_existing_tasks).
THEOREM OneProcessEach ==
  ASSUME "resume" \notin Offered, "crash" \notin Interruptions \/ MaxRestarts <= 1
  PROVE  Spec => []OneProcessPerTask
<1>1. Init => PInv
  <2> SUFFICES ASSUME Init PROVE PInv
    OBVIOUS
  <2>1. /\ \A a \in Actors : co[a].op = "idle"
        /\ \A w \in Workers : wk[w].st = "unused"
        /\ \A t \in Tasks : rows[t].status = "unborn"
        /\ phase = "up" /\ epoch = 0
    BY DEF Init, Idle, Call, NewRow
  <2>2. BootEpoch /\ Alone /\ PidKnown /\ OneProcessPerTask
    BY <2>1 DEF BootEpoch, Alone, PidKnown, OneProcessPerTask
  <2> QED
    BY <2>2, InitSInv DEF PInv
<1>2. PInv /\ [Next]_vars => PInv'
  <2> SUFFICES ASSUME PInv, [Next]_vars PROVE PInv'
    OBVIOUS
  <2>1. CASE Next
    <3>1. SInv'
      BY <2>1, StepSInv DEF PInv
    <3>2. IInv /\ AllOwned /\ Stages /\ AgendaFresh
      BY DEF PInv, SInv, WInv
    <3>3. BootEpoch' /\ Alone'
      BY <2>1, <3>2, StepBootEpoch, StepAlone DEF PInv, SInv
    <3>4. PidKnown'
      BY <2>1, <3>2, StepPidKnown DEF PInv, SInv, CrashesOnce
    <3>5. OneProcessPerTask'
      BY <2>1, <3>2, StepOneProcess DEF PInv, SInv
    <3> QED
      BY <3>1, <3>3, <3>4, <3>5 DEF PInv
  <2>2. CASE UNCHANGED vars
    <3>1. SInv'
      BY <2>2, SameSInv DEF PInv
    <3>2. BootEpoch' /\ Alone' /\ PidKnown' /\ OneProcessPerTask'
      BY <2>2 DEF vars, sys, PInv, BootEpoch, Alone, PidKnown, Recovering, OneProcessPerTask
    <3> QED
      BY <3>1, <3>2 DEF PInv
  <2> QED
    BY <2>1, <2>2
<1>3. PInv => OneProcessPerTask
  BY DEF PInv
<1> QED
  BY <1>1, <1>2, <1>3, PTL DEF Spec
===============================================================================

---------------------------- MODULE TaskWatch_proofs ----------------------------
(***************************************************************************)
(* No task of TaskScheduler is left behind, for every value of its         *)
(* constants: a running task is watched, a queued one has its launch, a    *)
(* deleted one has no files.                                               *)
(*                                                                         *)
(* What can break such a fact is a step of another coroutine, so the proof *)
(* goes by what changed and not by who did it: first, for every step, how  *)
(* a coroutine, the phase, the adapter table and a row may change and by   *)
(* which action (FrameStep, PhaseStep, AdapterStep, RowStep); then each    *)
(* part of the invariant from those causes.                                *)
(***************************************************************************)
EXTENDS TaskLifecycle_proofs

USE NoneAssumption, ClientsAssumption
-------------------------------------------------------------------------------
(***************************************************************************)
(* How a step changes the frame of a coroutine.                            *)
(***************************************************************************)
\* What the coroutine is after the step.
Becomes(a, op, at, t, w, seen) ==
  /\ co'[a].op = op
  /\ co'[a].at = at
  /\ co'[a].t = t
  /\ co'[a].w = w
  /\ co'[a].seen = seen

\* The coroutine goes on with its call, to await at, holding w.
Advances(a, at, w) == Becomes(a, co[a].op, at, co[a].t, w, co[a].seen)

Goes(a) ==
  \/ \E w \in Workers : LaunchStarts(a, w) /\ Advances(a, "starting", w)
  \/ ProcessStarts(a) /\ Advances(a, "handshake", co[a].w)
  \/ LaunchReady(a) /\ Advances(a, "prompting", co[a].w)
  \/ PollAsksState(a) /\ Advances(a, "get_state", adapters[co[a].t])
  \/ (ResumeReady(a) \/ RecoveryReady(a)) /\ Advances(a, "steering", co[a].w)
  \/ PollReads(a) /\ Advances(a, "releasing", co[a].w)
  \/ /\ LaunchFails(a) \/ RestartLosesRow(a) \/ RestartFails(a) \/ RecoverySteerFails(a)
     /\ Advances(a, "killing", co[a].w)
  \/ Release(a) /\ Advances(a, "killing", co[a].w) /\ adapters[co[a].t] = co[a].w
  \/ Release(a) /\ Advances(a, "killing", None) /\ adapters[co[a].t] # co[a].w
  \/ DeleteTakesWorker(a) /\ Advances(a, "killing", adapters[co[a].t])

\* The coroutine begins a call.
Begins(a) ==
  \/ Steered(a) /\ Becomes(a, "poll", "obs_lock", co[a].t, None, "unborn")
  \/ /\ ObserverCycle
     /\ a \in Registered /\ rows[a].status = "running"
     /\ co[a] = Idle
     /\ Becomes(a, "poll", "obs_lock", a, None, "unborn")
  \/ \E t \in Tasks :
       /\ a \in Clients
       /\ co[a] = Idle
       /\ \/ Create(a, t) /\ Becomes(a, "launch", "submit_lock", t, None, "queued")
          \/ Poll(a, t) /\ Becomes(a, "poll", "obs_lock", t, None, "unborn")
          \/ /\ FollowUp(a, t)
             /\ Becomes(a, "follow_up", "steering", t, adapters[t], "unborn")
          \/ /\ ResumeInPlace(a, t)
             /\ Becomes(a, "resume", "steering", t, adapters[t], rows[t].status)
          \/ \E w \in Workers : /\ ResumeRestarts(a, t, w)
                                /\ Becomes(a, "resume", "starting", t, w, rows[t].status)
          \/ /\ CancelAborts(a, t)
             /\ Becomes(a, "cancel", "releasing", t, adapters[t], rows[t].status)
          \/ Delete(a, t) /\ Becomes(a, "delete", "submit_lock", t, None, "unborn")
          \/ \E w \in Workers : /\ RecoveryRestarts(a, t, w)
                                /\ Becomes(a, "recover", "starting", t, w, rows[t].status)

\* Unloading abandons a launch that has a worker.
Halfway == {"starting", "handshake", "prompting"}

Abandons(a) ==
  /\ StopService
  /\ co[a].op = "launch" /\ co[a].at \in Halfway
  /\ Becomes(a, "abandoned", "killing", co[a].t, co[a].w, co[a].seen)

Ceases(a) == co'[a] = Idle /\ (Continue(a) \/ Crash \/ StopObserver \/ StopService)

FrameStep(a) == co'[a] = co[a] \/ Ceases(a) \/ Goes(a) \/ Begins(a) \/ Abandons(a)

LEMMA GotoAdvances ==
  ASSUME TypeOK, NEW a \in Actors, NEW at, Goto(a, at)
  PROVE  Advances(a, at, co[a].w) /\ \A b \in Actors \ {a} : co'[b] = co[b]
  BY DEF Goto, Advances, Becomes, TypeOK, Frame

LEMMA GotoOnAdvances ==
  ASSUME TypeOK, NEW a \in Actors, NEW at, NEW w, GotoOn(a, at, w)
  PROVE  Advances(a, at, w) /\ \A b \in Actors \ {a} : co'[b] = co[b]
<1> DEFINE f == [co[a] EXCEPT !.at = at, !.w = w]
<1>1. co' = [co EXCEPT ![a] = f] /\ a \in DOMAIN co
  BY DEF TypeOK, Frame, GotoOn
<1>2. /\ f.op = co[a].op /\ f.t = co[a].t /\ f.seen = co[a].seen
      /\ f.at = at /\ f.w = w
  BY DEF TypeOK, Frame
<1> HIDE DEF f
<1> QED
  BY <1>1, <1>2 DEF Advances, Becomes

LEMMA ReturnCeases ==
  ASSUME TypeOK, NEW a \in Actors, Return(a)
  PROVE  co'[a] = Idle /\ \A b \in Actors \ {a} : co'[b] = co[b]
  BY DEF Return, TypeOK

LEMMA CallBegins ==
  ASSUME TypeOK, NEW a \in Actors, NEW op, NEW at, NEW t, NEW w, NEW seen,
         co' = [co EXCEPT ![a] = Call(op, at, t, w, seen)]
  PROVE  Becomes(a, op, at, t, w, seen) /\ \A b \in Actors \ {a} : co'[b] = co[b]
  BY DEF TypeOK, Call, Becomes

LEMMA ContinueFrames ==
  ASSUME TypeOK, NEW a \in Actors, Continue(a)
  PROVE  /\ FrameStep(a)
         /\ \A b \in Actors \ {a} : co'[b] = co[b]
<1>1. CASE Return(a)
  BY <1>1, ReturnCeases DEF FrameStep, Ceases
<1>2. CASE \E w \in Workers : LaunchStarts(a, w)
  BY <1>2, GotoOnAdvances DEF LaunchStarts, FrameStep, Goes
<1>3. CASE PollAsksState(a)
  BY <1>3, GotoOnAdvances DEF PollAsksState, FrameStep, Goes
<1>4. CASE Release(a)
  BY <1>4, GotoOnAdvances, GotoAdvances DEF Release, FrameStep, Goes
<1>5. CASE DeleteTakesWorker(a)
  BY <1>5, GotoOnAdvances DEF DeleteTakesWorker, FrameStep, Goes
<1>6. CASE Steered(a)
  BY <1>6, CallBegins DEF Steered, PollCall, FrameStep, Begins
<1>7. CASE ProcessStarts(a) \/ LaunchReady(a) \/ LaunchFails(a) \/ RestartLosesRow(a)
           \/ RestartFails(a) \/ RecoverySteerFails(a) \/ RecoveryReady(a)
  BY <1>7, GotoAdvances
     DEF ProcessStarts, LaunchReady, LaunchFails, RestartLosesRow, RestartFails,
         RecoverySteerFails, RecoveryReady, FrameStep, Goes
<1>8. CASE PollReads(a)
  BY <1>1, <1>8, GotoAdvances DEF PollReads, FrameStep, Goes
<1>9. CASE ResumeReady(a)
  BY <1>1, <1>9, GotoAdvances DEF ResumeReady, FrameStep, Goes
<1> QED
  BY <1>1, <1>2, <1>3, <1>4, <1>5, <1>6, <1>7, <1>8, <1>9
     DEF Continue, PollFindsNothing, PollFindsNoWorker, PollLosesRow, KillerReturns,
         LaunchRefused, LaunchDone, LaunchFailed, SteerFails, CancelSettles, DeleteRemoves,
         RecoverySteered, RecoveryGivesUp

LEMMA CallToolFrames ==
  ASSUME TypeOK, NEW c \in Clients, NEW t \in Tasks, CallTool(c, t)
  PROVE  /\ FrameStep(c)
         /\ \A b \in Actors \ {c} : co'[b] = co[b]
<1> c \in Actors
  BY DEF Actors
<1>1. CASE CancelNow(c, t)
  BY <1>1 DEF CancelNow, FrameStep
<1>2. CASE ~CancelNow(c, t)
  <2>1. Begins(c) /\ \A b \in Actors \ {c} : co'[b] = co[b]
    BY <1>2, CallBegins
       DEF CallTool, Create, Poll, PollCall, FollowUp, ResumeInPlace, ResumeRestarts,
           CancelAborts, Delete, Calls, Begins
  <2> QED
    BY <2>1 DEF FrameStep
<1> QED
  BY <1>1, <1>2

LEMMA RestartFrames ==
  ASSUME TypeOK, NEW c \in Clients, NEW t \in Tasks, NEW w \in Workers,
         RecoveryRestarts(c, t, w)
  PROVE  /\ FrameStep(c)
         /\ \A b \in Actors \ {c} : co'[b] = co[b]
<1> c \in Actors
  BY DEF Actors
<1>1. co[c] = Idle
  BY DEF RecoveryRestarts, Recovers
<1>2. /\ Becomes(c, "recover", "starting", t, w, rows[t].status)
      /\ \A b \in Actors \ {c} : co'[b] = co[b]
  BY CallBegins DEF RecoveryRestarts
<1> QED
  BY <1>1, <1>2 DEF FrameStep, Begins


LEMMA SystemFrames ==
  ASSUME TypeOK, NEW a \in Actors,
         ObserverCycle \/ StopService \/ StopObserver \/ Crash
  PROVE  FrameStep(a)
<1>1. CASE ObserverCycle
  <2>1. co'[a] = co[a] \/ (/\ a \in Registered /\ rows[a].status = "running"
                           /\ Becomes(a, "poll", "obs_lock", a, None, "unborn"))
    BY <1>1 DEF ObserverCycle, PollCall, Call, Becomes
  <2>2. a \in Registered => co[a] = Idle
    BY <1>1 DEF ObserverCycle, ObserverResting, Registered
  <2> QED
    BY <1>1, <2>1, <2>2 DEF FrameStep, Begins
<1>2. CASE StopService
  <2>1. \/ co'[a] = co[a]
        \/ co'[a] = Idle
        \/ /\ co[a].op = "launch" /\ co[a].at \in Halfway
           /\ Becomes(a, "abandoned", "killing", co[a].t, co[a].w, co[a].seen)
    BY <1>2, ZenonT(60) DEF StopService, Halfway, TypeOK, Frame, Becomes
  <2> QED
    BY <1>2, <2>1 DEF FrameStep, Ceases, Abandons
<1>3. CASE StopObserver \/ Crash
  <2>1. co'[a] = co[a] \/ co'[a] = Idle
    BY <1>3 DEF StopObserver, Crash
  <2> QED
    BY <1>3, <2>1 DEF FrameStep, Ceases
<1> QED
  BY <1>1, <1>2, <1>3

\* Every coroutine moves in one of these ways, or not at all.
LEMMA StepFrames ==
  ASSUME TypeOK, Next, NEW a \in Actors
  PROVE  FrameStep(a)
<1>1. CASE UNCHANGED co
  BY <1>1 DEF FrameStep
<1>2. ASSUME NEW b \in Actors, Continue(b) PROVE FrameStep(a)
  BY <1>2, ContinueFrames DEF FrameStep
<1>3. ASSUME NEW c \in Clients, NEW t \in Tasks, CallTool(c, t) PROVE FrameStep(a)
  BY <1>3, CallToolFrames DEF FrameStep
<1>4. ASSUME NEW c \in Clients, NEW t \in Tasks, NEW w \in Workers, RecoveryRestarts(c, t, w)
      PROVE  FrameStep(a)
  BY <1>4, RestartFrames DEF FrameStep
<1>5. CASE ObserverCycle \/ StopService \/ StopObserver \/ Crash
  BY <1>5, SystemFrames
<1> QED
  BY <1>1, <1>2, <1>3, <1>4, <1>5
     DEF Next, Purge, Unload, StopWorkers, CloseRegistry, Load, Recover, RecoverySkips,
         RecoveryImpossible, Publish, WorkerEvent, WorkerEnds
-------------------------------------------------------------------------------
(***************************************************************************)
(* How a step changes the phase, the adapter table and a row.              *)
(***************************************************************************)
PhaseStep ==
  \/ phase' = phase /\ (agenda' = agenda \/ \E t \in Tasks : Recover(t))
  \/ StopService \/ StopObserver \/ StopWorkers \/ CloseRegistry \/ Crash \/ Load \/ Publish

LEMMA PhaseMoves ==
  /\ StopService => phase = "up" /\ phase' = "stopping"
  /\ StopObserver => phase = "stopping" /\ phase' = "closing"
  /\ StopWorkers => phase = "closing" /\ phase' \in {"killing", "down"}
  /\ CloseRegistry => phase = "killing" /\ phase' = "down"
  /\ Crash => phase # "down" /\ phase' = "down"
  /\ Load => phase = "down" /\ phase' = "boot"
  /\ Publish => phase = "boot" /\ phase' = "up"
<1>1. StopService => phase = "up" /\ phase' = "stopping"
  BY DEF StopService
<1>2. StopWorkers => phase = "closing" /\ phase' \in {"killing", "down"}
  BY DEF StopWorkers
<1>3. Crash => phase # "down" /\ phase' = "down"
  BY DEF Crash
<1> QED
  BY <1>1, <1>2, <1>3 DEF StopObserver, CloseRegistry, Load, Publish

LEMMA StepPhase ==
  ASSUME Next
  PROVE  PhaseStep
<1>1. ASSUME NEW a \in Actors, Continue(a) PROVE phase' = phase /\ agenda' = agenda
  BY <1>1 DEF Continue, sys, PollFindsNothing, PollFindsNoWorker, PollAsksState, PollReads,
         PollLosesRow, Release, KillerReturns, LaunchStarts, LaunchRefused, ProcessStarts,
         LaunchReady, LaunchDone, LaunchFails, LaunchFailed, ResumeReady, RestartLosesRow,
         RestartFails, Steered, SteerFails, CancelSettles, DeleteTakesWorker, DeleteRemoves,
         RecoveryReady, RecoverySteered, RecoverySteerFails, RecoveryGivesUp
<1>2. ASSUME NEW c \in Clients, NEW t \in Tasks, CallTool(c, t)
      PROVE  phase' = phase /\ agenda' = agenda
  BY <1>2 DEF CallTool, sys, Create, Poll, FollowUp, ResumeInPlace, ResumeRestarts,
              CancelNow, CancelAborts, Delete
<1>3. CASE \/ ObserverCycle
           \/ \E t \in Tasks : Purge(t)
           \/ \E w \in Workers : WorkerEvent(w) \/ WorkerEnds(w)
  BY <1>3 DEF ObserverCycle, Purge, WorkerEvent, WorkerEnds, sys, PhaseStep
<1>4. ASSUME NEW t \in Tasks, Recover(t) PROVE phase' = phase
  BY <1>4 DEF Recover, RecoverySkips, RecoveryImpossible, RecoveryRestarts
<1> QED
  BY <1>1, <1>2, <1>3, <1>4 DEF Next, Unload, PhaseStep

\* The worker registered for t is dropped.
Drops(t) ==
  \/ \E a \in Actors : /\ co[a].t = t
                       /\ \/ LaunchFails(a)
                          \/ Release(a) /\ adapters[t] = co[a].w
                          \/ RecoverySteerFails(a)
                          \/ DeleteTakesWorker(a)
  \/ Purge(t)
  \/ StopService /\ \E a \in Actors : /\ co[a].op = "launch" /\ co[a].at \in Halfway
                                      /\ co[a].t = t
  \/ StopWorkers \/ Crash \/ Load

AdapterStep(t) ==
  \/ adapters'[t] = adapters[t]
  \/ adapters'[t] = None /\ Drops(t)
  \/ \E a \in Actors : /\ co[a].t = t
                       /\ \E w \in Workers : LaunchStarts(a, w) /\ adapters'[t] = w
  \/ \E a \in Actors : /\ co[a].t = t
                       /\ ResumeReady(a) \/ RestartLosesRow(a) \/ RecoveryReady(a)
                       /\ adapters'[t] = co[a].w

LEMMA ContinueAdapters ==
  ASSUME TypeOK, NEW a \in Actors, Continue(a), NEW t \in Tasks
  PROVE  AdapterStep(t)
<1>1. CASE UNCHANGED adapters
  BY <1>1 DEF AdapterStep
<1>2. CASE t # co[a].t
  <2>1. adapters'[t] = adapters[t]
    BY <1>1, <1>2
       DEF Continue, TypeOK, PollFindsNothing, PollFindsNoWorker, PollAsksState, PollReads,
           PollLosesRow, Release, KillerReturns, LaunchStarts, LaunchRefused, ProcessStarts,
           LaunchReady, LaunchDone, LaunchFails, LaunchFailed, ResumeReady, RestartLosesRow,
           RestartFails, Steered, SteerFails, CancelSettles, DeleteTakesWorker, DeleteRemoves,
           RecoveryReady, RecoverySteered, RecoverySteerFails, RecoveryGivesUp
  <2> QED
    BY <2>1 DEF AdapterStep
<1>3. CASE t = co[a].t
  <2>1. CASE LaunchFails(a) \/ RecoverySteerFails(a) \/ DeleteTakesWorker(a)
    <3>1. adapters'[t] = None
      BY <1>3, <2>1 DEF LaunchFails, RecoverySteerFails, DeleteTakesWorker, TypeOK
    <3> QED
      BY <1>3, <2>1, <3>1 DEF AdapterStep, Drops
  <2>2. CASE Release(a)
    <3>1. UNCHANGED adapters \/ (adapters'[t] = None /\ adapters[t] = co[a].w)
      BY <1>3, <2>2 DEF Release, TypeOK
    <3> QED
      BY <1>3, <2>2, <3>1 DEF AdapterStep, Drops
  <2>3. CASE ResumeReady(a) \/ RestartLosesRow(a) \/ RecoveryReady(a)
    <3>1. adapters'[t] = co[a].w
      BY <1>3, <2>3 DEF ResumeReady, RestartLosesRow, RecoveryReady, TypeOK
    <3> QED
      BY <1>3, <2>3, <3>1 DEF AdapterStep
  <2>4. ASSUME NEW w \in Workers, LaunchStarts(a, w) PROVE AdapterStep(t)
    <3>1. adapters'[t] = w
      BY <1>3, <2>4 DEF LaunchStarts, TypeOK
    <3> QED
      BY <1>3, <2>4, <3>1 DEF AdapterStep
  <2> QED
    BY <1>1, <2>1, <2>2, <2>3, <2>4
       DEF Continue, PollFindsNothing, PollFindsNoWorker, PollAsksState, PollReads,
           PollLosesRow, KillerReturns, LaunchRefused, ProcessStarts, LaunchReady, LaunchDone,
           LaunchFailed, RestartFails, Steered, SteerFails, CancelSettles, DeleteRemoves,
           RecoverySteered, RecoveryGivesUp
<1> QED
  BY <1>2, <1>3

\* The adapter table changes in one of these ways only.
LEMMA StepAdapters ==
  ASSUME TypeOK, Next, NEW t \in Tasks
  PROVE  AdapterStep(t)
<1>1. CASE UNCHANGED adapters
  BY <1>1 DEF AdapterStep
<1>2. ASSUME NEW a \in Actors, Continue(a) PROVE AdapterStep(t)
  BY <1>2, ContinueAdapters
<1>3. ASSUME NEW u \in Tasks, Purge(u) PROVE AdapterStep(t)
  <2>1. adapters'[t] = IF t = u THEN None ELSE adapters[t]
    BY <1>3 DEF Purge, TypeOK
  <2> QED
    BY <1>3, <2>1 DEF AdapterStep, Drops
<1>4. CASE StopService
  <2>1. \/ adapters'[t] = adapters[t]
        \/ /\ adapters'[t] = None
           /\ \E a \in Actors : /\ co[a].op = "launch" /\ co[a].at \in Halfway
                                /\ co[a].t = t
    BY <1>4 DEF StopService, Halfway, Actors
  <2> QED
    BY <1>4, <2>1 DEF AdapterStep, Drops
<1>5. CASE StopWorkers \/ Crash \/ Load
  <2>1. adapters'[t] \in {adapters[t], None}
    BY <1>5 DEF StopWorkers, Crash, Load
  <2> QED
    BY <1>5, <2>1 DEF AdapterStep, Drops
<1> QED
  BY <1>1, <1>2, <1>3, <1>4, <1>5, ZenonT(60)
     DEF Next, CallTool, Create, Poll, FollowUp, ResumeInPlace, ResumeRestarts, CancelNow,
         CancelAborts, Delete, ObserverCycle, Unload, StopObserver, CloseRegistry, Recover,
         RecoverySkips, RecoveryImpossible, RecoveryRestarts, Publish, WorkerEvent, WorkerEnds

\* A task is brought to running by one of these.
Runs(t) ==
  \/ \E a \in Actors : co[a].t = t /\ (LaunchReady(a) \/ ResumeReady(a))
  \/ \E c \in Clients : ResumeInPlace(c, t)

\* The row of t is removed by one of these.
Removes(t) ==
  \/ \E a \in Actors : co[a].t = t /\ DeleteRemoves(a)
  \/ Purge(t)

RowStep(t) ==
  /\ rows'[t].status = "running" => rows[t].status = "running" \/ Runs(t)
  /\ rows'[t].status = "deleted" => rows[t].status = "deleted" \/ Removes(t)
  /\ rows'[t].status = "queued" =>
       rows[t].status = "queued" \/ \E c \in Clients : Create(c, t)

\* Whatever row a step touches otherwise stays what it is or comes to rest.
Rests(t) == rows'[t].status \in {rows[t].status} \cup Resting

LEMMA RestsStep ==
  ASSUME NEW t \in Tasks, Rests(t)
  PROVE  RowStep(t)
  BY DEF Rests, RowStep, Resting, Terminal

LEMMA FailLaunchRests ==
  ASSUME TypeOK, NEW u \in Tasks, FailLaunch(u), NEW t \in Tasks
  PROVE  Rests(t)
<1>1. CASE Present(u)
  <2>1. PICK s : /\ rows' = Moved(rows, u, s)
                 /\ s \in {rows[u].status, "failed"}
    BY <1>1 DEF FailLaunch
  <2> QED
    BY <2>1, MovedStatus DEF TypeOK, Rests, Resting, Terminal
<1>2. CASE ~Present(u)
  BY <1>2 DEF FailLaunch, Rests
<1> QED
  BY <1>1, <1>2

LEMMA PollReadsRests ==
  ASSUME TypeOK, NEW a \in Actors, PollReads(a), NEW t \in Tasks
  PROVE  Rests(t)
<1>1. PICK u \in Tasks, w \in Workers : u = co[a].t /\ w = co[a].w
  BY Resumes DEF PollReads, OnWorker
<1>2. rows' = Moved(WithCursor(rows, u, wk[w].sent), u, Verdict(u, w))
  BY <1>1 DEF PollReads
<1>3. rows'[t].status = IF t = u THEN Verdict(u, w) ELSE rows[t].status
  <2>1. WithCursor(rows, u, wk[w].sent) \in [Tasks -> Row]
    BY <1>1, WithCursorType DEF TypeOK, Worker
  <2>2. WithCursor(rows, u, wk[w].sent)[t].status = rows[t].status
    BY <1>1, WithStatus DEF TypeOK
  <2> HIDE DEF Verdict
  <2> QED
    BY <1>2, <2>1, <2>2, MovedStatus
<1>4. Verdict(u, w) \in {rows[u].status, "completed", "orphaned"}
  BY DEF Verdict
<1> QED
  BY <1>3, <1>4 DEF Rests, Resting, Terminal

LEMMA OrphansRest ==
  ASSUME TypeOK, NEW T, rows' = MarkOrphaned(rows, T), NEW t \in Tasks
  PROVE  Rests(t)
  BY MarkOrphanedStatus DEF TypeOK, Rests, Resting

LEMMA ContinueRows ==
  ASSUME TypeOK, NEW a \in Actors, Continue(a), NEW t \in Tasks
  PROVE  RowStep(t)
<1>1. CASE UNCHANGED rows
  BY <1>1 DEF RowStep
<1>2. CASE LaunchReady(a) \/ ResumeReady(a)
  <2>1. PICK u \in Tasks, w \in Workers : u = co[a].t /\ w = co[a].w
    BY <1>2, Resumes DEF LaunchReady, ResumeReady, OnWorker
  <2>2. \/ rows' = Moved(WithProcess(rows, u, w), u, "running")
        \/ rows' = WithProcess(rows, u, w)
    BY <1>2, <2>1 DEF LaunchReady, ResumeReady
  <2>3. rows'[t].status = rows[t].status \/ (t = u /\ rows'[t].status = "running")
    BY <2>2, WithStatus, RecordedStatus DEF TypeOK
  <2> QED
    BY <1>2, <2>1, <2>3 DEF RowStep, Runs
<1>3. CASE DeleteRemoves(a)
  <2>1. PICK u \in Tasks : u = co[a].t
    BY <1>3, Resumes DEF DeleteRemoves, DeleteLocked
  <2>2. rows'[t].status = rows[t].status \/ (t = u /\ rows'[t].status = "deleted")
    BY <1>3, <2>1, RemovedStatus DEF DeleteRemoves, TypeOK
  <2> QED
    BY <1>3, <2>1, <2>2 DEF RowStep, Removes
<1>4. CASE LaunchRefused(a) \/ LaunchFailed(a)
  BY <1>4, Resumes, FailLaunchRests, RestsStep DEF LaunchRefused, LaunchFailed
<1>5. CASE PollReads(a)
  BY <1>5, PollReadsRests, RestsStep
<1>6. CASE PollFindsNoWorker(a) \/ CancelSettles(a)
  <2>1. PICK u \in Tasks : u = co[a].t
    BY <1>6, Resumes DEF PollFindsNoWorker, CancelSettles
  <2>2. \/ UNCHANGED rows
        \/ rows' = Moved(rows, u, "orphaned")
        \/ rows' = Moved(rows, u, "cancelled")
    BY <1>6, <2>1 DEF PollFindsNoWorker, CancelSettles
  <2>3. Rests(t)
    BY <2>2, MovedStatus DEF TypeOK, Rests, Resting, Terminal
  <2> QED
    BY <2>3, RestsStep
<1>7. CASE RecoveryGivesUp(a)
  BY <1>7, OrphansRest, RestsStep DEF RecoveryGivesUp, RecoveryOrphans
<1>8. CASE LaunchFails(a) \/ RecoveryReady(a)
  <2>1. PICK u \in Tasks, w \in Workers : u = co[a].t /\ w = co[a].w
    BY <1>8, Resumes DEF LaunchFails, RecoveryReady, OnWorker
  <2>2. UNCHANGED rows \/ rows' = WithProcess(rows, u, w)
    BY <1>8, <2>1 DEF LaunchFails, RecoveryReady
  <2>3. Rests(t)
    BY <2>2, WithStatus DEF TypeOK, Rests
  <2> QED
    BY <2>3, RestsStep
<1> QED
  BY <1>1, <1>2, <1>3, <1>4, <1>5, <1>6, <1>7, <1>8
     DEF Continue, PollFindsNothing, PollAsksState, PollLosesRow, Release, KillerReturns,
         LaunchStarts, ProcessStarts, LaunchDone, RestartLosesRow, RestartFails, Steered,
         SteerFails, DeleteTakesWorker, RecoverySteered, RecoverySteerFails

\* A row reaches running, deleted and queued in these ways only.
LEMMA StepRows ==
  ASSUME TypeOK, NoDecision, Next, NEW t \in Tasks
  PROVE  RowStep(t)
<1>1. CASE UNCHANGED rows
  BY <1>1 DEF RowStep
<1>2. ASSUME NEW a \in Actors, Continue(a) PROVE RowStep(t)
  BY <1>2, ContinueRows
<1>3. ASSUME NEW c \in Clients, NEW u \in Tasks, CallTool(c, u) PROVE RowStep(t)
  <2>1. CASE Create(c, u)
    <3>1. rows'[t].status = IF t = u THEN "queued" ELSE rows[t].status
      BY <2>1 DEF Create, NewRow, TypeOK
    <3> QED
      BY <2>1, <3>1 DEF RowStep
  <2>2. CASE ResumeInPlace(c, u)
    <3>1. rows'[t].status = IF t = u THEN "running" ELSE rows[t].status
      BY <2>2, MovedStatus DEF ResumeInPlace, TypeOK
    <3> QED
      BY <2>2, <3>1 DEF RowStep, Runs
  <2>3. CASE FollowUp(c, u)
    <3>1. rows'[t].status = IF t = u THEN "running" ELSE rows[t].status
      BY <2>3, MovedStatus DEF FollowUp, TypeOK
    <3>2. rows[u].status = "running"
      BY <2>3 DEF FollowUp, Active, NoDecision
    <3> QED
      BY <3>1, <3>2 DEF RowStep
  <2>4. CASE CancelNow(c, u)
    <3>1. Rests(t)
      BY <2>4, MovedStatus DEF CancelNow, TypeOK, Rests, Resting, Terminal
    <3> QED
      BY <3>1, RestsStep
  <2> QED
    BY <1>1, <1>3, <2>1, <2>2, <2>3, <2>4
       DEF CallTool, Poll, ResumeRestarts, CancelAborts, Delete
<1>4. ASSUME NEW u \in Tasks, Purge(u) PROVE RowStep(t)
  <2>1. rows'[t].status = IF t = u THEN "deleted" ELSE rows[t].status
    BY <1>4, RemovedStatus DEF Purge, TypeOK
  <2> QED
    BY <1>4, <2>1 DEF RowStep, Removes
<1>5. ASSUME NEW u \in Tasks, RecoverySkips(u) \/ RecoveryImpossible(u) PROVE RowStep(t)
  BY <1>5, OrphansRest, RestsStep DEF RecoverySkips, RecoveryImpossible, RecoveryOrphans
<1>6. CASE CloseRegistry
  BY <1>6, OrphansRest, RestsStep DEF CloseRegistry
<1>7. CASE StopObserver
  <2>1. rows'[t].status \in {rows[t].status, "failed"}
    BY <1>7 DEF StopObserver, TypeOK, Row
  <2> QED
    BY <2>1, RestsStep DEF Rests, Resting, Terminal
<1> QED
  BY <1>1, <1>2, <1>3, <1>4, <1>5, <1>6, <1>7
     DEF Next, ObserverCycle, Unload, StopService, StopWorkers, Crash, Load, Recover,
         RecoveryRestarts, Publish, WorkerEvent, WorkerEnds
-------------------------------------------------------------------------------
(***************************************************************************)
(* How a step changes the process of a worker.                             *)
(***************************************************************************)
WorkerStep(w) ==
  /\ wk'[w].st = "running" =>
       wk[w].st = "running" \/ \E a \in Actors : ProcessStarts(a) /\ co[a].w = w
  /\ wk'[w].st = "created" =>
       \/ wk[w].st = "created"
       \/ \E a \in Actors : LaunchStarts(a, w)
       \/ \E c \in Clients, t \in Tasks : ResumeRestarts(c, t, w) \/ RecoveryRestarts(c, t, w)

LEMMA ClosedStep ==
  ASSUME TypeOK, NEW W, wk' = Closed(W), NEW w \in Workers
  PROVE  WorkerStep(w)
  BY DEF Closed, TypeOK, Worker, WorkerStep

LEMMA StartedStep ==
  ASSUME TypeOK, NEW v \in Workers, NEW t, wk' = Started(v, t), NEW w \in Workers
  PROVE  w = v \/ WorkerStep(w)
  BY DEF Started, TypeOK, WorkerStep

LEMMA StartedState ==
  ASSUME TypeOK, NEW v \in Workers, NEW t, wk' = Started(v, t)
  PROVE  wk'[v].st = "created" /\ wk'[v].t = t
  BY DEF Started, TypeOK, Worker

LEMMA ContinueWorkers ==
  ASSUME TypeOK, NEW a \in Actors, Continue(a), NEW w \in Workers
  PROVE  WorkerStep(w)
<1>1. CASE UNCHANGED wk
  BY <1>1 DEF WorkerStep
<1>2. CASE \E W : wk' = Closed(W)
  BY <1>2, ClosedStep
<1>3. CASE ProcessStarts(a)
  <2>1. wk'[w].st = IF w = co[a].w THEN "running" ELSE wk[w].st
    BY <1>3 DEF ProcessStarts, TypeOK, Worker
  <2> QED
    BY <1>3, <2>1 DEF WorkerStep
<1>4. ASSUME NEW v \in Workers, LaunchStarts(a, v) PROVE WorkerStep(w)
  <2>1. w = v \/ WorkerStep(w)
    BY <1>4, StartedStep DEF LaunchStarts
  <2>2. wk'[v].st = "created"
    BY <1>4, StartedState DEF LaunchStarts
  <2> QED
    BY <1>4, <2>1, <2>2 DEF WorkerStep
<1> QED
  BY <1>1, <1>2, <1>3, <1>4
     DEF Continue, PollFindsNothing, PollFindsNoWorker, PollAsksState, PollReads,
         PollLosesRow, Release, KillerReturns, LaunchRefused, LaunchReady, LaunchDone,
         LaunchFails, LaunchFailed, ResumeReady, RestartLosesRow, RestartFails, Steered,
         SteerFails, CancelSettles, DeleteTakesWorker, DeleteRemoves, RecoveryReady,
         RecoverySteered, RecoverySteerFails, RecoveryGivesUp

\* A worker process is created and started in these ways only.
LEMMA StepWorkers ==
  ASSUME TypeOK, Next, NEW w \in Workers
  PROVE  WorkerStep(w)
<1>1. CASE UNCHANGED wk
  BY <1>1 DEF WorkerStep
<1>2. CASE \E W : wk' = Closed(W)
  BY <1>2, ClosedStep
<1>3. ASSUME NEW a \in Actors, Continue(a) PROVE WorkerStep(w)
  BY <1>3, ContinueWorkers
<1>4. ASSUME NEW c \in Clients, NEW t \in Tasks, NEW v \in Workers,
             ResumeRestarts(c, t, v) \/ RecoveryRestarts(c, t, v)
      PROVE  WorkerStep(w)
  <2>1. wk' = Started(v, t)
    BY <1>4 DEF ResumeRestarts, RecoveryRestarts
  <2>2. w = v \/ WorkerStep(w)
    BY <2>1, StartedStep
  <2>3. wk'[v].st = "created"
    BY <2>1, StartedState
  <2> QED
    BY <1>4, <2>2, <2>3 DEF WorkerStep
<1>5. ASSUME NEW v \in Workers, WorkerEvent(v) \/ WorkerEnds(v) PROVE WorkerStep(w)
  <2>1. wk'[w].st \in {wk[w].st, "gone"}
    BY <1>5 DEF WorkerEvent, WorkerEnds, TypeOK, Worker
  <2> QED
    BY <2>1 DEF WorkerStep
<1>6. CASE Load \/ Crash
  <2>1. wk'[w].st \in {wk[w].st, "gone", "stray"}
    BY <1>6 DEF Load, Crash, TypeOK, Worker
  <2> QED
    BY <2>1 DEF WorkerStep
<1> QED
  BY <1>1, <1>2, <1>3, <1>4, <1>5, <1>6
     DEF Next, CallTool, Create, Poll, FollowUp, ResumeInPlace, CancelNow, CancelAborts,
         Delete, ObserverCycle, Purge, Unload, StopService, StopObserver, StopWorkers,
         CloseRegistry, Recover, RecoverySkips, RecoveryImpossible, Publish

\* All of it: what a step from a state of IInv does, and why.
LEMMA StepCauses ==
  ASSUME IInv, Next
  PROVE  /\ IInv'
         /\ WorkersKept
         /\ PhaseStep
         /\ \A a \in Actors : FrameStep(a)
         /\ \A t \in Tasks : StatusStep(t) /\ RowStep(t) /\ AdapterStep(t)
         /\ \A w \in Workers : WorkerStep(w)
<1> TypeOK /\ NoDecision
  BY DEF IInv
<1> QED
  BY StepIInv, StepPhase, StepFrames, StepRows, StepAdapters, StepWorkers
-------------------------------------------------------------------------------
(***************************************************************************)
(* Who runs when, and who holds which worker.                              *)
(***************************************************************************)
\* The worker of a coroutine, whatever it waits for, is one of its task.
AllOwned == \A a \in Actors : co[a].w # None => Owned(co[a].t, co[a].w)

\* The observer only polls; launches run while the plugin is up, abandoned ones
\* while it stops, and recovery has the clients to itself.
Stages ==
  /\ \A t \in Tasks : co[t].op \in {"idle", "poll"}
  /\ \A c \in Clients :
       /\ co[c].op = "launch" => phase = "up"
       /\ co[c].op = "abandoned" => phase = "stopping"
       /\ co[c].op = "recover" => phase = "boot"
       /\ phase = "boot" => co[c].op \in {"idle", "recover"}

\* A worker that is being restarted is known to nobody else yet.
Fresh ==
  \A a \in Actors, w \in Workers : Restarting(a, w) =>
    /\ \A b \in Actors \ {a} : co[b].w # w
    /\ \A t \in Tasks : adapters[t] # w

\* Owned, once the step is taken.
OwnedThen(t, w) == w \in Workers /\ wk'[w].st # "unused" /\ wk'[w].t = t

LEMMA StaysOwned ==
  ASSUME WorkersKept, NEW t, NEW w, Owned(t, w)
  PROVE  OwnedThen(t, w)
  BY DEF WorkersKept, OwnersKept, Owned, OwnedThen

LEMMA StartedOwned ==
  ASSUME IInv, NEW w \in Workers, NEW t \in Tasks, wk[w].st = "unused", wk' = Started(w, t)
  PROVE  OwnedThen(t, w)
  BY StartedKeeps DEF IInv, Owned, OwnedThen

LEMMA StepAllOwned ==
  ASSUME IInv, AllOwned, Next
  PROVE  AllOwned'
<1> SUFFICES ASSUME NEW a \in Actors, co'[a].w # None
             PROVE  OwnedThen(co'[a].t, co'[a].w)
  BY DEF AllOwned, Owned, OwnedThen
<1>1. FrameStep(a) /\ WorkersKept /\ TypeOK /\ Owners
  BY StepCauses DEF IInv
<1>2. \A t \in Tasks : adapters[t] # None => OwnedThen(t, adapters[t])
  BY <1>1, StaysOwned DEF Owners, AdaptersOwned
<1>3. co[a].w # None => OwnedThen(co[a].t, co[a].w)
  BY <1>1, StaysOwned DEF AllOwned
<1>4. CASE co'[a] = co[a]
  BY <1>3, <1>4
<1>5. CASE Ceases(a)
  BY <1>5 DEF Ceases, Idle, Call
<1>6. CASE Goes(a)
  <2>1. co'[a].t = co[a].t
    BY <1>6 DEF Goes, Advances, Becomes
  <2>2. ASSUME NEW w \in Workers, LaunchStarts(a, w), Advances(a, "starting", w)
        PROVE  OwnedThen(co'[a].t, co'[a].w)
    <3>1. co[a].t \in Tasks /\ wk[w].st = "unused" /\ wk' = Started(w, co[a].t)
      BY <1>1, <2>2, Resumes DEF LaunchStarts
    <3> QED
      BY <2>1, <2>2, <3>1, StartedOwned DEF Advances, Becomes
  <2>3. PollAsksState(a) \/ DeleteTakesWorker(a) => co[a].t \in Tasks
    BY <1>1, Resumes DEF PollAsksState, DeleteTakesWorker, DeleteLocked
  <2> QED
    BY <1>2, <1>3, <1>6, <2>1, <2>2, <2>3 DEF Goes, Advances, Becomes
<1>7. CASE Begins(a)
  <2>1. \/ \E t \in Tasks : co'[a].t = t /\ co'[a].w = adapters[t]
        \/ \E t \in Tasks, w \in Workers :
             /\ co'[a].t = t /\ co'[a].w = w
             /\ wk[w].st = "unused" /\ wk' = Started(w, t)
    BY <1>7 DEF Begins, Becomes, ResumeRestarts, RecoveryRestarts
  <2> QED
    BY <1>2, <2>1, StartedOwned
<1>8. CASE Abandons(a)
  <2>1. co'[a].t = co[a].t /\ co'[a].w = co[a].w
    BY <1>8 DEF Abandons, Becomes
  <2> QED
    BY <1>3, <2>1
<1> QED
  BY <1>1, <1>4, <1>5, <1>6, <1>7, <1>8 DEF FrameStep

\* Calls begin while the plugin takes them, and leave its phase alone.
LEMMA BeginsPhase ==
  ASSUME Stages, NEW a \in Actors, Begins(a)
  PROVE  /\ phase' = phase
         /\ co'[a].op \in {"poll", "launch", "follow_up", "resume", "cancel", "delete",
                           "recover"}
         /\ co'[a].op = "launch" => phase = "up"
         /\ co'[a].op = "recover" => phase = "boot"
         /\ a \in Clients /\ co'[a].op # "recover" => phase # "boot"
         /\ a \in Tasks => co'[a].op = "poll"
<1>1. CASE Steered(a) /\ Becomes(a, "poll", "obs_lock", co[a].t, None, "unborn")
  <2>1. co[a].op \in {"follow_up", "resume"} /\ phase' = phase
    BY <1>1 DEF Steered, At, sys
  <2>2. co'[a].op = "poll"
    BY <1>1 DEF Becomes
  <2> QED
    BY <2>1, <2>2 DEF Stages
<1>2. CASE ObserverCycle /\ a \in Registered /\ Becomes(a, "poll", "obs_lock", a, None, "unborn")
  BY <1>2 DEF ObserverCycle, Registered, Becomes, sys
<1>3. ASSUME NEW t \in Tasks, a \in Clients,
             Create(a, t) /\ Becomes(a, "launch", "submit_lock", t, None, "queued")
      PROVE  phase' = phase /\ phase = "up" /\ co'[a].op = "launch"
  BY <1>3 DEF Create, Becomes, sys
<1>4. ASSUME NEW t \in Tasks, NEW w \in Workers,
             /\ RecoveryRestarts(a, t, w)
             /\ Becomes(a, "recover", "starting", t, w, rows[t].status)
      PROVE  phase' = phase /\ phase = "boot" /\ co'[a].op = "recover"
  BY <1>4 DEF RecoveryRestarts, Recovers, Becomes
<1>5. ASSUME NEW t \in Tasks, NEW op, Calls(a, t, op)
      PROVE  phase \in {"up", "stopping"}
  BY <1>5 DEF Calls
<1>6. a \in Clients => a \notin Tasks
  OBVIOUS
<1> QED
  BY <1>1, <1>2, <1>3, <1>4, <1>5, <1>6
     DEF Begins, Becomes, Poll, FollowUp, ResumeInPlace, ResumeRestarts, CancelAborts,
         Delete, sys

\* What happens to the calls under way when the phase changes.
LEMMA PhaseEnds ==
  ASSUME TypeOK, Stages, Next, NEW a \in Actors
  PROVE  /\ StopService => co'[a].op # "launch"
         /\ Crash => co'[a].op = "idle"
         /\ StopObserver => /\ a \in Clients => co[a].op \notin {"launch", "abandoned"}
                            /\ co'[a] = co[a] \/ co'[a].op = "idle"
         /\ Publish => (a \in Clients => co[a].op = "idle") /\ UNCHANGED co
         /\ Load => co[a].op = "idle" /\ UNCHANGED co
         /\ StopWorkers \/ CloseRegistry => UNCHANGED co
<1>1. ASSUME StopService PROVE co'[a].op # "launch"
  <2>1. CASE co[a].op = "launch" /\ a \in Clients
    <3> DEFINE left == [co[a] EXCEPT !.op = "abandoned", !.at = "killing"]
    <3>1. co'[a] = IF co[a].at \in Halfway THEN left ELSE Idle
      BY <1>1, <2>1 DEF StopService, Halfway
    <3>2. left.op = "abandoned"
      BY DEF TypeOK, Frame
    <3>3. Idle.op = "idle"
      BY DEF Idle, Call
    <3> HIDE DEF left
    <3> QED
      BY <3>1, <3>2, <3>3
  <2>2. CASE ~(co[a].op = "launch" /\ a \in Clients)
    <3>1. co'[a] = co[a]
      BY <1>1, <2>2 DEF StopService
    <3>2. co[a].op # "launch"
      BY <2>2 DEF Stages, Actors
    <3> QED
      BY <3>1, <3>2
  <2> QED
    BY <2>1, <2>2
<1>2. Idle.op = "idle"
  BY DEF Idle, Call
<1> QED
  BY <1>1, <1>2 DEF Crash, StopObserver, Publish, Load, StopWorkers, CloseRegistry

LEMMA StepStages ==
  ASSUME IInv, Stages, Next
  PROVE  Stages'
<1> TypeOK
  BY DEF IInv
<1> DEFINE OK(a) ==
      /\ a \in Tasks => co'[a].op \in {"idle", "poll"}
      /\ co'[a].op = "launch" => phase' = "up"
      /\ co'[a].op = "abandoned" => phase' = "stopping"
      /\ co'[a].op = "recover" => phase' = "boot"
      /\ a \in Clients /\ phase' = "boot" => co'[a].op \in {"idle", "recover"}
<1>1. ASSUME NEW a \in Actors PROVE OK(a)
  <2>1. FrameStep(a) /\ PhaseStep
    BY StepCauses
  <2>2. a \in Tasks \/ a \in Clients
    BY DEF Actors
  <2>3. CASE Begins(a)
    BY <2>3, BeginsPhase
  <2>4. CASE Abandons(a)
    <3>1. a \notin Tasks
      BY <2>4 DEF Abandons, Stages
    <3> QED
      BY <2>4, <3>1 DEF Abandons, Becomes, StopService
  <2>5. CASE Ceases(a)
    BY <2>5 DEF Ceases, Idle, Call
  <2>6. CASE co'[a].op = co[a].op
    <3>1. CASE phase' = phase
      BY <2>2, <2>6, <3>1 DEF Stages
    <3>2. CASE phase' # phase
      <4>1. CASE StopService
        BY <2>2, <2>6, <4>1, PhaseMoves, PhaseEnds DEF Stages
      <4>2. CASE StopObserver \/ StopWorkers \/ CloseRegistry
        BY <2>2, <2>6, <4>2, PhaseMoves, PhaseEnds DEF Stages
      <4>3. CASE Crash \/ Load \/ Publish
        BY <2>2, <2>6, <4>3, PhaseMoves, PhaseEnds DEF Stages
      <4> QED
        BY <2>1, <3>2, <4>1, <4>2, <4>3 DEF PhaseStep
    <3> QED
      BY <3>1, <3>2
  <2> QED
    BY <2>1, <2>3, <2>4, <2>5, <2>6 DEF FrameStep, Goes, Advances, Becomes
<1> QED
  BY <1>1 DEF Stages, Actors

\* Where a coroutine gets its worker from: it had it, it is registered for some
\* task, or it is a new one.
LEMMA FrameWorker ==
  ASSUME TypeOK, NEW a \in Actors, FrameStep(a)
  PROVE  \/ co'[a].w \in {None, co[a].w}
         \/ \E t \in Tasks : co'[a].w = adapters[t]
         \/ co'[a].w \in Workers /\ wk[co'[a].w].st = "unused"
<1>1. CASE co'[a] = co[a] \/ Ceases(a) \/ Abandons(a)
  BY <1>1 DEF Ceases, Idle, Call, Abandons, Becomes
<1>2. CASE Goes(a)
  <2>1. PollAsksState(a) \/ DeleteTakesWorker(a) => co[a].t \in Tasks
    BY Resumes DEF PollAsksState, DeleteTakesWorker, DeleteLocked
  <2>2. \A w \in Workers : LaunchStarts(a, w) => wk[w].st = "unused"
    BY DEF LaunchStarts
  <2> QED
    BY <1>2, <2>1, <2>2 DEF Goes, Advances, Becomes
<1>3. CASE Begins(a)
  <2>1. \A t \in Tasks, w \in Workers :
          ResumeRestarts(a, t, w) \/ RecoveryRestarts(a, t, w) => wk[w].st = "unused"
    BY DEF ResumeRestarts, RecoveryRestarts
  <2> QED
    BY <1>3, <2>1 DEF Begins, Becomes
<1> QED
  BY <1>1, <1>2, <1>3 DEF FrameStep

\* A worker nobody started is held by nobody.
LEMMA UnusedUnknown ==
  ASSUME IInv, AllOwned, NEW w \in Workers, wk[w].st = "unused"
  PROVE  /\ \A a \in Actors : co[a].w # w
         /\ \A t \in Tasks : adapters[t] # w
<1>1. w # None
  OBVIOUS
<1> QED
  BY <1>1 DEF AllOwned, IInv, Owners, AdaptersOwned, Owned

\* Who restarts a worker after a step did so before, or has just created it.
LEMMA RestartingBefore ==
  ASSUME TypeOK, NEW a \in Actors, FrameStep(a), NEW w \in Workers, Restarting(a, w)'
  PROVE  \/ Restarting(a, w)
         \/ \E t \in Tasks : ResumeRestarts(a, t, w) \/ RecoveryRestarts(a, t, w)
<1>1. CASE co'[a] = co[a]
  BY <1>1 DEF Restarting
<1>2. CASE Ceases(a) \/ Abandons(a)
  BY <1>2 DEF Ceases, Idle, Call, Abandons, Becomes, Restarting
<1>3. CASE Goes(a)
  <2>1. ProcessStarts(a) => co[a].at = "starting"
    BY DEF ProcessStarts, At
  <2>2. \A v \in Workers : LaunchStarts(a, v) => co[a].op = "launch"
    BY DEF LaunchStarts, At
  <2> QED
    BY <1>3, <2>1, <2>2 DEF Goes, Advances, Becomes, Restarting
<1>4. CASE Begins(a)
  BY <1>4 DEF Begins, Becomes, Restarting
<1> QED
  BY <1>1, <1>2, <1>3, <1>4 DEF FrameStep

LEMMA StepFresh ==
  ASSUME IInv, AllOwned, Fresh, Next
  PROVE  Fresh'
<1> TypeOK
  BY DEF IInv
<1> SUFFICES ASSUME NEW a \in Actors, NEW w \in Workers, Restarting(a, w)'
             PROVE  /\ \A b \in Actors \ {a} : co'[b].w # w
                    /\ \A t \in Tasks : adapters'[t] # w
  BY DEF Fresh
<1>1. w # None
  OBVIOUS
<1>2. CASE Restarting(a, w)
  <2>1. /\ \A b \in Actors \ {a} : co[b].w # w
        /\ \A t \in Tasks : adapters[t] # w
    BY <1>2 DEF Fresh
  <2>2. wk[w].st # "unused"
    BY <1>1, <1>2 DEF Restarting, AllOwned, Owned
  <2>3. ASSUME NEW b \in Actors \ {a} PROVE co'[b].w # w
    BY <1>1, <2>1, <2>2, StepCauses, FrameWorker
  <2>4. ASSUME NEW t \in Tasks PROVE adapters'[t] # w
    <3>1. AdapterStep(t)
      BY StepCauses
    <3>2. ~LaunchStarts(a, w) /\ \A b \in Actors : ~LaunchStarts(b, w)
      BY <2>2 DEF LaunchStarts
    <3>3. ~ResumeReady(a) /\ ~RestartLosesRow(a) /\ ~RecoveryReady(a)
      <4>1. co'[a].at \in {"starting", "handshake"}
        BY DEF Restarting
      <4> QED
        BY <4>1, GotoAdvances, ReturnCeases
           DEF ResumeReady, RestartLosesRow, RecoveryReady, Advances, Becomes, Idle, Call
    <3> QED
      BY <1>1, <2>1, <3>1, <3>2, <3>3 DEF AdapterStep
  <2> QED
    BY <2>3, <2>4
<1>3. ASSUME NEW t \in Tasks, ResumeRestarts(a, t, w) \/ RecoveryRestarts(a, t, w)
      PROVE  /\ \A b \in Actors \ {a} : co'[b].w # w
             /\ \A u \in Tasks : adapters'[u] # w
  <2>1. /\ \A b \in Actors \ {a} : co'[b] = co[b]
        /\ wk[w].st = "unused"
        /\ adapters' = adapters
    BY <1>3, CallBegins DEF ResumeRestarts, RecoveryRestarts
  <2> QED
    BY <2>1, UnusedUnknown
<1> QED
  BY <1>2, <1>3, StepCauses, RestartingBefore
-------------------------------------------------------------------------------
(***************************************************************************)
(* A launch has its adapter, its row and its place before a deletion.      *)
(***************************************************************************)
HalfwayRegistered ==
  \A a \in Actors : co[a].op = "launch" /\ co[a].at \in Halfway => adapters[co[a].t] # None

\* A launch that wrote its prompt has left queued for good.
PromptedLeft ==
  \A a \in Actors : co[a].op = "launch" /\ co[a].at = "prompting" =>
    rows[co[a].t].status # "queued"

\* A deletion is called on a row that was there, and once it has the lock no
\* launch of the task is under way.
DeletesLast ==
  \A a \in Actors : co[a].op = "delete" =>
    /\ rows[co[a].t].status # "unborn"
    /\ co[a].at = "killing" => ~Pending(co[a].t, {"launch"})

\* So the row of a launch is not removed.
LaunchedThere ==
  \A a \in Actors : co[a].op = "launch" => rows[co[a].t].status \notin Absent

LaunchPlaces == HalfwayRegistered /\ PromptedLeft /\ DeletesLast /\ LaunchedThere

LEMMA StageOf ==
  ASSUME Stages, NEW a \in Actors
  PROVE  /\ co[a].op = "launch" => phase = "up"
         /\ co[a].op = "abandoned" => phase = "stopping"
         /\ co[a].op = "recover" => phase = "boot"
         /\ phase = "boot" => co[a].op \in {"idle", "poll", "recover"}
         /\ co[a].op \notin {"idle", "poll"} => a \in Clients
  BY DEF Stages, Actors

\* A launch under way after a step is a new one, or was under way before and is
\* at the same place or has gone on.
LEMMA LaunchBefore ==
  ASSUME TypeOK, NEW a \in Actors, FrameStep(a), co'[a].op = "launch"
  PROVE  \/ \E t \in Tasks : /\ a \in Clients /\ Create(a, t)
                             /\ co'[a].t = t /\ co'[a].at = "submit_lock"
         \/ /\ co[a].op = "launch"
            /\ co'[a].t = co[a].t
            /\ \/ co'[a] = co[a]
               \/ \E w \in Workers : LaunchStarts(a, w) /\ co'[a].at = "starting" /\ co'[a].w = w
               \/ ProcessStarts(a) /\ co'[a].at = "handshake" /\ co'[a].w = co[a].w
               \/ LaunchReady(a) /\ co'[a].at = "prompting" /\ co'[a].w = co[a].w
               \/ LaunchFails(a) /\ co'[a].at = "killing" /\ co'[a].w = co[a].w
<1>1. CASE co'[a] = co[a]
  BY <1>1
<1>2. CASE Ceases(a) \/ Abandons(a)
  BY <1>2 DEF Ceases, Idle, Call, Abandons, Becomes
<1>3. CASE Goes(a)
  <2>1. co[a].op = "launch" /\ co'[a].t = co[a].t
    BY <1>3 DEF Goes, Advances, Becomes
  <2>2. /\ ~PollAsksState(a) /\ ~ResumeReady(a) /\ ~RecoveryReady(a) /\ ~PollReads(a)
        /\ ~RestartLosesRow(a) /\ ~RestartFails(a) /\ ~RecoverySteerFails(a)
        /\ ~Release(a) /\ ~DeleteTakesWorker(a)
    BY <2>1 DEF At, PollAsksState, ResumeReady, RecoveryReady, PollReads, RestartLosesRow,
                RestartFails, RecoverySteerFails, Release, DeleteTakesWorker, DeleteLocked
  <2> QED
    BY <1>3, <2>1, <2>2 DEF Goes, Advances, Becomes
<1>4. CASE Begins(a)
  BY <1>4 DEF Begins, Becomes
<1> QED
  BY <1>1, <1>2, <1>3, <1>4 DEF FrameStep

\* Nobody drops the adapter of a launch that is halfway, but that launch itself.
LEMMA HalfwayKept ==
  ASSUME IInv, Stages, Next, NEW a \in Actors, NEW t \in Tasks,
         co[a].op = "launch", co[a].at \in Halfway, co[a].t = t,
         co'[a].op = "launch", co'[a].at \in Halfway
  PROVE  ~Drops(t)
<1> TypeOK /\ Launches
  BY DEF IInv
<1>1. phase = "up" /\ ~SubmitLockFree /\ InFlight(t)
  BY StageOf DEF SubmitLockFree, HoldsSubmitLock, Halfway, InFlight, Pending, Ops
<1>2. ASSUME NEW b \in Actors, co[b].t = t
      PROVE  ~LaunchFails(b) /\ ~Release(b) /\ ~RecoverySteerFails(b) /\ ~DeleteTakesWorker(b)
  <2>1. ~LaunchFails(b)
    <3>1. ASSUME LaunchFails(b) PROVE FALSE
      <4>1. co[b].op = "launch" /\ co'[b].at = "killing"
        BY <3>1, GotoAdvances DEF LaunchFails, At, Advances, Becomes
      <4>2. b = a
        BY <1>2, <4>1 DEF Launches, LaunchesOnce
      <4> QED
        BY <4>1, <4>2 DEF Halfway
    <3> QED
      BY <3>1
  <2>2. ~RecoverySteerFails(b)
    BY <1>1, StageOf DEF RecoverySteerFails, At
  <2> QED
    BY <1>1, <2>1, <2>2 DEF Release, DeleteTakesWorker, DeleteLocked
<1>3. ~Purge(t)
  BY <1>1 DEF Purge
<1>4. ~StopService /\ ~Crash
  BY PhaseEnds
<1>5. ~StopWorkers /\ ~Load
  BY <1>1, PhaseMoves
<1> QED
  BY <1>2, <1>3, <1>4, <1>5 DEF Drops

LEMMA StepHalfway ==
  ASSUME IInv, Stages, HalfwayRegistered, Next
  PROVE  HalfwayRegistered'
<1> TypeOK
  BY DEF IInv
<1> SUFFICES ASSUME NEW a \in Actors, co'[a].op = "launch", co'[a].at \in Halfway
             PROVE  adapters'[co'[a].t] # None
  BY DEF HalfwayRegistered
<1>1. FrameStep(a)
  BY StepCauses
<1>2. /\ co[a].op = "launch" /\ co'[a].t = co[a].t /\ co[a].t \in Tasks
      /\ co[a].at \in Halfway \/ \E w \in Workers : LaunchStarts(a, w)
  <2>1. ProcessStarts(a) \/ LaunchReady(a) => co[a].at \in Halfway
    BY DEF ProcessStarts, LaunchReady, At, Halfway
  <2>2. co'[a].at \notin {"submit_lock", "killing"}
    BY DEF Halfway
  <2> QED
    BY <1>1, <2>1, <2>2, LaunchBefore, FrameTypes
<1>3. ASSUME NEW w \in Workers, LaunchStarts(a, w) PROVE adapters'[co[a].t] # None
  BY <1>2, <1>3 DEF LaunchStarts, TypeOK
<1>4. CASE co[a].at \in Halfway
  <2>1. adapters[co[a].t] # None /\ ~Drops(co[a].t) /\ AdapterStep(co[a].t)
    BY <1>2, <1>4, HalfwayKept, StepCauses DEF HalfwayRegistered
  <2>2. \A b \in Actors : ResumeReady(b) \/ RestartLosesRow(b) \/ RecoveryReady(b) => co[b].w # None
    BY Resumes DEF ResumeReady, RestartLosesRow, RecoveryReady, OnWorker
  <2> QED
    BY <1>2, <2>1, <2>2 DEF AdapterStep
<1> QED
  BY <1>2, <1>3, <1>4

LEMMA StepPrompted ==
  ASSUME IInv, PromptedLeft, Next
  PROVE  PromptedLeft'
<1> TypeOK /\ Launches
  BY DEF IInv
<1> SUFFICES ASSUME NEW a \in Actors, co'[a].op = "launch", co'[a].at = "prompting"
             PROVE  rows'[co'[a].t].status # "queued"
  BY DEF PromptedLeft
<1>1. PICK t \in Tasks :
        /\ co[a].op = "launch" /\ co[a].t = t /\ co'[a].t = t
        /\ co'[a] = co[a] \/ LaunchReady(a)
  BY StepCauses, LaunchBefore, FrameTypes
<1>2. CASE LaunchReady(a)
  <2>1. PICK w \in Workers : w = co[a].w
    BY <1>2, Resumes DEF LaunchReady, OnWorker
  <2>2. rows' = Moved(WithProcess(rows, t, w), t, "running")
    BY <1>1, <1>2, <2>1 DEF LaunchReady
  <2>3. rows'[t].status = "running"
    BY <2>2, RecordedStatus
  <2> QED
    BY <1>1, <2>3
<1>3. CASE co'[a] = co[a]
  <2>1. rows[t].status \notin {"queued", "unborn"}
    BY <1>1, <1>3 DEF PromptedLeft, Launches, LaunchesFirst
  <2>2. StatusStep(t)
    BY StepCauses
  <2> QED
    BY <1>1, <2>1, <2>2 DEF StatusStep
<1> QED
  BY <1>1, <1>2, <1>3

\* Who deletes a task after a step did so before, or has just called for it.
LEMMA DeleteBefore ==
  ASSUME TypeOK, NEW a \in Actors, FrameStep(a), co'[a].op = "delete"
  PROVE  \/ \E t \in Tasks : /\ a \in Clients /\ Delete(a, t)
                             /\ co'[a].t = t /\ co'[a].at = "submit_lock"
         \/ /\ co[a].op = "delete"
            /\ co'[a].t = co[a].t
            /\ co'[a] = co[a] \/ DeleteTakesWorker(a)
<1>1. CASE Ceases(a) \/ Abandons(a)
  BY <1>1 DEF Ceases, Idle, Call, Abandons, Becomes
<1>2. CASE Goes(a)
  <2>1. co[a].op = "delete" /\ co'[a].t = co[a].t
    BY <1>2 DEF Goes, Advances, Becomes
  <2>2. /\ \A w \in Workers : ~LaunchStarts(a, w)
        /\ ~ProcessStarts(a) /\ ~LaunchReady(a) /\ ~PollAsksState(a) /\ ~ResumeReady(a)
        /\ ~RecoveryReady(a) /\ ~PollReads(a) /\ ~LaunchFails(a) /\ ~RestartLosesRow(a)
        /\ ~RestartFails(a) /\ ~RecoverySteerFails(a) /\ ~Release(a)
    BY <2>1 DEF At, LaunchStarts, ProcessStarts, LaunchReady, PollAsksState, ResumeReady,
                RecoveryReady, PollReads, LaunchFails, RestartLosesRow, RestartFails,
                RecoverySteerFails, Release
  <2> QED
    BY <1>2, <2>1, <2>2 DEF Goes
<1>3. CASE Begins(a)
  BY <1>3 DEF Begins, Becomes
<1> QED
  BY <1>1, <1>2, <1>3 DEF FrameStep

LEMMA StepDeletes ==
  ASSUME IInv, DeletesLast, Next
  PROVE  DeletesLast'
<1> TypeOK
  BY DEF IInv
<1> SUFFICES ASSUME NEW a \in Actors, co'[a].op = "delete"
             PROVE  /\ rows'[co'[a].t].status # "unborn"
                    /\ co'[a].at = "killing" =>
                         \A b \in Actors : co'[b].op = "launch" => co'[b].t # co'[a].t
  BY DEF DeletesLast, Pending
<1>1. FrameStep(a)
  BY StepCauses
<1>2. ASSUME NEW t \in Tasks, Delete(a, t) PROVE rows[t].status # "unborn"
  BY <1>2 DEF Delete, Calls, Present, Statuses
<1>3. PICK t \in Tasks :
        /\ co'[a].t = t
        /\ rows[t].status # "unborn"
        /\ co'[a].at = "killing" => /\ ~Pending(t, {"launch"})
                                    /\ co[a].op = "delete"
  <2>1. DeleteTakesWorker(a) => ~Pending(co[a].t, {"launch"})
    BY DEF DeleteTakesWorker, DeleteLocked
  <2> QED
    BY <1>1, <1>2, <2>1, DeleteBefore, FrameTypes DEF DeletesLast
<1>4. rows'[t].status # "unborn"
  BY <1>3, StepCauses DEF StatusStep
<1>5. ASSUME co'[a].at = "killing", NEW b \in Actors, co'[b].op = "launch", co'[b].t = t
      PROVE  FALSE
  <2>1. FrameStep(b)
    BY StepCauses
  <2>2. \A u \in Tasks : Create(b, u) => rows[u].status = "unborn"
    BY DEF Create
  <2>3. ~(co[b].op = "launch" /\ co[b].t = t)
    BY <1>3, <1>5 DEF Pending
  <2> QED
    BY <1>3, <1>5, <2>1, <2>2, <2>3, LaunchBefore
<1> QED
  BY <1>3, <1>4, <1>5

LEMMA StepLaunchedThere ==
  ASSUME IInv, Stages, DeletesLast, LaunchedThere, Next
  PROVE  LaunchedThere'
<1> TypeOK
  BY DEF IInv
<1> SUFFICES ASSUME NEW a \in Actors, co'[a].op = "launch"
             PROVE  rows'[co'[a].t].status \notin Absent
  BY DEF LaunchedThere
<1>1. FrameStep(a)
  BY StepCauses
<1>2. ASSUME NEW t \in Tasks, Create(a, t) PROVE rows'[t].status \notin Absent
  BY <1>2 DEF Create, NewRow, TypeOK, Absent
<1>3. CASE co[a].op = "launch" /\ co'[a].t = co[a].t
  <2>1. PICK t \in Tasks : t = co[a].t
    BY <1>3, FrameTypes
  <2>2. rows[t].status \notin Absent /\ Pending(t, {"launch"}) /\ InFlight(t)
    BY <1>3, <2>1 DEF LaunchedThere, Pending, InFlight, Ops
  <2>3. ~Removes(t)
    <3>1. ASSUME NEW b \in Actors, DeleteRemoves(b), co[b].t = t PROVE FALSE
      <4>1. co[b].op = "delete" /\ (co[b].at = "killing" \/ DeleteLocked(b))
        BY <3>1 DEF DeleteRemoves, DeleteLocked, At
      <4> QED
        BY <2>2, <3>1, <4>1 DEF DeleteLocked, DeletesLast
    <3> QED
      BY <2>2, <3>1 DEF Removes, Purge
  <2>4. StatusStep(t) /\ RowStep(t)
    BY StepCauses
  <2> QED
    BY <1>3, <2>1, <2>2, <2>3, <2>4 DEF StatusStep, RowStep, Absent
<1> QED
  BY <1>1, <1>2, <1>3, LaunchBefore
-------------------------------------------------------------------------------
(***************************************************************************)
(* Recovery's agenda, and the directories of a task.                       *)
(***************************************************************************)
\* The row of t is touched by a call on t, or by the plugin as a whole.
Touches(t) ==
  \/ \E a \in Actors : co[a].t = t /\ Continue(a)
  \/ \E c \in Clients : CallTool(c, t)
  \/ Purge(t) \/ Recover(t) \/ StopObserver \/ CloseRegistry

LEMMA ContinueTouches ==
  ASSUME TypeOK, NEW a \in Actors, Continue(a), NEW t \in Tasks, t # co[a].t
  PROVE  rows'[t] = rows[t]
<1>1. CASE UNCHANGED rows
  BY <1>1
<1>2. CASE LaunchRefused(a) \/ LaunchFailed(a)
  BY <1>2 DEF LaunchRefused, LaunchFailed, FailLaunch, Moved, TypeOK
<1>3. CASE PollReads(a) \/ PollFindsNoWorker(a) \/ CancelSettles(a)
  BY <1>3 DEF PollReads, PollFindsNoWorker, CancelSettles, Moved, WithCursor, TypeOK
<1>4. CASE LaunchReady(a) \/ LaunchFails(a) \/ ResumeReady(a) \/ RecoveryReady(a)
  BY <1>4 DEF LaunchReady, LaunchFails, ResumeReady, RecoveryReady, Moved, WithProcess, TypeOK
<1>5. CASE DeleteRemoves(a)
  BY <1>5 DEF DeleteRemoves, Removed, TypeOK
<1>6. CASE RecoveryGivesUp(a)
  BY <1>6 DEF RecoveryGivesUp, RecoveryOrphans, MarkOrphaned
<1> QED
  BY <1>1, <1>2, <1>3, <1>4, <1>5, <1>6
     DEF Continue, PollFindsNothing, PollAsksState, PollLosesRow, Release, KillerReturns,
         LaunchStarts, ProcessStarts, LaunchDone, RestartLosesRow, RestartFails, Steered,
         SteerFails, DeleteTakesWorker, RecoverySteered, RecoverySteerFails

LEMMA StepTouches ==
  ASSUME TypeOK, Next, NEW t \in Tasks
  PROVE  rows'[t] = rows[t] \/ Touches(t)
<1>1. ASSUME NEW a \in Actors, Continue(a) PROVE rows'[t] = rows[t] \/ Touches(t)
  BY <1>1, ContinueTouches DEF Touches
<1>2. ASSUME NEW c \in Clients, NEW u \in Tasks, CallTool(c, u)
      PROVE  rows'[t] = rows[t] \/ Touches(t)
  <2>1. u # t => rows'[t] = rows[t]
    BY <1>2 DEF CallTool, Create, Poll, FollowUp, ResumeInPlace, ResumeRestarts, CancelNow,
                CancelAborts, Delete, Moved, TypeOK
  <2> QED
    BY <1>2, <2>1 DEF Touches
<1>3. ASSUME NEW u \in Tasks, Purge(u) \/ Recover(u) PROVE rows'[t] = rows[t] \/ Touches(t)
  <2>1. u # t => rows'[t] = rows[t]
    BY <1>3 DEF Purge, Recover, RecoverySkips, RecoveryImpossible, RecoveryRestarts,
                RecoveryOrphans, MarkOrphaned, Removed, TypeOK
  <2> QED
    BY <1>3, <2>1 DEF Touches
<1> QED
  BY <1>1, <1>2, <1>3
     DEF Next, Touches, ObserverCycle, Unload, StopService, StopWorkers, Crash, Load, Publish,
         WorkerEvent, WorkerEnds

\* While recovery goes on, the tasks still on its agenda are running and nobody
\* else is at work on them.
AgendaFresh ==
  phase = "boot" => \A t \in agenda :
    rows[t].status = "running" /\ adapters[t] = None /\ ~InFlight(t)

LEMMA Continues ==
  ASSUME NEW a \in Actors, Continue(a)
  PROVE  co[a].op # "idle"
  BY DEF Continue, At, PollFindsNothing, PollFindsNoWorker, PollAsksState, PollReads,
         PollLosesRow, Release, KillerReturns, LaunchStarts, LaunchRefused, ProcessStarts,
         LaunchReady, LaunchDone, LaunchFails, LaunchFailed, ResumeReady, RestartLosesRow,
         RestartFails, Steered, SteerFails, CancelSettles, DeleteTakesWorker, DeleteRemoves,
         DeleteLocked, RecoveryReady, RecoverySteered, RecoverySteerFails, RecoveryGivesUp

LEMMA InFlightBy ==
  ASSUME TypeOK, NEW t
  PROVE  InFlight(t) <=> \E a \in Actors : co[a].op # "idle" /\ co[a].t = t
<1>1. \A a \in Actors : co[a].op \in Ops
  BY DEF TypeOK, Frame
<1> QED
  BY <1>1 DEF InFlight, Pending

\* Who works on t after a step did so before, or begins a call on it.
LEMMA WorkBefore ==
  ASSUME NEW a \in Actors, FrameStep(a), NEW t, co'[a].op # "idle", co'[a].t = t
  PROVE  (co[a].op # "idle" /\ co[a].t = t) \/ Begins(a)
<1>1. CASE Ceases(a)
  BY <1>1 DEF Ceases, Idle, Call
<1>2. CASE Goes(a) \/ Abandons(a)
  BY <1>2 DEF Goes, Advances, Abandons, Becomes
<1> QED
  BY <1>1, <1>2 DEF FrameStep

LEMMA StepAgenda ==
  ASSUME IInv, Stages, AgendaFresh, Next
  PROVE  AgendaFresh'
<1> TypeOK /\ TypeOK' /\ NoDecision
  BY StepCauses DEF IInv
<1> SUFFICES ASSUME phase' = "boot", NEW t \in Tasks, t \in agenda'
             PROVE  rows'[t].status = "running" /\ adapters'[t] = None /\ ~InFlight(t)'
  BY DEF AgendaFresh, TypeOK
<1>1. CASE Load
  <2>1. rows[t].status = "running" /\ rows' = rows /\ adapters'[t] = None /\ co' = co
    BY <1>1 DEF Load, Active, NoDecision
  <2>2. \A a \in Actors : co[a].op = "idle"
    BY <1>1 DEF Load, Idle, Call
  <2> QED
    BY <2>1, <2>2 DEF InFlight, Pending
<1>2. CASE ~Load
  <2>1. phase = "boot" /\ t \in agenda /\ ~Recover(t)
    <3>1. phase' = phase /\ (agenda' = agenda \/ \E u \in Tasks : Recover(u))
      BY <1>2, StepPhase, PhaseMoves DEF PhaseStep
    <3>2. \A u \in Tasks : Recover(u) => agenda' = agenda \ {u}
      BY DEF Recover, RecoverySkips, RecoveryImpossible, RecoveryRestarts, Recovers
    <3> QED
      BY <3>1, <3>2
  <2>2. rows[t].status = "running" /\ adapters[t] = None /\ ~InFlight(t)
    BY <2>1 DEF AgendaFresh
  <2>3. \A a \in Actors : co[a].op # "idle" => co[a].t # t
    BY <2>2, InFlightBy
  <2>4. rows'[t] = rows[t]
    <3>1. ~Purge(t) /\ ~StopObserver /\ ~CloseRegistry
      BY <2>1, <2>2, PhaseMoves DEF Purge, Terminal
    <3>2. \A c \in Clients : ~CallTool(c, t)
      BY <2>1 DEF CallTool, Create, Poll, FollowUp, ResumeInPlace, ResumeRestarts, CancelNow,
                  CancelAborts, Delete, Calls
    <3> QED
      BY <2>1, <2>3, <3>1, <3>2, StepTouches, Continues DEF Touches
  <2>5. adapters'[t] = None
    <3>1. \A a \in Actors, w \in Workers : LaunchStarts(a, w) => co[a].op # "idle"
      BY DEF LaunchStarts, At
    <3>2. \A a \in Actors : ResumeReady(a) \/ RestartLosesRow(a) \/ RecoveryReady(a)
            => co[a].op # "idle"
      BY DEF ResumeReady, RestartLosesRow, RecoveryReady, At
    <3> QED
      BY <2>2, <2>3, <3>1, <3>2, StepCauses DEF AdapterStep
  <2>6. ASSUME NEW a \in Actors, co'[a].op # "idle", co'[a].t = t PROVE FALSE
    <3>1. Begins(a)
      BY <2>3, <2>6, StepCauses, WorkBefore
    <3>2. CASE Steered(a) /\ co[a].t = t
      BY <2>3, <3>2 DEF Steered, At
    <3>3. CASE a \in Registered /\ a = t
      BY <2>2, <3>3 DEF Registered
    <3>4. CASE a \in Clients /\ co'[a].op = "recover" /\ \E w \in Workers : RecoveryRestarts(a, t, w)
      BY <2>1, <3>4 DEF Recover
    <3>5. co'[a].op = "recover" \/ a \notin Clients
      BY <2>1, <3>1, BeginsPhase
    <3> QED
      BY <2>6, <3>1, <3>2, <3>3, <3>4, <3>5 DEF Begins, Becomes, Registered
  <2> QED
    BY <2>2, <2>4, <2>5, <2>6 DEF InFlight, Pending
<1> QED
  BY <1>1, <1>2

\* A task without a row owns no directory.
NoFiles == \A t \in Tasks : rows[t].status \in Absent => t \notin files

\* Directories are made by those who start, or try to start, a worker.
Equips(t) ==
  \/ \E a \in Actors : /\ co[a].t = t
                       /\ LaunchRefused(a) \/ \E w \in Workers : LaunchStarts(a, w)
  \/ \E c \in Clients, w \in Workers : ResumeRestarts(c, t, w) \/ RecoveryRestarts(c, t, w)

LEMMA StepFiles ==
  ASSUME Next, NEW t \in Tasks, t \in files'
  PROVE  t \in files \/ Equips(t)
<1>1. CASE files' \subseteq files
  BY <1>1
<1>2. ASSUME NEW a \in Actors, LaunchRefused(a) \/ \E w \in Workers : LaunchStarts(a, w)
      PROVE  t \in files \/ Equips(t)
  <2>1. files' \subseteq files \cup {co[a].t}
    BY <1>2 DEF LaunchRefused, LaunchStarts
  <2> QED
    BY <1>2, <2>1 DEF Equips
<1>3. ASSUME NEW c \in Clients, NEW u \in Tasks, NEW w \in Workers,
             ResumeRestarts(c, u, w) \/ RecoveryRestarts(c, u, w)
      PROVE  t \in files \/ Equips(t)
  <2>1. files' = files \cup {u}
    BY <1>3 DEF ResumeRestarts, RecoveryRestarts
  <2> QED
    BY <1>3, <2>1 DEF Equips
<1>4. ASSUME NEW a \in Actors, Continue(a) PROVE t \in files \/ Equips(t)
  BY <1>1, <1>2, <1>4
     DEF Continue, PollFindsNothing, PollFindsNoWorker, PollAsksState, PollReads,
         PollLosesRow, Release, KillerReturns, ProcessStarts, LaunchReady, LaunchDone,
         LaunchFails, LaunchFailed, ResumeReady, RestartLosesRow, RestartFails, Steered,
         SteerFails, CancelSettles, DeleteTakesWorker, DeleteRemoves, RecoveryReady,
         RecoverySteered, RecoverySteerFails, RecoveryGivesUp
<1> QED
  BY <1>1, <1>3, <1>4
     DEF Next, CallTool, Create, Poll, FollowUp, ResumeInPlace, CancelNow, CancelAborts,
         Delete, ObserverCycle, Purge, Unload, StopService, StopObserver, StopWorkers,
         CloseRegistry, Crash, Load, Recover, RecoverySkips, RecoveryImpossible, Publish,
         WorkerEvent, WorkerEnds

LEMMA StepNoFiles ==
  ASSUME IInv, Stages, LaunchedThere, AgendaFresh, NoFiles, Next
  PROVE  NoFiles'
<1> TypeOK
  BY DEF IInv
<1> SUFFICES ASSUME NEW t \in Tasks, rows'[t].status \in Absent, t \in files' PROVE FALSE
  BY DEF NoFiles
<1>1. StatusStep(t) /\ RowStep(t)
  BY StepCauses
<1>2. CASE rows[t].status \in Absent
  <2>1. Equips(t)
    BY <1>2, StepFiles DEF NoFiles
  <2>2. \A a \in Actors : LaunchRefused(a) \/ (\E w \in Workers : LaunchStarts(a, w))
          => co[a].op = "launch"
    BY DEF LaunchRefused, LaunchStarts, At
  <2>3. \A c \in Clients, w \in Workers : ~ResumeRestarts(c, t, w)
    BY <1>2 DEF ResumeRestarts, Calls, Present, Statuses, Absent
  <2>4. \A c \in Clients, w \in Workers : ~RecoveryRestarts(c, t, w)
    BY <1>2 DEF RecoveryRestarts, Recovers, AgendaFresh, Absent
  <2> QED
    BY <1>2, <2>1, <2>2, <2>3, <2>4 DEF Equips, LaunchedThere
<1>3. CASE rows[t].status \notin Absent
  <2>1. Removes(t)
    BY <1>1, <1>3 DEF StatusStep, RowStep, Absent
  <2>2. ASSUME NEW a \in Actors, co[a].t = t, DeleteRemoves(a) PROVE FALSE
    <3>1. ~Present(t) => rows' = rows
      BY <2>2 DEF DeleteRemoves
    <3>2. Present(t) => files' = files \ {t}
      BY <2>2 DEF DeleteRemoves
    <3> QED
      BY <1>3, <3>1, <3>2
  <2>3. ~Purge(t)
    BY DEF Purge
  <2> QED
    BY <2>1, <2>2, <2>3 DEF Removes
<1> QED
  BY <1>2, <1>3
-------------------------------------------------------------------------------
(***************************************************************************)
(* Who drops the worker of a task has settled it, or will.                 *)
(***************************************************************************)
\* A cancel that found its task finished leaves the row to its end.
CancelSeen ==
  \A a \in Actors : co[a].op = "cancel" /\ co[a].seen \in Terminal =>
    rows[co[a].t].status \in Terminal \cup {"deleted"}

\* A poll about to release the registered worker has finished the task, or has
\* seen that worker end.
ReleasesSettled ==
  \A a \in Actors : LET t == co[a].t IN
    co[a].op = "poll" /\ co[a].at = "releasing" /\ co[a].w # None /\ adapters[t] = co[a].w =>
      \/ rows[t].status \in Terminal \cup {"deleted"}
      \/ rows[t].status = "orphaned" /\ ~Running(co[a].w)

LEMMA StepCancelSeen ==
  ASSUME IInv, CancelSeen, Next
  PROVE  CancelSeen'
<1> TypeOK
  BY DEF IInv
<1> SUFFICES ASSUME NEW a \in Actors, co'[a].op = "cancel", co'[a].seen \in Terminal
             PROVE  rows'[co'[a].t].status \in Terminal \cup {"deleted"}
  BY DEF CancelSeen
<1>1. FrameStep(a)
  BY StepCauses
<1>2. PICK t \in Tasks : co'[a].t = t /\ rows[t].status \in Terminal \cup {"deleted"}
  <2>1. CASE co[a].op = "cancel" /\ co'[a].t = co[a].t /\ co'[a].seen = co[a].seen
    BY <2>1, FrameTypes DEF CancelSeen
  <2>2. CASE Begins(a)
    BY <2>2 DEF Begins, Becomes
  <2>3. ~Ceases(a) /\ ~Abandons(a)
    BY DEF Ceases, Idle, Call, Abandons, Becomes
  <2> QED
    BY <1>1, <2>1, <2>2, <2>3 DEF FrameStep, Goes, Advances, Becomes
<1>3. StatusStep(t)
  BY StepCauses
<1> QED
  BY <1>2, <1>3 DEF StatusStep, Terminal

\* A poll that is to release a worker after a step was to before, or has just
\* read the end of the task or of the worker.
LEMMA ReleaseBefore ==
  ASSUME TypeOK, NEW a \in Actors, FrameStep(a), co'[a].op = "poll", co'[a].at = "releasing"
  PROVE  co'[a] = co[a] \/ (PollReads(a) /\ co'[a].t = co[a].t /\ co'[a].w = co[a].w)
<1>1. ~Ceases(a) /\ ~Abandons(a)
  BY DEF Ceases, Idle, Call, Abandons, Becomes
<1>2. ~Begins(a)
  BY DEF Begins, Becomes
<1> QED
  BY <1>1, <1>2 DEF FrameStep, Goes, Advances, Becomes

LEMMA PollReadsSettles ==
  ASSUME IInv, NEW a \in Actors, PollReads(a), co'[a].at = "releasing"
  PROVE  \/ rows'[co[a].t].status \in Terminal
         \/ rows'[co[a].t].status = "orphaned" /\ ~Running(co[a].w)
<1>1. PICK t \in Tasks, w \in Workers : t = co[a].t /\ w = co[a].w
  BY Resumes DEF PollReads, OnWorker, IInv
<1>2. Verdict(t, w) # rows[t].status
  BY <1>1, ReturnCeases DEF PollReads, Idle, Call, IInv
<1>3. rows'[t].status = Verdict(t, w)
  <2>1. rows' = Moved(WithCursor(rows, t, wk[w].sent), t, Verdict(t, w))
    BY <1>1 DEF PollReads
  <2>2. WithCursor(rows, t, wk[w].sent) \in [Tasks -> Row]
    BY <1>1, WithCursorType DEF IInv, TypeOK, Worker
  <2> HIDE DEF Verdict
  <2> QED
    BY <2>1, <2>2, MovedStatus
<1>4. Verdict(t, w) = "completed" \/ (Verdict(t, w) = "orphaned" /\ ~Running(w))
  BY <1>2 DEF Verdict
<1> QED
  BY <1>1, <1>3, <1>4 DEF Terminal

\* A step that registers a worker which some coroutine held before registers the
\* one its own coroutine was restarting.
LEMMA RegistersOwn ==
  ASSUME IInv, AllOwned, Next, NEW t \in Tasks, NEW w \in Workers,
         wk[w].st # "unused", adapters'[t] = w
  PROVE  adapters[t] = w \/ \E b \in Actors : Restarting(b, w) /\ co[b].t = t
<1>1. \A b \in Actors : ~LaunchStarts(b, w)
  BY DEF LaunchStarts
<1>2. \A b \in Actors : ResumeReady(b) \/ RestartLosesRow(b) \/ RecoveryReady(b)
        => Restarting(b, co[b].w)
  BY DEF ResumeReady, RestartLosesRow, RecoveryReady, At, Restarting
<1> QED
  BY <1>1, <1>2, StepCauses DEF AdapterStep

\* A worker held by a coroutine at rest does not start any more, but for a launch.
LEMMA StartsByLaunch ==
  ASSUME TypeOK, Fresh, NEW a \in Actors, NEW w \in Workers, co[a].w = w,
         co[a].at \notin {"starting", "handshake"},
         NEW b \in Actors, ProcessStarts(b), co[b].w = w
  PROVE  co[b].op = "launch" /\ co[b].at = "starting"
<1>1. co[b].op \in {"launch", "resume", "recover"} /\ co[b].at = "starting"
  BY DEF ProcessStarts, At
<1>2. CASE co[b].op # "launch"
  <2>1. Restarting(b, w) /\ b # a
    BY <1>1, <1>2 DEF Restarting
  <2> QED
    BY <2>1 DEF Fresh
<1> QED
  BY <1>1, <1>2

\* Running, once the step is taken.
RunningThen(w) == w \in Workers /\ wk'[w].st = "running"

LEMMA StepReleases ==
  ASSUME IInv, AllOwned, Fresh, ReleasesSettled, Next
  PROVE  ReleasesSettled'
<1> TypeOK /\ Launches /\ Owners
  BY DEF IInv
<1> SUFFICES ASSUME NEW a \in Actors, NEW t, NEW w,
                    co'[a].op = "poll", co'[a].at = "releasing",
                    co'[a].t = t, co'[a].w = w, w # None, adapters'[t] = w
             PROVE  \/ rows'[t].status \in Terminal \cup {"deleted"}
                    \/ rows'[t].status = "orphaned" /\ ~RunningThen(w)
  BY DEF ReleasesSettled, Running, RunningThen
<1>1. FrameStep(a)
  BY StepCauses
<1>2. CASE PollReads(a) /\ co'[a].t = co[a].t /\ co'[a].w = co[a].w
  <2>1. ~Running(w) => ~RunningThen(w)
    BY <1>2 DEF PollReads, Running, RunningThen
  <2> QED
    BY <1>2, <2>1, PollReadsSettles
<1>3. CASE co'[a] = co[a]
  <2>1. co[a].t = t /\ co[a].w = w /\ t \in Tasks /\ w \in Workers
    BY <1>3, FrameTypes
  <2>2. wk[w].st # "unused" /\ wk[w].t = t
    BY <2>1 DEF AllOwned, Owned
  <2>3. \A b \in Actors : ~Restarting(b, w)
    BY <1>3, <2>1 DEF Fresh, Restarting
  <2>4. adapters[t] = w
    BY <2>1, <2>2, <2>3, RegistersOwn
  <2>5. \/ rows[t].status \in Terminal \cup {"deleted"}
        \/ rows[t].status = "orphaned" /\ ~Running(w)
    BY <1>3, <2>1, <2>4 DEF ReleasesSettled
  <2>6. StatusStep(t) /\ RowStep(t) /\ WorkerStep(w)
    BY <2>1, StepCauses
  <2>7. CASE rows[t].status \in Terminal \cup {"deleted"}
    BY <2>6, <2>7 DEF StatusStep, Terminal
  <2>8. CASE rows[t].status = "orphaned" /\ ~Running(w)
    <3>1. ASSUME NEW b \in Actors, co[b].op = "launch", co[b].at \in Unprompted, co[b].t = t
          PROVE  FALSE
      BY <2>8, <3>1 DEF Launches, LaunchesFirst
    <3>2. ~Runs(t)
      <4>1. ASSUME NEW b \in Actors, co[b].t = t, LaunchReady(b) PROVE FALSE
        BY <3>1, <4>1 DEF LaunchReady, At, Unprompted
      <4>2. ASSUME NEW b \in Actors, co[b].t = t, ResumeReady(b) PROVE FALSE
        <5>1. adapters'[t] = co[b].w
          BY <2>1, <4>2 DEF ResumeReady, TypeOK
        <5> QED
          BY <2>3, <4>2, <5>1 DEF ResumeReady, At, Restarting
      <4>3. ASSUME NEW c \in Clients, ResumeInPlace(c, t) PROVE FALSE
        BY <2>4, <2>8, <4>3 DEF ResumeInPlace
      <4> QED
        BY <4>1, <4>2, <4>3 DEF Runs
    <3>3. ~RunningThen(w)
      <4>1. ASSUME NEW b \in Actors, ProcessStarts(b), co[b].w = w PROVE FALSE
        <5>1. co[b].op = "launch" /\ co[b].at = "starting"
          BY <1>3, <2>1, <4>1, StartsByLaunch
        <5>2. co[b].t = t
          BY <2>1, <2>2, <4>1 DEF AllOwned, Owned
        <5> QED
          BY <3>1, <5>1, <5>2 DEF Unprompted
      <4> QED
        BY <2>6, <2>8, <4>1 DEF WorkerStep, Running, RunningThen
    <3> QED
      BY <2>6, <2>8, <3>2, <3>3 DEF StatusStep, RowStep, Terminal
  <2> QED
    BY <2>5, <2>7, <2>8
<1> QED
  BY <1>1, <1>2, <1>3, ReleaseBefore
-------------------------------------------------------------------------------
(***************************************************************************)
(* A running task is watched: by its registered worker, by a call that     *)
(* will settle it, or by the recovery that has it on its agenda.           *)
(***************************************************************************)
\* A coroutine with this frame settles task t or gives it a worker.
Attends(f, t) ==
  /\ f.t = t
  /\ \/ f.op \in {"cancel", "delete"}
     \/ f.op = "launch" /\ f.at = "killing"
     \/ f.op = "recover" /\ f.at # "steering"

Attended(t) ==
  \/ adapters[t] # None
  \/ \E a \in Actors : Attends(co[a], t)
  \/ phase = "boot" /\ t \in agenda

\* Attended, once the step is taken.
AttendedThen(t) ==
  \/ adapters'[t] # None
  \/ \E a \in Actors : Attends(co'[a], t)
  \/ phase' = "boot" /\ t \in agenda'

Watched ==
  \A t \in Tasks : phase \in {"boot", "up"} /\ rows[t].status = "running" => Attended(t)

\* A call that is to settle a task and returns has settled it.
LEMMA ReturnsSettle ==
  ASSUME IInv, CancelSeen, NEW a \in Actors, NEW t \in Tasks, Continue(a), co'[a] = Idle,
         Attends(co[a], t), phase # "down", rows[t].status = "running"
  PROVE  rows'[t].status # "running"
<1> TypeOK /\ NoDecision
  BY DEF IInv
<1> co[a].t = t /\ Present(t)
  BY DEF Attends, Present, Statuses
<1>1. co'[a].op = "idle"
  BY DEF Idle, Call
<1>2. CASE co[a].op = "launch" /\ co[a].at = "killing"
  <2>1. LaunchFailed(a)
    BY <1>2 DEF Continue, At, PollFindsNothing, PollFindsNoWorker, PollAsksState, PollReads,
         PollLosesRow, Release, KillerReturns, LaunchStarts, LaunchRefused, ProcessStarts,
         LaunchReady, LaunchDone, LaunchFails, ResumeReady, RestartLosesRow,
         RestartFails, Steered, SteerFails, CancelSettles, DeleteTakesWorker, DeleteRemoves,
         DeleteLocked, RecoveryReady, RecoverySteered, RecoverySteerFails, RecoveryGivesUp
  <2>2. rows' = Moved(rows, t, "failed")
    BY <2>1 DEF LaunchFailed, FailLaunch
  <2> QED
    BY <2>2, MovedStatus DEF TypeOK
<1>3. CASE co[a].op = "cancel"
  <2>1. ~Release(a)
    BY <1>1, <1>3, GotoAdvances, GotoOnAdvances DEF Release, Advances, Becomes
  <2>2. CancelSettles(a)
    BY <1>3, <2>1 DEF Continue, At, PollFindsNothing, PollFindsNoWorker, PollAsksState,
         PollReads, PollLosesRow, KillerReturns, LaunchStarts, LaunchRefused, ProcessStarts,
         LaunchReady, LaunchDone, LaunchFails, LaunchFailed, ResumeReady, RestartLosesRow,
         RestartFails, Steered, SteerFails, DeleteTakesWorker, DeleteRemoves,
         DeleteLocked, RecoveryReady, RecoverySteered, RecoverySteerFails, RecoveryGivesUp
  <2>3. co[a].seen \notin Terminal
    BY <1>3 DEF CancelSeen, Terminal
  <2>4. CanMove(rows[t], "cancelled")
    BY DEF CanMove, Transitions
  <2>5. rows' = Moved(rows, t, "cancelled")
    BY <2>2, <2>3, <2>4 DEF CancelSettles
  <2> QED
    BY <2>5, MovedStatus DEF TypeOK
<1>4. CASE co[a].op = "delete"
  <2>1. ~DeleteTakesWorker(a)
    BY <1>1, <1>4, GotoOnAdvances DEF DeleteTakesWorker, Advances, Becomes
  <2>2. DeleteRemoves(a)
    BY <1>4, <2>1 DEF Continue, At, PollFindsNothing, PollFindsNoWorker, PollAsksState,
         PollReads, PollLosesRow, Release, KillerReturns, LaunchStarts, LaunchRefused,
         ProcessStarts, LaunchReady, LaunchDone, LaunchFails, LaunchFailed, ResumeReady,
         RestartLosesRow, RestartFails, Steered, SteerFails, CancelSettles, RecoveryReady,
         RecoverySteered, RecoverySteerFails, RecoveryGivesUp
  <2>3. rows' = Removed(rows, t)
    BY <2>2 DEF DeleteRemoves
  <2> QED
    BY <2>3, RemovedStatus DEF TypeOK
<1>5. CASE co[a].op = "recover" /\ co[a].at # "steering"
  <2>1. ~ProcessStarts(a) /\ ~RestartFails(a) /\ ~RecoveryReady(a)
    <3>1. \A at : ~Goto(a, at)
      BY <1>1, <1>5, GotoAdvances DEF Advances, Becomes
    <3> QED
      BY <3>1 DEF ProcessStarts, RestartFails, RecoveryReady
  <2>2. ~RestartLosesRow(a)
    BY DEF RestartLosesRow
  <2>3. RecoveryGivesUp(a)
    BY <1>5, <2>1, <2>2 DEF Continue, At, PollFindsNothing, PollFindsNoWorker, PollAsksState,
         PollReads, PollLosesRow, Release, KillerReturns, LaunchStarts, LaunchRefused,
         LaunchReady, LaunchDone, LaunchFails, LaunchFailed, ResumeReady, Steered, SteerFails,
         CancelSettles, DeleteTakesWorker, DeleteRemoves, DeleteLocked, RecoverySteered,
         RecoverySteerFails
  <2>4. rows' = MarkOrphaned(rows, {t})
    BY <2>3 DEF RecoveryGivesUp, RecoveryOrphans
  <2>5. rows'[t].status = "orphaned"
    <3>1. rows'[t] = [rows[t] EXCEPT !.status = "orphaned", !.pid = None]
      BY <2>4 DEF MarkOrphaned, Active
    <3>2. rows[t] \in Row
      BY DEF TypeOK
    <3> QED
      BY <3>1, <3>2 DEF Row
  <2> QED
    BY <2>5
<1> QED
  BY <1>2, <1>3, <1>4, <1>5 DEF Attends

\* Nobody turns from a task it was attending before it is settled.
LEMMA StaysAttended ==
  ASSUME IInv, CancelSeen, Next, NEW a \in Actors, NEW t \in Tasks, Attends(co[a], t),
         phase \in {"boot", "up"}, phase' \in {"boot", "up"}, rows[t].status = "running",
         rows'[t].status = "running"
  PROVE  AttendedThen(t)
<1> TypeOK
  BY DEF IInv
<1>1. FrameStep(a)
  BY StepCauses
<1>2. co[a].op \in {"cancel", "delete", "launch", "recover"} /\ co[a].t = t
  BY DEF Attends
<1>3. CASE co'[a] = co[a]
  BY <1>3 DEF AttendedThen
<1>4. ~Ceases(a)
  BY PhaseMoves, ReturnsSettle DEF Ceases
<1>5. CASE Goes(a)
  <2>1. co'[a].op = co[a].op /\ co'[a].t = t
    BY <1>2, <1>5 DEF Goes, Advances, Becomes
  <2>2. CASE co[a].op \in {"cancel", "delete"}
    BY <2>1, <2>2 DEF Attends, AttendedThen
  <2>3. CASE co[a].op = "launch"
    <3>1. /\ \A w \in Workers : ~LaunchStarts(a, w)
          /\ ~ProcessStarts(a) /\ ~LaunchReady(a) /\ ~LaunchFails(a)
      BY <2>3 DEF Attends, At, LaunchStarts, ProcessStarts, LaunchReady, LaunchFails
    <3> QED
      BY <1>5, <2>3, <3>1
         DEF At, Goes, PollAsksState, ResumeReady, RecoveryReady, PollReads, RestartLosesRow,
             RestartFails, RecoverySteerFails, Release, DeleteTakesWorker, DeleteLocked
  <2>4. CASE co[a].op = "recover"
    <3>1. CASE RecoveryReady(a)
      <4>1. adapters'[t] = co[a].w /\ co[a].w \in Workers
        BY <1>2, <3>1, Resumes DEF RecoveryReady, TypeOK, OnWorker
      <4> QED
        BY <4>1 DEF AttendedThen
    <3>2. CASE ~RecoveryReady(a)
      <4>1. ~ResumeReady(a)
        BY <2>4 DEF ResumeReady, At
      <4>2. co'[a].at # "steering"
        BY <1>5, <3>2, <4>1 DEF Goes, Advances, Becomes, TypeOK, Frame, Awaits
      <4> QED
        BY <2>1, <2>4, <4>2 DEF Attends, AttendedThen
    <3> QED
      BY <3>1, <3>2
  <2> QED
    BY <1>2, <2>2, <2>3, <2>4
<1>6. ~Begins(a)
  BY <1>2 DEF Begins, Steered, At, Idle, Call
<1>7. ~Abandons(a)
  BY PhaseMoves DEF Abandons
<1> QED
  BY <1>1, <1>3, <1>4, <1>5, <1>6, <1>7 DEF FrameStep

\* Who drops the worker of a running task attends to the task.
LEMMA DropsAttended ==
  ASSUME IInv, ReleasesSettled, Next, NEW t \in Tasks, adapters[t] # None, adapters'[t] = None,
         phase \in {"boot", "up"}, phase' \in {"boot", "up"}, rows[t].status = "running"
  PROVE  AttendedThen(t)
<1> TypeOK
  BY DEF IInv
<1>1. Drops(t)
  <2>1. \A a \in Actors, w \in Workers : LaunchStarts(a, w) => w # None
    OBVIOUS
  <2>2. \A a \in Actors : ResumeReady(a) \/ RestartLosesRow(a) \/ RecoveryReady(a) => co[a].w # None
    BY Resumes DEF ResumeReady, RestartLosesRow, RecoveryReady, OnWorker
  <2> QED
    BY <2>1, <2>2, StepCauses DEF AdapterStep
<1>2. ~Purge(t) /\ ~StopService /\ ~StopWorkers /\ ~Crash /\ ~Load
  BY PhaseMoves DEF Purge, Terminal
<1>3. PICK a \in Actors : /\ co[a].t = t
                          /\ \/ LaunchFails(a)
                             \/ Release(a) /\ adapters[t] = co[a].w
                             \/ RecoverySteerFails(a)
                             \/ DeleteTakesWorker(a)
  BY <1>1, <1>2 DEF Drops
<1>4. ASSUME NEW at, co'[a].op = co[a].op, co'[a].t = co[a].t, co'[a].at = "killing",
             co[a].op \in {"launch", "cancel", "recover", "delete"}
      PROVE  AttendedThen(t)
  BY <1>3, <1>4 DEF Attends, AttendedThen
<1>5. CASE LaunchFails(a) \/ RecoverySteerFails(a) \/ DeleteTakesWorker(a)
  <2>1. co[a].op \in {"launch", "recover", "delete"}
    BY <1>5 DEF LaunchFails, RecoverySteerFails, DeleteTakesWorker, DeleteLocked, At
  <2>2. Goto(a, "killing") \/ GotoOn(a, "killing", adapters[t])
    BY <1>3, <1>5 DEF LaunchFails, RecoverySteerFails, DeleteTakesWorker
  <2> QED
    BY <1>4, <2>1, <2>2, GotoAdvances, GotoOnAdvances DEF Advances, Becomes
<1>6. CASE Release(a) /\ adapters[t] = co[a].w
  <2>1. co[a].op \in {"poll", "cancel"} /\ co[a].at = "releasing"
    BY <1>6 DEF Release, At
  <2>2. co[a].op # "poll"
    BY <1>3, <1>6, <2>1 DEF ReleasesSettled, Terminal
  <2>3. Goto(a, "killing") \/ GotoOn(a, "killing", None)
    BY <1>6 DEF Release
  <2> QED
    BY <1>4, <2>1, <2>2, <2>3, GotoAdvances, GotoOnAdvances DEF Advances, Becomes
<1> QED
  BY <1>3, <1>5, <1>6

\* A task starts to run with a worker registered.
LEMMA RunsRegistered ==
  ASSUME IInv, HalfwayRegistered, NEW t \in Tasks, Runs(t)
  PROVE  adapters'[t] # None
<1> TypeOK
  BY DEF IInv
<1>1. ASSUME NEW a \in Actors, co[a].t = t, LaunchReady(a) PROVE adapters'[t] # None
  <2>1. co[a].op = "launch" /\ co[a].at \in Halfway /\ adapters' = adapters
    BY <1>1 DEF LaunchReady, At, Halfway
  <2> QED
    BY <1>1, <2>1 DEF HalfwayRegistered
<1>2. ASSUME NEW a \in Actors, co[a].t = t, ResumeReady(a) PROVE adapters'[t] # None
  <2>1. adapters'[t] = co[a].w /\ co[a].w \in Workers
    BY <1>2, Resumes DEF ResumeReady, TypeOK, OnWorker
  <2> QED
    BY <2>1
<1>3. ASSUME NEW c \in Clients, ResumeInPlace(c, t) PROVE adapters'[t] # None
  BY <1>3 DEF ResumeInPlace, Running
<1> QED
  BY <1>1, <1>2, <1>3 DEF Runs

\* Recovery turns to a task by giving it up or by restarting it.
LEMMA RecoverAttends ==
  ASSUME IInv, NEW t \in Tasks, Recover(t), rows[t].status = "running",
         rows'[t].status = "running"
  PROVE  AttendedThen(t)
<1> TypeOK
  BY DEF IInv
<1>1. ~RecoverySkips(t) /\ ~RecoveryImpossible(t)
  <2>1. rows' # MarkOrphaned(rows, {t})
    <3>1. ASSUME rows' = MarkOrphaned(rows, {t}) PROVE FALSE
      <4>1. rows'[t] = [rows[t] EXCEPT !.status = "orphaned", !.pid = None]
        BY <3>1 DEF MarkOrphaned, Active
      <4>2. rows[t] \in Row
        BY DEF TypeOK
      <4> QED
        BY <4>1, <4>2 DEF Row
    <3> QED
      BY <3>1
  <2> QED
    BY <2>1 DEF RecoverySkips, RecoveryImpossible, RecoveryOrphans
<1>2. PICK c \in Clients, w \in Workers : RecoveryRestarts(c, t, w)
  BY <1>1 DEF Recover
<1>3. c \in Actors /\ Becomes(c, "recover", "starting", t, w, rows[t].status)
  BY <1>2, CallBegins DEF Actors, RecoveryRestarts
<1> QED
  BY <1>3 DEF Becomes, Attends, AttendedThen

LEMMA StepWatched ==
  ASSUME IInv, Stages, HalfwayRegistered, CancelSeen, ReleasesSettled, Watched, Next
  PROVE  Watched'
<1> TypeOK
  BY DEF IInv
<1> SUFFICES ASSUME NEW t \in Tasks, phase' \in {"boot", "up"}, rows'[t].status = "running"
             PROVE  AttendedThen(t)
  BY DEF Watched, Attended, Attends, AttendedThen
<1>1. CASE phase \notin {"boot", "up"}
  <2>1. Load
    BY <1>1, StepCauses, PhaseMoves DEF PhaseStep
  <2> QED
    BY <2>1 DEF Load, AttendedThen, Active
<1>2. CASE phase \in {"boot", "up"} /\ rows[t].status # "running"
  BY <1>2, StepCauses, RunsRegistered DEF RowStep, AttendedThen
<1>3. CASE phase \in {"boot", "up"} /\ rows[t].status = "running"
  <2>1. CASE adapters[t] # None
    BY <1>3, <2>1, DropsAttended DEF AttendedThen
  <2>2. ASSUME NEW a \in Actors, Attends(co[a], t) PROVE AttendedThen(t)
    BY <1>3, <2>2, StaysAttended
  <2>3. CASE phase = "boot" /\ t \in agenda
    <3>1. CASE Recover(t)
      BY <1>3, <3>1, RecoverAttends
    <3>2. CASE ~Recover(t)
      <4>1. \A u \in Tasks : Recover(u) => agenda' = agenda \ {u}
        BY DEF Recover, RecoverySkips, RecoveryImpossible, RecoveryRestarts, Recovers
      <4>2. ~Publish
        BY <2>3 DEF Publish
      <4> QED
        BY <2>3, <3>2, <4>1, <4>2, StepCauses, PhaseMoves DEF PhaseStep, AttendedThen
    <3> QED
      BY <3>1, <3>2
  <2> QED
    BY <1>3, <2>1, <2>2, <2>3 DEF Watched, Attended
<1> QED
  BY <1>1, <1>2, <1>3
-------------------------------------------------------------------------------
(***************************************************************************)
(* A queued task has its launch still to come.                             *)
(***************************************************************************)
\* A launch that returns leaves no queued row behind.
LEMMA LaunchReturns ==
  ASSUME IInv, PromptedLeft, NEW a \in Actors, NEW t \in Tasks, Continue(a), co'[a] = Idle,
         co[a].op = "launch", co[a].t = t, phase # "down", rows[t].status = "queued"
  PROVE  rows'[t].status # "queued"
<1> TypeOK
  BY DEF IInv
<1> Present(t)
  BY DEF Present, Statuses
<1>1. \A at, w : ~Goto(a, at) /\ ~GotoOn(a, at, w)
  BY GotoAdvances, GotoOnAdvances DEF Advances, Becomes, Idle, Call
<1>2. ~LaunchDone(a)
  BY DEF PromptedLeft, LaunchDone, At
<1>3. LaunchRefused(a) \/ LaunchFailed(a)
  BY <1>1, <1>2 DEF Continue, At, PollFindsNothing, PollFindsNoWorker, PollAsksState,
       PollReads, PollLosesRow, Release, KillerReturns, LaunchStarts, ProcessStarts,
       LaunchReady, LaunchFails, ResumeReady, RestartLosesRow, RestartFails, Steered,
       SteerFails, CancelSettles, DeleteTakesWorker, DeleteRemoves, DeleteLocked,
       RecoveryReady, RecoverySteered, RecoverySteerFails, RecoveryGivesUp
<1>4. rows' = Moved(rows, t, "failed")
  BY <1>3 DEF LaunchRefused, LaunchFailed, FailLaunch
<1> QED
  BY <1>4, MovedStatus DEF TypeOK

\* Who launches t, after the step, or shutdown has it on its list.
LaunchToCome(t) ==
  \/ \E a \in Actors : co'[a].op = "launch" /\ co'[a].t = t
  \/ phase' = "stopping" /\ t \in agenda'

LEMMA StepQueued ==
  ASSUME IInv, Stages, PromptedLeft, QueuedHasLaunch, Next, ~Crash
  PROVE  QueuedHasLaunch'
<1> TypeOK
  BY DEF IInv
<1> SUFFICES ASSUME NEW t \in Tasks, rows'[t].status = "queued"
             PROVE  LaunchToCome(t)
  BY DEF QueuedHasLaunch, Pending, LaunchToCome
<1>1. ASSUME NEW c \in Clients, Create(c, t) PROVE LaunchToCome(t)
  <2>1. c \in Actors /\ Becomes(c, "launch", "submit_lock", t, None, "queued")
    BY <1>1, CallBegins DEF Actors, Create
  <2> QED
    BY <2>1 DEF Becomes, LaunchToCome
<1>2. ASSUME rows[t].status = "queued", phase = "stopping", t \in agenda
      PROVE  LaunchToCome(t)
  <2>1. ~StopObserver
    <3>1. StopObserver => rows'[t] = [rows[t] EXCEPT !.status = "failed"]
      BY <1>2 DEF StopObserver
    <3>2. rows[t] \in Row
      BY DEF TypeOK
    <3> QED
      BY <3>1, <3>2 DEF Row
  <2>2. \A u \in Tasks : ~Recover(u)
    BY <1>2 DEF Recover, RecoverySkips, RecoveryImpossible, RecoveryRestarts, Recovers
  <2> QED
    BY <1>2, <2>1, <2>2, StepCauses, PhaseMoves DEF PhaseStep, LaunchToCome
<1>3. ASSUME rows[t].status = "queued", NEW a \in Actors, co[a].op = "launch", co[a].t = t
      PROVE  LaunchToCome(t)
  <2>1. FrameStep(a) /\ phase = "up"
    BY <1>3, StepCauses, StageOf
  <2>2. CASE StopService
    <3>1. a \in Clients
      BY <1>3, StageOf
    <3> QED
      BY <1>3, <2>2, <3>1 DEF StopService, LaunchToCome
  <2>3. CASE Ceases(a) /\ ~StopService
    BY <1>3, <2>1, <2>3, PhaseMoves, LaunchReturns DEF Ceases
  <2>4. CASE Goes(a)
    BY <1>3, <2>4 DEF Goes, Advances, Becomes, LaunchToCome
  <2>5. ~Begins(a)
    BY <1>3 DEF Begins, Steered, At, Idle, Call
  <2> QED
    BY <1>3, <2>1, <2>2, <2>3, <2>4, <2>5 DEF FrameStep, Abandons, LaunchToCome
<1> QED
  BY <1>1, <1>2, <1>3, StepCauses DEF RowStep, QueuedHasLaunch, Pending
-------------------------------------------------------------------------------
(***************************************************************************)
(* The invariant, and what it gives.                                       *)
(***************************************************************************)
WInv ==
  /\ IInv
  /\ AllOwned /\ Stages /\ Fresh
  /\ LaunchPlaces
  /\ AgendaFresh /\ NoFiles
  /\ CancelSeen /\ ReleasesSettled
  /\ Watched

LEMMA InitWInv == Init => WInv
<1> SUFFICES ASSUME Init PROVE WInv
  OBVIOUS
<1>1. IInv
  BY InitIInv
<1>2. /\ \A a \in Actors : co[a].op = "idle" /\ co[a].at = "idle" /\ co[a].w = None
      /\ \A t \in Tasks : rows[t].status = "unborn"
      /\ files = {} /\ phase = "up"
  BY DEF Init, Idle, Call, NewRow
<1>3. Stages
  BY <1>2 DEF Stages, Actors
<1>4. AllOwned /\ Fresh /\ LaunchPlaces /\ CancelSeen /\ ReleasesSettled
  BY <1>2 DEF AllOwned, Fresh, Restarting, LaunchPlaces, HalfwayRegistered, PromptedLeft,
              DeletesLast, LaunchedThere, CancelSeen, ReleasesSettled
<1>5. AgendaFresh /\ NoFiles /\ Watched
  BY <1>2 DEF AgendaFresh, NoFiles, Watched
<1> QED
  BY <1>1, <1>3, <1>4, <1>5 DEF WInv

LEMMA StepWInv ==
  ASSUME WInv, Next
  PROVE  WInv'
<1>1. IInv'
  BY StepCauses DEF WInv
<1>2. AllOwned' /\ Stages' /\ Fresh'
  BY StepAllOwned, StepStages, StepFresh DEF WInv
<1>3. LaunchPlaces'
  BY StepHalfway, StepPrompted, StepDeletes, StepLaunchedThere DEF WInv, LaunchPlaces
<1>4. AgendaFresh' /\ NoFiles'
  BY StepAgenda, StepNoFiles DEF WInv, LaunchPlaces
<1>5. CancelSeen' /\ ReleasesSettled' /\ Watched'
  BY StepCancelSeen, StepReleases, StepWatched DEF WInv, LaunchPlaces
<1> QED
  BY <1>1, <1>2, <1>3, <1>4, <1>5 DEF WInv

LEMMA SameWInv ==
  ASSUME WInv, UNCHANGED vars
  PROVE  WInv'
<1>1. IInv'
  BY DEF vars, sys, WInv, IInv, TypeOK, Owners, UnusedSilent, AdaptersOwned, FramesOwned, Owned,
         Launches, LaunchesOnce, LaunchesFirst, NoDecision
<1>2. AllOwned' /\ Stages' /\ Fresh'
  BY DEF vars, sys, WInv, AllOwned, Owned, Stages, Fresh, Restarting
<1>3. LaunchPlaces'
  BY DEF vars, sys, WInv, LaunchPlaces, HalfwayRegistered, PromptedLeft, DeletesLast,
         LaunchedThere, Pending
<1>4. AgendaFresh' /\ NoFiles'
  BY DEF vars, sys, WInv, AgendaFresh, NoFiles, InFlight, Pending
<1>5. CancelSeen' /\ ReleasesSettled' /\ Watched'
  BY DEF vars, sys, WInv, CancelSeen, ReleasesSettled, Running, Watched, Attended, Attends
<1> QED
  BY <1>1, <1>2, <1>3, <1>4, <1>5 DEF WInv

\* The invariant under which no task is left behind: a coroutine holds a worker
\* of its own task, a restarted one is nobody else's yet, a halfway launch keeps
\* its adapter and its row, and a running task is attended through every
\* hand-over from adapter to coroutine to recovery and back.
THEOREM WInvCorrect == Spec => []WInv
<1>1. WInv /\ [Next]_vars => WInv'
  BY StepWInv, SameWInv
<1> QED
  BY <1>1, InitWInv, PTL DEF Spec

\* While the plugin serves calls, no task is left running with nobody looking:
\* its worker is registered, so the observer polls it, or a launch, a cancel or a
\* delete that settles it is under way (_launch, cancel, delete and
\* recover_existing_tasks of scheduler.py).
THEOREM RunningTasksWatched == Spec => []RunningIsWatched
<1>1. WInv => RunningIsWatched
  <2> SUFFICES ASSUME WInv, NEW t \in Tasks, phase = "up", rows[t].status = "running"
               PROVE  adapters[t] # None \/ Pending(t, {"launch", "cancel", "delete"})
    BY DEF RunningIsWatched
  <2>1. Attended(t) /\ Stages
    BY DEF WInv, Watched
  <2>2. \A a \in Actors : co[a].op # "recover"
    BY <2>1, StageOf
  <2> QED
    BY <2>1, <2>2 DEF Attended, Attends, Pending
<1> QED
  BY <1>1, WInvCorrect, PTL

\* A removed task leaves no directory behind: who creates one has a row that no
\* deletion or purge can remove before it returns (delete's submit lock,
\* cleanup_expired_tasks).
THEOREM DeletedTasksCleaned == Spec => []DeletedHasNoFiles
<1>1. WInv => DeletedHasNoFiles
  BY DEF WInv, NoFiles, Absent, DeletedHasNoFiles
<1> QED
  BY <1>1, WInvCorrect, PTL

\* Unless the host crashes, no task stays queued with its launch gone: the launch
\* is still to come, or shutdown has the task on the list of those it fails
\* (create_task, _launch and PiTaskService.shutdown).
THEOREM QueuedTasksLaunched ==
  ASSUME "crash" \notin Interruptions
  PROVE  Spec => []QueuedHasLaunch
<1>1. Init => QueuedHasLaunch
  BY DEF Init, QueuedHasLaunch, NewRow
<1>2. WInv /\ QueuedHasLaunch /\ [Next]_vars => QueuedHasLaunch'
  <2> SUFFICES ASSUME WInv, QueuedHasLaunch, [Next]_vars PROVE QueuedHasLaunch'
    OBVIOUS
  <2>1. CASE Next
    <3>1. ~Crash
      BY DEF Crash
    <3> QED
      BY <2>1, <3>1, StepQueued DEF WInv, LaunchPlaces
  <2>2. CASE UNCHANGED vars
    BY <2>2 DEF vars, sys, QueuedHasLaunch, Pending
  <2> QED
    BY <2>1, <2>2
<1> QED
  BY <1>1, <1>2, WInvCorrect, PTL DEF Spec
===============================================================================

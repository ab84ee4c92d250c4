--------------------------- MODULE TaskEvents_proofs ---------------------------
(***************************************************************************)
(* What is told of a task in TaskScheduler, and what its worker tells: the *)
(* notification callback hears of every end, and the cursor of observation *)
(* stays behind every agent_end that is still to be seen.  And what the    *)
(* scheduler does to its workers: no more than PiWorker allows.            *)
(*                                                                         *)
(* The invariant EInv holds whatever clients call and whatever stops the   *)
(* plugin.  Two things need care, and are in the statements rather than in *)
(* hypotheses.  A restarted worker numbers its events from 1 again while   *)
(* the row keeps the old cursor (run stale_cursor): so the proof follows   *)
(* every restart, and shows that it is a second worker of its task.  And   *)
(* shutdown and recovery settle some tasks in silence.  Only a resumed     *)
(* task's second orphaning, which is never told, takes a hypothesis.       *)
(***************************************************************************)
EXTENDS TaskSlots_proofs

USE NoneAssumption, ClientsAssumption
-------------------------------------------------------------------------------
(***************************************************************************)
(* Who settles a task announces it, under the status it then has.          *)
(***************************************************************************)
Tells(t) == notified' = Announced(t, rows'[t].status)

\* The step brings t to rest.
Settles(t) == rows'[t].status \in Resting \ {rows[t].status}

LEMMA MovedTells ==
  ASSUME TypeOK, NEW t \in Tasks, NEW s, rows' = Moved(rows, t, s), notified' = Announced(t, s)
  PROVE  Tells(t)
  BY MovedStatus DEF TypeOK, Tells

LEMMA FailLaunchTells ==
  ASSUME TypeOK, NEW t \in Tasks, FailLaunch(t)
  PROVE  Tells(t) \/ UNCHANGED <<rows, notified>>
<1> DEFINE s == IF rows[t].status \in {"queued", "running"} THEN "failed" ELSE rows[t].status
<1>1. CASE Present(t)
  <2>1. rows' = Moved(rows, t, s) /\ notified' = Announced(t, s)
    BY <1>1 DEF FailLaunch
  <2> HIDE DEF s
  <2> QED
    BY <2>1, MovedTells
<1>2. CASE ~Present(t)
  BY <1>2 DEF FailLaunch
<1> QED
  BY <1>1, <1>2

LEMMA PollReadsTells ==
  ASSUME TypeOK, NEW a \in Actors, PollReads(a)
  PROVE  \/ Tells(co[a].t)
         \/ notified' = notified /\ rows'[co[a].t].status = rows[co[a].t].status
<1>1. PICK t \in Tasks, w \in Workers : t = co[a].t /\ w = co[a].w
  BY Resumes DEF PollReads, OnWorker
<1>2. rows'[t].status = Verdict(t, w)
  <2>1. rows' = Moved(WithCursor(rows, t, wk[w].sent), t, Verdict(t, w))
    BY <1>1 DEF PollReads
  <2>2. WithCursor(rows, t, wk[w].sent) \in [Tasks -> Row]
    BY WithCursorType DEF TypeOK, Worker
  <2> HIDE DEF Verdict
  <2> QED
    BY <2>1, <2>2, MovedStatus
<1>3. \/ notified' = Announced(t, Verdict(t, w))
      \/ notified' = notified /\ Verdict(t, w) = rows[t].status
  BY <1>1 DEF PollReads
<1> QED
  BY <1>1, <1>2, <1>3 DEF Tells

LEMMA OrphansTell ==
  ASSUME NEW t, RecoveryOrphans(t)
  PROVE  Tells(t) \/ (notified' = notified /\ ~Present(t))
  BY DEF RecoveryOrphans, Tells

LEMMA ContinueTells ==
  ASSUME IInv, Stages, NEW a \in Actors, Continue(a)
  PROVE  /\ co[a].t \in Tasks
         /\ Tells(co[a].t) \/ (notified' = notified /\ ~Settles(co[a].t))
<1> TypeOK
  BY DEF IInv
<1>1. PICK t \in Tasks : t = co[a].t
  BY Continues, FrameTypes
<1>2. CASE LaunchRefused(a) \/ LaunchFailed(a)
  BY <1>1, <1>2, FailLaunchTells DEF LaunchRefused, LaunchFailed, Settles
<1>3. CASE PollReads(a)
  BY <1>1, <1>3, PollReadsTells DEF Settles
<1>4. CASE PollFindsNoWorker(a)
  BY <1>1, <1>4, MovedTells DEF PollFindsNoWorker
<1>5. CASE CancelSettles(a)
  BY <1>1, <1>5, MovedTells DEF CancelSettles, Settles
<1>6. CASE LaunchReady(a) \/ ResumeReady(a)
  <2>1. PICK w \in Workers : w = co[a].w
    BY <1>6, Resumes DEF LaunchReady, ResumeReady, OnWorker
  <2>2. \/ rows' = Moved(WithProcess(rows, t, w), t, "running")
        \/ rows' = WithProcess(rows, t, w)
    BY <1>1, <1>6, <2>1 DEF LaunchReady, ResumeReady
  <2>3. rows'[t].status \in {"running", rows[t].status}
    BY <2>2, RecordedStatus, WithStatus DEF TypeOK
  <2> QED
    BY <1>1, <1>6, <2>3 DEF LaunchReady, ResumeReady, Settles, Resting, Terminal
<1>7. CASE LaunchFails(a) \/ RecoveryReady(a)
  <2>1. rows'[t].status = rows[t].status
    BY <1>1, <1>7, WithStatus DEF LaunchFails, RecoveryReady, TypeOK
  <2> QED
    BY <1>1, <1>7, <2>1 DEF LaunchFails, RecoveryReady, Settles
<1>8. CASE DeleteRemoves(a)
  <2>1. rows'[t].status \in {"deleted", rows[t].status}
    BY <1>1, <1>8, RemovedStatus DEF DeleteRemoves, TypeOK
  <2> QED
    BY <1>1, <1>8, <2>1 DEF DeleteRemoves, Settles, Resting, Terminal
<1>9. CASE RecoveryGivesUp(a)
  <2>1. RecoveryOrphans(t) /\ phase = "boot"
    BY <1>1, <1>9, StageOf DEF RecoveryGivesUp, At
  <2>2. ~Present(t) => rows[t].status \notin Active \cup {"orphaned"}
    BY <2>1 DEF Present, Active, Statuses
  <2>3. rows[t].status \notin Active \cup {"orphaned"} => rows'[t] = rows[t]
    BY <2>1 DEF RecoveryOrphans, MarkOrphaned
  <2> QED
    BY <1>1, <2>1, <2>2, <2>3, OrphansTell DEF Settles
<1>10. CASE UNCHANGED <<rows, notified>>
  BY <1>1, <1>10 DEF Settles
<1> QED
  BY <1>1, <1>2, <1>3, <1>4, <1>5, <1>6, <1>7, <1>8, <1>9, <1>10
     DEF Continue, PollFindsNothing, PollAsksState, PollLosesRow, Release, KillerReturns,
         LaunchStarts, ProcessStarts, LaunchDone, RestartLosesRow, RestartFails, Steered,
         SteerFails, DeleteTakesWorker, RecoverySteered, RecoverySteerFails

LEMMA CallToolTells ==
  ASSUME TypeOK, NEW c \in Clients, NEW t \in Tasks, CallTool(c, t)
  PROVE  Tells(t) \/ (notified' = notified /\ ~Settles(t))
<1>1. CASE CancelNow(c, t)
  BY <1>1, MovedTells DEF CancelNow
<1>2. CASE Create(c, t)
  <2>1. rows'[t].status = "queued"
    BY <1>2 DEF Create, NewRow, TypeOK
  <2> QED
    BY <1>2, <2>1 DEF Create, Settles, Resting, Terminal
<1>3. CASE FollowUp(c, t) \/ ResumeInPlace(c, t)
  <2>1. rows'[t].status = "running"
    BY <1>3, MovedStatus DEF FollowUp, ResumeInPlace, TypeOK
  <2> QED
    BY <1>3, <2>1 DEF FollowUp, ResumeInPlace, Settles, Resting, Terminal
<1>4. CASE UNCHANGED <<rows, notified>>
  BY <1>4 DEF Settles
<1> QED
  BY <1>1, <1>2, <1>3, <1>4 DEF CallTool, Poll, ResumeRestarts, CancelAborts, Delete

\* Recovery tells whom it orphans while it has a slot for a worker.
LEMMA RecoverTells ==
  ASSUME AgendaFresh, NEW t \in Tasks, Recover(t)
  PROVE  /\ agenda' # agenda
         /\ \/ Tells(t)
            \/ notified' = notified /\ rows' = rows
            \/ notified' = notified /\ ~RecoveryHasSlot /\ rows' = MarkOrphaned(rows, {t})
<1>1. agenda' # agenda /\ phase = "boot" /\ rows[t].status = "running"
  BY DEF Recover, RecoverySkips, RecoveryImpossible, RecoveryRestarts, Recovers, AgendaFresh
<1>2. Present(t)
  BY <1>1 DEF Present, Statuses
<1> QED
  BY <1>1, <1>2, OrphansTell
     DEF Recover, RecoverySkips, RecoveryImpossible, RecoveryRestarts

\* The callback hears of what a step made of a task, or of nothing.
LEMMA StepNotified ==
  ASSUME IInv, Stages, AgendaFresh, Next
  PROVE  notified' \subseteq notified \/ \E t \in Tasks : Tells(t)
<1> TypeOK
  BY DEF IInv
<1>1. ASSUME NEW a \in Actors, Continue(a) PROVE notified' = notified \/ \E t \in Tasks : Tells(t)
  BY <1>1, ContinueTells
<1>2. ASSUME NEW c \in Clients, NEW t \in Tasks, CallTool(c, t) PROVE notified' = notified \/ Tells(t)
  BY <1>2, CallToolTells
<1>3. ASSUME NEW t \in Tasks, Recover(t) PROVE notified' = notified \/ Tells(t)
  BY <1>3, RecoverTells
<1>4. Load => notified' = {}
  BY DEF Load
<1>5. ASSUME \/ ObserverCycle \/ Unload \/ Crash \/ Publish \/ \E t \in Tasks : Purge(t)
             \/ \E w \in Workers : WorkerEvent(w) \/ WorkerEnds(w)
      PROVE  notified' = notified
  BY <1>5 DEF ObserverCycle, Unload, StopService, StopObserver, StopWorkers, CloseRegistry,
              Crash, Publish, Purge, WorkerEvent, WorkerEnds
<1> QED
  BY <1>1, <1>2, <1>3, <1>4, <1>5 DEF Next

\* Who brings a task to rest announces it, but for unloading and for a recovery
\* without a free slot.
LEMMA SettlingTells ==
  ASSUME IInv, Stages, AgendaFresh, Next, NEW t \in Tasks, Settles(t), phase' = phase
  PROVE  \/ Tells(t)
         \/ rows'[t].status = "orphaned" /\ agenda' # agenda /\ ~RecoveryHasSlot
<1> TypeOK
  BY DEF IInv
<1>1. Touches(t)
  BY StepTouches DEF Settles
<1>2. ~StopObserver /\ ~CloseRegistry
  BY DEF StopObserver, CloseRegistry
<1>3. ~Purge(t)
  <2>1. Purge(t) => rows'[t].status = "deleted"
    BY RemovedStatus DEF Purge, TypeOK
  <2> QED
    BY <2>1 DEF Settles, Resting, Terminal
<1>4. CASE Recover(t)
  <2>1. rows' = MarkOrphaned(rows, {t}) => rows'[t].status \in {"orphaned", rows[t].status}
    BY MarkOrphanedStatus DEF TypeOK
  <2> QED
    BY <1>4, <2>1, RecoverTells DEF Settles
<1> QED
  BY <1>1, <1>2, <1>3, <1>4, ContinueTells, CallToolTells DEF Touches

\* A task announced with a status of S is there yet, or it was removed.
Told(S) ==
  \A t \in Tasks, s \in S : <<t, s>> \in notified => rows[t].status \in S \cup {"deleted"}

LEMMA StepTold ==
  ASSUME IInv, Stages, AgendaFresh, Next, NEW S,
         \A t \in Tasks :
           rows[t].status \in S \cup {"deleted"} => rows'[t].status \in S \cup {"deleted"},
         Told(S)
  PROVE  Told(S)'
<1>1. ASSUME NEW t \in Tasks, NEW s \in S, <<t, s>> \in notified'
      PROVE  rows'[t].status \in S \cup {"deleted"}
  <2>1. CASE <<t, s>> \in notified
    BY <2>1 DEF Told
  <2>2. ASSUME NEW u \in Tasks, Tells(u), <<t, s>> \notin notified PROVE rows'[t].status = s
    BY <1>1, <2>2 DEF Tells, Announced
  <2> QED
    BY <1>1, <2>1, <2>2, StepNotified
<1> QED
  BY <1>1 DEF Told

\* An end is final.
LEMMA FinishedStays ==
  ASSUME IInv, Next, NEW t \in Tasks, rows[t].status \in Terminal \cup {"deleted"}
  PROVE  rows'[t].status \in Terminal \cup {"deleted"}
  BY StepCauses DEF StatusStep, Terminal, Statuses

\* Without a resume, so is any settled state.
LEMMA SettledStays ==
  ASSUME IInv, NoResume, Next, NEW t \in Tasks, rows[t].status \in Resting \cup {"deleted"}
  PROVE  rows'[t].status \in Resting \cup {"deleted"}
<1>1. StatusStep(t) /\ IInv'
  BY StepCauses
<1>2. ~Resuming(t) /\ ~(\E a \in Actors : co'[a].op = "resume" /\ co'[a].t = t)
  BY StepNoResume DEF NoResume, Resuming
<1> QED
  BY <1>1, <1>2 DEF StatusStep, Resuming, Resting, Terminal, Statuses
-------------------------------------------------------------------------------
(***************************************************************************)
(* Restarts.  A task that is resumed or recovered has had a worker, so a   *)
(* task whose only worker is registered was never restarted.               *)
(***************************************************************************)
\* A worker nobody started belongs to no task and has said nothing.
UnusedNew == \A w \in Workers : wk[w].st = "unused" => wk[w].t = None /\ wk[w].sent = 0

\* A task that ran has a worker.
RanOnWorker ==
  \A t \in Tasks : rows[t].status \in {"running", "orphaned"} => \E w \in Workers : Owned(t, w)

Twice(t) == \E v, w \in Workers : v # w /\ Owned(t, v) /\ Owned(t, w)

\* Who restarts a worker gives its task another one.
RestartsSecond ==
  \A a \in Actors :
    co[a].op = "recover" \/ (co[a].op = "resume" /\ co[a].at \in BringingUp) => Twice(co[a].t)

\* Whoever still registers a worker when unloading took them all is restarting.
LateSecond ==
  phase \in {"killing", "down"} => \A t \in Tasks : adapters[t] # None => Twice(t)

\* A restart is called on a task that was launched.
RestartsLaunched ==
  \A a \in Actors : co[a].op \in {"resume", "recover"} =>
    rows[co[a].t].status \notin {"unborn", "queued"}

\* What a step adds to the events of a worker.
LEMMA StepEvents ==
  ASSUME TypeOK, Next, NEW w \in Workers
  PROVE  \/ wk'[w].sent = wk[w].sent /\ wk'[w].ends = wk[w].ends
         \/ /\ WorkerEvent(w)
            /\ wk[w].st = "running" /\ wk'[w].st = "running"
            /\ wk'[w].sent = wk[w].sent + 1
            /\ wk'[w].ends \in {wk[w].ends, wk[w].ends \cup {wk[w].sent + 1}}
<1> DEFINE Same == wk'[w].sent = wk[w].sent /\ wk'[w].ends = wk[w].ends
<1>1. ASSUME UNCHANGED wk \/ \E W : wk' = Closed(W) PROVE Same
  BY <1>1 DEF Closed, TypeOK, Worker
<1>2. ASSUME NEW v \in Workers, NEW t, wk' = Started(v, t) PROVE Same
  BY <1>2 DEF Started, TypeOK, Worker
<1>3. ASSUME NEW a \in Actors, ProcessStarts(a) PROVE Same
  BY <1>3 DEF ProcessStarts, TypeOK, Worker
<1>4. ASSUME NEW v \in Workers, WorkerEnds(v) PROVE Same
  BY <1>4 DEF WorkerEnds, TypeOK, Worker
<1>5. ASSUME NEW v \in Workers, WorkerEvent(v), v # w PROVE Same
  BY <1>5 DEF WorkerEvent, TypeOK
<1>6. ASSUME WorkerEvent(w)
      PROVE  /\ wk[w].st = "running" /\ wk'[w].st = "running"
             /\ wk'[w].sent = wk[w].sent + 1
             /\ wk'[w].ends \in {wk[w].ends, wk[w].ends \cup {wk[w].sent + 1}}
  BY <1>6 DEF WorkerEvent, TypeOK, Worker
<1>7. ASSUME Load \/ Crash PROVE Same
  BY <1>7 DEF Load, Crash, TypeOK, Worker
<1>8. ASSUME NEW a \in Actors, Continue(a), ~ProcessStarts(a) PROVE Same
  BY <1>1, <1>2, <1>8
     DEF Continue, PollFindsNothing, PollFindsNoWorker, PollAsksState, PollReads,
         PollLosesRow, Release, KillerReturns, LaunchStarts, LaunchRefused, LaunchReady,
         LaunchDone, LaunchFails, LaunchFailed, ResumeReady, RestartLosesRow, RestartFails,
         Steered, SteerFails, CancelSettles, DeleteTakesWorker, DeleteRemoves, RecoveryReady,
         RecoverySteered, RecoverySteerFails, RecoveryGivesUp
<1> QED
  BY <1>1, <1>2, <1>3, <1>4, <1>5, <1>6, <1>7, <1>8, ZenonT(60)
     DEF Next, CallTool, Create, Poll, FollowUp, ResumeInPlace, ResumeRestarts, CancelNow,
         CancelAborts, Delete, ObserverCycle, Purge, Unload, StopService, StopObserver,
         StopWorkers, CloseRegistry, Recover, RecoverySkips, RecoveryImpossible,
         RecoveryRestarts, Publish

LEMMA StepUnusedNew ==
  ASSUME IInv, UnusedNew, Next
  PROVE  UnusedNew'
<1> TypeOK
  BY DEF IInv
<1> SUFFICES ASSUME NEW w \in Workers, wk'[w].st = "unused"
             PROVE  wk'[w].t = None /\ wk'[w].sent = 0
  BY DEF UnusedNew
<1>1. wk[w].st = "unused"
  BY StepCauses DEF WorkersKept, OwnersKept
<1>2. ~WorkerEvent(w)
  BY <1>1 DEF WorkerEvent
<1>3. ASSUME NEW t, wk' = Started(w, t) PROVE FALSE
  BY <1>3, StartedState
<1>4. wk'[w].t = wk[w].t
  BY <1>3, StepGiven DEF LaunchStarts, ResumeRestarts, RecoveryRestarts
<1> QED
  BY <1>1, <1>2, <1>4, StepEvents DEF UnusedNew

\* Twice, once the step is taken.
TwiceThen(t) == \E v, w \in Workers : v # w /\ OwnedThen(t, v) /\ OwnedThen(t, w)

LEMMA TwiceStays ==
  ASSUME WorkersKept, NEW t, Twice(t)
  PROVE  TwiceThen(t)
  BY StaysOwned DEF Twice, TwiceThen

LEMMA StepRanOnWorker ==
  ASSUME IInv, RanOnWorker, Next
  PROVE  RanOnWorker'
<1> TypeOK /\ Owners
  BY DEF IInv
<1> SUFFICES ASSUME NEW t \in Tasks, rows'[t].status \in {"running", "orphaned"}
             PROVE  \E w \in Workers : OwnedThen(t, w)
  BY DEF RanOnWorker, Owned, OwnedThen
<1>1. WorkersKept /\ StatusStep(t) /\ RowStep(t)
  BY StepCauses
<1>2. \E w \in Workers : Owned(t, w)
  <2>1. CASE rows[t].status \in {"running", "orphaned"}
    BY <2>1 DEF RanOnWorker
  <2>2. ASSUME NEW a \in Actors, co[a].t = t, LaunchReady(a) \/ ResumeReady(a)
        PROVE  \E w \in Workers : Owned(t, w)
    BY <2>2 DEF LaunchReady, ResumeReady, At, Owners, FramesOwned, OnWorker, Owned
  <2>3. ASSUME NEW c \in Clients, ResumeInPlace(c, t) PROVE \E w \in Workers : Owned(t, w)
    <3>1. adapters[t] \in Workers /\ adapters[t] # None
      BY <2>3 DEF ResumeInPlace, Running
    <3> QED
      BY <3>1 DEF Owners, AdaptersOwned
  <2> QED
    BY <1>1, <2>1, <2>2, <2>3 DEF StatusStep, RowStep, Runs
<1> QED
  BY <1>1, <1>2, StaysOwned

\* Who restarts a task after a step did so before, at the same stage or an earlier
\* one, or begins to.
LEMMA RestartCallBefore ==
  ASSUME TypeOK, NEW a \in Actors, FrameStep(a), co'[a].op \in {"resume", "recover"}
  PROVE  \/ /\ co[a].op = co'[a].op /\ co[a].t = co'[a].t
            /\ co'[a].at \in BringingUp => co[a].at \in BringingUp
         \/ \E t \in Tasks :
              /\ co'[a].t = t
              /\ \/ ResumeInPlace(a, t) /\ co'[a].op = "resume" /\ co'[a].at = "steering"
                 \/ \E w \in Workers : ResumeRestarts(a, t, w) \/ RecoveryRestarts(a, t, w)
<1>1. CASE co'[a] = co[a]
  BY <1>1
<1>2. ~Ceases(a) /\ ~Abandons(a)
  BY DEF Ceases, Idle, Call, Abandons, Becomes
<1>3. CASE Goes(a)
  <2>1. co[a].op = co'[a].op /\ co[a].t = co'[a].t
    BY <1>3 DEF Goes, Advances, Becomes
  <2>2. \A w \in Workers : ~LaunchStarts(a, w)
    BY <2>1 DEF LaunchStarts, At
  <2>3. co'[a].at \in BringingUp => ProcessStarts(a)
    BY <1>3, <2>2 DEF Goes, Advances, Becomes, BringingUp
  <2> QED
    BY <2>1, <2>3 DEF ProcessStarts, At, BringingUp
<1>4. CASE Begins(a)
  BY <1>4 DEF Begins, Becomes
<1> QED
  BY <1>1, <1>2, <1>3, <1>4 DEF FrameStep

LEMMA StepRestartsLaunched ==
  ASSUME IInv, AgendaFresh, RestartsLaunched, Next
  PROVE  RestartsLaunched'
<1> TypeOK /\ NoDecision
  BY DEF IInv
<1> SUFFICES ASSUME NEW a \in Actors, co'[a].op \in {"resume", "recover"}
             PROVE  rows'[co'[a].t].status \notin {"unborn", "queued"}
  BY DEF RestartsLaunched
<1>1. FrameStep(a) /\ IInv'
  BY StepCauses
<1>2. PICK t \in Tasks : t = co'[a].t
  BY <1>1, FrameTypes DEF IInv, TypeOK, CoOK, FrameOK
<1>3. rows[t].status \notin {"unborn", "queued"}
  <2>1. \A w \in Workers : RecoveryRestarts(a, t, w) => rows[t].status = "running"
    BY DEF RecoveryRestarts, Recovers, AgendaFresh
  <2>2. \A w \in Workers : ResumeRestarts(a, t, w) \/ ResumeInPlace(a, t)
                             => rows[t].status \in Active \cup Resumable
    BY DEF ResumeRestarts, ResumeInPlace
  <2>3. ResumeInPlace(a, t) => rows[t].status \in Active \cup Resumable
    BY DEF ResumeInPlace
  <2> QED
    BY <1>1, <1>2, <2>1, <2>2, <2>3, RestartCallBefore DEF RestartsLaunched, Active, Resumable
<1> QED
  BY <1>2, <1>3, StepCauses DEF StatusStep

LEMMA StepRestartsSecond ==
  ASSUME IInv, AgendaFresh, RanOnWorker, RestartsSecond, Next
  PROVE  RestartsSecond'
<1> TypeOK /\ NoDecision
  BY DEF IInv
<1> SUFFICES ASSUME NEW a \in Actors,
                    \/ co'[a].op = "recover"
                    \/ co'[a].op = "resume" /\ co'[a].at \in BringingUp
             PROVE  TwiceThen(co'[a].t)
  BY DEF RestartsSecond, Twice, TwiceThen, Owned, OwnedThen
<1>1. FrameStep(a) /\ WorkersKept
  BY StepCauses
<1>2. ASSUME NEW t \in Tasks, NEW w \in Workers, ResumeRestarts(a, t, w) \/ RecoveryRestarts(a, t, w)
      PROVE  TwiceThen(t)
  <2>1. rows[t].status \in {"running", "orphaned"}
    BY <1>2 DEF ResumeRestarts, RecoveryRestarts, Recovers, AgendaFresh, Active, Resumable,
                NoDecision
  <2>2. PICK v \in Workers : Owned(t, v)
    BY <2>1 DEF RanOnWorker
  <2>3. v # w /\ OwnedThen(t, v) /\ OwnedThen(t, w)
    BY <1>1, <1>2, <2>2, StaysOwned, StartedOwned DEF ResumeRestarts, RecoveryRestarts, Owned
  <2> QED
    BY <2>3 DEF TwiceThen
<1>3. CASE Twice(co[a].t) /\ co'[a].t = co[a].t
  BY <1>1, <1>3, TwiceStays
<1> QED
  BY <1>1, <1>2, <1>3, RestartCallBefore DEF RestartsSecond, BringingUp

\* A worker that is registered is the first of a launch, or the second of its task.
LEMMA RegistersSecond ==
  ASSUME IInv, RestartsSecond, Next, NEW t \in Tasks, adapters'[t] # None,
         adapters'[t] # adapters[t]
  PROVE  Twice(t) \/ \E a \in Actors, w \in Workers : LaunchStarts(a, w) /\ co[a].t = t
<1>1. ASSUME NEW a \in Actors, co[a].t = t,
             ResumeReady(a) \/ RestartLosesRow(a) \/ RecoveryReady(a)
      PROVE  Twice(t)
  BY <1>1 DEF ResumeReady, RestartLosesRow, RecoveryReady, At, RestartsSecond, BringingUp
<1> QED
  BY <1>1, StepCauses DEF AdapterStep

LEMMA StepLateSecond ==
  ASSUME IInv, Stages, RestartsSecond, LateSecond, Next
  PROVE  LateSecond'
<1> SUFFICES ASSUME phase' \in {"killing", "down"}, NEW t \in Tasks, adapters'[t] # None
             PROVE  TwiceThen(t)
  BY DEF LateSecond, Twice, TwiceThen, Owned, OwnedThen
<1>1. WorkersKept
  BY StepCauses
<1>2. CASE phase \in {"killing", "down"}
  <2>1. ASSUME NEW a \in Actors, NEW w \in Workers, LaunchStarts(a, w) PROVE FALSE
    BY <1>2, <2>1, StageOf DEF LaunchStarts, At
  <2> QED
    BY <1>1, <1>2, <2>1, RegistersSecond, TwiceStays DEF LateSecond
<1>3. CASE StopWorkers
  BY <1>3 DEF StopWorkers, Registered
<1>4. CASE Crash
  BY <1>4 DEF Crash
<1> QED
  BY <1>2, <1>3, <1>4, StepCauses, PhaseMoves DEF PhaseStep
-------------------------------------------------------------------------------
(***************************************************************************)
(* The cursor of a running task is behind what its worker has still to be  *)
(* read for.                                                               *)
(***************************************************************************)
\* Only a poll that read the events moves the cursor.
Reads(t) ==
  \E a \in Actors : PollReads(a) /\ co[a].t = t /\ rows'[t].cursor = wk[co[a].w].sent

LEMMA StepCursor ==
  ASSUME IInv, Next, NEW t \in Tasks, rows'[t].status \in {"queued", "running"}
  PROVE  \/ rows'[t].cursor = rows[t].cursor
         \/ Reads(t)
         \/ \E c \in Clients : Create(c, t)
<1> TypeOK
  BY DEF IInv
<1> DEFINE Same == rows'[t].cursor = rows[t].cursor
<1>1. ASSUME NEW s, rows' = Moved(rows, t, s) PROVE Same
  BY <1>1, MovedRest DEF TypeOK
<1>2. ASSUME NEW T, rows' = MarkOrphaned(rows, T) PROVE Same
  <2>1. rows[t] \in Row
    BY DEF TypeOK
  <2>2. \/ rows'[t] = rows[t]
        \/ rows'[t] = [rows[t] EXCEPT !.status = "orphaned", !.pid = None]
    BY <1>2 DEF MarkOrphaned
  <2>3. [rows[t] EXCEPT !.status = "orphaned", !.pid = None].status = "orphaned"
    BY <2>1 DEF Row
  <2> QED
    BY <2>2, <2>3
<1>3. rows' # Removed(rows, t)
  BY RemovedStatus DEF TypeOK
<1>4. ASSUME NEW a \in Actors, co[a].t = t, LaunchReady(a) \/ ResumeReady(a) PROVE Same
  <2>1. PICK w \in Workers : w = co[a].w
    BY <1>4, Resumes DEF LaunchReady, ResumeReady, OnWorker
  <2>2. \/ rows' = Moved(WithProcess(rows, t, w), t, "running")
        \/ rows' = WithProcess(rows, t, w)
    BY <1>4, <2>1 DEF LaunchReady, ResumeReady
  <2>3. /\ WithProcess(rows, t, w) \in [Tasks -> Row]
        /\ WithProcess(rows, t, w)[t].cursor = rows[t].cursor
    BY WithProcessType, ProcessRest DEF TypeOK
  <2> QED
    BY <2>2, <2>3, MovedRest
<1>5. ASSUME NEW w, rows' = WithProcess(rows, t, w) PROVE Same
  BY <1>5, ProcessRest DEF TypeOK
<1>6. ASSUME NEW a \in Actors, co[a].t = t, PollReads(a) PROVE Reads(t)
  <2>1. PICK w \in Workers : w = co[a].w
    BY <1>6, Resumes DEF PollReads, OnWorker
  <2>2. /\ WithCursor(rows, t, wk[w].sent) \in [Tasks -> Row]
        /\ WithCursor(rows, t, wk[w].sent)[t].cursor = wk[w].sent
    BY WithCursorType, CursorRest DEF TypeOK, Worker
  <2>3. \E s : rows' = Moved(WithCursor(rows, t, wk[w].sent), t, s)
    BY <1>6, <2>1 DEF PollReads
  <2> QED
    BY <1>6, <2>1, <2>2, <2>3, MovedRest DEF Reads
<1>7. ASSUME NEW a \in Actors, co[a].t = t, Continue(a) PROVE Same \/ Reads(t)
  BY <1>1, <1>2, <1>3, <1>4, <1>5, <1>6, <1>7, FailLaunchRest
     DEF Continue, PollFindsNothing, PollFindsNoWorker, PollAsksState, PollLosesRow, Release,
         KillerReturns, LaunchStarts, LaunchRefused, ProcessStarts, LaunchDone, LaunchFails,
         LaunchFailed, RestartLosesRow, RestartFails, Steered, SteerFails, CancelSettles,
         DeleteTakesWorker, DeleteRemoves, RecoveryReady, RecoverySteered, RecoverySteerFails,
         RecoveryGivesUp, RecoveryOrphans
<1>8. ASSUME NEW c \in Clients, CallTool(c, t) PROVE Same \/ Create(c, t)
  BY <1>1, <1>8
     DEF CallTool, Poll, FollowUp, ResumeInPlace, ResumeRestarts, CancelNow, CancelAborts, Delete
<1>9. ASSUME Recover(t) PROVE Same
  BY <1>2, <1>9
     DEF Recover, RecoverySkips, RecoveryImpossible, RecoveryOrphans, RecoveryRestarts
<1>10. ASSUME StopObserver PROVE Same
  <2>1. rows'[t] = rows[t] \/ rows'[t] = [rows[t] EXCEPT !.status = "failed"]
    BY <1>10 DEF StopObserver
  <2> QED
    BY <2>1 DEF TypeOK, Row
<1>11. ASSUME CloseRegistry PROVE Same
  BY <1>2, <1>11 DEF CloseRegistry
<1> QED
  BY <1>3, <1>7, <1>8, <1>9, <1>10, <1>11, StepTouches DEF Touches, Purge

\* While its task is queued, a worker at work is in the start-up RPCs of the
\* launch: nothing was asked of it yet.
QueuedStarting ==
  \A w \in Workers :
    wk[w].st \in BusyStates /\ wk[w].t \in Tasks /\ rows[wk[w].t].status = "queued" =>
      \E a \in Actors : /\ co[a].op = "launch" /\ co[a].at \in BringingUp
                        /\ co[a].t = wk[w].t /\ co[a].w = w

\* A launch that is bringing its worker up goes on, or closes the worker.
LEMMA LaunchGoesOn ==
  ASSUME IInv, Stages, Next, NEW a \in Actors, co[a].op = "launch", co[a].at \in BringingUp,
         NEW w \in Workers, co[a].w = w, rows'[co[a].t].status = "queued"
  PROVE  \/ /\ co'[a].op = "launch" /\ co'[a].at \in BringingUp
            /\ co'[a].t = co[a].t /\ co'[a].w = w
         \/ wk'[w].st \notin BusyStates
<1> TypeOK
  BY DEF IInv
<1>1. FrameStep(a) /\ a \in Clients /\ phase = "up" /\ co[a].t \in Tasks
  BY StepCauses, StageOf, FrameTypes
<1>2. CASE co'[a] = co[a]
  BY <1>2
<1>3. CASE Continue(a)
  <2>1. ProcessStarts(a) \/ LaunchReady(a) \/ LaunchFails(a)
    BY <1>3 DEF BringingUp, Continue, At, PollFindsNothing, PollFindsNoWorker, PollAsksState,
           PollReads, PollLosesRow, Release, KillerReturns, LaunchStarts, LaunchRefused,
           LaunchDone, LaunchFailed, ResumeReady, RestartLosesRow, RestartFails, Steered,
           SteerFails, CancelSettles, DeleteTakesWorker, DeleteRemoves, DeleteLocked,
           RecoveryReady, RecoverySteered, RecoverySteerFails, RecoveryGivesUp
  <2>2. CASE ProcessStarts(a)
    <3>1. Advances(a, "handshake", w)
      BY <2>2, GotoAdvances DEF ProcessStarts
    <3> QED
      BY <3>1 DEF Advances, Becomes, BringingUp
  <2>3. CASE LaunchReady(a)
    <3>1. rows' = Moved(WithProcess(rows, co[a].t, w), co[a].t, "running")
      BY <2>3 DEF LaunchReady
    <3> QED
      BY <1>1, <3>1, RecordedStatus
  <2>4. CASE LaunchFails(a)
    BY <2>4, ClosedEnds DEF LaunchFails
  <2> QED
    BY <2>1, <2>2, <2>3, <2>4
<1>4. CASE ~Continue(a)
  <2>1. ~Goes(a)
    <3>1. \A v \in Workers : LaunchStarts(a, v) => Continue(a)
      BY DEF Continue
    <3> QED
      BY <1>4, <3>1 DEF Goes, Continue
  <2>2. ~Begins(a)
    BY DEF Begins, Steered, At, Idle, Call
  <2>3. ~StopObserver
    BY <1>1, PhaseMoves
  <2>4. CASE StopService
    <3>1. w \in HalfwayWorkers
      BY <1>1 DEF HalfwayWorkers, Halfway, BringingUp
    <3> QED
      BY <2>4, <3>1, StopServiceCloses, ClosedEnds
  <2>5. CASE Crash
    BY <2>5 DEF Crash, TypeOK, Worker, BusyStates
  <2> QED
    BY <1>1, <1>2, <1>4, <2>1, <2>2, <2>3, <2>4, <2>5 DEF FrameStep, Ceases, Abandons
<1> QED
  BY <1>3, <1>4

LEMMA StepQueuedStarting ==
  ASSUME IInv, Stages, AgendaFresh, Unstarted, RestartsLaunched, QueuedStarting, Next
  PROVE  QueuedStarting'
<1> TypeOK /\ Owners /\ NoDecision
  BY DEF IInv
<1> SUFFICES ASSUME NEW w \in Workers, NEW t \in Tasks, wk'[w].st \in BusyStates, wk'[w].t = t,
                    rows'[t].status = "queued"
             PROVE  \E a \in Actors : /\ co'[a].op = "launch" /\ co'[a].at \in BringingUp
                                      /\ co'[a].t = t /\ co'[a].w = w
  BY DEF QueuedStarting
<1>1. WorkerStep(w) /\ WorkersKept /\ RowStep(t)
  BY StepCauses
<1>2. ASSUME NEW a \in Actors, LaunchStarts(a, w), wk'[w].t = co[a].t
      PROVE  \E b \in Actors : /\ co'[b].op = "launch" /\ co'[b].at \in BringingUp
                               /\ co'[b].t = t /\ co'[b].w = w
  <2>1. Advances(a, "starting", w) /\ co[a].op = "launch"
    BY <1>2, GotoOnAdvances DEF LaunchStarts, At
  <2> QED
    BY <1>2, <2>1 DEF Advances, Becomes, BringingUp
<1>3. ASSUME NEW c \in Clients, ResumeRestarts(c, t, w) \/ RecoveryRestarts(c, t, w) PROVE FALSE
  <2>1. rows[t].status \in Active \cup Resumable /\ rows' = rows
    BY <1>3 DEF ResumeRestarts, RecoveryRestarts, Recovers, AgendaFresh, Active
  <2> QED
    BY <2>1 DEF Active, Resumable
<1>4. rows[t].status = "queued"
  <2>1. ASSUME NEW c \in Clients, Create(c, t) PROVE FALSE
    BY <1>1, <2>1 DEF Create, Unstarted
  <2> QED
    BY <1>1, <2>1 DEF RowStep
<1>5. CASE wk[w].t = t
  <2>1. \/ wk[w].st \in BusyStates
        \/ \E a \in Actors : LaunchStarts(a, w)
        \/ \E a \in Actors : ProcessStarts(a) /\ co[a].w = w
    <3>1. ASSUME NEW c \in Clients, NEW u \in Tasks,
                 ResumeRestarts(c, u, w) \/ RecoveryRestarts(c, u, w)
          PROVE  FALSE
      BY <1>3, <3>1, StartedState DEF ResumeRestarts, RecoveryRestarts
    <3> QED
      BY <1>1, <3>1 DEF WorkerStep, BusyStates
  <2>2. ASSUME NEW a \in Actors, LaunchStarts(a, w) PROVE wk'[w].t = co[a].t
    BY <2>2, StartedState DEF LaunchStarts
  <2>3. ASSUME NEW a \in Actors, ProcessStarts(a), co[a].w = w
        PROVE  \E b \in Actors : /\ co'[b].op = "launch" /\ co'[b].at \in BringingUp
                                 /\ co'[b].t = t /\ co'[b].w = w
    <3>1. co[a].op \in {"launch", "resume", "recover"} /\ co[a].t = t
      BY <1>5, <2>3 DEF ProcessStarts, At, Owners, FramesOwned, OnWorker, Owned
    <3>2. Advances(a, "handshake", w)
      BY <2>3, GotoAdvances DEF ProcessStarts
    <3> QED
      BY <1>4, <3>1, <3>2 DEF RestartsLaunched, Advances, Becomes, BringingUp
  <2>4. CASE wk[w].st \in BusyStates
    <3>1. PICK a \in Actors : /\ co[a].op = "launch" /\ co[a].at \in BringingUp
                              /\ co[a].t = t /\ co[a].w = w
      BY <1>4, <1>5, <2>4 DEF QueuedStarting
    <3> QED
      BY <3>1, LaunchGoesOn
  <2> QED
    BY <1>2, <2>1, <2>2, <2>3, <2>4
<1>6. CASE wk[w].t # t
  BY <1>2, <1>3, <1>6, StepGiven
<1> QED
  BY <1>5, <1>6

\* The worker of a queued task has said nothing.
QueuedSilent ==
  \A t \in Tasks : rows[t].status = "queued" =>
    /\ rows[t].cursor = 0
    /\ \A w \in Workers : wk[w].t = t => wk[w].sent = 0 /\ wk[w].ends = {}

\* A poll of a queued task reads nothing.
LEMMA QueuedReads ==
  ASSUME IInv, AllOwned, QueuedSilent, NEW t \in Tasks, rows[t].status = "queued", Reads(t)
  PROVE  rows'[t].cursor = 0
<1> TypeOK
  BY DEF IInv
<1>1. PICK a \in Actors : PollReads(a) /\ co[a].t = t /\ rows'[t].cursor = wk[co[a].w].sent
  BY DEF Reads
<1>2. co[a].w \in Workers /\ wk[co[a].w].t = t
  BY <1>1, Resumes DEF PollReads, OnWorker, AllOwned, Owned
<1> QED
  BY <1>1, <1>2 DEF QueuedSilent

LEMMA StepQueuedSilent ==
  ASSUME IInv, AllOwned, Stages, AgendaFresh, Unstarted, UnusedNew, QueuedStarting,
         QueuedSilent, Next
  PROVE  QueuedSilent'
<1> TypeOK /\ Owners
  BY DEF IInv
<1> SUFFICES ASSUME NEW t \in Tasks, rows'[t].status = "queued"
             PROVE  /\ rows'[t].cursor = 0
                    /\ \A w \in Workers : wk'[w].t = t => wk'[w].sent = 0 /\ wk'[w].ends = {}
  BY DEF QueuedSilent
<1>1. ASSUME NEW c \in Clients, Create(c, t)
      PROVE  /\ rows'[t].cursor = 0
             /\ \A w \in Workers : wk'[w].t # t
  <2>1. rows[t].status = "unborn" /\ wk' = wk /\ rows'[t] = NewRow("queued")
    BY <1>1 DEF Create, TypeOK
  <2> QED
    BY <2>1 DEF Unstarted, NewRow
<1>2. CASE rows[t].status = "queued" /\ \A c \in Clients : ~Create(c, t)
  <2>1. rows'[t].cursor = 0
    BY <1>2, StepCursor, QueuedReads DEF QueuedSilent
  <2>2. ASSUME NEW w \in Workers, wk'[w].t = t PROVE wk'[w].sent = 0 /\ wk'[w].ends = {}
    <3>1. wk[w].t = t \/ wk[w].st = "unused"
      BY <2>2, StepGiven DEF LaunchStarts, ResumeRestarts, RecoveryRestarts
    <3>2. wk[w].sent = 0 /\ wk[w].ends = {}
      BY <1>2, <3>1 DEF QueuedSilent, UnusedNew, Owners, UnusedSilent
    <3>3. ~WorkerEvent(w)
      <4>1. wk[w].st = "running" => Untold(w)
        BY <1>2, <3>1 DEF QueuedStarting, BusyStates, BringingUp, Untold
      <4> QED
        BY <4>1 DEF WorkerEvent
    <3> QED
      BY <3>2, <3>3, StepEvents
  <2> QED
    BY <2>1, <2>2
<1> QED
  BY <1>1, <1>2, StepCauses DEF RowStep

\* The cursor of a running task that was never restarted is behind every agent_end
\* of its worker; once it is orphaned that worker does not run, so it is not taken
\* up again without a second one.
CursorBehind ==
  \A t \in Tasks, w \in Workers : adapters[t] = w /\ OnlyWorker(t, w) =>
    /\ rows[t].status = "running" =>
         rows[t].cursor <= wk[w].sent /\ \A e \in wk[w].ends : e > rows[t].cursor
    /\ rows[t].status = "orphaned" => wk[w].st # "running"

LEMMA OnlyOnce ==
  ASSUME NEW t, NEW w, OnlyWorker(t, w)
  PROVE  ~Twice(t) /\ \A v : Owned(t, v) => v = w
  BY DEF OnlyWorker, Twice, Owned

\* While a task has had one worker only, that worker is registered by its launch,
\* before the task runs.
LEMMA OnlyBefore ==
  ASSUME IInv, UnusedNew, RestartsSecond, Next, NEW t \in Tasks, NEW w \in Workers,
         adapters'[t] = w, OnlyWorker(t, w)', rows'[t].status \in {"running", "orphaned"}
  PROVE  adapters[t] = w /\ OnlyWorker(t, w)
<1> TypeOK /\ Launches
  BY DEF IInv
<1>1. OnlyWorker(t, w)
  <2> SUFFICES ASSUME NEW v \in Workers, wk[v].t = t PROVE v = w
    BY DEF OnlyWorker
  <2>1. Owned(t, v)
    BY DEF Owned, UnusedNew
  <2> QED
    BY <2>1, StepCauses, StaysOwned DEF OwnedThen, OnlyWorker
<1>2. ASSUME NEW a \in Actors, NEW v \in Workers, LaunchStarts(a, v), co[a].t = t PROVE FALSE
  <2>1. rows[t].status \notin {"running", "orphaned"} /\ rows' = rows
    BY <1>2 DEF LaunchStarts, At, Launches, LaunchesFirst, Unprompted, Active
  <2> QED
    BY <2>1
<1> QED
  BY <1>1, <1>2, RegistersSecond, OnlyOnce

\* A poll that leaves its task running has seen no agent_end.
LEMMA ReadsNoEnd ==
  ASSUME IInv, AllOwned, NEW a \in Actors, PollReads(a), NEW t \in Tasks, co[a].t = t,
         rows[t].status = "running", NEW w \in Workers, OnlyWorker(t, w)
  PROVE  /\ co[a].w = w
         /\ rows'[t].status = "running" => ~SawAgentEnd(t, w)
         /\ rows'[t].status = "orphaned" => wk[w].st # "running"
<1> TypeOK
  BY DEF IInv
<1>1. co[a].w = w
  BY OnlyOnce, Resumes DEF PollReads, OnWorker, AllOwned
<1>2. rows'[t].status = Verdict(t, w)
  <2>1. rows' = Moved(WithCursor(rows, t, wk[w].sent), t, Verdict(t, w))
    BY <1>1 DEF PollReads
  <2>2. WithCursor(rows, t, wk[w].sent) \in [Tasks -> Row]
    BY WithCursorType DEF TypeOK, Worker
  <2> HIDE DEF Verdict
  <2> QED
    BY <2>1, <2>2, MovedStatus
<1> QED
  BY <1>1, <1>2 DEF Verdict, Active, Running

LEMMA StepCursorRunning ==
  ASSUME IInv, AllOwned, UnusedNew, RestartsSecond, QueuedSilent, CursorBehind, Next,
         NEW t \in Tasks, NEW w \in Workers, adapters'[t] = w, OnlyWorker(t, w)',
         rows'[t].status = "running"
  PROVE  rows'[t].cursor <= wk'[w].sent /\ \A e \in wk'[w].ends : e > rows'[t].cursor
<1> TypeOK /\ Owners /\ Launches /\ NoDecision
  BY DEF IInv
<1>0. rows[t].cursor \in Nat /\ wk[w].sent \in Nat /\ wk[w].ends \subseteq Nat
  BY DEF TypeOK, Row, Worker
<1>1. adapters[t] = w /\ OnlyWorker(t, w) /\ wk[w].t = t
  BY OnlyBefore DEF Owners, AdaptersOwned, Owned
<1>2. \A c \in Clients : ~Create(c, t)
  <2>1. \A c \in Clients : Create(c, t) => rows'[t].status = "queued"
    BY DEF Create, TypeOK, NewRow
  <2> QED
    BY <2>1
<1>3. ASSUME NEW a \in Actors, co[a].t = t, LaunchReady(a) PROVE rows[t].status = "queued"
  BY <1>3, TableMoves DEF LaunchReady, At, Launches, LaunchesFirst, Unprompted, Active
<1>4. ASSUME NEW a \in Actors, co[a].t = t, ResumeReady(a) PROVE FALSE
  BY <1>1, <1>4, OnlyOnce DEF ResumeReady, At, RestartsSecond, BringingUp
<1>5. ASSUME NEW c \in Clients, ResumeInPlace(c, t) PROVE rows[t].status = "running"
  <2>1. rows[t].status \in {"running", "orphaned"} /\ wk[w].st = "running"
    BY <1>1, <1>5 DEF ResumeInPlace, Running, Active, Resumable, NoDecision
  <2> QED
    BY <1>1, <2>1 DEF CursorBehind
<1>6. CASE rows[t].status = "queued"
  <2>1. rows[t].cursor = 0 /\ wk[w].sent = 0 /\ wk[w].ends = {}
    BY <1>1, <1>6 DEF QueuedSilent
  <2>2. rows'[t].cursor = 0
    BY <1>2, <1>6, <2>1, StepCursor, QueuedReads
  <2> QED
    BY <2>1, <2>2, StepEvents
<1>7. CASE rows[t].status = "running"
  <2>1. rows[t].cursor <= wk[w].sent /\ \A e \in wk[w].ends : e > rows[t].cursor
    BY <1>1, <1>7 DEF CursorBehind
  <2>2. CASE Reads(t)
    <3>1. PICK a \in Actors : PollReads(a) /\ co[a].t = t /\ rows'[t].cursor = wk[co[a].w].sent
      BY <2>2 DEF Reads
    <3>2. co[a].w = w /\ ~SawAgentEnd(t, w) /\ wk' = wk
      BY <1>1, <1>7, <3>1, ReadsNoEnd DEF PollReads
    <3>3. wk[w].ends = {}
      BY <2>1, <3>2 DEF SawAgentEnd
    <3> QED
      BY <1>0, <3>1, <3>2, <3>3
  <2>3. CASE rows'[t].cursor = rows[t].cursor
    BY <1>0, <2>1, <2>3, StepEvents
  <2> QED
    BY <1>2, <2>2, <2>3, StepCursor
<1> QED
  BY <1>3, <1>4, <1>5, <1>6, <1>7, StepCauses DEF RowStep, Runs

LEMMA StepCursorOrphaned ==
  ASSUME IInv, AllOwned, Stages, AgendaFresh, UnusedNew, RestartsSecond, LateSecond,
         CursorBehind, Next,
         NEW t \in Tasks, NEW w \in Workers, adapters'[t] = w, OnlyWorker(t, w)',
         rows'[t].status = "orphaned"
  PROVE  wk'[w].st # "running"
<1> TypeOK /\ Owners /\ Launches /\ NoDecision
  BY DEF IInv
<1>1. adapters[t] = w /\ OnlyWorker(t, w) /\ wk[w].t = t
  BY OnlyBefore DEF Owners, AdaptersOwned, Owned
<1>2. wk[w].st # "running"
  <2>1. CASE rows[t].status = "orphaned"
    BY <1>1, <2>1 DEF CursorBehind
  <2>2. CASE rows[t].status = "running"
    <3>1. ASSUME NEW a \in Actors, co[a].t = t, Continue(a) PROVE wk[w].st # "running"
      <4>1. CASE PollReads(a)
        BY <1>1, <2>2, <3>1, <4>1, ReadsNoEnd
      <4>2. ~PollFindsNoWorker(a)
        BY <1>1, <3>1 DEF PollFindsNoWorker
      <4>3. ~RecoveryGivesUp(a)
        BY <1>1, <3>1, OnlyOnce DEF RecoveryGivesUp, At, RestartsSecond
      <4>4. ASSUME FailLaunch(t) PROVE rows'[t].status # "orphaned"
        <5>1. rows' = rows \/ rows' = Moved(rows, t, "failed")
          BY <2>2, <4>4 DEF FailLaunch
        <5> QED
          BY <2>2, <5>1, MovedStatus DEF TypeOK
      <4>5. ~CancelSettles(a)
        <5>1. CancelSettles(a) => rows'[t].status \in {"cancelled", "running"}
          BY <2>2, <3>1, MovedStatus DEF CancelSettles, TypeOK
        <5> QED
          BY <5>1
      <4>6. ~LaunchReady(a) /\ ~ResumeReady(a)
        <5>1. ASSUME LaunchReady(a) \/ ResumeReady(a)
              PROVE  rows'[t].status \in {"running", rows[t].status}
          <6>1. PICK v \in Workers : v = co[a].w
            BY <5>1, Resumes DEF LaunchReady, ResumeReady, OnWorker
          <6>2. \/ rows' = Moved(WithProcess(rows, t, v), t, "running")
                \/ rows' = WithProcess(rows, t, v)
            BY <3>1, <5>1, <6>1 DEF LaunchReady, ResumeReady
          <6> QED
            BY <6>2, RecordedStatus, WithStatus DEF TypeOK
        <5> QED
          BY <2>2, <5>1
      <4>7. ~LaunchFails(a) /\ ~RecoveryReady(a)
        BY <2>2, <3>1, WithStatus DEF LaunchFails, RecoveryReady, TypeOK
      <4>8. ~DeleteRemoves(a)
        BY <2>2, <3>1, RemovedStatus DEF DeleteRemoves, TypeOK
      <4> QED
        BY <2>2, <3>1, <4>1, <4>2, <4>3, <4>4, <4>5, <4>6, <4>7, <4>8
           DEF Continue, PollFindsNothing, PollAsksState, PollLosesRow, Release, KillerReturns,
               LaunchStarts, LaunchRefused, LaunchFailed, ProcessStarts, LaunchDone,
               RestartLosesRow, RestartFails, Steered, SteerFails, DeleteTakesWorker,
               RecoverySteered, RecoverySteerFails
    <3>2. ASSUME NEW c \in Clients, CallTool(c, t) PROVE FALSE
      <4>1. \A s : rows' = Moved(rows, t, s) => s = "orphaned"
        BY MovedStatus DEF TypeOK
      <4> QED
        BY <2>2, <3>2, <4>1 DEF CallTool, Create, Poll, FollowUp, ResumeInPlace, ResumeRestarts,
                                CancelNow, CancelAborts, Delete
    <3>3. ~Recover(t)
      BY <1>1, NoneAssumption DEF Recover, RecoverySkips, RecoveryImpossible, RecoveryRestarts,
                                  Recovers, AgendaFresh
    <3>4. ~CloseRegistry
      BY <1>1, OnlyOnce, NoneAssumption DEF CloseRegistry, LateSecond
    <3>5. ~StopObserver /\ ~Purge(t)
      BY <2>2 DEF StopObserver, Purge, Terminal
    <3> QED
      BY <2>2, <3>1, <3>2, <3>3, <3>4, <3>5, StepTouches DEF Touches
  <2> QED
    BY <2>1, <2>2, StepCauses DEF StatusStep
<1>3. ASSUME NEW a \in Actors, ProcessStarts(a), co[a].w = w PROVE FALSE
  <2>1. co[a].t = t /\ rows' = rows
    BY <1>1, <1>3 DEF ProcessStarts, At, Owners, FramesOwned, OnWorker, Owned
  <2> QED
    BY <1>1, <1>3, <2>1, OnlyOnce
       DEF ProcessStarts, At, RestartsSecond, BringingUp, Launches, LaunchesFirst, Unprompted
<1> QED
  BY <1>2, <1>3, StepCauses DEF WorkerStep

LEMMA StepCursorBehind ==
  ASSUME IInv, AllOwned, Stages, AgendaFresh, UnusedNew, RestartsSecond, LateSecond,
         QueuedSilent, CursorBehind, Next
  PROVE  CursorBehind'
<1> SUFFICES ASSUME NEW t \in Tasks, NEW w \in Workers, adapters'[t] = w, OnlyWorker(t, w)'
             PROVE  /\ rows'[t].status = "running" =>
                         /\ rows'[t].cursor <= wk'[w].sent
                         /\ \A e \in wk'[w].ends : e > rows'[t].cursor
                    /\ rows'[t].status = "orphaned" => wk'[w].st # "running"
  BY DEF CursorBehind, OnlyWorker
<1> QED
  BY StepCursorRunning, StepCursorOrphaned
-------------------------------------------------------------------------------
(***************************************************************************)
(* The invariant, and what it gives.                                       *)
(***************************************************************************)
EInv ==
  /\ WInv
  /\ Unstarted /\ UnusedNew /\ RanOnWorker
  /\ RestartsSecond /\ RestartsLaunched /\ LateSecond
  /\ QueuedStarting /\ QueuedSilent /\ CursorBehind
  /\ StartingCreated
  /\ Told(Terminal)

\* The invariant under which nothing is missed: a queued task's worker has said
\* nothing, the cursor of a running task lies between what was read and the next
\* agent_end unless the task has had a second worker, and a task announced as
\* ended is over.
THEOREM EInvCorrect == Spec => []EInv
<1>1. Init => EInv
  <2> SUFFICES ASSUME Init PROVE EInv
    OBVIOUS
  <2>1. /\ \A a \in Actors : co[a].op = "idle"
        /\ \A w \in Workers : wk[w].st = "unused" /\ wk[w].t = None /\ wk[w].sent = 0
        /\ \A t \in Tasks : rows[t].status = "unborn" /\ adapters[t] = None
        /\ phase = "up" /\ notified = {}
    BY DEF Init, Idle, Call, NewRow
  <2>2. Unstarted /\ UnusedNew /\ RanOnWorker /\ LateSecond /\ Told(Terminal)
    BY <2>1 DEF Unstarted, Waiting, UnusedNew, RanOnWorker, LateSecond, Told
  <2>3. RestartsSecond /\ RestartsLaunched
    BY <2>1 DEF RestartsSecond, RestartsLaunched
  <2>4. QueuedStarting /\ QueuedSilent /\ CursorBehind
    BY <2>1 DEF QueuedStarting, QueuedSilent, CursorBehind
  <2>5. StartingCreated
    BY <2>1 DEF StartingCreated, Starter
  <2> QED
    BY <2>2, <2>3, <2>4, <2>5, InitWInv DEF EInv
<1>2. EInv /\ [Next]_vars => EInv'
  <2> SUFFICES ASSUME EInv, [Next]_vars PROVE EInv'
    OBVIOUS
  <2>1. CASE Next
    <3>1. IInv /\ AllOwned /\ Stages /\ AgendaFresh /\ WInv'
      BY <2>1, StepWInv DEF EInv, WInv
    <3>2. Unstarted' /\ UnusedNew' /\ RanOnWorker'
      BY <2>1, <3>1, StepUnstarted, StepUnusedNew, StepRanOnWorker DEF EInv
    <3>3. RestartsSecond' /\ RestartsLaunched' /\ LateSecond'
      BY <2>1, <3>1, StepRestartsSecond, StepRestartsLaunched, StepLateSecond DEF EInv
    <3>4. QueuedStarting' /\ QueuedSilent' /\ CursorBehind'
      BY <2>1, <3>1, StepQueuedStarting, StepQueuedSilent, StepCursorBehind DEF EInv
    <3>5. Told(Terminal)'
      BY <2>1, <3>1, StepTold, FinishedStays DEF EInv
    <3>6. StartingCreated'
      BY <2>1, <3>1, StepStartingCreated DEF EInv, WInv
    <3> QED
      BY <3>1, <3>2, <3>3, <3>4, <3>5, <3>6 DEF EInv
  <2>2. CASE UNCHANGED vars
    <3>1. WInv'
      BY <2>2, SameWInv DEF EInv
    <3>2. Unstarted' /\ UnusedNew' /\ RanOnWorker' /\ LateSecond' /\ Told(Terminal)'
      BY <2>2 DEF vars, sys, EInv, Unstarted, Waiting, UnusedNew, RanOnWorker, LateSecond,
                  Twice, Owned, Told
    <3>3. RestartsSecond' /\ RestartsLaunched'
      BY <2>2 DEF vars, EInv, RestartsSecond, RestartsLaunched, Twice, Owned
    <3>4. QueuedStarting' /\ QueuedSilent' /\ CursorBehind'
      BY <2>2 DEF vars, EInv, QueuedStarting, QueuedSilent, CursorBehind, OnlyWorker
    <3>5. StartingCreated'
      BY <2>2 DEF vars, EInv, StartingCreated, Starter
    <3> QED
      BY <3>1, <3>2, <3>3, <3>4, <3>5 DEF EInv
  <2> QED
    BY <2>1, <2>2
<1> QED
  BY <1>1, <1>2, PTL DEF Spec

\* Whatever polls, calls, unloading and crashes interleave, the cursor of a running
\* task that was never restarted does not move past an agent_end of its worker: the
\* signal is still ahead (_observe_task reads the cursor before get_state and stores
\* the last one drained after it).
THEOREM EndsStayAhead == Spec => []NoEndSkipped
<1>1. EInv => NoEndSkipped
  BY DEF EInv, CursorBehind, NoEndSkipped
<1> QED
  BY <1>1, EInvCorrect, PTL

\* The step that completes, fails or cancels a task hands it to the notification
\* callback, and no step before did: with resumes, recoveries and reloads too,
\* unloading's own failing of queued tasks apart (_notify_terminal_task, called by
\* _launch, _observe_task, cancel and recover_existing_tasks).
THEOREM FinishesAnnounced == Spec => FinishAnnounced
<1> DEFINE A == \A t \in Tasks :
                  phase' = phase /\ rows[t].status \notin Terminal /\ rows'[t].status \in Terminal =>
                    <<t, rows'[t].status>> \in notified' \ notified
<1>1. EInv /\ [Next]_vars => [A]_vars
  <2> SUFFICES ASSUME EInv, Next, NEW t \in Tasks, phase' = phase,
                      rows[t].status \notin Terminal, rows'[t].status \in Terminal
               PROVE  <<t, rows'[t].status>> \in notified' \ notified
    OBVIOUS
  <2>1. IInv /\ Stages /\ AgendaFresh
    BY DEF EInv, WInv
  <2>2. Settles(t) /\ rows'[t].status # "orphaned" /\ rows[t].status # "deleted"
    BY <2>1, StepCauses DEF Settles, Resting, Terminal, StatusStep, Statuses
  <2>3. Tells(t)
    BY <2>1, <2>2, SettlingTells
  <2>4. <<t, rows'[t].status>> \notin notified
    BY <2>2 DEF EInv, Told
  <2> QED
    BY <2>3, <2>4 DEF Tells, Announced
<1> QED
  BY <1>1, EInvCorrect, PTL DEF Spec, FinishAnnounced

\* While nobody resumes, the step that completes, fails, cancels or orphans a task
\* hands it to the notification callback, and none before did, in a plugin that is
\* not being unloaded and has a slot for the task it recovers.
THEOREM EndsAnnounced ==
  ASSUME "resume" \notin Offered
  PROVE  Spec => EndAnnounced
<1> DEFINE TInv == SInv /\ Told(Resting)
           A == \A t \in Tasks :
                  /\ phase' = phase /\ (agenda' = agenda \/ RecoveryHasSlot)
                  /\ rows[t].status \notin Resting /\ rows'[t].status \in Resting
                  => <<t, rows'[t].status>> \in notified' \ notified
<1>1. Init => TInv
  BY InitSInv DEF Init, Told
<1>2. TInv /\ [Next]_vars => TInv'
  <2> SUFFICES ASSUME TInv, [Next]_vars PROVE TInv'
    OBVIOUS
  <2>1. CASE Next
    BY <2>1, StepSInv, StepTold, SettledStays DEF SInv, WInv
  <2>2. CASE UNCHANGED vars
    BY <2>2, SameSInv DEF vars, Told
  <2> QED
    BY <2>1, <2>2
<1>3. TInv /\ [Next]_vars => [A]_vars
  <2> SUFFICES ASSUME TInv, Next, NEW t \in Tasks, phase' = phase,
                      agenda' = agenda \/ RecoveryHasSlot,
                      rows[t].status \notin Resting, rows'[t].status \in Resting
               PROVE  <<t, rows'[t].status>> \in notified' \ notified
    OBVIOUS
  <2>1. IInv /\ Stages /\ AgendaFresh
    BY DEF SInv, WInv
  <2>2. Settles(t) /\ rows[t].status # "deleted"
    BY <2>1, StepCauses DEF Settles, Resting, Terminal, StatusStep, Statuses
  <2>3. Tells(t)
    BY <2>1, <2>2, SettlingTells
  <2>4. <<t, rows'[t].status>> \notin notified
    BY <2>2 DEF Told
  <2> QED
    BY <2>3, <2>4 DEF Tells, Announced
<1> QED
  BY <1>1, <1>2, <1>3, PTL DEF Spec, EndAnnounced
-------------------------------------------------------------------------------
(***************************************************************************)
(* The contract of PiWorker, on the side of those who use the workers.     *)
(***************************************************************************)
\* What the contract sees of a worker.
Stand(w) == IF wk[w].st \in {"unused", "created"} THEN "new"
            ELSE IF wk[w].st = "stray" THEN "gone" ELSE wk[w].st

StandThen(w) == IF wk'[w].st \in {"unused", "created"} THEN "new"
                ELSE IF wk'[w].st = "stray" THEN "gone" ELSE wk'[w].st

\* A worker keeps its stand or moves on, never back.
Onward(w) ==
  \/ StandThen(w) = Stand(w)
  \/ Stand(w) = "new" /\ StandThen(w) \in {"running", "gone"}
  \/ Stand(w) = "running" /\ StandThen(w) \in {"closing", "gone"}
  \/ Stand(w) = "closing" /\ StandThen(w) = "gone"

LEMMA StepOnward ==
  ASSUME TypeOK, StartingCreated, Next, NEW w \in Workers
  PROVE  Onward(w)
<1> USE DEF Onward, Stand, StandThen
<1>1. ASSUME UNCHANGED wk \/ \E W : wk' = Closed(W) PROVE Onward(w)
  BY <1>1 DEF Closed, TypeOK, Worker
<1>2. ASSUME NEW v \in Workers, NEW t, wk' = Started(v, t), wk[v].st = "unused" PROVE Onward(w)
  BY <1>2 DEF Started, TypeOK, Worker
<1>3. ASSUME NEW a \in Actors, ProcessStarts(a) PROVE Onward(w)
  <2>1. wk[co[a].w].st = "created"
    BY <1>3 DEF ProcessStarts, At, StartingCreated, Starter
  <2>2. wk'[w].st = IF w = co[a].w THEN "running" ELSE wk[w].st
    BY <1>3 DEF ProcessStarts, TypeOK, Worker
  <2> QED
    BY <2>1, <2>2
<1>4. ASSUME NEW v \in Workers, WorkerEvent(v) \/ WorkerEnds(v) PROVE Onward(w)
  BY <1>4 DEF WorkerEvent, WorkerEnds, TypeOK, Worker, WorkerStates
<1>5. ASSUME Load \/ Crash PROVE Onward(w)
  BY <1>5 DEF Load, Crash, TypeOK, Worker, WorkerStates
<1>6. ASSUME NEW a \in Actors, Continue(a), ~ProcessStarts(a) PROVE Onward(w)
  <2> HIDE DEF Onward
  <2> QED
    BY <1>1, <1>2, <1>6
     DEF Continue, PollFindsNothing, PollFindsNoWorker, PollAsksState, PollReads,
         PollLosesRow, Release, KillerReturns, LaunchStarts, LaunchRefused, LaunchReady,
         LaunchDone, LaunchFails, LaunchFailed, ResumeReady, RestartLosesRow, RestartFails,
         Steered, SteerFails, CancelSettles, DeleteTakesWorker, DeleteRemoves, RecoveryReady,
         RecoverySteered, RecoverySteerFails, RecoveryGivesUp
<1> HIDE DEF Onward
<1> QED
  BY <1>1, <1>2, <1>3, <1>4, <1>5, <1>6, ZenonT(60)
     DEF Next, CallTool, Create, Poll, FollowUp, ResumeInPlace, ResumeRestarts, CancelNow,
         CancelAborts, Delete, ObserverCycle, Purge, Unload, StopService, StopObserver,
         StopWorkers, CloseRegistry, Recover, RecoverySkips, RecoveryImpossible,
         RecoveryRestarts, Publish

\* Launches, restarts, deletes, shutdowns, crashes and recoveries keep the contract
\* of the workers they share: none is started twice, or after another coroutine has
\* terminated it while its process was being spawned (submit and delete do both under
\* the submit lock, and resume registers a worker only after its handshake).
THEOREM ContractKept == Spec => KeepsContract
<1>1. Init => Adapter!Init
  BY DEF Init, Adapter!Init
<1>2. EInv /\ [Next]_vars => [Adapter!Next]_(Adapter!vars)
  <2>1. ASSUME EInv, Next PROVE Adapter!Next
    <3>1. TypeOK /\ StartingCreated
      BY <2>1 DEF EInv, WInv, IInv
    <3>2. ASSUME NEW w \in Workers
          PROVE  \/ /\ StandThen(w) = Stand(w)
                    /\ wk'[w].sent = wk[w].sent /\ wk'[w].ends = wk[w].ends
                 \/ Adapter!Move(w)
      <4>1. CASE wk'[w].sent = wk[w].sent /\ wk'[w].ends = wk[w].ends
        BY <2>1, <3>1, <4>1, StepOnward
        DEF Onward, Stand, StandThen, Adapter!Move, Adapter!Starts, Adapter!Closes,
            Adapter!Ends, Adapter!Goes, Adapter!Silent
      <4>2. CASE /\ wk[w].st = "running" /\ wk'[w].st = "running"
                 /\ wk'[w].sent = wk[w].sent + 1
                 /\ wk'[w].ends \in {wk[w].ends, wk[w].ends \cup {wk[w].sent + 1}}
        BY <4>2 DEF Adapter!Move, Adapter!Records
      <4> QED
        BY <2>1, <3>1, <4>1, <4>2, StepEvents
    <3> QED
      BY <3>2 DEF Adapter!Next, Adapter!Silent, Stand, StandThen
  <2>2. ASSUME UNCHANGED vars PROVE UNCHANGED Adapter!vars
    BY <2>2 DEF vars, Adapter!vars
  <2> QED
    BY <2>1, <2>2
<1> QED
  BY <1>1, <1>2, EInvCorrect, PTL DEF Spec, KeepsContract, Adapter!Spec
===============================================================================

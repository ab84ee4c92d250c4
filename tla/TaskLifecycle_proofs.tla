-------------------------- MODULE TaskLifecycle_proofs --------------------------
(***************************************************************************)
(* TaskScheduler implements TaskLifecycle, for every value of its          *)
(* constants, and what follows from that for the rows it keeps.            *)
(*                                                                         *)
(* The step simulation needs three facts that no single handler checks:    *)
(* the worker a coroutine or the adapter table holds belongs to the task   *)
(* it is held for (Owners); nobody but its one launch takes a task out of  *)
(* queued (Launches); and no row ever asks for a decision (NoDecision).    *)
(***************************************************************************)
EXTENDS TaskScheduler_proofs

USE NoneAssumption, ClientsAssumption
-------------------------------------------------------------------------------
(***************************************************************************)
(* The inductive invariant.                                                *)
(***************************************************************************)
Owned(t, w) == w \in Workers /\ wk[w].st # "unused" /\ wk[w].t = t

UnusedSilent == \A w \in Workers : wk[w].st = "unused" => wk[w].ends = {}

AdaptersOwned == \A t \in Tasks : adapters[t] # None => Owned(t, adapters[t])

FramesOwned == \A a \in Actors : co[a].at \in OnWorker => Owned(co[a].t, co[a].w)

Owners == UnusedSilent /\ AdaptersOwned /\ FramesOwned

\* A launch that has not reached its prompt yet.
Unprompted == {"submit_lock", "starting", "handshake"}

LaunchesOnce ==
  \A a, b \in Actors :
    co[a].op = "launch" /\ co[b].op = "launch" /\ co[a].t = co[b].t => a = b

LaunchesFirst ==
  \A a \in Actors : co[a].op = "launch" =>
    /\ rows[co[a].t].status # "unborn"
    /\ co[a].at \in Unprompted =>
         rows[co[a].t].status \notin Active \cup {"orphaned"}

Launches == LaunchesOnce /\ LaunchesFirst

NoDecision == \A t \in Tasks : rows[t].status # "needs_user_decision"

IInv == TypeOK /\ Owners /\ Launches /\ NoDecision
-------------------------------------------------------------------------------
(***************************************************************************)
(* Workers keep their task for good.                                       *)
(***************************************************************************)
\* What a step does to the workers: one that belongs to a task stays with it,
\* and what it signalled stays signalled.
OwnersKept ==
  \A w \in Workers :
    /\ wk[w].ends \subseteq wk'[w].ends
    /\ wk[w].st # "unused" => wk'[w].st # "unused" /\ wk'[w].t = wk[w].t

WorkersKept == OwnersKept /\ UnusedSilent'

LEMMA SameKeeps ==
  ASSUME Owners, UNCHANGED wk
  PROVE  WorkersKept
  BY DEF WorkersKept, OwnersKept, Owners, UnusedSilent

LEMMA ClosedKeeps ==
  ASSUME TypeOK, Owners, NEW W, wk' = Closed(W)
  PROVE  WorkersKept
<1>1. \A w \in Workers :
        /\ wk'[w].t = wk[w].t
        /\ wk'[w].ends = wk[w].ends
        /\ wk'[w].st = "unused" <=> wk[w].st = "unused"
  BY DEF Closed, TypeOK, Worker
<1> QED
  BY <1>1 DEF WorkersKept, OwnersKept, Owners, UnusedSilent

LEMMA StartedKeeps ==
  ASSUME TypeOK, Owners, NEW w \in Workers, NEW t \in Tasks,
         wk[w].st = "unused", wk' = Started(w, t)
  PROVE  WorkersKept /\ Owned(t, w)'
<1>1. wk'[w].st = "created" /\ wk'[w].t = t /\ wk'[w].ends = wk[w].ends
  BY DEF Started, TypeOK, Worker
<1>2. \A v \in Workers \ {w} : wk'[v] = wk[v]
  BY DEF Started, TypeOK
<1> QED
  BY <1>1, <1>2 DEF WorkersKept, OwnersKept, Owners, UnusedSilent, Owned

LEMMA OwnedKept ==
  ASSUME WorkersKept, NEW t, NEW w, Owned(t, w)
  PROVE  Owned(t, w)'
  BY DEF WorkersKept, OwnersKept, Owned

\* A step that registers nothing new keeps the adapter table right.
LEMMA AdaptersKept ==
  ASSUME Owners, WorkersKept, \A t \in Tasks : adapters'[t] \in {None, adapters[t]}
  PROVE  AdaptersOwned'
  BY OwnedKept DEF Owners, AdaptersOwned

LEMMA AdapterSet ==
  ASSUME TypeOK, Owners, WorkersKept, NEW t \in Tasks, NEW w, Owned(t, w)',
         adapters' = [adapters EXCEPT ![t] = w]
  PROVE  AdaptersOwned'
<1>1. \A u \in Tasks : adapters'[u] = IF u = t THEN w ELSE adapters[u]
  BY DEF TypeOK
<1> QED
  BY <1>1, OwnedKept DEF Owners, AdaptersOwned

\* Frames that wait for no worker, or for the worker they waited for before.
LEMMA FramesKept ==
  ASSUME TypeOK, Owners, WorkersKept,
         \A a \in Actors : co'[a].at \in OnWorker => co'[a] = co[a]
  PROVE  FramesOwned'
  BY OwnedKept DEF Owners, FramesOwned

LEMMA FrameSet ==
  ASSUME TypeOK, Owners, WorkersKept, NEW a \in Actors,
         (co[a].at \in OnWorker => Owned(co[a].t, co[a].w))',
         \A b \in Actors \ {a} : co'[b] = co[b]
  PROVE  FramesOwned'
  BY OwnedKept DEF Owners, FramesOwned

LEMMA GotoOwned ==
  ASSUME TypeOK, Owners, WorkersKept, NEW a \in Actors, NEW at, Goto(a, at),
         at \in OnWorker => co[a].at \in OnWorker
  PROVE  FramesOwned'
<1>1. co'[a].at = at /\ co'[a].t = co[a].t /\ co'[a].w = co[a].w
  BY DEF Goto, TypeOK, Frame
<1>2. \A b \in Actors \ {a} : co'[b] = co[b]
  BY DEF Goto, TypeOK
<1>3. co[a].at \in OnWorker => Owned(co[a].t, co[a].w)
  BY DEF Owners, FramesOwned
<1>4. (co[a].at \in OnWorker => Owned(co[a].t, co[a].w))'
  BY <1>1, <1>3, OwnedKept
<1> QED
  BY <1>2, <1>4, FrameSet

\* A coroutine that goes on to a step which waits for no worker.
LEMMA RestOwned ==
  ASSUME TypeOK, Owners, WorkersKept, NEW a \in Actors, NEW f,
         co' = [co EXCEPT ![a] = f], f.at \notin OnWorker
  PROVE  FramesOwned'
<1>1. co'[a] = f /\ \A b \in Actors \ {a} : co'[b] = co[b]
  BY DEF TypeOK
<1> QED
  BY <1>1, FrameSet

LEMMA ReturnOwned ==
  ASSUME TypeOK, Owners, WorkersKept, NEW a \in Actors, Return(a)
  PROVE  FramesOwned'
<1>1. Idle.at \notin OnWorker
  BY DEF Idle, Call, OnWorker
<1> QED
  BY <1>1, RestOwned DEF Return

\* A coroutine that starts, or goes on, to wait for a worker of its task.
LEMMA HoldOwned ==
  ASSUME TypeOK, Owners, WorkersKept, NEW a \in Actors, NEW f,
         co' = [co EXCEPT ![a] = f], Owned(f.t, f.w)'
  PROVE  FramesOwned'
<1>1. co'[a] = f /\ \A b \in Actors \ {a} : co'[b] = co[b]
  BY DEF TypeOK
<1> QED
  BY <1>1, FrameSet

\* The frame of a coroutine that is given a worker on the way.
LEMMA GotoOnFrame ==
  ASSUME TypeOK, NEW a \in Actors, NEW at, NEW w, GotoOn(a, at, w)
  PROVE  \E f : /\ co' = [co EXCEPT ![a] = f]
                /\ f.at = at /\ f.w = w /\ f.t = co[a].t /\ f.op = co[a].op
<1> DEFINE f == [co[a] EXCEPT !.at = at, !.w = w]
<1>1. co' = [co EXCEPT ![a] = f]
  BY DEF TypeOK, Frame, GotoOn
<1>2. f.at = at /\ f.w = w /\ f.t = co[a].t /\ f.op = co[a].op
  BY DEF TypeOK, Frame
<1> QED
  BY <1>1, <1>2
-------------------------------------------------------------------------------
(***************************************************************************)
(* Every step keeps the workers with their tasks: one step per kind of     *)
(* action.                                                                 *)
(***************************************************************************)
\* The coroutine ends, or goes to wait for something else than a worker, with
\* the workers and the adapter table as they were.
LEMMA QuietOwners ==
  ASSUME TypeOK, Owners, NEW a \in Actors, UNCHANGED <<adapters, wk>>,
         Return(a) \/ \E at \in Awaits : /\ Goto(a, at)
                                         /\ at \in OnWorker => co[a].at \in OnWorker
  PROVE  Owners' /\ WorkersKept
<1>1. WorkersKept
  BY SameKeeps
<1>2. AdaptersOwned'
  BY <1>1, AdaptersKept
<1>3. FramesOwned'
  BY <1>1, ReturnOwned, GotoOwned
<1> QED
  BY <1>1, <1>2, <1>3 DEF Owners, WorkersKept

\* The coroutine drops its worker and goes to wait for the end of it.
LEMMA DropOwners ==
  ASSUME TypeOK, Owners, NEW a \in Actors, NEW W, wk' = Closed(W),
         \A t \in Tasks : adapters'[t] \in {None, adapters[t]},
         Goto(a, "killing") \/ \E w : GotoOn(a, "killing", w)
  PROVE  Owners' /\ WorkersKept
<1>1. WorkersKept
  BY ClosedKeeps
<1>2. AdaptersOwned'
  BY <1>1, AdaptersKept
<1>3. FramesOwned'
  <2>1. CASE Goto(a, "killing")
    BY <1>1, <2>1, GotoOwned DEF OnWorker
  <2>2. CASE \E w : GotoOn(a, "killing", w)
    <3>1. PICK f : co' = [co EXCEPT ![a] = f] /\ f.at = "killing"
      BY <2>2, GotoOnFrame
    <3> QED
      BY <1>1, <3>1, RestOwned DEF OnWorker
  <2> QED
    BY <2>1, <2>2
<1> QED
  BY <1>1, <1>2, <1>3 DEF Owners, WorkersKept

LEMMA ContinueOwners ==
  ASSUME TypeOK, Owners, NEW a \in Actors, Continue(a)
  PROVE  Owners' /\ WorkersKept
<1> DEFINE t == co[a].t
           w == co[a].w
<1>1. CASE Return(a) /\ UNCHANGED <<adapters, wk>>
  BY <1>1, QuietOwners
<1>2. CASE PollReads(a) \/ LaunchReady(a)
  BY <1>2, QuietOwners DEF PollReads, LaunchReady, At, Awaits, OnWorker
<1>3. CASE Release(a)
  <2>1. CASE adapters[t] = w
    <3>1. \A u \in Tasks : adapters'[u] \in {None, adapters[u]}
      BY <1>3, <2>1 DEF Release, TypeOK
    <3> QED
      BY <1>3, <2>1, <3>1, DropOwners DEF Release
  <2>2. CASE adapters[t] # w
    <3>1. PICK f : co' = [co EXCEPT ![a] = f] /\ f.at = "killing"
      BY <1>3, <2>2, GotoOnFrame DEF Release
    <3>2. WorkersKept /\ AdaptersOwned'
      BY <1>3, <2>2, SameKeeps, AdaptersKept DEF Release
    <3>3. FramesOwned'
      BY <3>1, <3>2, RestOwned DEF OnWorker
    <3> QED
      BY <3>2, <3>3 DEF Owners, WorkersKept
  <2> QED
    BY <2>1, <2>2
<1>4. CASE LaunchFails(a) \/ RestartFails(a) \/ RecoverySteerFails(a)
  <2>1. \A u \in Tasks : adapters'[u] \in {None, adapters[u]}
    BY <1>4 DEF LaunchFails, RestartFails, RecoverySteerFails, TypeOK
  <2>2. wk' = Closed({w}) /\ Goto(a, "killing")
    BY <1>4 DEF LaunchFails, RestartFails, RecoverySteerFails
  <2> QED
    BY <2>1, <2>2, DropOwners
<1>5. CASE DeleteTakesWorker(a)
  <2>1. \A u \in Tasks : adapters'[u] \in {None, adapters[u]}
    BY <1>5 DEF DeleteTakesWorker, TypeOK
  <2> QED
    BY <1>5, <2>1, DropOwners DEF DeleteTakesWorker
<1>6. CASE RestartLosesRow(a)
  <2>1. t \in Tasks /\ Owned(t, w)
    BY <1>6, Resumes DEF RestartLosesRow, At, OnWorker, Owners, FramesOwned
  <2>2. WorkersKept
    BY <1>6, ClosedKeeps DEF RestartLosesRow
  <2>3. AdaptersOwned'
    BY <1>6, <2>1, <2>2, OwnedKept, AdapterSet DEF RestartLosesRow
  <2>4. FramesOwned'
    BY <1>6, <2>2, GotoOwned DEF RestartLosesRow, OnWorker
  <2> QED
    BY <2>2, <2>3, <2>4 DEF Owners, WorkersKept
<1>7. CASE ResumeReady(a) \/ RecoveryReady(a)
  <2>1. t \in Tasks /\ Owned(t, w)
    BY <1>7, Resumes DEF ResumeReady, RecoveryReady, At, OnWorker, Owners, FramesOwned
  <2>2. WorkersKept
    BY <1>7, SameKeeps DEF ResumeReady, RecoveryReady
  <2>3. adapters' = [adapters EXCEPT ![t] = w]
    BY <1>7 DEF ResumeReady, RecoveryReady
  <2>4. AdaptersOwned'
    BY <2>1, <2>2, <2>3, OwnedKept, AdapterSet
  <2>5. Return(a) \/ (Goto(a, "steering") /\ co[a].at = "handshake")
    BY <1>7 DEF ResumeReady, RecoveryReady, At
  <2>6. FramesOwned'
    BY <2>2, <2>5, ReturnOwned, GotoOwned DEF OnWorker
  <2> QED
    BY <2>2, <2>4, <2>6 DEF Owners, WorkersKept
<1>8. CASE ProcessStarts(a)
  <2>1. Owned(t, w) /\ co[a].at = "starting"
    BY <1>8 DEF ProcessStarts, At, OnWorker, Owners, FramesOwned
  <2>2. WorkersKept
    BY <1>8, <2>1 DEF ProcessStarts, WorkersKept, OwnersKept, Owners, UnusedSilent,
                      Owned, TypeOK, Worker
  <2>3. AdaptersOwned'
    BY <1>8, <2>2, AdaptersKept DEF ProcessStarts
  <2>4. FramesOwned'
    BY <1>8, <2>1, <2>2, GotoOwned DEF ProcessStarts, OnWorker
  <2> QED
    BY <2>2, <2>3, <2>4 DEF Owners, WorkersKept
<1>9. CASE PollAsksState(a)
  <2>1. t \in Tasks /\ Owned(t, adapters[t])
    BY <1>9, Resumes DEF PollAsksState, Owners, AdaptersOwned
  <2>2. WorkersKept /\ AdaptersOwned'
    BY <1>9, SameKeeps, AdaptersKept DEF PollAsksState
  <2>3. PICK f : co' = [co EXCEPT ![a] = f] /\ f.t = t /\ f.w = adapters[t]
    BY <1>9, GotoOnFrame DEF PollAsksState
  <2>4. FramesOwned'
    BY <2>1, <2>2, <2>3, OwnedKept, HoldOwned
  <2> QED
    BY <2>2, <2>4 DEF Owners, WorkersKept
<1>10. CASE Steered(a)
  <2>1. WorkersKept /\ AdaptersOwned'
    BY <1>10, SameKeeps, AdaptersKept DEF Steered
  <2>2. PollCall(t).at \notin OnWorker
    BY DEF PollCall, Call, OnWorker
  <2>3. FramesOwned'
    BY <1>10, <2>1, <2>2, RestOwned DEF Steered
  <2> QED
    BY <2>1, <2>3 DEF Owners, WorkersKept
<1>11. CASE \E v \in Workers : LaunchStarts(a, v)
  <2>0. PICK v \in Workers : LaunchStarts(a, v)
    BY <1>11
  <2>1. PICK u \in Tasks : u = co[a].t
    BY <2>0, Resumes DEF LaunchStarts
  <2>2. WorkersKept /\ Owned(u, v)'
    BY <2>0, <2>1, StartedKeeps DEF LaunchStarts
  <2>3. AdaptersOwned'
    BY <2>0, <2>1, <2>2, AdapterSet DEF LaunchStarts
  <2>4. PICK f : co' = [co EXCEPT ![a] = f] /\ f.t = u /\ f.w = v
    BY <2>0, <2>1, GotoOnFrame DEF LaunchStarts
  <2>5. FramesOwned'
    BY <2>2, <2>4, HoldOwned
  <2> QED
    BY <2>2, <2>3, <2>5 DEF Owners, WorkersKept
<1> QED
  <2>1. PollFindsNothing(a) \/ PollFindsNoWorker(a) \/ PollLosesRow(a) \/ KillerReturns(a)
        \/ LaunchRefused(a) \/ LaunchDone(a) \/ LaunchFailed(a) \/ SteerFails(a)
        \/ CancelSettles(a) \/ DeleteRemoves(a) \/ RecoverySteered(a) \/ RecoveryGivesUp(a)
          => Return(a) /\ UNCHANGED <<adapters, wk>>
    BY DEF PollFindsNothing, PollFindsNoWorker, PollLosesRow, KillerReturns, LaunchRefused,
           LaunchDone, LaunchFailed, SteerFails, CancelSettles, DeleteRemoves,
           RecoverySteered, RecoveryGivesUp
  <2> QED
    BY <1>1, <1>2, <1>3, <1>4, <1>5, <1>6, <1>7, <1>8, <1>9, <1>10, <1>11, <2>1 DEF Continue

\* A call begins: it waits for no worker, or for one of its task.
LEMMA CallOwned ==
  ASSUME TypeOK, Owners, WorkersKept, NEW c \in Actors,
         NEW op, NEW at, NEW t, NEW w, NEW seen,
         co' = [co EXCEPT ![c] = Call(op, at, t, w, seen)],
         at \notin OnWorker \/ Owned(t, w)'
  PROVE  FramesOwned'
<1> DEFINE f == Call(op, at, t, w, seen)
<1>1. f.at = at /\ f.t = t /\ f.w = w
  BY DEF Call
<1>2. co' = [co EXCEPT ![c] = f]
  OBVIOUS
<1> HIDE DEF f
<1> QED
  BY <1>1, <1>2, RestOwned, HoldOwned

LEMMA CallToolOwners ==
  ASSUME TypeOK, Owners, NEW c \in Clients, NEW t \in Tasks, CallTool(c, t)
  PROVE  Owners' /\ WorkersKept
<1> c \in Actors
  BY DEF Actors
<1>1. CASE UNCHANGED <<adapters, wk>>
  <2>1. WorkersKept /\ AdaptersOwned'
    BY <1>1, SameKeeps, AdaptersKept
  <2>2. CASE Create(c, t) \/ Poll(c, t) \/ CancelAborts(c, t) \/ Delete(c, t)
    <3>1. FramesOwned'
      BY <2>1, <2>2, CallOwned DEF Create, Poll, PollCall, CancelAborts, Delete, OnWorker
    <3> QED
      BY <2>1, <3>1 DEF Owners, WorkersKept
  <2>3. CASE CancelNow(c, t)
    BY <2>1, <2>3, FramesKept DEF CancelNow, Owners, WorkersKept
  <2>4. CASE FollowUp(c, t) \/ ResumeInPlace(c, t)
    <3>1. adapters[t] # None
      BY <2>4, RunningType DEF FollowUp, ResumeInPlace
    <3>2. PICK w : w = adapters[t] /\ Owned(t, w)'
      BY <2>1, <3>1, OwnedKept DEF Owners, AdaptersOwned
    <3>3. FramesOwned'
      BY <2>1, <2>4, <3>2, CallOwned DEF FollowUp, ResumeInPlace
    <3> QED
      BY <2>1, <3>3 DEF Owners, WorkersKept
  <2>5. CASE \E w \in Workers : ResumeRestarts(c, t, w)
    <3>1. PICK w \in Workers : wk[w].st = "unused" /\ wk' = Started(w, t)
      BY <2>5 DEF ResumeRestarts
    <3>2. Owned(t, w)' /\ wk' = wk
      BY <1>1, <3>1, StartedKeeps
    <3> QED
      BY <3>1, <3>2 DEF Owned
  <2> QED
    BY <2>2, <2>3, <2>4, <2>5 DEF CallTool
<1>2. CASE \E w \in Workers : ResumeRestarts(c, t, w)
  <2>0. PICK w \in Workers : ResumeRestarts(c, t, w)
    BY <1>2
  <2>1. WorkersKept /\ Owned(t, w)'
    BY <2>0, StartedKeeps DEF ResumeRestarts
  <2>2. AdaptersOwned'
    BY <2>0, <2>1, AdaptersKept DEF ResumeRestarts
  <2>3. FramesOwned'
    BY <2>0, <2>1, CallOwned DEF ResumeRestarts
  <2> QED
    BY <2>1, <2>2, <2>3 DEF Owners, WorkersKept
<1> QED
  BY <1>1, <1>2 DEF CallTool, Create, Poll, FollowUp, ResumeInPlace, CancelNow,
                    CancelAborts, Delete

LEMMA SystemOwners ==
  ASSUME TypeOK, Owners, ObserverCycle \/ (\E t \in Tasks : Purge(t)) \/ Unload \/ Publish
  PROVE  Owners' /\ WorkersKept
<1>1. WorkersKept
  BY SameKeeps, ClosedKeeps DEF ObserverCycle, Purge, Unload, StopService, StopObserver,
                                StopWorkers, CloseRegistry, Publish
<1>2. \A t \in Tasks : adapters'[t] \in {None, adapters[t]}
  BY DEF ObserverCycle, Purge, Unload, StopService, StopObserver, StopWorkers,
         CloseRegistry, Publish, TypeOK
<1>3. AdaptersOwned'
  BY <1>1, <1>2, AdaptersKept
<1>4. \A a \in Actors : co'[a].at \in OnWorker => co'[a] = co[a]
  <2>1. CASE ObserverCycle
    <3>1. \A a \in Actors : co'[a] = co[a] \/ co'[a].at = "obs_lock"
      BY <2>1 DEF ObserverCycle, PollCall, Call
    <3> QED
      BY <3>1 DEF OnWorker
  <2>2. CASE StopService
    <3>1. \A a \in Actors : \/ co'[a] = co[a]
                            \/ co'[a] = Idle
                            \/ co'[a].at = "killing"
      BY <2>2 DEF StopService, TypeOK, Frame
    <3> QED
      BY <3>1 DEF OnWorker, Idle, Call
  <2>3. CASE StopObserver
    <3>1. \A a \in Actors : co'[a] = co[a] \/ co'[a] = Idle
      BY <2>3 DEF StopObserver
    <3> QED
      BY <3>1 DEF OnWorker, Idle, Call
  <2>4. CASE UNCHANGED co
    BY <2>4
  <2> QED
    BY <2>1, <2>2, <2>3, <2>4 DEF Purge, Unload, StopWorkers, CloseRegistry, Publish
<1>5. FramesOwned'
  BY <1>1, <1>4, FramesKept
<1> QED
  BY <1>1, <1>3, <1>5 DEF Owners, WorkersKept

LEMMA RestartOwners ==
  ASSUME TypeOK, Owners, Crash \/ Load \/ \E t \in Tasks : Recover(t)
  PROVE  Owners' /\ WorkersKept
<1>1. CASE Crash \/ Load
  <2>1. \A w \in Workers : /\ wk'[w].t = wk[w].t
                           /\ wk'[w].ends = wk[w].ends
                           /\ wk'[w].st = "unused" <=> wk[w].st = "unused"
    <3>1. CASE Load
      BY <3>1 DEF Load, TypeOK, Worker
    <3>2. CASE Crash
      <4> DEFINE alive == {w \in Workers : wk[w].st \in {"running", "closing"}}
      <4>1. PICK survivors \in SUBSET alive :
              wk' = [w \in Workers |->
                       [wk[w] EXCEPT !.st = IF w \in survivors THEN "stray"
                                            ELSE IF w \in alive \/ @ = "created"
                                            THEN "gone" ELSE @]]
        BY <3>2 DEF Crash
      <4>2. \A w \in survivors : wk[w].st # "unused"
        BY DEF TypeOK
      <4>3. \A w \in Workers :
              /\ wk'[w].t = wk[w].t
              /\ wk'[w].ends = wk[w].ends
              /\ wk'[w].st \in {"stray", "gone", wk[w].st}
              /\ wk'[w].st # wk[w].st => w \in survivors \/ w \in alive \/ wk[w].st = "created"
        BY <4>1 DEF TypeOK, Worker
      <4> QED
        BY <4>2, <4>3
    <3> QED
      BY <1>1, <3>1, <3>2
  <2>2. WorkersKept
    BY <2>1 DEF WorkersKept, OwnersKept, Owners, UnusedSilent
  <2>3. AdaptersOwned'
    BY <1>1, <2>2, AdaptersKept DEF Crash, Load
  <2>4. \A a \in Actors : co'[a] = co[a] \/ co'[a] = Idle
    BY <1>1 DEF Crash, Load
  <2>5. FramesOwned'
    BY <2>2, <2>4, FramesKept DEF OnWorker, Idle, Call
  <2> QED
    BY <2>2, <2>3, <2>5 DEF Owners, WorkersKept
<1>2. CASE \E t \in Tasks : RecoverySkips(t) \/ RecoveryImpossible(t)
  <2>1. UNCHANGED <<adapters, wk, co>>
    BY <1>2 DEF RecoverySkips, RecoveryImpossible
  <2>2. WorkersKept /\ AdaptersOwned' /\ FramesOwned'
    BY <2>1, SameKeeps, AdaptersKept, FramesKept
  <2> QED
    BY <2>2 DEF Owners, WorkersKept
<1>3. ASSUME NEW t \in Tasks, NEW c \in Clients, NEW w \in Workers, RecoveryRestarts(c, t, w)
      PROVE  Owners' /\ WorkersKept
  <2>1. WorkersKept /\ Owned(t, w)'
    BY <1>3, StartedKeeps DEF RecoveryRestarts
  <2>2. AdaptersOwned'
    BY <1>3, <2>1, AdaptersKept DEF RecoveryRestarts
  <2>3. FramesOwned'
    BY <1>3, <2>1, CallOwned DEF RecoveryRestarts, Actors
  <2> QED
    BY <2>1, <2>2, <2>3 DEF Owners, WorkersKept
<1> QED
  BY <1>1, <1>2, <1>3 DEF Recover

LEMMA WorkerOwners ==
  ASSUME TypeOK, Owners, NEW w \in Workers, WorkerEvent(w) \/ WorkerEnds(w)
  PROVE  Owners' /\ WorkersKept
<1>1. WorkersKept
  <2>1. /\ wk'[w].t = wk[w].t
        /\ wk[w].ends \subseteq wk'[w].ends
        /\ wk'[w].st \in {wk[w].st, "gone"}
        /\ wk[w].st # "unused"
    BY DEF WorkerEvent, WorkerEnds, TypeOK, Worker
  <2>2. \A v \in Workers \ {w} : wk'[v] = wk[v]
    BY DEF WorkerEvent, WorkerEnds, TypeOK
  <2> QED
    BY <2>1, <2>2 DEF WorkersKept, OwnersKept, Owners, UnusedSilent
<1>2. UNCHANGED <<adapters, co>>
  BY DEF WorkerEvent, WorkerEnds
<1>3. AdaptersOwned' /\ FramesOwned'
  BY <1>1, <1>2, AdaptersKept, FramesKept
<1> QED
  BY <1>1, <1>3 DEF Owners, WorkersKept

\* The three facts about workers hold after every step, and no worker changes
\* hands or takes a signal back.
LEMMA StepOwners ==
  ASSUME TypeOK, Owners, Next
  PROVE  Owners' /\ WorkersKept
  BY ContinueOwners, CallToolOwners, SystemOwners, RestartOwners, WorkerOwners DEF Next
-------------------------------------------------------------------------------
(***************************************************************************)
(* What a step does to the status of a task.                               *)
(***************************************************************************)
Signalled(t) == \E w \in Workers : wk[w].t = t /\ wk[w].ends # {}

Resuming(t) == \E a \in Actors : co[a].op = "resume" /\ co[a].t = t

\* The launch of t goes past its handshake.
Prompts(t) ==
  \E a \in Actors : /\ co[a].op = "launch"
                    /\ co[a].t = t
                    /\ co'[a].at = "prompting"

\* The moves of TaskLifecycle, with the coroutine that makes each of them.
StatusStep(t) ==
  LET from == rows[t].status
      to   == rows'[t].status IN
  \/ to = from
  \/ from = "unborn" /\ to = "queued"
  \/ from = "queued" /\ to = "running" /\ Prompts(t)
  \/ from = "running" /\ to = "completed" /\ Signalled(t)
  \/ from \in {"queued", "running"} /\ to = "failed"
  \/ from \in {"queued", "running", "orphaned"} /\ to = "cancelled"
  \/ from = "running" /\ to = "orphaned"
  \/ from = "orphaned" /\ to = "running" /\ (Resuming(t) \/ Resuming(t)')
  \/ from \in Statuses /\ to = "deleted"

\* Only the row of t changes its status.
Only(t) == \A u \in Tasks \ {t} : rows'[u].status = rows[u].status

LEMMA MovedStatus ==
  ASSUME NEW rs \in [Tasks -> Row], NEW t \in Tasks, NEW s
  PROVE  \A u \in Tasks : Moved(rs, t, s)[u].status = IF u = t THEN s ELSE rs[u].status
  BY DEF Moved, Row

LEMMA WithStatus ==
  ASSUME NEW rs \in [Tasks -> Row], NEW t \in Tasks, NEW x
  PROVE  \A u \in Tasks : /\ WithProcess(rs, t, x)[u].status = rs[u].status
                          /\ WithCursor(rs, t, x)[u].status = rs[u].status
  BY DEF WithProcess, WithCursor, Row

LEMMA RecordedStatus ==
  ASSUME TypeOK, NEW t \in Tasks, NEW w \in Workers, NEW s,
         rows' = Moved(WithProcess(rows, t, w), t, s)
  PROVE  rows'[t].status = s /\ \A u \in Tasks \ {t} : rows'[u].status = rows[u].status
<1>1. WithProcess(rows, t, w) \in [Tasks -> Row]
  BY WithProcessType DEF TypeOK
<1>2. \A u \in Tasks : WithProcess(rows, t, w)[u].status = rows[u].status
  BY WithStatus DEF TypeOK
<1> QED
  BY <1>1, <1>2, MovedStatus

LEMMA RemovedStatus ==
  ASSUME NEW rs \in [Tasks -> Row], NEW t \in Tasks
  PROVE  \A u \in Tasks : Removed(rs, t)[u].status = IF u = t THEN "deleted" ELSE rs[u].status
  BY DEF Removed, NewRow, Row

\* A step that moves one row, in one of the ways allowed.
LEMMA OneRowSteps ==
  ASSUME NEW t \in Tasks, StatusStep(t), Only(t)
  PROVE  \A u \in Tasks : StatusStep(u)
  BY DEF StatusStep, Only

LEMMA SameRowsStep ==
  ASSUME \A u \in Tasks : rows'[u].status = rows[u].status
  PROVE  \A u \in Tasks : StatusStep(u)
  BY DEF StatusStep

\* Orphaning any set of tasks interrupts the running ones.
LEMMA OrphansStep ==
  ASSUME TypeOK, NoDecision, NEW T, rows' = MarkOrphaned(rows, T)
  PROVE  \A u \in Tasks : StatusStep(u)
<1>1. ASSUME NEW u \in Tasks PROVE StatusStep(u)
  <2>1. /\ rows'[u].status \in {"orphaned", rows[u].status}
        /\ rows[u].status \notin Active \cup {"orphaned"} => rows'[u] = rows[u]
    BY MarkOrphanedStatus DEF TypeOK
  <2>2. rows[u].status # "needs_user_decision"
    BY DEF NoDecision
  <2> QED
    BY <2>1, <2>2 DEF StatusStep, Active
<1> QED
  BY <1>1

LEMMA FailLaunchStep ==
  ASSUME TypeOK, NEW t \in Tasks, FailLaunch(t)
  PROVE  \A u \in Tasks : StatusStep(u)
<1>1. CASE Present(t)
  <2>1. PICK s : /\ rows' = Moved(rows, t, s)
                 /\ s = IF rows[t].status \in {"queued", "running"} THEN "failed"
                        ELSE rows[t].status
    BY <1>1 DEF FailLaunch
  <2>2. Only(t) /\ rows'[t].status = s
    BY <2>1, MovedStatus DEF Only, TypeOK
  <2>3. StatusStep(t)
    BY <2>1, <2>2 DEF StatusStep
  <2> QED
    BY <2>2, <2>3, OneRowSteps
<1>2. CASE ~Present(t)
  BY <1>2, SameRowsStep DEF FailLaunch
<1> QED
  BY <1>1, <1>2

\* What the registry's transition table allows on the way to running and to
\* cancelled, for rows that never ask for a decision.
LEMMA TableMoves ==
  ASSUME TypeOK, NoDecision, NEW t \in Tasks
  PROVE  /\ CanMove(rows[t], "running") => rows[t].status \in {"queued", "running", "orphaned"}
         /\ CanMove(rows[t], "cancelled") =>
              rows[t].status \in {"queued", "running", "orphaned", "cancelled"}
<1>1. rows[t].status \in Statuses \cup Absent
  BY RowStatus DEF TypeOK
<1>2. rows[t].status # "needs_user_decision"
  BY DEF NoDecision
<1>3. ASSUME rows[t].status \in {"completed", "failed", "unborn", "deleted"}
      PROVE  ~CanMove(rows[t], "running") /\ ~CanMove(rows[t], "cancelled")
  BY <1>3 DEF CanMove, Transitions
<1>4. rows[t].status = "cancelled" => ~CanMove(rows[t], "running")
  BY DEF CanMove, Transitions
<1> QED
  BY <1>1, <1>2, <1>3, <1>4 DEF Statuses, Absent

LEMMA GotoFrame ==
  ASSUME TypeOK, NEW a \in Actors, NEW at, Goto(a, at)
  PROVE  /\ co'[a].at = at /\ co'[a].op = co[a].op /\ co'[a].t = co[a].t
         /\ \A b \in Actors \ {a} : co'[b] = co[b]
  BY DEF Goto, TypeOK, Frame
-------------------------------------------------------------------------------
(***************************************************************************)
(* Every step moves every task along the lifecycle: one step per action    *)
(* that touches the table.                                                 *)
(***************************************************************************)
LEMMA PollReadsStep ==
  ASSUME TypeOK, Owners, NoDecision, NEW a \in Actors, PollReads(a)
  PROVE  \A u \in Tasks : StatusStep(u)
<1>1. PICK t \in Tasks, w \in Workers :
        /\ t = co[a].t
        /\ w = co[a].w
        /\ Owned(t, w)
  BY Resumes DEF PollReads, At, OnWorker, Owners, FramesOwned
<1>2. rows' = Moved(WithCursor(rows, t, wk[w].sent), t, Verdict(t, w))
  BY <1>1 DEF PollReads
<1>3. Only(t) /\ rows'[t].status = Verdict(t, w)
  <2>1. WithCursor(rows, t, wk[w].sent) \in [Tasks -> Row]
    BY <1>1, WithCursorType DEF TypeOK, Worker
  <2>2. \A u \in Tasks : WithCursor(rows, t, wk[w].sent)[u].status = rows[u].status
    BY <1>1, WithStatus DEF TypeOK
  <2> HIDE DEF Verdict
  <2> QED
    BY <1>2, <2>1, <2>2, MovedStatus DEF Only
<1>4. StatusStep(t)
  <2>1. CASE rows[t].status \notin Active
    BY <1>3, <2>1 DEF Verdict, StatusStep
  <2>2. CASE rows[t].status \in Active
    <3>1. rows[t].status = "running"
      BY <2>2 DEF Active, NoDecision
    <3>2. SawAgentEnd(t, w) => Signalled(t)
      BY <1>1 DEF SawAgentEnd, Signalled, Owned
    <3>3. \/ Verdict(t, w) = "completed" /\ Signalled(t)
          \/ Verdict(t, w) = "orphaned"
          \/ Verdict(t, w) = rows[t].status
      BY <3>2, <2>2 DEF Verdict
    <3> QED
      BY <1>3, <3>1, <3>3 DEF StatusStep
  <2> QED
    BY <2>1, <2>2
<1> QED
  BY <1>3, <1>4, OneRowSteps

LEMMA LaunchReadyStep ==
  ASSUME TypeOK, Launches, NoDecision, NEW a \in Actors, LaunchReady(a)
  PROVE  \A u \in Tasks : StatusStep(u)
<1>1. PICK t \in Tasks, w \in Workers : t = co[a].t /\ w = co[a].w
  BY Resumes DEF LaunchReady, OnWorker
<1>2. co[a].op = "launch" /\ co[a].at = "handshake"
  BY DEF LaunchReady, At
<1>3. rows[t].status = "queued"
  <2>1. rows[t].status \notin Active \cup {"orphaned"}
    BY <1>1, <1>2 DEF Launches, LaunchesFirst, Unprompted
  <2> QED
    BY <1>1, <2>1, TableMoves DEF LaunchReady, Active
<1>4. Only(t) /\ rows'[t].status = "running"
  BY <1>1, RecordedStatus DEF LaunchReady, Only
<1>5. Prompts(t)
  BY <1>1, <1>2, GotoFrame DEF LaunchReady, Prompts
<1>6. StatusStep(t)
  BY <1>3, <1>4, <1>5 DEF StatusStep
<1> QED
  BY <1>4, <1>6, OneRowSteps

LEMMA ResumeReadyStep ==
  ASSUME TypeOK, NoDecision, NEW a \in Actors, ResumeReady(a)
  PROVE  \A u \in Tasks : StatusStep(u)
<1>1. PICK t \in Tasks, w \in Workers : t = co[a].t /\ w = co[a].w
  BY Resumes DEF ResumeReady, OnWorker
<1>2. CASE co[a].seen \in Resumable /\ rows[t].status \in Resumable
  <2>1. rows' = Moved(WithProcess(rows, t, w), t, "running")
    BY <1>1, <1>2 DEF ResumeReady
  <2>2. Only(t) /\ rows'[t].status = "running"
    BY <2>1, RecordedStatus DEF Only
  <2>3. rows[t].status = "orphaned"
    BY <1>2 DEF Resumable, NoDecision
  <2>4. Resuming(t)
    BY <1>1 DEF ResumeReady, At, Resuming
  <2>5. StatusStep(t)
    BY <2>2, <2>3, <2>4 DEF StatusStep
  <2> QED
    BY <2>2, <2>5, OneRowSteps
<1>3. CASE ~(co[a].seen \in Resumable /\ rows[t].status \in Resumable)
  <2>1. rows' = WithProcess(rows, t, w)
    BY <1>1, <1>3 DEF ResumeReady
  <2> QED
    BY <2>1, WithStatus, SameRowsStep DEF TypeOK
<1> QED
  BY <1>2, <1>3

LEMMA ContinueStatus ==
  ASSUME TypeOK, Owners, Launches, NoDecision, NEW a \in Actors, Continue(a)
  PROVE  \A u \in Tasks : StatusStep(u)
<1>1. CASE UNCHANGED rows
  BY <1>1, SameRowsStep
<1>2. CASE PollReads(a) \/ LaunchReady(a) \/ ResumeReady(a)
  BY <1>2, PollReadsStep, LaunchReadyStep, ResumeReadyStep
<1>3. CASE LaunchRefused(a) \/ LaunchFailed(a)
  BY <1>3, Resumes, FailLaunchStep DEF LaunchRefused, LaunchFailed
<1>4. CASE RecoveryGivesUp(a)
  BY <1>4, OrphansStep DEF RecoveryGivesUp, RecoveryOrphans
<1>5. CASE LaunchFails(a) \/ RecoveryReady(a)
  <2>1. PICK t \in Tasks, w \in Workers : t = co[a].t /\ w = co[a].w
    BY <1>5, Resumes DEF LaunchFails, RecoveryReady, OnWorker
  <2>2. UNCHANGED rows \/ rows' = WithProcess(rows, t, w)
    BY <1>5, <2>1 DEF LaunchFails, RecoveryReady
  <2> QED
    BY <2>2, WithStatus, SameRowsStep DEF TypeOK
<1>6. CASE PollFindsNoWorker(a)
  <2>1. PICK t \in Tasks : t = co[a].t
    BY <1>6, Resumes DEF PollFindsNoWorker
  <2>2. Only(t) /\ rows'[t].status = "orphaned"
    BY <1>6, <2>1, MovedStatus DEF PollFindsNoWorker, Only, TypeOK
  <2>3. StatusStep(t)
    BY <1>6, <2>1, <2>2 DEF PollFindsNoWorker, StatusStep
  <2> QED
    BY <2>2, <2>3, OneRowSteps
<1>7. CASE CancelSettles(a)
  <2>1. PICK t \in Tasks : t = co[a].t
    BY <1>7, Resumes DEF CancelSettles
  <2>2. CASE rows' = Moved(rows, t, "cancelled") /\ CanMove(rows[t], "cancelled")
    <3>1. Only(t) /\ rows'[t].status = "cancelled"
      BY <2>2, MovedStatus DEF Only, TypeOK
    <3>2. StatusStep(t)
      BY <2>2, <3>1, TableMoves DEF StatusStep
    <3> QED
      BY <3>1, <3>2, OneRowSteps
  <2> QED
    BY <1>1, <1>7, <2>1, <2>2 DEF CancelSettles
<1>8. CASE DeleteRemoves(a)
  <2>1. PICK t \in Tasks : t = co[a].t
    BY <1>8, Resumes DEF DeleteRemoves, DeleteLocked
  <2>2. CASE Present(t)
    <3>1. Only(t) /\ rows'[t].status = "deleted"
      BY <1>8, <2>1, <2>2, RemovedStatus DEF DeleteRemoves, Only, TypeOK
    <3>2. StatusStep(t)
      BY <2>2, <3>1 DEF StatusStep, Present
    <3> QED
      BY <3>1, <3>2, OneRowSteps
  <2> QED
    BY <1>1, <1>8, <2>1, <2>2 DEF DeleteRemoves
<1> QED
  <2>1. PollFindsNothing(a) \/ PollAsksState(a) \/ PollLosesRow(a) \/ Release(a)
        \/ KillerReturns(a) \/ (\E w \in Workers : LaunchStarts(a, w)) \/ ProcessStarts(a)
        \/ LaunchDone(a) \/ RestartLosesRow(a) \/ RestartFails(a) \/ Steered(a)
        \/ SteerFails(a) \/ DeleteTakesWorker(a) \/ RecoverySteered(a)
        \/ RecoverySteerFails(a)
          => UNCHANGED rows
    BY DEF PollFindsNothing, PollAsksState, PollLosesRow, Release, KillerReturns,
           LaunchStarts, ProcessStarts, LaunchDone, RestartLosesRow, RestartFails, Steered,
           SteerFails, DeleteTakesWorker, RecoverySteered, RecoverySteerFails
  <2> QED
    BY <1>1, <1>2, <1>3, <1>4, <1>5, <1>6, <1>7, <1>8, <2>1 DEF Continue

LEMMA CallToolStatus ==
  ASSUME TypeOK, NoDecision, NEW c \in Clients, NEW t \in Tasks, CallTool(c, t)
  PROVE  \A u \in Tasks : StatusStep(u)
<1> rows[t].status # "needs_user_decision"
  BY DEF NoDecision
<1>1. CASE Create(c, t)
  <2>1. Only(t) /\ rows'[t].status = "queued"
    BY <1>1 DEF Create, Only, NewRow, TypeOK
  <2>2. StatusStep(t)
    BY <1>1, <2>1 DEF Create, StatusStep
  <2> QED
    BY <2>1, <2>2, OneRowSteps
<1>2. CASE FollowUp(c, t)
  <2>1. rows[t].status = "running"
    BY <1>2 DEF FollowUp, Active
  <2>2. Only(t) /\ rows'[t].status = "running"
    BY <1>2, MovedStatus DEF FollowUp, Only, TypeOK
  <2>3. StatusStep(t)
    BY <2>1, <2>2 DEF StatusStep
  <2> QED
    BY <2>2, <2>3, OneRowSteps
<1>3. CASE ResumeInPlace(c, t)
  <2>1. Only(t) /\ rows'[t].status = "running"
    BY <1>3, MovedStatus DEF ResumeInPlace, Only, TypeOK
  <2>2. rows[t].status \in {"running", "orphaned"}
    BY <1>3 DEF ResumeInPlace, Active, Resumable
  <2>3. Resuming(t)'
    BY <1>3 DEF ResumeInPlace, Call, Resuming, Actors, TypeOK
  <2>4. StatusStep(t)
    BY <2>1, <2>2, <2>3 DEF StatusStep
  <2> QED
    BY <2>1, <2>4, OneRowSteps
<1>4. CASE CancelNow(c, t)
  <2>1. Only(t) /\ rows'[t].status = "cancelled"
    BY <1>4, MovedStatus DEF CancelNow, Only, TypeOK
  <2>2. rows[t].status \in {"queued", "running", "orphaned"}
    BY <1>4 DEF CancelNow, Calls, Present, Statuses, Terminal
  <2>3. StatusStep(t)
    BY <2>1, <2>2 DEF StatusStep
  <2> QED
    BY <2>1, <2>3, OneRowSteps
<1>5. CASE UNCHANGED rows
  BY <1>5, SameRowsStep
<1> QED
  BY <1>1, <1>2, <1>3, <1>4, <1>5 DEF CallTool, Poll, ResumeRestarts, CancelAborts, Delete

LEMMA SystemStatus ==
  ASSUME TypeOK, NoDecision,
         \/ ObserverCycle
         \/ \E t \in Tasks : Purge(t) \/ Recover(t)
         \/ Unload \/ Crash \/ Load \/ Publish
         \/ \E w \in Workers : WorkerEvent(w) \/ WorkerEnds(w)
  PROVE  \A u \in Tasks : StatusStep(u)
<1>1. CASE UNCHANGED rows
  BY <1>1, SameRowsStep
<1>2. ASSUME NEW t \in Tasks, Purge(t) PROVE \A u \in Tasks : StatusStep(u)
  <2>1. Only(t) /\ rows'[t].status = "deleted"
    BY <1>2, RemovedStatus DEF Purge, Only, TypeOK
  <2>2. StatusStep(t)
    BY <1>2, <2>1 DEF Purge, StatusStep, Terminal, Statuses
  <2> QED
    BY <2>1, <2>2, OneRowSteps
<1>3. ASSUME NEW t \in Tasks, RecoverySkips(t) \/ RecoveryImpossible(t)
      PROVE  \A u \in Tasks : StatusStep(u)
  BY <1>3, OrphansStep DEF RecoverySkips, RecoveryImpossible, RecoveryOrphans
<1>4. CASE CloseRegistry
  BY <1>4, OrphansStep DEF CloseRegistry
<1>5. CASE StopObserver
  <2>1. \A u \in Tasks : \/ rows'[u].status = rows[u].status
                         \/ rows[u].status = "queued" /\ rows'[u].status = "failed"
    BY <1>5 DEF StopObserver, TypeOK, Row
  <2> QED
    BY <2>1 DEF StatusStep
<1> QED
  BY <1>1, <1>2, <1>3, <1>4, <1>5
     DEF ObserverCycle, Recover, RecoveryRestarts, Unload, StopService, StopWorkers, Crash,
         Load, Publish, WorkerEvent, WorkerEnds

LEMMA StepStatus ==
  ASSUME TypeOK, Owners, Launches, NoDecision, Next
  PROVE  \A u \in Tasks : StatusStep(u)
  BY ContinueStatus, CallToolStatus, SystemStatus DEF Next
-------------------------------------------------------------------------------
(***************************************************************************)
(* Launches come from Create only, one for each task.                      *)
(***************************************************************************)
\* Coroutine a runs no launch after the step, or the one it ran before.
LaunchKept(a) ==
  co'[a].op = "launch" =>
    /\ co[a].op = "launch"
    /\ co'[a].t = co[a].t
    /\ co'[a].at \in Unprompted => co[a].at \in Unprompted

LaunchesKept == \A a \in Actors : LaunchKept(a)

LEMMA FrameLaunchKept ==
  ASSUME NEW a \in Actors, LaunchKept(a), \A b \in Actors \ {a} : co'[b] = co[b]
  PROVE  LaunchesKept
  BY DEF LaunchesKept, LaunchKept

LEMMA GotoLaunchKept ==
  ASSUME TypeOK, NEW a \in Actors, NEW at,
         Goto(a, at) \/ \E w : GotoOn(a, at, w),
         co[a].op = "launch" /\ at \in Unprompted => co[a].at \in Unprompted
  PROVE  LaunchesKept
<1>1. \A b \in Actors \ {a} : co'[b] = co[b]
  BY DEF Goto, GotoOn, TypeOK
<1>2. co'[a].at = at /\ co'[a].op = co[a].op /\ co'[a].t = co[a].t
  <2>1. CASE Goto(a, at)
    BY <2>1, GotoFrame
  <2>2. CASE \E w : GotoOn(a, at, w)
    <3>1. PICK f : /\ co' = [co EXCEPT ![a] = f]
                   /\ f.at = at /\ f.t = co[a].t /\ f.op = co[a].op
      BY <2>2, GotoOnFrame
    <3> QED
      BY <3>1 DEF TypeOK
  <2> QED
    BY <2>1, <2>2
<1> QED
  BY <1>1, <1>2, FrameLaunchKept DEF LaunchKept

LEMMA CallLaunchKept ==
  ASSUME TypeOK, NEW a \in Actors, NEW op, NEW at, NEW t, NEW w, NEW seen,
         co' = [co EXCEPT ![a] = Call(op, at, t, w, seen)], op # "launch"
  PROVE  LaunchesKept
<1>1. co'[a].op = op /\ \A b \in Actors \ {a} : co'[b] = co[b]
  BY DEF TypeOK, Call
<1> QED
  BY <1>1, FrameLaunchKept DEF LaunchKept

LEMMA ReturnLaunchKept ==
  ASSUME TypeOK, NEW a \in Actors, Return(a)
  PROVE  LaunchesKept
  BY CallLaunchKept DEF Return, Idle

LEMMA ContinueLaunchKept ==
  ASSUME TypeOK, NEW a \in Actors, Continue(a)
  PROVE  LaunchesKept
<1>1. CASE Return(a)
  BY <1>1, ReturnLaunchKept
<1>2. CASE Goto(a, "releasing") \/ Goto(a, "prompting") \/ Goto(a, "steering")
           \/ Goto(a, "killing")
  BY <1>2, GotoLaunchKept DEF Unprompted
<1>3. CASE Goto(a, "handshake") /\ co[a].at = "starting"
  BY <1>3, GotoLaunchKept DEF Unprompted
<1>4. CASE \E w : GotoOn(a, "starting", w) /\ co[a].at = "submit_lock"
  BY <1>4, GotoLaunchKept DEF Unprompted
<1>5. CASE \E w : GotoOn(a, "killing", w) \/ GotoOn(a, "get_state", w)
  BY <1>5, GotoLaunchKept DEF Unprompted
<1>6. CASE Steered(a)
  BY <1>6, CallLaunchKept DEF Steered, PollCall
<1> QED
  BY <1>1, <1>2, <1>3, <1>4, <1>5, <1>6
     DEF Continue, At, PollFindsNothing, PollFindsNoWorker, PollAsksState, PollReads,
         PollLosesRow, Release, KillerReturns, LaunchStarts, LaunchRefused, ProcessStarts,
         LaunchReady, LaunchDone, LaunchFails, LaunchFailed, ResumeReady, RestartLosesRow,
         RestartFails, SteerFails, CancelSettles, DeleteTakesWorker, DeleteRemoves,
         RecoveryReady, RecoverySteered, RecoverySteerFails, RecoveryGivesUp

LEMMA CallToolLaunchKept ==
  ASSUME TypeOK, NEW c \in Clients, NEW t \in Tasks, CallTool(c, t)
  PROVE  LaunchesKept \/ Create(c, t)
<1> c \in Actors
  BY DEF Actors
<1>1. CASE UNCHANGED co
  BY <1>1 DEF LaunchesKept, LaunchKept
<1>2. CASE Poll(c, t) \/ FollowUp(c, t) \/ ResumeInPlace(c, t) \/ CancelAborts(c, t)
           \/ Delete(c, t) \/ \E w \in Workers : ResumeRestarts(c, t, w)
  BY <1>2, CallLaunchKept
     DEF Poll, PollCall, FollowUp, ResumeInPlace, CancelAborts, Delete, ResumeRestarts
<1> QED
  BY <1>1, <1>2 DEF CallTool, CancelNow

LEMMA SystemLaunchKept ==
  ASSUME TypeOK,
         \/ ObserverCycle
         \/ \E t \in Tasks : Purge(t) \/ Recover(t)
         \/ Unload \/ Crash \/ Load \/ Publish
         \/ \E w \in Workers : WorkerEvent(w) \/ WorkerEnds(w)
  PROVE  LaunchesKept
<1>1. CASE UNCHANGED co
  BY <1>1 DEF LaunchesKept, LaunchKept
<1>2. CASE ObserverCycle
  <2>1. \A a \in Actors : co'[a] = co[a] \/ co'[a].op = "poll"
    BY <1>2 DEF ObserverCycle, PollCall, Call
  <2> QED
    BY <2>1 DEF LaunchesKept, LaunchKept
<1>3. CASE Crash \/ StopObserver \/ StopService
  <2>1. \A a \in Actors : co'[a] = co[a] \/ co'[a].op \in {"idle", "abandoned"}
    <3> DEFINE left(a) == [co[a] EXCEPT !.op = "abandoned", !.at = "killing"]
    <3>1. \A a \in Actors : left(a).op = "abandoned"
      BY DEF TypeOK, Frame
    <3>2. Idle.op = "idle"
      BY DEF Idle, Call
    <3>3. \A a \in Actors : co'[a] = co[a] \/ co'[a] = Idle \/ co'[a] = left(a)
      BY <1>3 DEF Crash, StopObserver, StopService
    <3> HIDE DEF left
    <3> QED
      BY <3>1, <3>2, <3>3
  <2> QED
    BY <2>1 DEF LaunchesKept, LaunchKept
<1>4. ASSUME NEW t \in Tasks, NEW c \in Clients, NEW w \in Workers, RecoveryRestarts(c, t, w)
      PROVE  LaunchesKept
  BY <1>4, CallLaunchKept DEF RecoveryRestarts, Actors
<1> QED
  BY <1>1, <1>2, <1>3, <1>4
     DEF Purge, Recover, RecoverySkips, RecoveryImpossible, Unload, StopWorkers,
         CloseRegistry, Load, Publish, WorkerEvent, WorkerEnds

LEMMA StepLaunches ==
  ASSUME IInv, Next, \A u \in Tasks : StatusStep(u)
  PROVE  Launches'
<1> USE DEF IInv, Launches
<1>1. CASE LaunchesKept
  <2>1. LaunchesOnce'
    BY <1>1 DEF LaunchesKept, LaunchKept, LaunchesOnce
  <2>2. LaunchesFirst'
    <3> SUFFICES ASSUME NEW a \in Actors, co'[a].op = "launch"
                 PROVE  /\ rows'[co'[a].t].status # "unborn"
                        /\ co'[a].at \in Unprompted =>
                             rows'[co'[a].t].status \notin Active \cup {"orphaned"}
      BY DEF LaunchesFirst
    <3>1. co[a].op = "launch" /\ co'[a].t = co[a].t
      BY <1>1 DEF LaunchesKept, LaunchKept
    <3>2. PICK t \in Tasks : t = co[a].t
      BY <3>1, FrameTypes
    <3>3. StatusStep(t)
      BY <3>2
    <3>4. rows[t].status # "unborn"
      BY <3>1, <3>2 DEF LaunchesFirst
    <3>5. ASSUME co'[a].at \in Unprompted
          PROVE  rows'[t].status \notin Active \cup {"orphaned"}
      <4>1. rows[t].status \notin Active \cup {"orphaned"}
        BY <1>1, <3>1, <3>2, <3>5 DEF LaunchesKept, LaunchKept, LaunchesFirst
      <4>2. ~Prompts(t)
        <5>1. ASSUME NEW b \in Actors, co[b].op = "launch", co[b].t = t PROVE b = a
          BY <3>1, <3>2, <5>1 DEF LaunchesOnce
        <5> QED
          BY <3>5, <5>1 DEF Prompts, Unprompted
      <4>3. rows'[t].status \in {rows[t].status, "queued", "failed", "cancelled", "deleted"}
        BY <3>3, <4>1, <4>2 DEF StatusStep, Active
      <4> QED
        BY <4>1, <4>3 DEF Active
    <3>6. rows'[t].status # "unborn"
      BY <3>3, <3>4 DEF StatusStep
    <3> QED
      BY <3>1, <3>2, <3>5, <3>6
  <2> QED
    BY <2>1, <2>2
<1>2. ASSUME NEW c \in Clients, NEW t \in Tasks, Create(c, t) PROVE Launches'
  <2>1. c \in Actors
    BY DEF Actors
  <2>2. co'[c].op = "launch" /\ co'[c].t = t /\ \A b \in Actors \ {c} : co'[b] = co[b]
    BY <1>2, <2>1 DEF Create, Call, TypeOK
  <2>3. \A b \in Actors : co[b].op = "launch" => co[b].t # t
    BY <1>2 DEF Create, LaunchesFirst
  <2>4. rows'[t].status = "queued" /\ \A u \in Tasks \ {t} : rows'[u] = rows[u]
    BY <1>2 DEF Create, NewRow, TypeOK
  <2>5. LaunchesOnce'
    BY <2>2, <2>3 DEF LaunchesOnce
  <2>6. LaunchesFirst'
    <3>1. \A b \in Actors : co[b].op = "launch" => co[b].t \in Tasks
      BY FrameTypes
    <3> QED
      BY <2>2, <2>3, <2>4, <3>1 DEF LaunchesFirst, Active
  <2> QED
    BY <2>5, <2>6
<1> QED
  BY <1>1, <1>2, ContinueLaunchKept, CallToolLaunchKept, SystemLaunchKept DEF Next
-------------------------------------------------------------------------------
(***************************************************************************)
(* The theorems.                                                           *)
(***************************************************************************)
LEMMA InitIInv == Init => IInv
<1> SUFFICES ASSUME Init PROVE IInv
  OBVIOUS
<1>1. TypeOK
  BY InitType
<1>2. Owners
  BY DEF Init, Owners, UnusedSilent, AdaptersOwned, FramesOwned, Idle, Call, OnWorker
<1>3. Launches
  BY DEF Init, Launches, LaunchesOnce, LaunchesFirst, Idle, Call
<1>4. NoDecision
  BY DEF Init, NoDecision, NewRow
<1> QED
  BY <1>1, <1>2, <1>3, <1>4 DEF IInv

LEMMA StepIInv ==
  ASSUME IInv, Next
  PROVE  /\ IInv'
         /\ \A u \in Tasks : StatusStep(u)
         /\ WorkersKept
<1>1. TypeOK'
  BY StepType DEF IInv
<1>2. Owners' /\ WorkersKept
  BY StepOwners DEF IInv
<1>3. \A u \in Tasks : StatusStep(u)
  BY StepStatus DEF IInv
<1>4. Launches'
  BY <1>3, StepLaunches
<1>5. NoDecision'
  BY <1>3 DEF NoDecision, StatusStep, IInv
<1> QED
  BY <1>1, <1>2, <1>3, <1>4, <1>5 DEF IInv

\* The invariant under which the scheduler keeps the lifecycle: the worker held
\* for a task is one of its own, each task is launched once and nobody else takes
\* it out of queued, and no row asks for a decision.
THEOREM IInvCorrect == Spec => []IInv
<1>1. Init => IInv
  BY InitIInv
<1>2. IInv /\ [Next]_vars => IInv'
  <2> SUFFICES ASSUME IInv, [Next]_vars PROVE IInv'
    OBVIOUS
  <2>1. CASE Next
    BY <2>1, StepIInv
  <2>2. CASE UNCHANGED vars
    BY <2>2 DEF vars, sys, IInv, TypeOK, Owners, UnusedSilent, AdaptersOwned, FramesOwned,
                Owned, Launches, LaunchesOnce, LaunchesFirst, NoDecision
  <2> QED
    BY <2>1, <2>2
<1> QED
  BY <1>1, <1>2, PTL DEF Spec

\* A finished task keeps its status whatever coroutine, recovery or shutdown is
\* still at work on it, until its row is removed (registry.py's transition table,
\* and the checks of the methods that write a status).
THEOREM FinishedTasksStay == Spec => TerminalFinal
<1>1. IInv /\ [Next]_vars =>
        [\A t \in Tasks : rows[t].status \in Terminal =>
           rows'[t].status \in {rows[t].status, "deleted"}]_vars
  <2> SUFFICES ASSUME IInv, Next, NEW t \in Tasks, rows[t].status \in Terminal
               PROVE  rows'[t].status \in {rows[t].status, "deleted"}
    OBVIOUS
  <2>1. StatusStep(t)
    BY StepIInv
  <2> QED
    BY <2>1 DEF StatusStep, Terminal
<1> QED
  BY <1>1, IInvCorrect, PTL DEF Spec, TerminalFinal

\* No task is ever completed unless a worker started for that very task signalled
\* agent_end, whichever coroutine read the signal (_observe_task).
THEOREM CompletedTasksSignalled == Spec => []CompletedByAgentEnd
<1>1. Init => CompletedByAgentEnd
  BY DEF Init, CompletedByAgentEnd, NewRow
<1>2. IInv /\ CompletedByAgentEnd /\ [Next]_vars => CompletedByAgentEnd'
  <2> SUFFICES ASSUME IInv, CompletedByAgentEnd, [Next]_vars, NEW t \in Tasks,
                      rows'[t].status = "completed"
               PROVE  \E w \in Workers : wk'[w].t = t /\ wk'[w].ends # {}
    BY DEF CompletedByAgentEnd
  <2>1. CASE Next
    <3>1. StatusStep(t) /\ WorkersKept
      BY <2>1, StepIInv
    <3>2. Signalled(t)
      BY <3>1 DEF StatusStep, CompletedByAgentEnd, Signalled
    <3> QED
      BY <3>1, <3>2 DEF Signalled, WorkersKept, OwnersKept, IInv, Owners, UnusedSilent
  <2>2. CASE UNCHANGED vars
    BY <2>2 DEF vars, CompletedByAgentEnd
  <2> QED
    BY <2>1, <2>2
<1> QED
  BY <1>1, <1>2, IInvCorrect, PTL DEF Spec

\* A step of a task's status is a move of the promised lifecycle.
LEMMA LifecycleMove ==
  ASSUME NEW t \in Tasks, StatusStep(t), rows[t].status # "needs_user_decision"
  PROVE  \/ [u \in Tasks |-> rows'[u].status][t] = [u \in Tasks |-> rows[u].status][t]
         \/ Lifecycle!Move(t)
<1>1. CASE Signalled(t) /\ rows[t].status = "running" /\ rows'[t].status = "completed"
  BY <1>1 DEF Lifecycle!Move, Lifecycle!Complete, Lifecycle!Goes, Signalled
<1>2. CASE /\ Resuming(t) \/ Resuming(t)'
           /\ rows[t].status = "orphaned"
           /\ rows'[t].status = "running"
  BY <1>2 DEF Lifecycle!Move, Lifecycle!Resume, Lifecycle!Goes, Resuming, Pending
<1> QED
  BY <1>1, <1>2
     DEF StatusStep, Statuses, Lifecycle!Move, Lifecycle!Submit, Lifecycle!Start,
         Lifecycle!Fail, Lifecycle!Cancel, Lifecycle!Interrupt, Lifecycle!Remove,
         Lifecycle!Goes

\* The scheduler keeps the promised lifecycle: whatever its coroutines, workers,
\* restarts and crashes do, each task moves only as TaskLifecycle says (the
\* registry's transition table together with the code that uses it).
THEOREM LifecycleKept == Spec => KeepsLifecycle
<1>1. Init => Lifecycle!Init
  BY DEF Init, Lifecycle!Init, NewRow, Idle, Call, Pending
<1>2. IInv /\ [Next]_vars => [Lifecycle!Next]_(Lifecycle!vars)
  <2>1. ASSUME IInv, Next PROVE Lifecycle!Next
    <3>1. WorkersKept /\ \A t \in Tasks : StatusStep(t)
      BY <2>1, StepIInv
    <3>2. \A t \in Tasks :
            \/ [u \in Tasks |-> rows'[u].status][t] = [u \in Tasks |-> rows[u].status][t]
            \/ Lifecycle!Move(t)
      BY <2>1, <3>1, LifecycleMove DEF IInv, NoDecision
    <3>3. {t \in Tasks : \E w \in Workers : wk[w].t = t /\ wk[w].ends # {}}
            \subseteq {t \in Tasks : \E w \in Workers : wk'[w].t = t /\ wk'[w].ends # {}}
      BY <2>1, <3>1 DEF WorkersKept, OwnersKept, IInv, Owners, UnusedSilent
    <3> QED
      BY <3>2, <3>3 DEF Lifecycle!Next
  <2>2. ASSUME UNCHANGED vars PROVE UNCHANGED Lifecycle!vars
    BY <2>2 DEF vars, Lifecycle!vars, Pending
  <2> QED
    BY <2>1, <2>2
<1> QED
  BY <1>1, <1>2, IInvCorrect, PTL DEF Spec, KeepsLifecycle, Lifecycle!Spec
===============================================================================

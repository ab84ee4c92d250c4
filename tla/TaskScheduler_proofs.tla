-------------------------- MODULE TaskScheduler_proofs --------------------------
(***************************************************************************)
(* Theorems about TaskScheduler, for every value of its constants.         *)
(***************************************************************************)
EXTENDS TaskScheduler, TLAPS

USE NoneAssumption, ClientsAssumption
-------------------------------------------------------------------------------
(***************************************************************************)
(* What the operators on the state return.                                 *)
(***************************************************************************)
LEMMA ClosedType ==
  ASSUME wk \in [Workers -> Worker], NEW W
  PROVE  Closed(W) \in [Workers -> Worker]
  BY DEF Closed, Worker, WorkerStates

LEMMA StartedType ==
  ASSUME wk \in [Workers -> Worker], NEW w \in Workers, NEW t \in Tasks
  PROVE  Started(w, t) \in [Workers -> Worker]
  BY DEF Started, Worker, WorkerStates

LEMMA MovedType ==
  ASSUME NEW rs \in [Tasks -> Row], NEW t \in Tasks, NEW s \in Statuses \cup Absent
  PROVE  Moved(rs, t, s) \in [Tasks -> Row]
  BY DEF Moved, Row

LEMMA WithProcessType ==
  ASSUME NEW rs \in [Tasks -> Row], NEW t \in Tasks, NEW w \in Workers
  PROVE  WithProcess(rs, t, w) \in [Tasks -> Row]
  BY DEF WithProcess, Row

LEMMA WithCursorType ==
  ASSUME NEW rs \in [Tasks -> Row], NEW t \in Tasks, NEW n \in Nat
  PROVE  WithCursor(rs, t, n) \in [Tasks -> Row]
  BY DEF WithCursor, Row

LEMMA NewRowType ==
  ASSUME NEW s \in Statuses \cup Absent
  PROVE  NewRow(s) \in Row
  BY DEF NewRow, Row

LEMMA RemovedType ==
  ASSUME NEW rs \in [Tasks -> Row], NEW t \in Tasks
  PROVE  Removed(rs, t) \in [Tasks -> Row]
  BY NewRowType DEF Removed, Absent

LEMMA MarkOrphanedType ==
  ASSUME NEW rs \in [Tasks -> Row], NEW T
  PROVE  MarkOrphaned(rs, T) \in [Tasks -> Row]
  BY DEF MarkOrphaned, Row, Statuses

LEMMA RowStatus ==
  ASSUME NEW rs \in [Tasks -> Row], NEW t \in Tasks
  PROVE  rs[t].status \in Statuses \cup Absent
  BY DEF Row

\* Orphaning moves a row to orphaned or leaves it alone.
LEMMA MarkOrphanedStatus ==
  ASSUME NEW rs \in [Tasks -> Row], NEW T, NEW t \in Tasks
  PROVE  /\ MarkOrphaned(rs, T)[t].status \in {"orphaned", rs[t].status}
         /\ rs[t].status \notin Active \cup {"orphaned"}
              => MarkOrphaned(rs, T)[t] = rs[t]
<1>1. MarkOrphaned(rs, T)[t] = IF t \in T /\ rs[t].status \in Active \cup {"orphaned"}
                              THEN [rs[t] EXCEPT !.status = "orphaned", !.pid = None]
                              ELSE rs[t]
  BY DEF MarkOrphaned
<1>2. [rs[t] EXCEPT !.status = "orphaned", !.pid = None].status = "orphaned"
  BY DEF Row
<1> QED
  BY <1>1, <1>2

LEMMA AnnouncedType ==
  ASSUME notified \subseteq Tasks \X Statuses, NEW t \in Tasks, NEW s \in Statuses
  PROVE  Announced(t, s) \subseteq Tasks \X Statuses
  BY DEF Announced

LEMMA FailLaunchType ==
  ASSUME TypeOK, NEW t \in Tasks, FailLaunch(t)
  PROVE  rows' \in [Tasks -> Row] /\ notified' \subseteq Tasks \X Statuses
<1> DEFINE s == IF rows[t].status \in {"queued", "running"} THEN "failed"
                ELSE rows[t].status
<1>1. CASE Present(t)
  <2>1. s \in Statuses
    BY <1>1 DEF Present, Statuses
  <2>2. rows' = Moved(rows, t, s) /\ notified' = Announced(t, s)
    BY <1>1 DEF FailLaunch
  <2> QED
    BY <2>1, <2>2, MovedType, AnnouncedType DEF TypeOK
<1>2. CASE ~Present(t)
  BY <1>2 DEF FailLaunch, TypeOK
<1> QED
  BY <1>1, <1>2
-------------------------------------------------------------------------------
(***************************************************************************)
(* Coroutine frames.                                                       *)
(***************************************************************************)
OnWorker == {"starting", "handshake", "prompting", "get_state", "steering"}

CoOK == co \in [Actors -> Frame] /\ \A a \in Actors : FrameOK(co[a])

LEMMA FrameTypes ==
  ASSUME TypeOK, NEW a \in Actors
  PROVE  /\ co[a].op # "idle" => co[a].t \in Tasks
         /\ co[a].at \in OnWorker => co[a].w \in Workers
         /\ co[a].w \in Workers \cup {None}
         /\ co[a].seen \in Statuses \cup Absent
  BY DEF TypeOK, FrameOK, Frame, OnWorker

LEMMA GotoOK ==
  ASSUME TypeOK, NEW a \in Actors, NEW at \in Awaits, Goto(a, at),
         at \in OnWorker => co[a].w \in Workers
  PROVE  CoOK'
<1>1. \A b \in Actors : co'[b] = IF b = a THEN [co[a] EXCEPT !.at = at] ELSE co[b]
  BY DEF TypeOK, Goto
<1>2. \A b \in Actors : co'[b] \in Frame /\ FrameOK(co'[b])
  BY <1>1 DEF TypeOK, Frame, FrameOK, OnWorker
<1> QED
  BY <1>2 DEF TypeOK, CoOK, Goto

LEMMA IdleType == Idle \in Frame /\ FrameOK(Idle)
  BY DEF Idle, Call, Frame, FrameOK, Ops, Awaits, Absent

LEMMA ReturnOK ==
  ASSUME TypeOK, NEW a \in Actors, Return(a)
  PROVE  CoOK'
  BY IdleType DEF TypeOK, CoOK, Return

LEMMA CallType ==
  ASSUME NEW op \in Ops, NEW at \in Awaits, NEW t \in Tasks,
         NEW w \in Workers \cup {None}, NEW seen \in Statuses \cup Absent,
         at \in OnWorker => w \in Workers
  PROVE  Call(op, at, t, w, seen) \in Frame /\ FrameOK(Call(op, at, t, w, seen))
  BY DEF Call, Frame, FrameOK, OnWorker

LEMMA CallOK ==
  ASSUME TypeOK, NEW a \in Actors, NEW f \in Frame, FrameOK(f),
         co' = [co EXCEPT ![a] = f]
  PROVE  CoOK'
  BY DEF TypeOK, CoOK

LEMMA GotoOnOK ==
  ASSUME TypeOK, NEW a \in Actors, NEW at \in Awaits, NEW w \in Workers \cup {None},
         at \in OnWorker => w \in Workers,
         GotoOn(a, at, w)
  PROVE  CoOK'
<1> DEFINE f == [co[a] EXCEPT !.at = at, !.w = w]
<1>1. co \in [Actors -> Frame] /\ \A b \in Actors : FrameOK(co[b])
  BY DEF TypeOK
<1>2. f \in Frame
  BY <1>1 DEF Frame
<1>3. FrameOK(f)
  BY <1>1 DEF FrameOK, OnWorker, Frame
<1>4. co' = [co EXCEPT ![a] = f]
  BY <1>1 DEF Frame, GotoOn
<1> HIDE DEF f
<1> QED
  BY <1>2, <1>3, <1>4, CallOK
-------------------------------------------------------------------------------
(***************************************************************************)
(* Type correctness: one step per action.                                  *)
(***************************************************************************)
\* What a coroutine finds when its await is over.
LEMMA Resumes ==
  ASSUME TypeOK, NEW a \in Actors, NEW ops, NEW at, At(a, ops, at), "idle" \notin ops
  PROVE  /\ co[a].t \in Tasks
         /\ co[a].w \in Workers \cup {None}
         /\ at \in OnWorker => co[a].w \in Workers
  BY FrameTypes DEF At

LEMMA RecoveryOrphansType ==
  ASSUME TypeOK, NEW t \in Tasks, RecoveryOrphans(t)
  PROVE  rows' \in [Tasks -> Row] /\ notified' \subseteq Tasks \X Statuses
<1>1. rows' \in [Tasks -> Row]
  BY MarkOrphanedType DEF RecoveryOrphans, TypeOK
<1>2. rows'[t].status \in {"orphaned", rows[t].status}
  BY MarkOrphanedStatus DEF RecoveryOrphans, TypeOK
<1>3. Present(t) => rows'[t].status \in Statuses
  BY <1>2 DEF Present, Statuses
<1> QED
  BY <1>1, <1>3, AnnouncedType DEF RecoveryOrphans, TypeOK

LEMMA ContinueType ==
  ASSUME TypeOK, NEW a \in Actors, Continue(a)
  PROVE  TypeOK'
<1>1. CASE PollFindsNothing(a)
  <2>1. CoOK'
    BY <1>1, ReturnOK DEF PollFindsNothing
  <2> QED
    BY <1>1, <2>1 DEF PollFindsNothing, TypeOK, CoOK, sys
<1>2. CASE PollLosesRow(a)
  <2>1. CoOK'
    BY <1>2, ReturnOK DEF PollLosesRow
  <2> QED
    BY <1>2, <2>1 DEF PollLosesRow, TypeOK, CoOK, sys
<1>3. CASE KillerReturns(a)
  <2>1. CoOK'
    BY <1>3, ReturnOK DEF KillerReturns
  <2> QED
    BY <1>3, <2>1 DEF KillerReturns, TypeOK, CoOK, sys
<1>4. CASE LaunchDone(a)
  <2>1. CoOK'
    BY <1>4, ReturnOK DEF LaunchDone
  <2> QED
    BY <1>4, <2>1 DEF LaunchDone, TypeOK, CoOK, sys
<1>5. CASE SteerFails(a)
  <2>1. CoOK'
    BY <1>5, ReturnOK DEF SteerFails
  <2> QED
    BY <1>5, <2>1 DEF SteerFails, TypeOK, CoOK, sys
<1>6. CASE RecoverySteered(a)
  <2>1. CoOK'
    BY <1>6, ReturnOK DEF RecoverySteered
  <2> QED
    BY <1>6, <2>1 DEF RecoverySteered, TypeOK, CoOK, sys
<1>7. CASE PollFindsNoWorker(a)
  <2>1. co[a].t \in Tasks
    BY <1>7, Resumes DEF PollFindsNoWorker
  <2>2. CoOK'
    BY <1>7, ReturnOK DEF PollFindsNoWorker
  <2>3. rows' \in [Tasks -> Row]
    BY <1>7, <2>1, MovedType DEF PollFindsNoWorker, TypeOK, Statuses
  <2>4. notified' \subseteq Tasks \X Statuses
    BY <1>7, <2>1, AnnouncedType DEF PollFindsNoWorker, TypeOK, Statuses
  <2> QED
    BY <1>7, <2>1, <2>2, <2>3, <2>4 DEF PollFindsNoWorker, TypeOK, CoOK, sys
<1>8. CASE PollAsksState(a)
  <2>1. co[a].t \in Tasks
    BY <1>8, Resumes DEF PollAsksState
  <2>2. adapters[co[a].t] \in Workers
    BY <1>8, <2>1 DEF PollAsksState, TypeOK
  <2>3. CoOK'
    BY <1>8, <2>2, GotoOnOK DEF PollAsksState, Awaits
  <2> QED
    BY <1>8, <2>1, <2>2, <2>3 DEF PollAsksState, TypeOK, CoOK, sys
<1>9. CASE PollReads(a)
  <2>1. co[a].t \in Tasks /\ co[a].w \in Workers
    BY <1>9, Resumes DEF PollReads, OnWorker
  <2>2. Verdict(co[a].t, co[a].w) \in Statuses
    BY <1>9, <2>1, RowStatus DEF PollReads, Verdict, Present, TypeOK, Statuses
  <2>3. wk[co[a].w].sent \in Nat
    BY <2>1 DEF TypeOK, Worker
  <2>4. rows' \in [Tasks -> Row]
    BY <1>9, <2>1, <2>2, <2>3, MovedType, WithCursorType DEF PollReads, TypeOK
  <2>5. notified' \subseteq Tasks \X Statuses
    BY <1>9, <2>1, <2>2, AnnouncedType DEF PollReads, TypeOK
  <2>6. CoOK'
    BY <1>9, GotoOK, ReturnOK DEF PollReads, Awaits, OnWorker
  <2> QED
    BY <1>9, <2>1, <2>2, <2>3, <2>4, <2>5, <2>6 DEF PollReads, TypeOK, CoOK, sys
<1>10. CASE Release(a)
  <2>1. co[a].t \in Tasks
    BY <1>10, Resumes DEF Release
  <2>2. adapters' \in [Tasks -> Workers \cup {None}]
    BY <1>10, <2>1 DEF Release, TypeOK
  <2>3. wk' \in [Workers -> Worker]
    BY <1>10, ClosedType DEF Release, TypeOK
  <2>4. CoOK'
    BY <1>10, GotoOK, GotoOnOK DEF Release, Awaits, OnWorker
  <2> QED
    BY <1>10, <2>1, <2>2, <2>3, <2>4 DEF Release, TypeOK, CoOK, sys
<1>11. CASE LaunchRefused(a)
  <2>1. co[a].t \in Tasks
    BY <1>11, Resumes DEF LaunchRefused
  <2>2. CoOK'
    BY <1>11, ReturnOK DEF LaunchRefused
  <2>3. rows' \in [Tasks -> Row] /\ notified' \subseteq Tasks \X Statuses
    BY <1>11, <2>1, FailLaunchType DEF LaunchRefused
  <2>4. files' \subseteq Tasks
    BY <1>11, <2>1 DEF LaunchRefused, TypeOK
  <2> QED
    BY <1>11, <2>1, <2>2, <2>3, <2>4 DEF LaunchRefused, TypeOK, CoOK, sys
<1>12. CASE ProcessStarts(a)
  <2>1. co[a].t \in Tasks /\ co[a].w \in Workers
    BY <1>12, Resumes DEF ProcessStarts, OnWorker
  <2>2. CoOK'
    BY <1>12, GotoOK, FrameTypes DEF ProcessStarts, At, Awaits, OnWorker
  <2>3. wk' \in [Workers -> Worker]
    BY <1>12, <2>1 DEF ProcessStarts, TypeOK, Worker, WorkerStates
  <2> QED
    BY <1>12, <2>1, <2>2, <2>3 DEF ProcessStarts, TypeOK, CoOK, sys
<1>13. CASE LaunchReady(a)
  <2>1. co[a].t \in Tasks /\ co[a].w \in Workers
    BY <1>13, Resumes DEF LaunchReady, OnWorker
  <2>2. CoOK'
    BY <1>13, GotoOK, FrameTypes DEF LaunchReady, At, Awaits, OnWorker
  <2>3. rows' \in [Tasks -> Row]
    BY <1>13, <2>1, MovedType, WithProcessType DEF LaunchReady, TypeOK, Statuses
  <2> QED
    BY <1>13, <2>1, <2>2, <2>3 DEF LaunchReady, TypeOK, CoOK, sys
<1>14. CASE LaunchFails(a)
  <2>1. co[a].t \in Tasks /\ co[a].w \in Workers
    BY <1>14, Resumes DEF LaunchFails, OnWorker
  <2>2. CoOK'
    BY <1>14, GotoOK, FrameTypes DEF LaunchFails, At, Awaits, OnWorker
  <2>3. rows' \in [Tasks -> Row]
    BY <1>14, <2>1, WithProcessType DEF LaunchFails, TypeOK
  <2>4. adapters' \in [Tasks -> Workers \cup {None}]
    BY <1>14, <2>1 DEF LaunchFails, TypeOK
  <2>5. wk' \in [Workers -> Worker]
    BY <1>14, ClosedType DEF LaunchFails, TypeOK
  <2> QED
    BY <1>14, <2>1, <2>2, <2>3, <2>4, <2>5 DEF LaunchFails, TypeOK, CoOK, sys
<1>15. CASE LaunchFailed(a)
  <2>1. co[a].t \in Tasks
    BY <1>15, Resumes DEF LaunchFailed
  <2>2. CoOK'
    BY <1>15, ReturnOK DEF LaunchFailed
  <2>3. rows' \in [Tasks -> Row] /\ notified' \subseteq Tasks \X Statuses
    BY <1>15, <2>1, FailLaunchType DEF LaunchFailed
  <2> QED
    BY <1>15, <2>1, <2>2, <2>3 DEF LaunchFailed, TypeOK, CoOK, sys
<1>16. CASE ResumeReady(a)
  <2>1. co[a].t \in Tasks /\ co[a].w \in Workers
    BY <1>16, Resumes DEF ResumeReady, OnWorker
  <2>2. CoOK'
    BY <1>16, <2>1, GotoOK, ReturnOK DEF ResumeReady, Awaits
  <2>3. rows' \in [Tasks -> Row]
    BY <1>16, <2>1, MovedType, WithProcessType DEF ResumeReady, TypeOK, Statuses
  <2>4. adapters' \in [Tasks -> Workers \cup {None}]
    BY <1>16, <2>1 DEF ResumeReady, TypeOK
  <2> QED
    BY <1>16, <2>1, <2>2, <2>3, <2>4 DEF ResumeReady, TypeOK, CoOK, sys
<1>17. CASE RestartLosesRow(a)
  <2>1. co[a].t \in Tasks /\ co[a].w \in Workers
    BY <1>17, Resumes DEF RestartLosesRow, OnWorker
  <2>2. CoOK'
    BY <1>17, GotoOK, FrameTypes DEF RestartLosesRow, At, Awaits, OnWorker
  <2>3. adapters' \in [Tasks -> Workers \cup {None}]
    BY <1>17, <2>1 DEF RestartLosesRow, TypeOK
  <2>4. wk' \in [Workers -> Worker]
    BY <1>17, ClosedType DEF RestartLosesRow, TypeOK
  <2> QED
    BY <1>17, <2>1, <2>2, <2>3, <2>4 DEF RestartLosesRow, TypeOK, CoOK, sys
<1>18. CASE RestartFails(a)
  <2>1. CoOK'
    BY <1>18, GotoOK, FrameTypes DEF RestartFails, At, Awaits, OnWorker
  <2>2. wk' \in [Workers -> Worker]
    BY <1>18, ClosedType DEF RestartFails, TypeOK
  <2> QED
    BY <1>18, <2>1, <2>2 DEF RestartFails, TypeOK, CoOK, sys
<1>19. CASE Steered(a)
  <2>1. co[a].t \in Tasks
    BY <1>19, Resumes DEF Steered
  <2>2. PollCall(co[a].t) \in Frame /\ FrameOK(PollCall(co[a].t))
    BY <2>1, CallType DEF PollCall, Ops, Awaits, Absent, OnWorker
  <2>3. CoOK'
    BY <1>19, <2>2, CallOK DEF Steered
  <2> QED
    BY <1>19, <2>1, <2>2, <2>3 DEF Steered, TypeOK, CoOK, sys
<1>20. CASE CancelSettles(a)
  <2>1. co[a].t \in Tasks
    BY <1>20, Resumes DEF CancelSettles
  <2>2. CoOK'
    BY <1>20, ReturnOK DEF CancelSettles
  <2>3. rows' \in [Tasks -> Row]
    BY <1>20, <2>1, MovedType DEF CancelSettles, TypeOK, Statuses
  <2>4. notified' \subseteq Tasks \X Statuses
    BY <1>20, <2>1, AnnouncedType DEF CancelSettles, TypeOK, Statuses
  <2> QED
    BY <1>20, <2>1, <2>2, <2>3, <2>4 DEF CancelSettles, TypeOK, CoOK, sys
<1>21. CASE DeleteTakesWorker(a)
  <2>1. co[a].t \in Tasks
    BY <1>21, Resumes DEF DeleteTakesWorker, DeleteLocked
  <2>2. adapters[co[a].t] \in Workers
    BY <1>21, <2>1 DEF DeleteTakesWorker, TypeOK
  <2>3. CoOK'
    BY <1>21, <2>2, GotoOnOK DEF DeleteTakesWorker, Awaits, OnWorker
  <2>4. adapters' \in [Tasks -> Workers \cup {None}]
    BY <1>21, <2>1 DEF DeleteTakesWorker, TypeOK
  <2>5. wk' \in [Workers -> Worker]
    BY <1>21, ClosedType DEF DeleteTakesWorker, TypeOK
  <2> QED
    BY <1>21, <2>1, <2>2, <2>3, <2>4, <2>5 DEF DeleteTakesWorker, TypeOK, CoOK, sys
<1>22. CASE DeleteRemoves(a)
  <2>1. co[a].t \in Tasks
    BY <1>22, Resumes DEF DeleteRemoves, DeleteLocked
  <2>2. CoOK'
    BY <1>22, ReturnOK DEF DeleteRemoves
  <2>3. rows' \in [Tasks -> Row]
    BY <1>22, <2>1, RemovedType DEF DeleteRemoves, TypeOK
  <2>4. files' \subseteq Tasks
    BY <1>22 DEF DeleteRemoves, TypeOK
  <2> QED
    BY <1>22, <2>1, <2>2, <2>3, <2>4 DEF DeleteRemoves, TypeOK, CoOK, sys
<1>23. CASE RecoveryReady(a)
  <2>1. co[a].t \in Tasks /\ co[a].w \in Workers
    BY <1>23, Resumes DEF RecoveryReady, OnWorker
  <2>2. CoOK'
    BY <1>23, GotoOK, FrameTypes DEF RecoveryReady, At, Awaits, OnWorker
  <2>3. rows' \in [Tasks -> Row]
    BY <1>23, <2>1, WithProcessType DEF RecoveryReady, TypeOK
  <2>4. adapters' \in [Tasks -> Workers \cup {None}]
    BY <1>23, <2>1 DEF RecoveryReady, TypeOK
  <2> QED
    BY <1>23, <2>1, <2>2, <2>3, <2>4 DEF RecoveryReady, TypeOK, CoOK, sys
<1>24. CASE RecoverySteerFails(a)
  <2>1. co[a].t \in Tasks
    BY <1>24, Resumes DEF RecoverySteerFails
  <2>2. CoOK'
    BY <1>24, GotoOK, FrameTypes DEF RecoverySteerFails, At, Awaits, OnWorker
  <2>3. adapters' \in [Tasks -> Workers \cup {None}]
    BY <1>24, <2>1 DEF RecoverySteerFails, TypeOK
  <2>4. wk' \in [Workers -> Worker]
    BY <1>24, ClosedType DEF RecoverySteerFails, TypeOK
  <2> QED
    BY <1>24, <2>1, <2>2, <2>3, <2>4 DEF RecoverySteerFails, TypeOK, CoOK, sys
<1>25. CASE RecoveryGivesUp(a)
  <2>1. co[a].t \in Tasks
    BY <1>25, Resumes DEF RecoveryGivesUp
  <2>2. CoOK'
    BY <1>25, ReturnOK DEF RecoveryGivesUp
  <2>3. rows' \in [Tasks -> Row] /\ notified' \subseteq Tasks \X Statuses
    BY <1>25, <2>1, RecoveryOrphansType DEF RecoveryGivesUp
  <2> QED
    BY <1>25, <2>1, <2>2, <2>3 DEF RecoveryGivesUp, TypeOK, CoOK, sys
<1>26. CASE \E w \in Workers : LaunchStarts(a, w)
  <2>0. PICK w \in Workers : LaunchStarts(a, w)
    BY <1>26
  <2>1. co[a].t \in Tasks
    BY <2>0, Resumes DEF LaunchStarts
  <2>2. CoOK'
    BY <2>0, GotoOnOK DEF LaunchStarts, Awaits
  <2>3. adapters' \in [Tasks -> Workers \cup {None}]
    BY <2>0, <2>1 DEF LaunchStarts, TypeOK
  <2>4. wk' \in [Workers -> Worker]
    BY <2>0, <2>1, StartedType DEF LaunchStarts, TypeOK
  <2>5. files' \subseteq Tasks
    BY <2>0, <2>1 DEF LaunchStarts, TypeOK
  <2> QED
    BY <2>0, <2>1, <2>2, <2>3, <2>4, <2>5 DEF LaunchStarts, TypeOK, CoOK, sys
<1> QED
  BY <1>1, <1>2, <1>3, <1>4, <1>5, <1>6, <1>7, <1>8, <1>9, <1>10, <1>11, <1>12, <1>13, <1>14,
     <1>15, <1>16, <1>17, <1>18, <1>19, <1>20, <1>21, <1>22, <1>23, <1>24, <1>25, <1>26 DEF Continue

\* A tool call's frame, as the action that starts the call fills it.
LEMMA NewCallOK ==
  ASSUME TypeOK, NEW c \in Clients, NEW op \in Ops, NEW at \in Awaits, NEW t \in Tasks,
         NEW w \in Workers \cup {None}, NEW seen \in Statuses \cup Absent,
         at \in OnWorker => w \in Workers,
         co' = [co EXCEPT ![c] = Call(op, at, t, w, seen)]
  PROVE  CoOK'
  BY CallType, CallOK DEF Actors

LEMMA RunningType ==
  ASSUME NEW w, Running(w)
  PROVE  w \in Workers
  BY DEF Running

LEMMA CallToolType ==
  ASSUME TypeOK, NEW c \in Clients, NEW t \in Tasks, CallTool(c, t)
  PROVE  TypeOK'
<1>1. CASE Create(c, t)
  <2>1. CoOK'
    BY <1>1, NewCallOK, ZenonT(60) DEF Create, Ops, Awaits, OnWorker, Statuses
  <2>2. rows' \in [Tasks -> Row]
    BY <1>1, NewRowType DEF Create, TypeOK, Statuses
  <2> QED
    BY <1>1, <2>1, <2>2 DEF Create, TypeOK, CoOK, sys, Calls
<1>2. CASE Poll(c, t)
  <2>1. CoOK'
    BY <1>2, NewCallOK DEF Poll, PollCall, Ops, Awaits, OnWorker, Absent
  <2> QED
    BY <1>2, <2>1 DEF Poll, TypeOK, CoOK, sys, Calls
<1>3. CASE FollowUp(c, t)
  <2>1. adapters[t] \in Workers
    BY <1>3, RunningType DEF FollowUp
  <2>2. CoOK'
    BY <1>3, <2>1, NewCallOK DEF FollowUp, Ops, Awaits, Absent
  <2>3. rows' \in [Tasks -> Row]
    BY <1>3, MovedType DEF FollowUp, TypeOK, Statuses
  <2> QED
    BY <1>3, <2>1, <2>2, <2>3 DEF FollowUp, TypeOK, CoOK, sys, Calls
<1>4. CASE ResumeInPlace(c, t)
  <2>1. adapters[t] \in Workers
    BY <1>4, RunningType DEF ResumeInPlace
  <2>2. rows[t].status \in Statuses \cup Absent
    BY <1>4, RowStatus DEF TypeOK
  <2>3. CoOK'
    BY <1>4, <2>1, <2>2, NewCallOK DEF ResumeInPlace, Ops, Awaits
  <2>4. rows' \in [Tasks -> Row]
    BY <1>4, MovedType DEF ResumeInPlace, TypeOK, Statuses
  <2> QED
    BY <1>4, <2>1, <2>2, <2>3, <2>4 DEF ResumeInPlace, TypeOK, CoOK, sys, Calls
<1>5. CASE CancelNow(c, t)
  <2>1. rows' \in [Tasks -> Row]
    BY <1>5, MovedType DEF CancelNow, TypeOK, Statuses
  <2>2. notified' \subseteq Tasks \X Statuses
    BY <1>5, AnnouncedType DEF CancelNow, TypeOK, Statuses
  <2> QED
    BY <1>5, <2>1, <2>2 DEF CancelNow, TypeOK, CoOK, sys, Calls
<1>6. CASE CancelAborts(c, t)
  <2>1. adapters[t] \in Workers
    BY <1>6, RunningType DEF CancelAborts
  <2>2. rows[t].status \in Statuses \cup Absent
    BY <1>6, RowStatus DEF TypeOK
  <2>3. CoOK'
    BY <1>6, <2>1, <2>2, NewCallOK DEF CancelAborts, Ops, Awaits
  <2> QED
    BY <1>6, <2>1, <2>2, <2>3 DEF CancelAborts, TypeOK, CoOK, sys, Calls
<1>7. CASE Delete(c, t)
  <2>1. CoOK'
    BY <1>7, NewCallOK DEF Delete, Ops, Awaits, OnWorker, Absent
  <2> QED
    BY <1>7, <2>1 DEF Delete, TypeOK, CoOK, sys, Calls
<1>8. CASE \E w \in Workers : ResumeRestarts(c, t, w)
  <2>0. PICK w \in Workers : ResumeRestarts(c, t, w)
    BY <1>8
  <2>1. rows[t].status \in Statuses \cup Absent
    BY <2>0, RowStatus DEF TypeOK
  <2>2. CoOK'
    BY <2>0, <2>1, NewCallOK DEF ResumeRestarts, Ops, Awaits
  <2>3. wk' \in [Workers -> Worker]
    BY <2>0, StartedType DEF ResumeRestarts, TypeOK
  <2>4. files' \subseteq Tasks
    BY <2>0 DEF ResumeRestarts, TypeOK
  <2> QED
    BY <2>0, <2>1, <2>2, <2>3, <2>4 DEF ResumeRestarts, TypeOK, CoOK, sys, Calls
<1> QED
  BY <1>1, <1>2, <1>3, <1>4, <1>5, <1>6, <1>7, <1>8 DEF CallTool

LEMMA ObserverType ==
  ASSUME TypeOK, ObserverCycle \/ \E t \in Tasks : Purge(t)
  PROVE  TypeOK'
<1>1. CASE ObserverCycle
  <2>1. \A t \in Tasks : PollCall(t) \in Frame /\ FrameOK(PollCall(t))
    BY CallType DEF PollCall, Ops, Awaits, Absent, OnWorker
  <2>2. CoOK'
    BY <1>1, <2>1 DEF ObserverCycle, TypeOK, CoOK, Registered
  <2> QED
    BY <1>1, <2>2 DEF ObserverCycle, TypeOK, CoOK, sys
<1>2. CASE \E t \in Tasks : Purge(t)
  <2>0. PICK t \in Tasks : Purge(t)
    BY <1>2
  <2>1. rows' \in [Tasks -> Row]
    BY <2>0, RemovedType DEF Purge, TypeOK
  <2>2. wk' \in [Workers -> Worker]
    BY <2>0, ClosedType DEF Purge, TypeOK
  <2>3. adapters' \in [Tasks -> Workers \cup {None}] /\ files' \subseteq Tasks
    BY <2>0 DEF Purge, TypeOK
  <2> QED
    BY <2>0, <2>1, <2>2, <2>3 DEF Purge, TypeOK, CoOK, sys
<1> QED
  BY <1>1, <1>2

\* A coroutine that was launching a worker is left to terminate it.
LEMMA AbandonedType ==
  ASSUME TypeOK, NEW a \in Actors, co[a].op = "launch"
  PROVE  /\ [co[a] EXCEPT !.op = "abandoned", !.at = "killing"] \in Frame
         /\ FrameOK([co[a] EXCEPT !.op = "abandoned", !.at = "killing"])
<1> DEFINE f == [co[a] EXCEPT !.op = "abandoned", !.at = "killing"]
<1>1. co[a] \in Frame /\ FrameOK(co[a])
  BY DEF TypeOK
<1>2. f \in Frame
  BY <1>1 DEF Frame, Ops, Awaits
<1>3. f.at = "killing" /\ f.t = co[a].t /\ co[a].t \in Tasks
  BY <1>1 DEF Frame, FrameOK
<1> QED
  BY <1>2, <1>3 DEF FrameOK

LEMMA UnloadType ==
  ASSUME TypeOK, Unload
  PROVE  TypeOK'
<1>1. CASE StopService
  <2>1. CoOK'
    BY <1>1, IdleType, AbandonedType DEF StopService, TypeOK, CoOK
  <2>2. wk' \in [Workers -> Worker]
    BY <1>1, ClosedType DEF StopService, TypeOK
  <2>3. adapters' \in [Tasks -> Workers \cup {None}] /\ agenda' \subseteq Tasks
    BY <1>1 DEF StopService, TypeOK
  <2> QED
    BY <1>1, <2>1, <2>2, <2>3 DEF StopService, TypeOK, CoOK
<1>2. CASE StopObserver
  <2>1. CoOK'
    BY <1>2, IdleType DEF StopObserver, TypeOK, CoOK
  <2>2. rows' \in [Tasks -> Row]
    BY <1>2 DEF StopObserver, TypeOK, Row, Statuses
  <2> QED
    BY <1>2, <2>1, <2>2 DEF StopObserver, TypeOK, CoOK
<1>3. CASE StopWorkers
  <2>1. wk' \in [Workers -> Worker]
    BY <1>3, ClosedType DEF StopWorkers, TypeOK
  <2>2. doomed' \subseteq Workers /\ adapters' \in [Tasks -> Workers \cup {None}]
    BY <1>3 DEF StopWorkers, Registered, TypeOK
  <2> QED
    BY <1>3, <2>1, <2>2 DEF StopWorkers, TypeOK, CoOK
<1>4. CASE CloseRegistry
  <2>1. rows' \in [Tasks -> Row]
    BY <1>4, MarkOrphanedType DEF CloseRegistry, TypeOK
  <2> QED
    BY <1>4, <2>1 DEF CloseRegistry, TypeOK, CoOK
<1> QED
  BY <1>1, <1>2, <1>3, <1>4 DEF Unload

LEMMA InterruptType ==
  ASSUME TypeOK, Crash \/ Load \/ Publish
  PROVE  TypeOK'
<1>1. CASE Crash
  <2>1. CoOK'
    BY <1>1, IdleType DEF Crash, CoOK
  <2>2. wk' \in [Workers -> Worker]
    <3>1. PICK state \in [Workers -> WorkerStates] :
            wk' = [w \in Workers |-> [wk[w] EXCEPT !.st = state[w]]]
      <4> DEFINE alive == {w \in Workers : wk[w].st \in {"running", "closing"}}
      <4>1. PICK survivors \in SUBSET alive :
              wk' = [w \in Workers |->
                       [wk[w] EXCEPT !.st = IF w \in survivors THEN "stray"
                                            ELSE IF w \in alive \/ @ = "created"
                                            THEN "gone" ELSE @]]
        BY <1>1 DEF Crash
      <4> DEFINE state == [w \in Workers |->
                             IF w \in survivors THEN "stray"
                             ELSE IF w \in alive \/ wk[w].st = "created"
                             THEN "gone" ELSE wk[w].st]
      <4>2. state \in [Workers -> WorkerStates]
        BY DEF TypeOK, Worker, WorkerStates
      <4>3. wk' = [w \in Workers |-> [wk[w] EXCEPT !.st = state[w]]]
        BY <4>1
      <4> QED
        BY <4>2, <4>3
    <3> QED
      BY <3>1, ZenonT(60) DEF TypeOK, Worker
  <2> QED
    BY <1>1, <2>1, <2>2 DEF Crash, TypeOK, CoOK
<1>2. CASE Load
  <2>1. wk' \in [Workers -> Worker]
    BY <1>2, SMTT(60) DEF Load, TypeOK, Worker, WorkerStates
  <2> QED
    BY <1>2, <2>1 DEF Load, TypeOK, CoOK
<1>3. CASE Publish
  BY <1>3 DEF Publish, TypeOK, CoOK
<1> QED
  BY <1>1, <1>2, <1>3

LEMMA RecoverType ==
  ASSUME TypeOK, NEW t \in Tasks, Recover(t)
  PROVE  TypeOK'
<1>1. CASE RecoverySkips(t)
  <2>1. rows' \in [Tasks -> Row]
    BY <1>1, MarkOrphanedType DEF RecoverySkips, TypeOK
  <2> QED
    BY <1>1, <2>1 DEF RecoverySkips, Recovers, TypeOK, CoOK
<1>2. CASE RecoveryImpossible(t)
  <2>1. rows' \in [Tasks -> Row] /\ notified' \subseteq Tasks \X Statuses
    BY <1>2, RecoveryOrphansType DEF RecoveryImpossible
  <2> QED
    BY <1>2, <2>1 DEF RecoveryImpossible, Recovers, TypeOK, CoOK
<1>3. CASE \E c \in Clients, w \in Workers : RecoveryRestarts(c, t, w)
  <2>0. PICK c \in Clients, w \in Workers : RecoveryRestarts(c, t, w)
    BY <1>3
  <2>1. rows[t].status \in Statuses \cup Absent
    BY RowStatus DEF TypeOK
  <2>2. CoOK'
    BY <2>0, <2>1, NewCallOK DEF RecoveryRestarts, Ops, Awaits
  <2>3. wk' \in [Workers -> Worker]
    BY <2>0, StartedType DEF RecoveryRestarts, TypeOK
  <2>4. files' \subseteq Tasks
    BY <2>0 DEF RecoveryRestarts, TypeOK
  <2> QED
    BY <2>0, <2>2, <2>3, <2>4 DEF RecoveryRestarts, Recovers, TypeOK, CoOK
<1> QED
  BY <1>1, <1>2, <1>3 DEF Recover

LEMMA WorkerType ==
  ASSUME TypeOK, NEW w \in Workers, WorkerEvent(w) \/ WorkerEnds(w)
  PROVE  TypeOK'
<1>1. CASE WorkerEvent(w)
  <2>1. wk' \in [Workers -> Worker]
    BY <1>1 DEF WorkerEvent, TypeOK, Worker
  <2> QED
    BY <1>1, <2>1 DEF WorkerEvent, TypeOK, CoOK, sys
<1>2. CASE WorkerEnds(w)
  <2>1. wk' \in [Workers -> Worker]
    BY <1>2 DEF WorkerEnds, TypeOK, Worker, WorkerStates
  <2> QED
    BY <1>2, <2>1 DEF WorkerEnds, TypeOK, CoOK, sys
<1> QED
  BY <1>1, <1>2

LEMMA InitType == Init => TypeOK
<1> SUFFICES ASSUME Init PROVE TypeOK
  OBVIOUS
<1>1. rows \in [Tasks -> Row]
  BY NewRowType DEF Init, Absent
<1>2. wk \in [Workers -> Worker]
  BY DEF Init, Worker, WorkerStates
<1>3. CoOK
  BY IdleType DEF Init, CoOK
<1> QED
  BY <1>1, <1>2, <1>3 DEF Init, TypeOK, CoOK

LEMMA StepType ==
  ASSUME TypeOK, Next
  PROVE  TypeOK'
  BY ContinueType, CallToolType, ObserverType, UnloadType, InterruptType, RecoverType,
     WorkerType DEF Next

\* Every variable keeps its type, a busy coroutine always names a task and one
\* that waits for a worker names it: what every handler of the scheduler relies
\* on when its await returns.
THEOREM TypeCorrect == Spec => []TypeOK
<1>1. Init => TypeOK
  BY InitType
<1>2. TypeOK /\ [Next]_vars => TypeOK'
  <2>1. ASSUME TypeOK, UNCHANGED vars PROVE TypeOK'
    BY <2>1 DEF vars, sys, TypeOK
  <2> QED
    BY <2>1, StepType
<1> QED
  BY <1>1, <1>2, PTL DEF Spec
================================================================================

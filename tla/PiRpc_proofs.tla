----------------------------- MODULE PiRpc_proofs -----------------------------
(***************************************************************************)
(* Proofs about PiRpc, for every set of commands, every buffer size and    *)
(* every selection of faults: type correctness, and that answers go to     *)
(* their own calls, that nobody waits in vain, and that terminate() leaves *)
(* nothing behind.  PiRpc implements PiWorker, the contract of a worker.   *)
(***************************************************************************)
EXTENDS PiRpc, TLAPS

\* Whatever is set or still in the pipe was answered by the process.
Truthful ==
  /\ \A i \in 1 .. Len(pipe) : pipe[i] \in Commands => pipe[i] \in told.answered
  /\ \A c \in Commands : futures[c] = "set" => c \in told.answered
  /\ AnswersAreOwn

\* A call that waits for an open future has it registered, and the wait task ends
\* before terminate() only with the process.
Registered ==
  /\ \A c \in Commands : calls[c] \in Waiting /\ futures[c] = "open" => c \in pending
  /\ waiter = "done" /\ ~closed => proc = "exited"
  /\ NobodyForgotten

\* terminate() stops the background tasks only when the process is gone, and neither
\* it nor they begin before the start.
Settled ==
  /\ term = "no" <=> ~closed
  /\ proc = "none" => term = "no" /\ reader = "off"
  /\ term \in {"stopping", "done"} => proc # "alive"
  /\ term = "done" => "on" \notin {reader, waiter}

IInv == TypeOK /\ Truthful /\ Registered /\ Settled
-------------------------------------------------------------------------------
\* One step of a queue of lines: what Head, Tail and Append do to its entries.
LEMMA QueueTail ==
  ASSUME NEW S, NEW q \in Seq(S), q # << >>
  PROVE  /\ Head(q) = q[1] /\ Head(q) \in S /\ Tail(q) \in Seq(S)
         /\ 1 \in 1 .. Len(q)
         /\ \A i \in 1 .. Len(Tail(q)) : Tail(q)[i] = q[i + 1] /\ i + 1 \in 1 .. Len(q)
  OBVIOUS

LEMMA QueueAppend ==
  ASSUME NEW S, NEW q \in Seq(S), NEW x \in S
  PROVE  /\ Append(q, x) \in Seq(S)
         /\ \A i \in 1 .. Len(Append(q, x)) :
              Append(q, x)[i] = x \/ (i \in 1 .. Len(q) /\ Append(q, x)[i] = q[i])
  OBVIOUS

\* The initial state satisfies the invariant.
LEMMA InitIInv == Init => IInv
<1> SUFFICES ASSUME Init PROVE IInv
  OBVIOUS
<1>1. TypeOK
  <2>1. pipe \in Seq(Lines) /\ log \in Seq(LogEntries)
    BY DEF Init
  <2>2. /\ calls \in [Commands -> CallStates]
        /\ futures \in [Commands -> {"none", "open", "set", "error", "cancelled"}]
        /\ told \in [sent: SUBSET Commands, answered: SUBSET Commands]
    BY DEF Init, CallStates
  <2> QED
    BY <2>1, <2>2 DEF Init, TypeOK
<1>2. Truthful
  BY DEF Init, Truthful, AnswersAreOwn
<1>3. Registered
  BY DEF Init, Registered, NobodyForgotten, Waiting
<1>4. Settled
  BY DEF Init, Settled
<1> QED
  BY <1>1, <1>2, <1>3, <1>4 DEF IInv
-------------------------------------------------------------------------------
\* The entry made for a line is one of the kinds that are logged.
LEMMA EntryKind ==
  ASSUME NEW line \in Lines
  PROVE  Entry(line) \in LogEntries
  BY CommandsAssumption DEF Entry, Lines, EventLines, LogEntries

\* Every action keeps the types.
LEMMA TypeStep == TypeOK /\ [Next]_vars => TypeOK'
<1> SUFFICES ASSUME TypeOK, [Next]_vars PROVE TypeOK'
  OBVIOUS
<1> USE DEF worker, client, loops, poll
<1>1. CASE Start
  BY <1>1 DEF Start, TypeOK
<1>2. ASSUME NEW c \in Commands,
             Send(c) \/ SendRefused(c) \/ Call(c) \/ CallCancelled(c)
      PROVE  TypeOK'
  <2> USE DEF Goto, CallStates, Waiting
  <2>1. CASE Send(c) \/ LockGranted(c)
    <3>1. told' \in [sent: SUBSET Commands, answered: SUBSET Commands]
      BY <2>1 DEF Send, LockGranted, TypeOK
    <3>2. /\ calls' \in [Commands -> CallStates]
          /\ futures' \in [Commands -> {"none", "open", "set", "error", "cancelled"}]
          /\ pending' \subseteq Commands
      BY <2>1 DEF Send, LockGranted, TypeOK
    <3> QED
      BY <2>1, <3>1, <3>2 DEF Send, LockGranted, TypeOK
  <2>2. CASE SendRefused(c)
    BY <2>2 DEF SendRefused, TypeOK
  <2>4. CASE CallCancelled(c)
    BY <2>4 DEF CallCancelled, TypeOK
  <2>3. CASE Flushed(c) \/ WriteFails(c) \/ Answered(c) \/ TimesOut(c)
    BY <2>3 DEF Flushed, WriteFails, Answered, TimesOut, TypeOK
  <2> QED
    BY <1>2, <2>1, <2>2, <2>3, <2>4 DEF Call
<1>3. CASE ReaderTakes
  <2>1. Head(pipe) \in Lines /\ Tail(pipe) \in Seq(Lines)
    BY <1>3, QueueTail DEF ReaderTakes, LineRead, TypeOK
  <2>2. log' \in Seq(LogEntries)
    BY <1>3, <2>1, EntryKind DEF ReaderTakes, Recorded, TypeOK
  <2>3. pending' \subseteq Commands /\ futures' \in [Commands -> {"none", "open", "set", "error", "cancelled"}]
    BY <1>3 DEF ReaderTakes, Resolves, TypeOK
  <2> QED
    BY <1>3, <2>1, <2>2, <2>3 DEF ReaderTakes, TypeOK
<1>4. CASE ReaderEnds
  BY <1>4 DEF ReaderEnds, TypeOK
<1>5. CASE WaiterEnds
  <2>1. "process_exit" \in LogEntries
    BY DEF LogEntries
  <2>2. log' \in Seq(LogEntries)
    <3>1. log \in Seq(LogEntries)
      BY DEF TypeOK
    <3>2. Recorded("process_exit") \in Seq(LogEntries)
      BY <2>1, <3>1, QueueAppend DEF Recorded
    <3>3. log' \in {log, Recorded("process_exit")}
      BY <1>5, ZenonT(30) DEF WaiterEnds
    <3> QED
      BY <3>1, <3>2, <3>3
  <2>3. /\ futures' \in [Commands -> {"none", "open", "set", "error", "cancelled"}]
        /\ pending' \subseteq Commands
    BY <1>5 DEF WaiterEnds, FailPending, TypeOK
  <2> QED
    BY <1>5, <2>2, <2>3 DEF WaiterEnds, TypeOK
<1>6. CASE Terminate
  BY <1>6 DEF Terminate, FailPending, TypeOK
<1>7. CASE TerminateGoesOn \/ TermCancelled
  BY <1>7 DEF TerminateGoesOn, TermSignals, TermKills, TermSeesExit, TermStops,
     TermCancelled, TypeOK
<1>8. CASE Observe
  BY <1>8 DEF Observe, TypeOK
<1>9. ASSUME NEW c \in Commands, Answers(c) PROVE TypeOK'
  BY <1>9 DEF Answers, TypeOK, Lines
<1>10. CASE Emits
  BY <1>10 DEF Emits, TypeOK, Lines, EventLines
<1>11. CASE Jams \/ Exits
  BY <1>11, ZenonT(60) DEF Jams, Exits, TypeOK
<1>12. CASE UNCHANGED vars
  BY <1>12 DEF vars, TypeOK
<1> QED
  BY <1>1, <1>2, <1>3, <1>4, <1>5, <1>6, <1>7, <1>8, <1>9, <1>10, <1>11, <1>12 DEF Next

\* Nothing is made up on the way from the process to the call.
LEMMA TruthfulStep == TypeOK /\ Truthful /\ [Next]_vars => Truthful'
<1> SUFFICES ASSUME TypeOK, Truthful, [Next]_vars PROVE Truthful'
  OBVIOUS
<1> USE DEF worker, client, loops, poll, Truthful, AnswersAreOwn
<1>1. CASE Start
  BY <1>1 DEF Start, TypeOK
<1>2. ASSUME NEW c \in Commands,
             Send(c) \/ SendRefused(c) \/ Call(c) \/ CallCancelled(c)
      PROVE  Truthful'
  BY <1>2 DEF Send, SendRefused, Call, LockGranted, Flushed, WriteFails, Answered,
     TimesOut, CallCancelled, Goto, TypeOK
<1>3. CASE ReaderTakes
  <2>1. /\ Head(pipe) = pipe[1] /\ 1 \in 1 .. Len(pipe)
        /\ \A i \in 1 .. Len(Tail(pipe)) :
             Tail(pipe)[i] = pipe[i + 1] /\ i + 1 \in 1 .. Len(pipe)
    BY <1>3, QueueTail DEF ReaderTakes, LineRead, TypeOK
  <2>2. \A i \in 1 .. Len(pipe') : pipe'[i] \in Commands => pipe'[i] \in told.answered
    BY <1>3, <2>1 DEF ReaderTakes
  <2>3. \A c \in Commands : futures'[c] = "set" => c \in told.answered
    BY <1>3, <2>1 DEF ReaderTakes, Resolves, TypeOK
  <2> QED
    BY <1>3, <2>2, <2>3 DEF ReaderTakes
<1>4. CASE ReaderEnds
  BY <1>4 DEF ReaderEnds
<1>5. CASE WaiterEnds
  BY <1>5 DEF WaiterEnds, FailPending, TypeOK
<1>6. CASE Terminate
  BY <1>6 DEF Terminate, FailPending, TypeOK
<1>7. CASE TerminateGoesOn \/ TermCancelled
  BY <1>7 DEF TerminateGoesOn, TermSignals, TermKills, TermSeesExit, TermStops,
     TermCancelled
<1>8. CASE Observe
  BY <1>8 DEF Observe
<1>9. ASSUME NEW c \in Commands, Answers(c) PROVE Truthful'
  <2>1. \A i \in 1 .. Len(pipe') : pipe'[i] = c \/ (i \in 1 .. Len(pipe) /\ pipe'[i] = pipe[i])
    BY <1>9, QueueAppend DEF Answers, TypeOK, Lines
  <2>2. told'.answered = told.answered \cup {c}
    BY <1>9 DEF Answers, TypeOK
  <2> QED
    BY <1>9, <2>1, <2>2 DEF Answers
<1>10. CASE Emits
  <2>1. PICK line \in EventLines : pipe' = Append(pipe, line)
    BY <1>10 DEF Emits
  <2>2. \A i \in 1 .. Len(pipe') : pipe'[i] = line \/ (i \in 1 .. Len(pipe) /\ pipe'[i] = pipe[i])
    BY <2>1, QueueAppend DEF TypeOK, Lines
  <2>3. line \notin Commands
    BY CommandsAssumption DEF EventLines
  <2> QED
    BY <1>10, <2>2, <2>3 DEF Emits
<1>11. CASE Jams \/ Exits
  BY <1>11 DEF Jams, Exits
<1>12. CASE UNCHANGED vars
  BY <1>12 DEF vars
<1> QED
  BY <1>1, <1>2, <1>3, <1>4, <1>5, <1>6, <1>7, <1>8, <1>9, <1>10, <1>11, <1>12 DEF Next

\* Failing the pending futures leaves no call with an open one.
LEMMA PendingFailed ==
  ASSUME TypeOK, Registered, FailPending, UNCHANGED calls
  PROVE  \A c \in Commands : calls'[c] \in Waiting => futures'[c] # "open"
  BY DEF TypeOK, Registered, FailPending

\* A call registers its future before it waits, and not when it is too late.
LEMMA RegisteredStep == TypeOK /\ Settled /\ Registered /\ [Next]_vars => Registered'
<1> SUFFICES ASSUME TypeOK, Settled, Registered, [Next]_vars PROVE Registered'
  OBVIOUS
<1> USE DEF worker, client, loops, poll, Registered, NobodyForgotten
<1>1. CASE Start
  BY <1>1 DEF Start, TypeOK
<1>2. ASSUME NEW c \in Commands,
             Send(c) \/ SendRefused(c) \/ Call(c) \/ CallCancelled(c)
      PROVE  Registered'
  <2>1. CASE Send(c)
    BY <2>1 DEF Send, Writable, Goto, TypeOK, Waiting
  <2>2. CASE SendRefused(c) \/ CallCancelled(c)
    BY <2>2 DEF SendRefused, CallCancelled, Goto, TypeOK, Waiting
  <2>3. CASE LockGranted(c) \/ Flushed(c)
    BY <2>3 DEF LockGranted, Flushed, Goto, TypeOK, Waiting
  <2>4. CASE WriteFails(c) \/ Answered(c) \/ TimesOut(c)
    BY <2>4 DEF WriteFails, Answered, TimesOut, Goto, TypeOK, Waiting
  <2> QED
    BY <1>2, <2>1, <2>2, <2>3, <2>4 DEF Call
<1>3. CASE ReaderTakes
  BY <1>3 DEF ReaderTakes, Resolves, TypeOK
<1>4. CASE ReaderEnds
  BY <1>4 DEF ReaderEnds
<1>5. CASE WaiterEnds
  <2>1. CASE closed
    BY <1>5, <2>1 DEF WaiterEnds
  <2>2. CASE ~closed
    BY <1>5, <2>2, PendingFailed DEF WaiterEnds
  <2> QED
    BY <2>1, <2>2
<1>6. CASE Terminate
  BY <1>6, PendingFailed DEF Terminate
<1>7. CASE TerminateGoesOn \/ TermCancelled
  <2>1. CASE TermStops
    BY <2>1 DEF TermStops, TypeOK, Settled
  <2>2. CASE ~TermStops
    BY <1>7, <2>2 DEF TerminateGoesOn, TermSignals, TermKills, TermSeesExit, TermCancelled
  <2> QED
    BY <2>1, <2>2
<1>8. CASE Observe
  BY <1>8 DEF Observe
<1>9. ASSUME NEW c \in Commands, Answers(c) PROVE Registered'
  BY <1>9 DEF Answers
<1>10. CASE Emits
  BY <1>10 DEF Emits
<1>11. CASE Jams \/ Exits
  BY <1>11 DEF Jams, Exits
<1>12. CASE UNCHANGED vars
  BY <1>12 DEF vars
<1> QED
  BY <1>1, <1>2, <1>3, <1>4, <1>5, <1>6, <1>7, <1>8, <1>9, <1>10, <1>11, <1>12 DEF Next

\* terminate() goes through its stages in order.
LEMMA SettledStep == TypeOK /\ Settled /\ [Next]_vars => Settled'
<1> SUFFICES ASSUME TypeOK, Settled, [Next]_vars PROVE Settled'
  OBVIOUS
<1> USE DEF worker, client, loops, poll, Settled
<1>1. CASE Start
  BY <1>1 DEF Start
<1>2. ASSUME NEW c \in Commands,
             Send(c) \/ SendRefused(c) \/ Call(c) \/ CallCancelled(c)
      PROVE  Settled'
  BY <1>2 DEF Send, SendRefused, Call, LockGranted, Flushed, WriteFails, Answered,
     TimesOut, CallCancelled
<1>3. CASE ReaderTakes \/ ReaderEnds
  BY <1>3 DEF ReaderTakes, ReaderEnds, LineRead
<1>4. CASE WaiterEnds
  BY <1>4 DEF WaiterEnds
<1>5. CASE Terminate
  BY <1>5 DEF Terminate
<1>6. CASE TermSignals
  BY <1>6 DEF TermSignals
<1>7. CASE TermKills \/ TermSeesExit \/ TermCancelled
  BY <1>7 DEF TermKills, TermSeesExit, TermCancelled
<1>8. CASE TermStops
  BY <1>8 DEF TermStops
<1>9. CASE Observe
  BY <1>9 DEF Observe
<1>10. ASSUME NEW c \in Commands, Answers(c) PROVE Settled'
  BY <1>10 DEF Answers
<1>11. CASE Emits \/ Jams \/ Exits
  BY <1>11 DEF Emits, Jams, Exits
<1>12. CASE UNCHANGED vars
  BY <1>12 DEF vars
<1> QED
  BY <1>1, <1>2, <1>3, <1>4, <1>5, <1>6, <1>7, <1>8, <1>9, <1>10, <1>11, <1>12
  DEF Next, TerminateGoesOn
-------------------------------------------------------------------------------
\* The invariant holds in every state.
THEOREM RpcInvCorrect == Spec => []IInv
<1>1. IInv /\ [Next]_vars => IInv'
  BY TypeStep, TruthfulStep, RegisteredStep, SettledStep DEF IInv
<1> QED
  BY InitIInv, <1>1, PTL DEF Spec

\* Every variable of the adapter keeps its type.
THEOREM RpcTypeCorrect == Spec => []TypeOK
<1>1. IInv => TypeOK
  BY DEF IInv
<1> QED
  BY RpcInvCorrect, <1>1, PTL

\* An answer that a call returns was given by the process to that very command
\* (_handle_event pops the future of the id it finds in the line).
THEOREM OwnAnswers == Spec => []AnswersAreOwn
<1>1. IInv => AnswersAreOwn
  BY DEF IInv, Truthful
<1> QED
  BY RpcInvCorrect, <1>1, PTL

\* Once the end of the process was noticed, or terminate() began, no call waits
\* for an answer that will not come (_fail_pending, and the order of registering
\* and writing in _send_and_wait).
THEOREM NobodyWaitsInVain == Spec => []NobodyForgotten
<1>1. IInv => NobodyForgotten
  BY DEF IInv, Registered
<1> QED
  BY RpcInvCorrect, <1>1, PTL

\* When terminate() has returned, neither the process nor a background task is
\* left.
THEOREM TerminateLeavesNothing == Spec => []QuietAfterTerminate
<1>1. IInv => QuietAfterTerminate
  BY DEF IInv, Settled, QuietAfterTerminate
<1> QED
  BY RpcInvCorrect, <1>1, PTL

\* Whenever the scheduler drains the buffer beyond its cursor, an agent_end that
\* it does not see was pushed out by a full buffer of newer events (drain_events,
\* and the deque's maxlen).
THEOREM EndIsSeen == Spec => EndSeenUnlessFlooded
<1> DEFINE Seen ==
      verdict = "running" /\ verdict' \in {"running", "orphaned"} /\ cursor' # cursor =>
        \A i \in (cursor + 1) .. cursor' :
          log[i] = "agent_end" => cursor' - i >= BufferSize
<1>1. TypeOK /\ [Next]_vars => [Seen]_vars
  <2> SUFFICES ASSUME TypeOK, Next, verdict' \in {"running", "orphaned"}, cursor' # cursor,
                      NEW i \in (cursor + 1) .. cursor', log[i] = "agent_end"
               PROVE  cursor' - i >= BufferSize
    BY DEF vars
  <2>1. Observe
    BY DEF Next, worker, client, loops, poll, Start, Send, SendRefused, Call, LockGranted,
       Flushed, WriteFails, Answered, TimesOut, CallCancelled, ReaderTakes, ReaderEnds,
       WaiterEnds, Terminate, TerminateGoesOn, TermSignals, TermKills, TermSeesExit,
       TermStops, TermCancelled, Answers, Emits, Jams, Exits
  <2>2. cursor' = Len(log) /\ i \notin Drained
    BY <2>1 DEF Observe
  <2>3. Len(log) \in Nat /\ cursor \in Nat /\ BufferSize \in Nat
    BY BufferAssumption DEF TypeOK
  <2>4. ~ (i + BufferSize > Len(log))
    BY <2>2 DEF Drained, Buffered
  <2> QED
    BY <2>2, <2>3, <2>4
<1>2. EndSeenUnlessFlooded <=> [][Seen]_vars
  BY PTL DEF EndSeenUnlessFlooded
<1> QED
  BY RpcTypeCorrect, <1>1, <1>2, PTL DEF Spec
-------------------------------------------------------------------------------
(***************************************************************************)
(* The contract of PiWorker.                                               *)
(***************************************************************************)
\* What the contract sees of the adapter.
Stage == IF proc = "none" THEN "new"
         ELSE IF proc # "alive" THEN "gone"
         ELSE IF closed THEN "closing" ELSE "running"

EndsIn(q) == {i \in 1 .. Len(q) : q[i] = "agent_end"}

\* Only a reader's line and the exit that the wait task saw are recorded, each at
\* the end, and the worker stays where it is meanwhile.
LEMMA LogStep ==
  ASSUME TypeOK, Settled, Next
  PROVE  \/ log' = log
         \/ Stage # "new" /\ Stage' = Stage /\ \E e \in LogEntries : log' = Append(log, e)
<1>1. CASE ReaderTakes
  <2>1. Entry(Head(pipe)) \in LogEntries
    BY <1>1, QueueTail, EntryKind DEF ReaderTakes, LineRead, TypeOK
  <2>2. Stage # "new" /\ Stage' = Stage
    BY <1>1 DEF ReaderTakes, LineRead, Settled, Stage, worker
  <2> QED
    BY <1>1, <2>1, <2>2 DEF ReaderTakes, Recorded
<1>2. CASE WaiterEnds
  BY <1>2 DEF WaiterEnds, Recorded, LogEntries, Stage, worker
<1> QED
  BY <1>1, <1>2 DEF Next, worker, client, loops, poll, Start, Send, SendRefused, Call,
     LockGranted, Flushed, WriteFails, Answered, TimesOut, CallCancelled, ReaderEnds,
     Terminate, TerminateGoesOn, TermSignals, TermKills, TermSeesExit, TermStops,
     TermCancelled, Observe, Answers, Emits, Jams, Exits

\* A step starts the process, closes the adapter, ends the process, or none of them.
LEMMA StageStep ==
  ASSUME TypeOK, Settled, Next
  PROVE  \/ Stage' = Stage
         \/ Stage = "new" /\ Stage' \in {"running", "gone"}
         \/ Stage = "running" /\ Stage' \in {"closing", "gone"}
         \/ Stage = "closing" /\ Stage' = "gone"
<1> USE DEF Settled, Stage
<1>1. CASE Start
  BY <1>1 DEF Start
<1>2. CASE Terminate
  BY <1>2 DEF Terminate, worker
<1>3. CASE Exits
  BY <1>3 DEF Exits
<1>4. CASE UNCHANGED <<proc, closed>>
  BY <1>4
<1> QED
  BY <1>1, <1>2, <1>3, <1>4 DEF Next, worker, client, loops, poll, Send, SendRefused, Call,
     LockGranted, Flushed, WriteFails, Answered, TimesOut, CallCancelled, ReaderTakes,
     ReaderEnds, WaiterEnds, TerminateGoesOn, TermSignals, TermKills, TermSeesExit,
     TermStops, TermCancelled, Observe, Answers, Emits, Jams

\* An entry at the end of the log leaves the numbers of the others alone.
LEMMA EndsOfAppend ==
  ASSUME NEW q \in Seq(LogEntries), NEW e \in LogEntries
  PROVE  /\ Len(Append(q, e)) = Len(q) + 1
         /\ EndsIn(Append(q, e)) \in {EndsIn(q), EndsIn(q) \cup {Len(q) + 1}}
<1>1. Len(q) \in Nat /\ Len(Append(q, e)) = Len(q) + 1
  OBVIOUS
<1>2. \A i \in 1 .. Len(q) : Append(q, e)[i] = q[i]
  OBVIOUS
<1>3. Append(q, e)[Len(q) + 1] = e
  OBVIOUS
<1>4. 1 .. Len(q) + 1 = (1 .. Len(q)) \cup {Len(q) + 1} /\ Len(q) + 1 \notin 1 .. Len(q)
  BY <1>1
<1>5. CASE e = "agent_end"
  BY <1>1, <1>2, <1>3, <1>4, <1>5 DEF EndsIn
<1>6. CASE e # "agent_end"
  BY <1>1, <1>2, <1>3, <1>4, <1>6 DEF EndsIn
<1> QED
  BY <1>1, <1>5, <1>6

\* The adapter keeps the contract its users rely on: one process, started once and
\* not after terminate(), and events that keep the numbers they were recorded under
\* (_record_event), however reading, exit and terminate() interleave.
THEOREM ContractProvided == Spec => KeepsContract
<1>1. Init => Adapter!Init
  BY DEF Init, Adapter!Init
<1>2. IInv /\ [Next]_vars => [Adapter!Next]_(Adapter!vars)
  <2>1. ASSUME IInv, Next PROVE Adapter!Next
    <3>1. TypeOK /\ Settled
      BY <2>1 DEF IInv
    <3>2. CASE log' = log
      BY <2>1, <3>1, <3>2, StageStep
      DEF Adapter!Next, Adapter!Move, Adapter!Starts, Adapter!Closes, Adapter!Ends,
          Adapter!Goes, Adapter!Silent, Stage
    <3>3. ASSUME NEW e \in LogEntries, log' = Append(log, e),
                 Stage # "new", Stage' = Stage
          PROVE  Adapter!Next
      <4>1. Len(log') = Len(log) + 1 /\
              EndsIn(log') \in {EndsIn(log), EndsIn(log) \cup {Len(log) + 1}}
        BY <3>1, <3>3, EndsOfAppend DEF TypeOK
      <4> QED
        BY <3>3, <4>1 DEF Adapter!Next, Adapter!Move, Adapter!Records, EndsIn, Stage
    <3> QED
      BY <2>1, <3>1, <3>2, <3>3, LogStep
  <2>2. ASSUME UNCHANGED vars PROVE UNCHANGED Adapter!vars
    BY <2>2 DEF vars, Adapter!vars
  <2> QED
    BY <2>1, <2>2
<1> QED
  BY <1>1, <1>2, RpcInvCorrect, PTL DEF Spec, KeepsContract, Adapter!Spec
===============================================================================

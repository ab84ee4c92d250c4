-------------------------------- MODULE PiRpc ---------------------------------
(***************************************************************************)
(* pi_agent_bridge/rpc.py: the adapter that owns one Pi process.  A reader *)
(* task turns the process's output lines into events and answers, a wait   *)
(* task notices its end, calls write commands and wait for their answers,  *)
(* terminate() closes everything, and the scheduler's poll reads the event *)
(* buffer (_observe_task in scheduler.py).                                 *)
(*                                                                         *)
(* An action is a run of one asyncio task between two suspensions.  stderr *)
(* and the classification of events as meaningful do not influence any of  *)
(* this and are left out.  A definition introduced by "Mutant:" is not     *)
(* part of the model, but a plausible bug in the one that follows it.      *)
(***************************************************************************)
EXTENDS Naturals, Sequences, FiniteSets

CONSTANTS
  Commands,    \* calls of _send_and_wait; each has a command id of its own
  BufferSize,  \* event_buffer_size
  Faults,      \* what may go wrong, a subset of FaultKinds
  MaxEvents    \* bound: lines the worker writes that are not answers

\* The worker stops reading its input; it writes a line over the stream limit, which ends the
\* reader;
\* the coroutine that runs a command or terminate() is cancelled.
FaultKinds == {"jam", "overlong", "cancel"}

ASSUME BufferAssumption == BufferSize \in Nat \ {0} /\ MaxEvents \in Nat
ASSUME FaultsAssumption == Faults \subseteq FaultKinds
ASSUME CommandsAssumption == Commands \cap {"agent_end", "update", "overlong"} = {}

VARIABLES
  proc,     \* the process; "exited" once asyncio has set its returncode
  closed,   \* _closed
  pipe,     \* output lines of the process that the reader did not take yet
  log,      \* events recorded so far; _next_cursor is its length
  calls,    \* where each call of _send_and_wait is
  futures,  \* the future each call waits for
  pending,  \* keys of _pending_responses
  told,     \* commands the process was sent, and those it has answered
  jammed,   \* the process does not read, and the write buffer is over its limit
  reader,   \* the reader task
  waiter,   \* the wait task
  term,     \* where terminate() is
  cursor,   \* the scheduler's cursor
  verdict   \* what the scheduler's last poll made of the task

worker == <<proc, told, jammed>>
client == <<calls, futures, pending>>
loops  == <<reader, waiter>>
poll   == <<cursor, verdict>>
vars   == <<proc, closed, pipe, log, calls, futures, pending, told, jammed,
            reader, waiter, term, cursor, verdict>>

\* A line is an answer, identified with its command, or an event.
EventLines == {"agent_end", "update", "overlong"}

Lines == Commands \cup EventLines

\* Of a recorded event, an answer is kept as any other event.
LogEntries == {"agent_end", "update", "response", "rpc_error", "process_exit"}

Waiting == {"locking", "draining", "waiting"}

CallStates == {"unsent", "answered", "failed", "cancelled"} \cup Waiting

IsRunning == proc = "alive" /\ ~closed

\* Mutant: only the process is asked, not the adapter.
ProcessWritable == proc = "alive"

\* _check_writable.
Writable == proc = "alive" /\ ~closed

\* Mutant: the buffer keeps one event less.
BufferedTight(i) == i + BufferSize > Len(log) + 1

\* The deque keeps the last BufferSize events.
Buffered(i) == i + BufferSize > Len(log)

\* drain_events(after_cursor=cursor).
Drained == {i \in (cursor + 1) .. Len(log) : Buffered(i)}

\* _fail_pending.
FailPending ==
  /\ futures' = [c \in Commands |->
                   IF c \in pending /\ futures[c] = "open" THEN "error" ELSE futures[c]]
  /\ pending' = {}

Init ==
  /\ proc = "none"
  /\ closed = FALSE
  /\ pipe = << >>
  /\ log = << >>
  /\ calls = [c \in Commands |-> "unsent"]
  /\ futures = [c \in Commands |-> "none"]
  /\ pending = {}
  /\ told = [sent |-> {}, answered |-> {}]
  /\ jammed = FALSE
  /\ reader = "off"
  /\ waiter = "off"
  /\ term = "no"
  /\ cursor = 0
  /\ verdict = "running"
-------------------------------------------------------------------------------
\* start(): the process is spawned and its loops run; or it is not, and the
\* adapter has no process.
Start ==
  /\ proc = "none"
  /\ term = "no"
  /\ \/ proc' = "alive" /\ reader' = "on" /\ waiter' = "on"
     \/ proc' = "unspawned" /\ UNCHANGED loops
  /\ UNCHANGED <<closed, pipe, log, client, told, jammed, term, poll>>

(***************************************************************************)
(* Commands: _send_and_wait and _write_command.                            *)
(***************************************************************************)
WriteLockFree == \A c \in Commands : calls[c] # "draining"

Goto(c, at) == calls' = [calls EXCEPT ![c] = at]

\* The future is registered before anything is written.  Without contention the
\* line goes out at once.
Send(c) ==
  /\ proc # "none"
  /\ calls[c] = "unsent"
  /\ Writable
  /\ pending' = pending \cup {c}
  /\ futures' = [futures EXCEPT ![c] = "open"]
  /\ IF WriteLockFree
     THEN Goto(c, "draining") /\ told' = [told EXCEPT !.sent = @ \cup {c}]
     ELSE Goto(c, "locking") /\ UNCHANGED told
  /\ UNCHANGED <<proc, closed, pipe, log, jammed, loops, term, poll>>

SendRefused(c) ==
  /\ proc # "none"
  /\ calls[c] = "unsent"
  /\ ~Writable
  /\ Goto(c, "failed")
  /\ UNCHANGED <<proc, closed, pipe, log, futures, pending, told, jammed, loops,
                 term, poll>>

LockGranted(c) ==
  /\ calls[c] = "locking"
  /\ WriteLockFree
  /\ Goto(c, "draining")
  /\ told' = IF IsRunning THEN [told EXCEPT !.sent = @ \cup {c}] ELSE told
  /\ UNCHANGED <<proc, closed, pipe, log, futures, pending, jammed, loops, term, poll>>

\* drain() returns when the write buffer is low enough.
Flushed(c) ==
  /\ calls[c] = "draining"
  /\ ~jammed
  /\ Goto(c, "waiting")
  /\ UNCHANGED <<proc, closed, pipe, log, futures, pending, told, jammed, loops,
                 term, poll>>

\* The connection to the process is lost: drain() raises.
WriteFails(c) ==
  /\ calls[c] = "draining"
  /\ proc # "alive" \/ (closed /\ ~jammed)
  /\ Goto(c, "failed")
  /\ pending' = pending \ {c}
  /\ UNCHANGED <<proc, closed, pipe, log, futures, told, jammed, loops, term, poll>>

\* wait_for returns, or raises, what the future holds.
Answered(c) ==
  /\ calls[c] = "waiting"
  /\ futures[c] \in {"set", "error"}
  /\ Goto(c, IF futures[c] = "set" THEN "answered" ELSE "failed")
  /\ UNCHANGED <<proc, closed, pipe, log, futures, pending, told, jammed, loops,
                 term, poll>>

\* Mutant: a call has no timeout.
WaitsOn(c) == FALSE

TimesOut(c) ==
  /\ calls[c] = "waiting"
  /\ futures[c] = "open"
  /\ Goto(c, "failed")
  /\ futures' = [futures EXCEPT ![c] = "cancelled"]
  /\ pending' = pending \ {c}
  /\ UNCHANGED <<proc, closed, pipe, log, told, jammed, loops, term, poll>>

\* A cancelled call leaves its entry in _pending_responses.
CallCancelled(c) ==
  /\ "cancel" \in Faults
  /\ calls[c] \in Waiting
  /\ Goto(c, "cancelled")
  /\ futures' = IF calls[c] = "waiting" /\ futures[c] = "open"
                THEN [futures EXCEPT ![c] = "cancelled"] ELSE futures
  /\ UNCHANGED <<proc, closed, pipe, log, pending, told, jammed, loops, term, poll>>
-------------------------------------------------------------------------------
(***************************************************************************)
(* The background loops.                                                   *)
(***************************************************************************)
\* Mutant: an answer goes to whoever waits.
ResolvesAny(line) ==
  IF line \in Commands
  THEN /\ futures' = [c \in Commands |->
                        IF c \in pending /\ futures[c] = "open" THEN "set" ELSE futures[c]]
       /\ pending' = {}
  ELSE UNCHANGED <<futures, pending>>

\* _handle_event's answer: it goes to the call that registered its id.
Resolves(line) ==
  /\ pending' = pending \ {line}
  /\ futures' = IF line \in pending /\ futures[line] = "open"
                THEN [futures EXCEPT ![line] = "set"] ELSE futures

Entry(line) ==
  IF line \in Commands THEN "response"
  ELSE IF line = "overlong" THEN "rpc_error" ELSE line

\* Mutant: events are numbered by the length of the buffer, which drops its oldest.
RecordedInBuffer(e) == Append(IF Len(log) < BufferSize THEN log ELSE Tail(log), e)

\* _record_event: the number of an event is a counter of its own.
Recorded(e) == Append(log, e)

\* Mutant: nothing is read any more once the process has ended.
LineReadAlive == reader = "on" /\ pipe # << >> /\ proc = "alive"

LineRead == reader = "on" /\ pipe # << >>

\* One round of _reader_loop.  After terminate() began, the line it is waiting
\* for is its last one; one it cannot take is its last one, too.
ReaderTakes ==
  /\ LineRead
  /\ Resolves(Head(pipe))
  /\ log' = Recorded(Entry(Head(pipe)))
  /\ pipe' = Tail(pipe)
  /\ reader' = IF closed \/ Head(pipe) = "overlong" THEN "done" ELSE "on"
  /\ UNCHANGED <<worker, closed, calls, waiter, term, poll>>

ReaderEnds ==
  /\ reader = "on"
  /\ pipe = << >>
  /\ proc = "exited"
  /\ reader' = "done"
  /\ UNCHANGED <<worker, closed, pipe, log, client, waiter, term, poll>>

\* _wait_loop: the end of the process is recorded, and nobody waits for an
\* answer any more.
WaiterEnds ==
  /\ waiter = "on"
  /\ proc = "exited"
  /\ waiter' = "done"
  /\ IF closed THEN UNCHANGED <<log, futures, pending>>
     ELSE log' = Recorded("process_exit") /\ FailPending
  /\ UNCHANGED <<worker, closed, pipe, calls, reader, term, poll>>
-------------------------------------------------------------------------------
(***************************************************************************)
(* terminate(): close the input, SIGTERM, five seconds later SIGKILL, then *)
(* stop the background tasks.                                              *)
(***************************************************************************)
Terminate ==
  /\ term = "no"
  /\ proc # "none"
  /\ closed' = TRUE
  /\ FailPending
  /\ term' = IF proc = "alive" THEN "flushing" ELSE "stopping"
  /\ UNCHANGED <<worker, pipe, log, calls, loops, poll>>

TermSignals ==
  /\ term = "flushing"
  /\ ~jammed \/ proc # "alive"
  /\ term' = IF proc = "alive" THEN "waiting" ELSE "stopping"
  /\ UNCHANGED <<worker, closed, pipe, log, client, loops, poll>>

\* Mutants: terminate() waits without a limit; or it does not kill.
TermWaits == FALSE

TermGivesUp ==
  /\ term = "waiting"
  /\ proc = "alive"
  /\ term' = "stopping"
  /\ UNCHANGED <<worker, closed, pipe, log, client, loops, poll>>

TermKills ==
  /\ term = "waiting"
  /\ proc = "alive"
  /\ term' = "killing"
  /\ UNCHANGED <<worker, closed, pipe, log, client, loops, poll>>

TermSeesExit ==
  /\ term \in {"waiting", "killing"}
  /\ proc = "exited"
  /\ term' = "stopping"
  /\ UNCHANGED <<worker, closed, pipe, log, client, loops, poll>>

TermStops ==
  /\ term = "stopping"
  /\ reader' = IF reader = "on" THEN "done" ELSE reader
  /\ waiter' = IF waiter = "on" THEN "done" ELSE waiter
  /\ term' = "done"
  /\ UNCHANGED <<worker, closed, pipe, log, client, poll>>

\* CancelledError ends terminate() wherever it is.
TermCancelled ==
  /\ "cancel" \in Faults
  /\ term \in {"flushing", "waiting", "killing", "stopping"}
  /\ term' = "cut"
  /\ UNCHANGED <<worker, closed, pipe, log, client, loops, poll>>
-------------------------------------------------------------------------------
\* The part of the scheduler's poll after get_state returned or failed: drain
\* the buffer, move the cursor, judge.
Observe ==
  /\ verdict = "running"
  /\ term = "no"
  /\ proc \in {"alive", "exited"}
  /\ cursor' = Len(log)
  /\ verdict' = IF \E i \in Drained : log[i] = "agent_end" THEN "completed"
                ELSE IF ~IsRunning THEN "orphaned" ELSE "running"
  /\ UNCHANGED <<worker, closed, pipe, log, client, loops, term>>
-------------------------------------------------------------------------------
(***************************************************************************)
(* The Pi process.                                                         *)
(***************************************************************************)
Answers(c) ==
  /\ proc = "alive"
  /\ ~jammed
  /\ c \in told.sent \ told.answered
  /\ told' = [told EXCEPT !.answered = @ \cup {c}]
  /\ pipe' = Append(pipe, c)
  /\ UNCHANGED <<proc, jammed, closed, log, client, loops, term, poll>>

EventsWritten ==
  Cardinality({i \in 1 .. Len(pipe) : pipe[i] \in EventLines})
    + Cardinality({i \in 1 .. Len(log) : log[i] \in {"agent_end", "update", "rpc_error"}})

Emits ==
  /\ proc = "alive"
  /\ EventsWritten < MaxEvents
  /\ \E line \in IF "overlong" \in Faults THEN EventLines ELSE EventLines \ {"overlong"} :
       pipe' = Append(pipe, line)
  /\ UNCHANGED <<worker, closed, log, client, loops, term, poll>>

\* It stops reading while a command is being written that fills the buffer.
Jams ==
  /\ "jam" \in Faults
  /\ proc = "alive"
  /\ ~WriteLockFree
  /\ jammed' = TRUE
  /\ UNCHANGED <<proc, told, closed, pipe, log, client, loops, term, poll>>

\* asyncio sets the returncode; what the process wrote may still be unread.
Exits ==
  /\ proc = "alive"
  /\ proc' = "exited"
  /\ jammed' = FALSE
  /\ UNCHANGED <<told, closed, pipe, log, client, loops, term, poll>>
-------------------------------------------------------------------------------
Call(c) ==
  \/ LockGranted(c)
  \/ Flushed(c)
  \/ WriteFails(c)
  \/ Answered(c)
  \/ TimesOut(c)

TerminateGoesOn == TermSignals \/ TermKills \/ TermSeesExit \/ TermStops

Next ==
  \/ Start
  \/ \E c \in Commands : Send(c) \/ SendRefused(c) \/ Call(c) \/ CallCancelled(c)
  \/ ReaderTakes
  \/ ReaderEnds
  \/ WaiterEnds
  \/ Terminate
  \/ TerminateGoesOn
  \/ TermCancelled
  \/ Observe
  \/ \E c \in Commands : Answers(c)
  \/ Emits
  \/ Jams
  \/ Exits

Spec == Init /\ [][Next]_vars

\* The event loop runs whatever is ready and its timers fire; the kernel ends a
\* process that was sent SIGKILL.  The worker itself owes nothing.
Fairness ==
  /\ \A c \in Commands : SF_vars(Call(c))
  /\ WF_vars(ReaderTakes)
  /\ WF_vars(WaiterEnds)
  /\ WF_vars(TerminateGoesOn)
  /\ WF_vars(term = "killing" /\ Exits)

FairSpec == Spec /\ Fairness
-------------------------------------------------------------------------------
(***************************************************************************)
(* Properties.                                                             *)
(***************************************************************************)
\* Values of every variable.
TypeOK ==
  /\ proc \in {"none", "unspawned", "alive", "exited"}
  /\ closed \in BOOLEAN
  /\ pipe \in Seq(Lines)
  /\ log \in Seq(LogEntries)
  /\ calls \in [Commands -> CallStates]
  /\ futures \in [Commands -> {"none", "open", "set", "error", "cancelled"}]
  /\ pending \subseteq Commands
  /\ told \in [sent: SUBSET Commands, answered: SUBSET Commands]
  /\ jammed \in BOOLEAN
  /\ reader \in {"off", "on", "done"}
  /\ waiter \in {"off", "on", "done"}
  /\ term \in {"no", "flushing", "waiting", "killing", "stopping", "done", "cut"}
  /\ cursor \in Nat
  /\ verdict \in {"running", "completed", "orphaned"}

\* A call returns an answer only if the process answered that very command,
\* whatever else timed out, was cancelled, or is answered late.
AnswersAreOwn ==
  \A c \in Commands : calls[c] = "answered" => c \in told.answered

\* Once the end of the process was noticed, or terminate() began, no call waits
\* for an answer that will not come.
NobodyForgotten ==
  closed \/ waiter = "done" =>
    \A c \in Commands : calls[c] \in Waiting => futures[c] # "open"

\* A poll that leaves a task running, or takes it for interrupted, has missed a
\* recorded agent_end only if BufferSize newer events had pushed it out.
EndSeenUnlessFlooded ==
  [][verdict = "running" /\ verdict' \in {"running", "orphaned"} /\ cursor' # cursor =>
       \A i \in (cursor + 1) .. cursor' :
         log[i] = "agent_end" => cursor' - i >= BufferSize]_vars

\* When terminate() has returned, the process is gone and no background task is
\* left that could record another event.
QuietAfterTerminate ==
  term = "done" => proc # "alive" /\ "on" \notin {reader, waiter}

\* The adapter as its users know it.
Adapter == INSTANCE PiWorker WITH
  Workers <- {"pi"},
  st      <- [w \in {"pi"} |-> IF proc = "none" THEN "new"
                              ELSE IF proc # "alive" THEN "gone"
                              ELSE IF closed THEN "closing" ELSE "running"],
  sent    <- [w \in {"pi"} |-> Len(log)],
  ends    <- [w \in {"pi"} |-> {i \in 1 .. Len(log) : log[i] = "agent_end"}]

\* The adapter keeps the contract its users rely on: one process, started once; and
\* whatever is still read when the process has ended or is being ended, the events
\* keep the numbers they were recorded under, though the buffer drops the oldest
\* (start, terminate, _record_event).
KeepsContract == Adapter!Spec

\* A task is taken for interrupted only if its worker ended without having
\* signalled agent_end.
OrphanedHadNoEnd ==
  verdict = "orphaned" => \A i \in 1 .. Len(pipe) : pipe[i] # "agent_end"

(***************************************************************************)
(* Every command returns: it is answered, refused, or its time is over.    *)
(* And terminate() returns, which it does only after the end of the        *)
(* process.  The exception to both is a worker that stopped reading while  *)
(* more was written than its pipe takes: drain() has no timeout.           *)
(***************************************************************************)
CommandReturns ==
  \A c \in Commands : calls[c] \in Waiting ~> calls[c] \notin Waiting \/ jammed

TerminateReturns == closed ~> term = "done" \/ jammed

UnreadEnds == \E i \in 1 .. Len(pipe) : pipe[i] = "agent_end"

\* An agent_end the process wrote is recorded, unless the adapter is closed.
EndRecorded == UnreadEnds ~> ~UnreadEnds \/ closed
===============================================================================

-------------------------------- MODULE Wakeup --------------------------------
(***************************************************************************)
(* The two callbacks that main.py gives the scheduler: wake_terminal_task, *)
(* with its deferred retry, tells the owner's conversation that a task     *)
(* came to an end; progress_task relays an intermediate state of the       *)
(* session text.  Both put one event on AstrBot's queue through            *)
(* enqueue_task_wakeup (normal_pipeline.py), which suspends in the host's  *)
(* functions.  The scheduler around them is reduced to what calls them:    *)
(* tasks that run, end, and are resumed (see TaskScheduler).               *)
(*                                                                         *)
(* The session text is a version number: 0 is no text, and a running       *)
(* worker makes it grow.  A definition introduced by "Mutant:" is not part *)
(* of the model, but a plausible bug in the one that follows it.           *)
(***************************************************************************)
EXTENDS Naturals, Sequences, FiniteSets

CONSTANTS
  Tasks,
  Attempts,    \* delays of the deferred retry: five in the code
  HostFaults,  \* whether the host's functions may fail for other reasons
  MaxText      \* bound: versions of a session text

ASSUME AttemptsAssumption == Attempts \in Nat \ {0}
ASSUME OptionsAssumption == HostFaults \in BOOLEAN /\ MaxText \in Nat

VARIABLES
  status,    \* the task's row
  text,      \* version of the task's session text
  phase,     \* the plugin: pi_task_service is set in "up" and "stopping"
  platform,  \* AstrBot has loaded the platform of the conversations
  wakes,     \* the notification of a task's end, per task and status
  progress,  \* the progress callback of a task: the text it sends, 0 for none
  digests,   \* _progress_digests; 0 for none
  inbox      \* events put on AstrBot's queue, oldest first

vars == <<status, text, phase, platform, wakes, progress, digests, inbox>>

Ends == {"completed", "orphaned"}

\* "sending" and "resending" wait for the host, "sleeping" for the next delay.
\* "told", "lost" (given up), "failed" and "cancelled" are over.
WakeStates == {"none", "sending", "sleeping", "resending", "told", "lost", "failed",
               "cancelled"}

Wake == [at: WakeStates, left: 0 .. Attempts, text: 0 .. MaxText]

Event == [kind: {"terminal", "progress"}, t: Tasks, s: Ends \cup {"running"},
          text: 0 .. MaxText]

\* terminal_note reads the session text through the published service.
NoteText(t) == IF phase \in {"up", "stopping"} THEN text[t] ELSE 0

\* The notification of task t's end s goes on as wake.
Becomes(t, s, wake) == wakes' = [wakes EXCEPT ![t][s] = wake]

Put(kind, t, s, v) ==
  inbox' = Append(inbox, [kind |-> kind, t |-> t, s |-> s, text |-> v])

Init ==
  /\ status = [t \in Tasks |-> "running"]
  /\ text = [t \in Tasks |-> 0]
  /\ phase = "boot"
  /\ platform \in {"absent", "loaded"}
  /\ wakes = [t \in Tasks |-> [s \in Ends |-> [at |-> "none", left |-> 0, text |-> 0]]]
  /\ progress = [t \in Tasks |-> 0]
  /\ digests = [t \in Tasks |-> 0]
  /\ inbox = << >>
-------------------------------------------------------------------------------
(***************************************************************************)
(* Tasks, as the scheduler drives them.                                    *)
(***************************************************************************)
\* The native session of a running task grows.
Writes(t) ==
  /\ status[t] = "running"
  /\ text[t] < MaxText
  /\ text' = [text EXCEPT ![t] = @ + 1]
  /\ UNCHANGED <<status, phase, platform, wakes, progress, digests, inbox>>

\* A poll, a cancel or recovery settles the task.  The callback is called for
\* the first time that the task reaches this status.
TaskEnds(t, s) ==
  /\ phase # "down"
  /\ status[t] = "running"
  /\ status' = [status EXCEPT ![t] = s]
  /\ IF wakes[t][s].at = "none"
     THEN Becomes(t, s, [at |-> "sending", left |-> 0, text |-> NoteText(t)])
     ELSE UNCHANGED wakes
  /\ UNCHANGED <<text, phase, platform, progress, digests, inbox>>

Resumed(t) ==
  /\ phase = "up"
  /\ status[t] = "orphaned"
  /\ status' = [status EXCEPT ![t] = "running"]
  /\ UNCHANGED <<text, phase, platform, wakes, progress, digests, inbox>>
-------------------------------------------------------------------------------
(***************************************************************************)
(* wake_terminal_task and retry_terminal_wakeup.                           *)
(***************************************************************************)
\* Mutant: the retry goes on after it has delivered.
GoesOn(wake) ==
  IF wake.at = "resending" /\ wake.left > 0 THEN "sleeping" ELSE "told"

\* An attempt that got through is the last one.
Delivered(wake) == "told"

WakeDelivered(t, s) ==
  /\ wakes[t][s].at \in {"sending", "resending"}
  /\ platform = "loaded"
  /\ Put("terminal", t, s, wakes[t][s].text)
  /\ Becomes(t, s, [wakes[t][s] EXCEPT !.at = Delivered(wakes[t][s])])
  /\ UNCHANGED <<status, text, phase, platform, progress, digests>>

\* Mutants: the retry never gives up; or it has a delay too many.
DeferredForever(wake) == [wake EXCEPT !.at = "sleeping", !.left = Attempts]

DeferredLong(wake) ==
  IF wake.at = "sending" THEN [wake EXCEPT !.at = "sleeping", !.left = Attempts + 1]
  ELSE IF wake.left > 0 THEN [wake EXCEPT !.at = "sleeping"]
  ELSE [wake EXCEPT !.at = "lost"]

\* "Platform not found": the first time a retry is started; that goes on until
\* its delays are used up.
Deferred(wake) ==
  IF wake.at = "sending" THEN [wake EXCEPT !.at = "sleeping", !.left = Attempts]
  ELSE IF wake.left > 0 THEN [wake EXCEPT !.at = "sleeping"]
  ELSE [wake EXCEPT !.at = "lost"]

PlatformMissing(t, s) ==
  /\ wakes[t][s].at \in {"sending", "resending"}
  /\ platform = "absent"
  /\ Becomes(t, s, Deferred(wakes[t][s]))
  /\ UNCHANGED <<status, text, phase, platform, progress, digests, inbox>>

\* Any other exception is logged, and that was it.
WakeFails(t, s) ==
  /\ HostFaults
  /\ wakes[t][s].at \in {"sending", "resending"}
  /\ Becomes(t, s, [wakes[t][s] EXCEPT !.at = "failed"])
  /\ UNCHANGED <<status, text, phase, platform, progress, digests, inbox>>

\* Mutant: the last delay is slept through without another attempt.
WokenTooEarly(wake, v) ==
  IF wake.left > 1 THEN [at |-> "resending", left |-> wake.left - 1, text |-> v]
  ELSE [wake EXCEPT !.at = "lost"]

\* A delay is over: the note is built anew, with the status it was made for.
Woken(wake, v) == [at |-> "resending", left |-> wake.left - 1, text |-> v]

Retries(t, s) ==
  /\ wakes[t][s].at = "sleeping"
  /\ Becomes(t, s, Woken(wakes[t][s], NoteText(t)))
  /\ UNCHANGED <<status, text, phase, platform, progress, digests, inbox>>
-------------------------------------------------------------------------------
(***************************************************************************)
(* progress_task, called by the observer loop after a poll that left the   *)
(* task running; the loop waits for it before it polls the task again.     *)
(***************************************************************************)
\* Mutant: the digest is not compared.
HasText(t) == text[t] > 0

\* There is a text, and it is not the one relayed last.
Changed(t) == text[t] > 0 /\ digests[t] # text[t]

ProgressCalled(t) ==
  /\ phase \in {"up", "stopping"}
  /\ status[t] = "running"
  /\ progress[t] = 0
  /\ Changed(t)
  /\ digests' = [digests EXCEPT ![t] = text[t]]
  /\ progress' = [progress EXCEPT ![t] = text[t]]
  /\ UNCHANGED <<status, text, phase, platform, wakes, inbox>>

ProgressDelivered(t) ==
  /\ progress[t] > 0
  /\ platform = "loaded"
  /\ Put("progress", t, "running", progress[t])
  /\ progress' = [progress EXCEPT ![t] = 0]
  /\ UNCHANGED <<status, text, phase, platform, wakes, digests>>

\* Whatever fails is logged; the digest stays.
ProgressFails(t) ==
  /\ progress[t] > 0
  /\ platform = "absent" \/ HostFaults
  /\ progress' = [progress EXCEPT ![t] = 0]
  /\ UNCHANGED <<status, text, phase, platform, wakes, digests, inbox>>
-------------------------------------------------------------------------------
(***************************************************************************)
(* The plugin and its host.                                                *)
(***************************************************************************)
PlatformLoads ==
  /\ platform = "absent"
  /\ platform' = "loaded"
  /\ UNCHANGED <<status, text, phase, wakes, progress, digests, inbox>>

\* _create_task_service returns after recovery: the service is published.
Published ==
  /\ phase = "boot"
  /\ phase' = "up"
  /\ UNCHANGED <<status, text, platform, wakes, progress, digests, inbox>>

\* terminate() first cancels the deferred retries and forgets the digests.  The
\* observer still runs.
UnloadStarts ==
  /\ phase = "up"
  /\ phase' = "stopping"
  /\ wakes' = [t \in Tasks |-> [s \in Ends |->
                 IF wakes[t][s].at \in {"sleeping", "resending"}
                 THEN [wakes[t][s] EXCEPT !.at = "cancelled"] ELSE wakes[t][s]]]
  /\ digests' = [t \in Tasks |-> 0]
  /\ UNCHANGED <<status, text, platform, progress, inbox>>

\* The service is gone, and the observer is cancelled with the callbacks it is
\* waiting for.  A wake-up that a client's call is waiting for goes on, and so do
\* retries started since.
UnloadEnds ==
  /\ phase = "stopping"
  /\ phase' = "down"
  /\ progress' = [t \in Tasks |-> 0]
  /\ \E cut \in SUBSET (Tasks \X Ends) :
       wakes' = [t \in Tasks |-> [s \in Ends |->
                   IF <<t, s>> \in cut /\ wakes[t][s].at = "sending"
                   THEN [wakes[t][s] EXCEPT !.at = "cancelled"] ELSE wakes[t][s]]]
  /\ UNCHANGED <<status, text, platform, digests, inbox>>
-------------------------------------------------------------------------------
Callback(t) ==
  \/ \E s \in Ends : \/ WakeDelivered(t, s)
                     \/ PlatformMissing(t, s)
                     \/ WakeFails(t, s)
                     \/ Retries(t, s)
  \/ ProgressDelivered(t)
  \/ ProgressFails(t)

Next ==
  \/ \E t \in Tasks :
       \/ Writes(t)
       \/ \E s \in Ends : TaskEnds(t, s)
       \/ Resumed(t)
       \/ ProgressCalled(t)
       \/ Callback(t)
  \/ PlatformLoads
  \/ Published
  \/ UnloadStarts
  \/ UnloadEnds

Spec == Init /\ [][Next]_vars

\* The event loop runs what is ready, timers fire, and the host's functions
\* return or raise.
WakeGoesOn(t, s) ==
  WakeDelivered(t, s) \/ PlatformMissing(t, s) \/ WakeFails(t, s) \/ Retries(t, s)

Fairness == \A t \in Tasks, s \in Ends : WF_vars(WakeGoesOn(t, s))

FairSpec == Spec /\ Fairness
-------------------------------------------------------------------------------
(***************************************************************************)
(* Properties.                                                             *)
(***************************************************************************)
\* Values of every variable.
TypeOK ==
  /\ status \in [Tasks -> Ends \cup {"running"}]
  /\ text \in [Tasks -> 0 .. MaxText]
  /\ phase \in {"boot", "up", "stopping", "down"}
  /\ platform \in {"absent", "loaded"}
  /\ wakes \in [Tasks -> [Ends -> Wake]]
  /\ progress \in [Tasks -> 0 .. MaxText]
  /\ digests \in [Tasks -> 0 .. MaxText]
  /\ inbox \in Seq(Event)

Told(t, s) == {i \in 1 .. Len(inbox) :
                 inbox[i].kind = "terminal" /\ inbox[i].t = t /\ inbox[i].s = s}

\* However often a wake-up is retried, and a task resumed, the conversation is
\* woken at most once for a task and a status.
ToldOnce == \A t \in Tasks, s \in Ends : Cardinality(Told(t, s)) <= 1

\* While the plugin is loaded, no two progress updates of a task carry the same
\* session text.
ProgressIsNews ==
  [][phase = "up" /\ inbox' # inbox =>
       LET e == inbox'[Len(inbox')] IN
       e.kind = "progress" => \A i \in 1 .. Len(inbox) : inbox[i] # e]_vars

\* A wake-up that still has a delay left when its platform is there reaches the
\* conversation, unless the host fails otherwise or the plugin is unloaded first.
LoadedPlatformIsTold ==
  \A t \in Tasks, s \in Ends :
    wakes[t][s].at = "sleeping" /\ platform = "loaded"
      ~> wakes[t][s].at \in {"told", "failed", "cancelled"}

\* Every wake-up comes to an end: it is told, given up, or cancelled.
WakeSettles ==
  \A t \in Tasks, s \in Ends :
    wakes[t][s].at = "sending" ~> wakes[t][s].at \in {"told", "lost", "failed", "cancelled"}
===============================================================================

----------------------------- MODULE Wakeup_proofs -----------------------------
(***************************************************************************)
(* Proofs about Wakeup: its types, that the conversation is woken at most  *)
(* once for a task and a status, and that progress is never told twice.    *)
(***************************************************************************)
EXTENDS Wakeup, FiniteSetTheorems, TLAPS

\* Nothing was told yet, except where the wake-up is over.  What a retry waits
\* for is a delay that is left.
Untold ==
  \A t \in Tasks, s \in Ends :
    /\ wakes[t][s].at # "told" => Told(t, s) = {}
    /\ wakes[t][s].at = "sleeping" => wakes[t][s].left > 0

\* There is one place at most in the queue where an end is told.
OnePlace == \A t \in Tasks, s \in Ends : \A i, j \in Told(t, s) : i = j

IInv == TypeOK /\ Untold /\ OnePlace

\* A new event at the end of the queue is the only one that can add a place.
LEMMA ToldAfter ==
  ASSUME TypeOK, NEW e \in Event, inbox' = Append(inbox, e),
         NEW t \in Tasks, NEW s \in Ends
  PROVE  Told(t, s)' = IF e.kind = "terminal" /\ e.t = t /\ e.s = s
                       THEN Told(t, s) \cup {Len(inbox) + 1} ELSE Told(t, s)
<1>1. /\ Len(inbox) \in Nat /\ Len(inbox') = Len(inbox) + 1
      /\ \A i \in 1 .. Len(inbox) : inbox'[i] = inbox[i]
      /\ inbox'[Len(inbox) + 1] = e
  BY DEF TypeOK
<1>2. 1 .. Len(inbox') = (1 .. Len(inbox)) \cup {Len(inbox) + 1}
  BY <1>1
<1> QED
  BY <1>1, <1>2 DEF Told

LEMMA InitIInv == Init => IInv
<1> SUFFICES ASSUME Init PROVE IInv
  OBVIOUS
<1>1. TypeOK
  BY AttemptsAssumption, OptionsAssumption DEF Init, TypeOK, Wake, WakeStates, Ends, Event
<1>2. \A t \in Tasks, s \in Ends : Told(t, s) = {} /\ wakes[t][s].at = "none"
  BY DEF Init, Told
<1> QED
  BY <1>1, <1>2 DEF IInv, Untold, OnePlace

\* What one notification becomes, and the others stay.
LEMMA OneBecomes ==
  ASSUME TypeOK, NEW t \in Tasks, NEW s \in Ends, NEW w \in Wake, Becomes(t, s, w)
  PROVE  /\ wakes' \in [Tasks -> [Ends -> Wake]]
         /\ \A u \in Tasks, r \in Ends :
              wakes'[u][r] = IF u = t /\ r = s THEN w ELSE wakes[u][r]
<1>1. wakes[t] \in [Ends -> Wake]
  BY DEF TypeOK
<1>2. [wakes[t] EXCEPT ![s] = w] \in [Ends -> Wake]
  BY <1>1
<1>3. wakes' = [wakes EXCEPT ![t] = [wakes[t] EXCEPT ![s] = w]]
  BY DEF Becomes
<1>4. \A u \in Tasks :
        wakes'[u] = IF u = t THEN [wakes[t] EXCEPT ![s] = w] ELSE wakes[u]
  BY <1>3 DEF TypeOK
<1>5. \A r \in Ends : [wakes[t] EXCEPT ![s] = w][r] = IF r = s THEN w ELSE wakes[t][r]
  BY <1>1
<1> QED
  BY <1>2, <1>3, <1>4, <1>5 DEF TypeOK

\* A step of one notification: what it becomes, and that it is a notification.
LEMMA WakeStep ==
  ASSUME TypeOK, Untold, NEW t \in Tasks, NEW s \in Ends,
         \/ TaskEnds(t, s) /\ wakes[t][s].at = "none"
         \/ WakeDelivered(t, s) \/ PlatformMissing(t, s) \/ WakeFails(t, s) \/ Retries(t, s)
  PROVE  \E w \in Wake :
           /\ Becomes(t, s, w)
           /\ wakes[t][s].at # "told"
           /\ w.at = "told" => WakeDelivered(t, s)
           /\ w.at = "sleeping" => w.left > 0
<1> USE AttemptsAssumption, OptionsAssumption
<1>1. /\ wakes[t][s] \in Wake
      /\ wakes[t][s].at = "sleeping" => wakes[t][s].left > 0
      /\ NoteText(t) \in 0 .. MaxText
  <2>1. wakes[t] \in [Ends -> Wake]
    BY DEF TypeOK
  <2> QED
    BY <2>1 DEF TypeOK, Untold, NoteText
<1>2. CASE TaskEnds(t, s) /\ wakes[t][s].at = "none"
  <2> DEFINE w == [at |-> "sending", left |-> 0, text |-> NoteText(t)]
  <2>1. w \in Wake
    BY <1>1 DEF Wake, WakeStates
  <2>2. Becomes(t, s, w)
    BY <1>2 DEF TaskEnds
  <2> QED
    BY <1>2, <2>1, <2>2
<1>3. CASE WakeDelivered(t, s)
  <2> DEFINE w == [wakes[t][s] EXCEPT !.at = "told"]
  <2>1. w \in Wake /\ w.at = "told"
    BY <1>1 DEF Wake, WakeStates
  <2>2. Becomes(t, s, w) /\ wakes[t][s].at # "told"
    BY <1>3 DEF WakeDelivered, Delivered
  <2> QED
    BY <1>3, <2>1, <2>2
<1>4. CASE PlatformMissing(t, s)
  <2> DEFINE w == Deferred(wakes[t][s])
  <2>1. wakes[t][s].at \in {"sending", "resending"}
    BY <1>4 DEF PlatformMissing
  <2>2. w \in Wake /\ w.at # "told" /\ (w.at = "sleeping" => w.left > 0)
    <3>1. CASE wakes[t][s].at = "sending"
      <4>1. w = [wakes[t][s] EXCEPT !.at = "sleeping", !.left = Attempts]
        BY <3>1 DEF Deferred
      <4>2. Attempts \in 0 .. Attempts /\ Attempts > 0
        OBVIOUS
      <4> HIDE DEF w
      <4> QED
        BY <1>1, <4>1, <4>2 DEF Wake, WakeStates
    <3>2. CASE wakes[t][s].at # "sending" /\ wakes[t][s].left > 0
      <4>1. w = [wakes[t][s] EXCEPT !.at = "sleeping"]
        BY <3>2 DEF Deferred
      <4> QED
        BY <1>1, <3>2, <4>1 DEF Wake, WakeStates
    <3>3. CASE wakes[t][s].at # "sending" /\ ~(wakes[t][s].left > 0)
      <4>1. w = [wakes[t][s] EXCEPT !.at = "lost"]
        BY <3>3 DEF Deferred
      <4> QED
        BY <1>1, <4>1 DEF Wake, WakeStates
    <3> QED
      BY <3>1, <3>2, <3>3
  <2>3. Becomes(t, s, w)
    BY <1>4 DEF PlatformMissing
  <2> QED
    BY <2>1, <2>2, <2>3
<1>5. CASE WakeFails(t, s)
  <2> DEFINE w == [wakes[t][s] EXCEPT !.at = "failed"]
  <2>1. w \in Wake /\ w.at = "failed"
    BY <1>1 DEF Wake, WakeStates
  <2>2. Becomes(t, s, w) /\ wakes[t][s].at # "told"
    BY <1>5 DEF WakeFails
  <2> QED
    BY <2>1, <2>2
<1>6. CASE Retries(t, s)
  <2> DEFINE w == Woken(wakes[t][s], NoteText(t))
  <2>1. wakes[t][s].at = "sleeping"
    BY <1>6 DEF Retries
  <2>2. w \in Wake /\ w.at = "resending"
    BY <1>1, <2>1 DEF Woken, Wake, WakeStates
  <2>3. Becomes(t, s, w)
    BY <1>6 DEF Retries
  <2> QED
    BY <2>1, <2>2, <2>3
<1> QED
  BY <1>2, <1>3, <1>4, <1>5, <1>6

\* What unloading does to every notification.
LEMMA UnloadKeeps ==
  ASSUME TypeOK, UnloadStarts \/ UnloadEnds
  PROVE  /\ wakes' \in [Tasks -> [Ends -> Wake]]
         /\ \A t \in Tasks, s \in Ends :
              \/ wakes'[t][s] = wakes[t][s]
              \/ wakes'[t][s].at = "cancelled"
<1>1. \A t \in Tasks, s \in Ends : wakes[t][s] \in Wake
  <2>1. \A t \in Tasks : wakes[t] \in [Ends -> Wake]
    BY DEF TypeOK
  <2> QED
    BY <2>1
<1>2. \A t \in Tasks, s \in Ends :
        /\ [wakes[t][s] EXCEPT !.at = "cancelled"] \in Wake
        /\ [wakes[t][s] EXCEPT !.at = "cancelled"].at = "cancelled"
  BY <1>1 DEF Wake, WakeStates
<1>3. CASE UnloadStarts
  <2>1. wakes' = [t \in Tasks |-> [s \in Ends |->
          IF wakes[t][s].at \in {"sleeping", "resending"}
          THEN [wakes[t][s] EXCEPT !.at = "cancelled"] ELSE wakes[t][s]]]
    BY <1>3 DEF UnloadStarts
  <2> QED
    BY <1>1, <1>2, <2>1
<1>4. CASE UnloadEnds
  <2>1. PICK cut \in SUBSET (Tasks \X Ends) :
          wakes' = [t \in Tasks |-> [s \in Ends |->
            IF <<t, s>> \in cut /\ wakes[t][s].at = "sending"
            THEN [wakes[t][s] EXCEPT !.at = "cancelled"] ELSE wakes[t][s]]]
    BY <1>4 DEF UnloadEnds
  <2> QED
    BY <1>1, <1>2, <2>1
<1> QED
  BY <1>3, <1>4

LEMMA NextTypeOK == TypeOK /\ Untold /\ [Next]_vars => TypeOK'
<1> SUFFICES ASSUME TypeOK, Untold, [Next]_vars PROVE TypeOK'
  OBVIOUS
<1> USE AttemptsAssumption, OptionsAssumption
<1>1. ASSUME NEW t \in Tasks, Writes(t) PROVE TypeOK'
  BY <1>1 DEF Writes, TypeOK
<1>2. ASSUME NEW t \in Tasks, NEW s \in Ends, TaskEnds(t, s) PROVE TypeOK'
  <2>1. wakes' \in [Tasks -> [Ends -> Wake]]
    BY <1>2, WakeStep, OneBecomes DEF TaskEnds, TypeOK
  <2> QED
    BY <1>2, <2>1 DEF TaskEnds, TypeOK
<1>3. ASSUME NEW t \in Tasks, Resumed(t) PROVE TypeOK'
  BY <1>3 DEF Resumed, TypeOK
<1>4. ASSUME NEW t \in Tasks, ProgressCalled(t) PROVE TypeOK'
  BY <1>4 DEF ProgressCalled, TypeOK
<1>5. ASSUME NEW t \in Tasks, NEW s \in Ends, WakeGoesOn(t, s) PROVE TypeOK'
  <2>1. wakes' \in [Tasks -> [Ends -> Wake]]
    BY <1>5, WakeStep, OneBecomes DEF WakeGoesOn
  <2>2. wakes[t][s].text \in 0 .. MaxText
    <3>1. wakes[t] \in [Ends -> Wake]
      BY DEF TypeOK
    <3> QED
      BY <3>1 DEF Wake
  <2>3. inbox' \in Seq(Event)
    <3>1. CASE WakeDelivered(t, s)
      <4>1. [kind |-> "terminal", t |-> t, s |-> s, text |-> wakes[t][s].text] \in Event
        BY <2>2 DEF Event
      <4> QED
        BY <3>1, <4>1 DEF WakeDelivered, Put, TypeOK
    <3>2. CASE inbox' = inbox
      BY <3>2 DEF TypeOK
    <3> QED
      BY <1>5, <3>1, <3>2 DEF WakeGoesOn, PlatformMissing, WakeFails, Retries
  <2> QED
    BY <1>5, <2>1, <2>3 DEF WakeGoesOn, WakeDelivered, PlatformMissing, WakeFails, Retries, TypeOK
<1>6. ASSUME NEW t \in Tasks, ProgressDelivered(t) PROVE TypeOK'
  BY <1>6 DEF ProgressDelivered, Put, Event, TypeOK
<1>7. ASSUME NEW t \in Tasks, ProgressFails(t) PROVE TypeOK'
  BY <1>7 DEF ProgressFails, TypeOK
<1>8. CASE PlatformLoads
  BY <1>8 DEF PlatformLoads, TypeOK
<1>9. CASE Published
  BY <1>9 DEF Published, TypeOK
<1>10. CASE UnloadStarts
  BY <1>10, UnloadKeeps DEF UnloadStarts, TypeOK
<1>11. CASE UnloadEnds
  <2>1. /\ progress' = [t \in Tasks |-> 0] /\ phase' = "down"
        /\ UNCHANGED <<status, text, platform, digests, inbox>>
    BY <1>11 DEF UnloadEnds
  <2>2. wakes' \in [Tasks -> [Ends -> Wake]]
    BY <1>11, UnloadKeeps
  <2> QED
    BY <2>1, <2>2 DEF TypeOK
<1>12. CASE UNCHANGED vars
  BY <1>12 DEF vars, TypeOK
<1> QED
  BY <1>1, <1>2, <1>3, <1>4, <1>5, <1>6, <1>7, <1>8, <1>9, <1>10, <1>11, <1>12
     DEF Next, Callback, WakeGoesOn

\* The places where ends are told, when an event of another kind arrives or none.
LEMMA ToldSame ==
  ASSUME TypeOK, NEW t \in Tasks, NEW s \in Ends,
         \/ inbox' = inbox
         \/ \E e \in Event : e.kind = "progress" /\ inbox' = Append(inbox, e)
  PROVE  Told(t, s)' = Told(t, s)
<1>1. CASE inbox' = inbox
  BY <1>1 DEF Told
<1>2. ASSUME NEW e \in Event, e.kind = "progress", inbox' = Append(inbox, e)
      PROVE Told(t, s)' = Told(t, s)
  BY <1>2, ToldAfter
<1> QED
  BY <1>1, <1>2

\* A step that tells nothing, and moves a wake-up only where it is not told and
\* to where it is not.
LEMMA QuietStep ==
  ASSUME TypeOK, Untold, OnePlace,
         \A t \in Tasks, s \in Ends : Told(t, s)' = Told(t, s),
         \A t \in Tasks, s \in Ends :
           /\ wakes[t][s].at = "told" => wakes'[t][s].at = "told"
           /\ wakes'[t][s].at = "sleeping" => wakes'[t][s].left > 0
  PROVE  Untold' /\ OnePlace'
<1>1. Untold'
  BY DEF Untold
<1>2. OnePlace'
  BY DEF OnePlace
<1> QED
  BY <1>1, <1>2

LEMMA NextTold == IInv /\ [Next]_vars => Untold' /\ OnePlace'
<1> SUFFICES ASSUME IInv, [Next]_vars PROVE Untold' /\ OnePlace'
  OBVIOUS
<1> USE DEF IInv
<1>1. CASE UNCHANGED <<wakes, inbox>>
  <2>1. \A t \in Tasks, s \in Ends : Told(t, s)' = Told(t, s)
    BY <1>1, ToldSame
  <2> QED
    BY <1>1, <2>1, QuietStep DEF Untold
<1>2. ASSUME NEW t \in Tasks, NEW s \in Ends,
             \/ TaskEnds(t, s) /\ wakes[t][s].at = "none"
             \/ PlatformMissing(t, s) \/ WakeFails(t, s) \/ Retries(t, s)
      PROVE Untold' /\ OnePlace'
  <2>1. \A u \in Tasks, r \in Ends : Told(u, r)' = Told(u, r)
    BY <1>2, ToldSame DEF TaskEnds, PlatformMissing, WakeFails, Retries
  <2>2. PICK w \in Wake : /\ Becomes(t, s, w)
                          /\ wakes[t][s].at # "told"
                          /\ w.at = "sleeping" => w.left > 0
    BY <1>2, WakeStep
  <2>3. \A u \in Tasks, r \in Ends :
          /\ wakes[u][r].at = "told" => wakes'[u][r].at = "told"
          /\ wakes'[u][r].at = "sleeping" => wakes'[u][r].left > 0
    BY <2>2, OneBecomes DEF Untold
  <2> QED
    BY <2>1, <2>3, QuietStep
<1>3. ASSUME NEW t \in Tasks, NEW s \in Ends, WakeDelivered(t, s) PROVE Untold' /\ OnePlace'
  <2> DEFINE e == [kind |-> "terminal", t |-> t, s |-> s, text |-> wakes[t][s].text]
  <2>1. e \in Event /\ inbox' = Append(inbox, e)
    <3>1. wakes[t] \in [Ends -> Wake]
      BY DEF TypeOK
    <3> QED
      BY <1>3, <3>1 DEF WakeDelivered, Put, Event, Wake
  <2>2. PICK w \in Wake : /\ Becomes(t, s, w)
                          /\ wakes[t][s].at # "told"
                          /\ w.at = "sleeping" => w.left > 0
    BY <1>3, WakeStep
  <2>3. w.at = "told"
    <3>1. /\ wakes[t] \in [Ends -> Wake]
          /\ Becomes(t, s, [wakes[t][s] EXCEPT !.at = "told"])
      BY <1>3 DEF WakeDelivered, Delivered, TypeOK
    <3>2. [wakes[t][s] EXCEPT !.at = "told"] \in Wake
      BY <3>1 DEF Wake, WakeStates
    <3>3. wakes'[t][s] = w /\ wakes'[t][s] = [wakes[t][s] EXCEPT !.at = "told"]
      BY <2>2, <3>1, <3>2, OneBecomes
    <3> QED
      BY <3>1, <3>3 DEF Wake
  <2>4. Told(t, s) = {} /\ Told(t, s)' = {Len(inbox) + 1}
    BY <2>1, <2>2, ToldAfter DEF Untold
  <2>5. \A u \in Tasks, r \in Ends : u # t \/ r # s => Told(u, r)' = Told(u, r)
    BY <2>1, ToldAfter
  <2>6. Untold'
    BY <2>2, <2>3, <2>5, OneBecomes DEF Untold
  <2>7. OnePlace'
    BY <2>4, <2>5 DEF OnePlace
  <2> QED
    BY <2>6, <2>7
<1>4. ASSUME NEW t \in Tasks, ProgressDelivered(t) PROVE Untold' /\ OnePlace'
  <2>1. [kind |-> "progress", t |-> t, s |-> "running", text |-> progress[t]] \in Event
    BY DEF TypeOK, Event
  <2>2. \A u \in Tasks, r \in Ends : Told(u, r)' = Told(u, r)
    BY <1>4, <2>1, ToldSame DEF ProgressDelivered, Put
  <2> QED
    BY <1>4, <2>2, QuietStep DEF ProgressDelivered, Untold
<1>5. CASE UnloadStarts \/ UnloadEnds
  <2>1. \A u \in Tasks, r \in Ends : Told(u, r)' = Told(u, r)
    BY <1>5, ToldSame DEF UnloadStarts, UnloadEnds
  <2>2. \A u \in Tasks, r \in Ends :
          wakes[u][r].at = "told" => wakes'[u][r] = wakes[u][r]
    <3>1. CASE UnloadStarts
      BY <3>1 DEF UnloadStarts
    <3>2. CASE UnloadEnds
      BY <3>2 DEF UnloadEnds
    <3> QED
      BY <1>5, <3>1, <3>2
  <2>3. \A u \in Tasks, r \in Ends : wakes'[u][r].at = "sleeping" => wakes'[u][r].left > 0
    BY <1>5, UnloadKeeps DEF Untold
  <2> QED
    BY <2>1, <2>2, <2>3, QuietStep
<1> QED
  BY <1>1, <1>2, <1>3, <1>4, <1>5
     DEF Next, Callback, TaskEnds, Writes, Resumed, ProgressCalled, ProgressFails,
         PlatformLoads, Published, vars

THEOREM WakeupInvCorrect == Spec => []IInv
<1>1. Init => IInv
  BY InitIInv
<1>2. IInv /\ [Next]_vars => IInv'
  BY NextTypeOK, NextTold DEF IInv
<1> QED
  BY <1>1, <1>2, PTL DEF Spec

\* Every variable of the wake-up path keeps its type, for any number of tasks,
\* delays and text versions; in particular a retry never counts below zero.
THEOREM WakeupTypeCorrect == Spec => []TypeOK
<1>1. IInv => TypeOK
  BY DEF IInv
<1> QED
  BY <1>1, WakeupInvCorrect, PTL

\* However wake-ups fail, are deferred, retried and cancelled, and however often
\* tasks are resumed, a conversation is woken at most once for a task's status.
THEOREM WokenOnce == Spec => []ToldOnce
<1>1. IInv => ToldOnce
  <2> SUFFICES ASSUME IInv, NEW t \in Tasks, NEW s \in Ends
               PROVE Cardinality(Told(t, s)) <= 1
    BY DEF ToldOnce
  <2>1. CASE Told(t, s) = {}
    BY <2>1, FS_EmptySet
  <2>2. ASSUME NEW i \in Told(t, s) PROVE Cardinality(Told(t, s)) <= 1
    <3>1. Told(t, s) = {i}
      BY <2>2 DEF IInv, OnePlace
    <3> QED
      BY <3>1, FS_Singleton
  <2> QED
    BY <2>1, <2>2
<1> QED
  BY <1>1, WakeupInvCorrect, PTL
-------------------------------------------------------------------------------
(***************************************************************************)
(* Progress is news.                                                       *)
(***************************************************************************)
\* Until unloading forgets the digests, the text relayed last is the newest that
\* any progress event of the task carries, and one that is being sent is newer
\* than all of them.
Relayed ==
  phase \in {"boot", "up"} =>
    \A t \in Tasks :
      /\ digests[t] <= text[t]
      /\ progress[t] \in {0, digests[t]}
      /\ \A i \in 1 .. Len(inbox) :
           inbox[i].kind = "progress" /\ inbox[i].t = t =>
             /\ inbox[i].text <= digests[t]
             /\ progress[t] > 0 => inbox[i].text < progress[t]

\* A wake-up that is told leaves the progress events as they are.
LEMMA TerminalIsNoProgress ==
  ASSUME TypeOK, Relayed, NEW t \in Tasks, NEW s \in Ends, WakeDelivered(t, s)
  PROVE  Relayed'
<1>1. wakes[t][s].text \in 0 .. MaxText
  <2>1. wakes[t] \in [Ends -> Wake]
    BY DEF TypeOK
  <2> QED
    BY <2>1 DEF Wake
<1> DEFINE e == [kind |-> "terminal", t |-> t, s |-> s, text |-> wakes[t][s].text]
<1>2. e \in Event /\ inbox \in Seq(Event) /\ inbox' = Append(inbox, e)
  BY <1>1 DEF WakeDelivered, Put, Event, TypeOK
<1>3. /\ Len(inbox) \in Nat /\ Len(inbox') = Len(inbox) + 1
      /\ \A i \in 1 .. Len(inbox) : inbox'[i] = inbox[i]
      /\ inbox'[Len(inbox) + 1] = e
  BY <1>2
<1>4. \A i \in 1 .. Len(inbox') :
        inbox'[i].kind = "progress" => i \in 1 .. Len(inbox) /\ inbox'[i] = inbox[i]
  BY <1>3
<1>5. UNCHANGED <<phase, text, progress, digests>>
  BY DEF WakeDelivered
<1> QED
  BY <1>4, <1>5 DEF Relayed

\* A text is relayed when it is newer than the one relayed last.
LEMMA CalledIsNewer ==
  ASSUME TypeOK, Relayed, NEW t \in Tasks, ProgressCalled(t)
  PROVE  Relayed'
<1> SUFFICES ASSUME phase \in {"boot", "up"}, NEW u \in Tasks
             PROVE  /\ digests'[u] <= text[u]
                    /\ progress'[u] \in {0, digests'[u]}
                    /\ \A i \in 1 .. Len(inbox) :
                         inbox[i].kind = "progress" /\ inbox[i].t = u =>
                           /\ inbox[i].text <= digests'[u]
                           /\ progress'[u] > 0 => inbox[i].text < progress'[u]
  BY DEF ProgressCalled, Relayed
<1>1. CASE u # t
  <2>1. digests'[u] = digests[u] /\ progress'[u] = progress[u]
    BY <1>1 DEF ProgressCalled, TypeOK
  <2> QED
    BY <2>1 DEF Relayed
<1>2. CASE u = t
  <2>1. /\ digests'[u] = text[u] /\ progress'[u] = text[u]
        /\ digests[u] # text[u] /\ digests[u] <= text[u]
        /\ digests[u] \in Nat /\ text[u] \in Nat
    BY <1>2, OptionsAssumption DEF ProgressCalled, Changed, TypeOK, Relayed
  <2>2. \A i \in 1 .. Len(inbox) :
          inbox[i].kind = "progress" /\ inbox[i].t = u => inbox[i].text <= digests[u]
    BY DEF Relayed
  <2>3. \A i \in 1 .. Len(inbox) : inbox[i].text \in Nat
    <3>1. \A i \in 1 .. Len(inbox) : inbox[i] \in Event
      BY DEF TypeOK
    <3> QED
      BY <3>1, OptionsAssumption DEF Event
  <2> QED
    BY <2>1, <2>2, <2>3
<1> QED
  BY <1>1, <1>2

\* The event that a progress callback puts on the queue.
LEMMA DeliveredProgress ==
  ASSUME TypeOK, NEW t \in Tasks, ProgressDelivered(t)
  PROVE  /\ Len(inbox) \in Nat /\ Len(inbox') = Len(inbox) + 1
         /\ \A i \in 1 .. Len(inbox) : inbox'[i] = inbox[i]
         /\ inbox'[Len(inbox')] =
              [kind |-> "progress", t |-> t, s |-> "running", text |-> progress[t]]
<1> DEFINE e == [kind |-> "progress", t |-> t, s |-> "running", text |-> progress[t]]
<1>1. e \in Event /\ inbox \in Seq(Event) /\ inbox' = Append(inbox, e)
  BY DEF ProgressDelivered, Put, TypeOK, Event
<1> HIDE DEF e
<1>2. /\ Len(inbox) \in Nat /\ Len(inbox') = Len(inbox) + 1
      /\ \A i \in 1 .. Len(inbox) : inbox'[i] = inbox[i]
      /\ inbox'[Len(inbox) + 1] = e
  BY <1>1
<1> QED
  BY <1>2 DEF e

LEMMA DeliveredIsKnown ==
  ASSUME TypeOK, Relayed, NEW t \in Tasks, ProgressDelivered(t)
  PROVE  Relayed'
<1>1. /\ Len(inbox) \in Nat /\ Len(inbox') = Len(inbox) + 1
      /\ \A i \in 1 .. Len(inbox) : inbox'[i] = inbox[i]
      /\ inbox'[Len(inbox')] =
           [kind |-> "progress", t |-> t, s |-> "running", text |-> progress[t]]
  BY DeliveredProgress
<1>2. /\ UNCHANGED <<phase, text, digests>>
      /\ progress'[t] = 0 /\ progress[t] > 0
      /\ \A u \in Tasks : u # t => progress'[u] = progress[u]
  BY DEF ProgressDelivered, TypeOK
<1> SUFFICES ASSUME phase \in {"boot", "up"}, NEW u \in Tasks
             PROVE  /\ digests[u] <= text[u]
                    /\ progress'[u] \in {0, digests[u]}
                    /\ \A i \in 1 .. Len(inbox') :
                         inbox'[i].kind = "progress" /\ inbox'[i].t = u =>
                           /\ inbox'[i].text <= digests[u]
                           /\ progress'[u] > 0 => inbox'[i].text < progress'[u]
  BY <1>2 DEF Relayed
<1>3. /\ digests[u] <= text[u] /\ progress[u] \in {0, digests[u]}
      /\ \A i \in 1 .. Len(inbox) :
           inbox[i].kind = "progress" /\ inbox[i].t = u =>
             /\ inbox[i].text <= digests[u]
             /\ progress[u] > 0 => inbox[i].text < progress[u]
  BY DEF Relayed
<1>4. digests[u] \in Nat
  BY OptionsAssumption DEF TypeOK
<1>5. ASSUME NEW i \in 1 .. Len(inbox'), inbox'[i].kind = "progress", inbox'[i].t = u
      PROVE  /\ inbox'[i].text <= digests[u]
             /\ progress'[u] > 0 => inbox'[i].text < progress'[u]
  <2>1. CASE i \in 1 .. Len(inbox)
    BY <1>1, <1>2, <1>3, <1>5, <2>1
  <2>2. CASE i = Len(inbox')
    BY <1>1, <1>2, <1>3, <1>4, <1>5, <2>2
  <2> QED
    BY <1>1, <2>1, <2>2
<1> QED
  BY <1>2, <1>3, <1>5

LEMMA NextRelayed == TypeOK /\ Relayed /\ [Next]_vars => Relayed'
<1> SUFFICES ASSUME TypeOK, Relayed, [Next]_vars PROVE Relayed'
  OBVIOUS
<1>1. ASSUME NEW t \in Tasks, Writes(t) PROVE Relayed'
  <2>1. \A u \in Tasks : text'[u] >= text[u] /\ text[u] \in Nat /\ text'[u] \in Nat
                        /\ digests[u] \in Nat
    BY <1>1, OptionsAssumption DEF Writes, TypeOK
  <2> QED
    BY <1>1, <2>1 DEF Writes, Relayed
<1>2. ASSUME NEW t \in Tasks, ProgressCalled(t) PROVE Relayed'
  BY <1>2, CalledIsNewer
<1>3. ASSUME NEW t \in Tasks, ProgressDelivered(t) PROVE Relayed'
  BY <1>3, DeliveredIsKnown
<1>4. ASSUME NEW t \in Tasks, ProgressFails(t) PROVE Relayed'
  <2>1. \A u \in Tasks : progress'[u] = IF u = t THEN 0 ELSE progress[u]
    BY <1>4 DEF ProgressFails, TypeOK
  <2> QED
    BY <1>4, <2>1 DEF ProgressFails, Relayed
<1>5. ASSUME NEW t \in Tasks, NEW s \in Ends, WakeDelivered(t, s) PROVE Relayed'
  BY <1>5, TerminalIsNoProgress
<1>6. CASE UNCHANGED <<text, phase, progress, digests, inbox>>
  BY <1>6 DEF Relayed
<1>7. CASE Published
  BY <1>7 DEF Published, Relayed
<1>8. CASE UnloadStarts
  BY <1>8 DEF UnloadStarts, Relayed
<1>9. CASE UnloadEnds
  BY <1>9 DEF UnloadEnds, Relayed
<1> QED
  BY <1>1, <1>2, <1>3, <1>4, <1>5, <1>6, <1>7, <1>8, <1>9
     DEF Next, Callback, TaskEnds, Resumed, PlatformMissing, WakeFails, Retries,
         PlatformLoads, vars

\* Until the plugin is unloaded, no two progress updates of a task carry the same
\* session text, however the text grows while one is being sent, and whether the
\* host takes it or not.
THEOREM ProgressOnlyNews == Spec => ProgressIsNews
<1> DEFINE Fresh ==
      phase = "up" /\ inbox' # inbox =>
        LET e == inbox'[Len(inbox')] IN
        e.kind = "progress" => \A i \in 1 .. Len(inbox) : inbox[i] # e
<1>1. Init => Relayed
  BY OptionsAssumption DEF Init, Relayed
<1>2. TypeOK /\ Relayed /\ [Next]_vars => Relayed'
  BY NextRelayed
<1>3. TypeOK /\ Relayed /\ [Next]_vars => [Fresh]_vars
  <2> SUFFICES ASSUME TypeOK, Relayed, Next, phase = "up", inbox' # inbox,
                      inbox'[Len(inbox')].kind = "progress",
                      NEW i \in 1 .. Len(inbox), inbox[i] = inbox'[Len(inbox')]
               PROVE  FALSE
    BY DEF vars
  <2>1. ASSUME NEW t \in Tasks, NEW s \in Ends, WakeDelivered(t, s) PROVE FALSE
    <3> DEFINE e == [kind |-> "terminal", t |-> t, s |-> s, text |-> wakes[t][s].text]
    <3>1. wakes[t] \in [Ends -> Wake]
      BY DEF TypeOK
    <3>2. e \in Event /\ inbox \in Seq(Event) /\ inbox' = Append(inbox, e)
      BY <2>1, <3>1 DEF WakeDelivered, Put, Event, TypeOK, Wake
    <3>3. inbox'[Len(inbox')] = e
      BY <3>2
    <3> QED
      BY <3>3
  <2>2. ASSUME NEW t \in Tasks, ProgressDelivered(t) PROVE FALSE
    <3> DEFINE e == [kind |-> "progress", t |-> t, s |-> "running", text |-> progress[t]]
    <3>0. inbox'[Len(inbox')] = e
      BY <2>2, DeliveredProgress
    <3>1. inbox[i].kind = "progress" /\ inbox[i].t = t /\ inbox[i].text = progress[t]
      <4>1. inbox[i] = e
        BY <3>0
      <4> QED
        BY <4>1
    <3>2. progress[t] > 0 /\ progress[t] \in Nat
      BY <2>2, OptionsAssumption DEF ProgressDelivered, TypeOK
    <3>3. inbox[i].text < progress[t]
      BY <3>1, <3>2 DEF Relayed
    <3> QED
      BY <3>1, <3>2, <3>3
  <2> QED
    BY <2>1, <2>2
       DEF Next, Callback, TaskEnds, Writes, Resumed, PlatformMissing, WakeFails, Retries,
           ProgressCalled, ProgressFails, PlatformLoads, Published, UnloadStarts, UnloadEnds
<1>4. ProgressIsNews <=> [][Fresh]_vars
  BY PTL DEF ProgressIsNews
<1> QED
  BY <1>1, <1>2, <1>3, <1>4, WakeupTypeCorrect, PTL DEF Spec
===============================================================================

------------------------------- MODULE PiWorker --------------------------------
(***************************************************************************)
(* What PiRpcAdapter promises of the worker it owns, and asks of those who *)
(* use it:                                                                 *)
(*   - a worker is started once, and never after terminate() was called;   *)
(*   - its process runs until it ends, by itself or because it was told    *)
(*     to, and is not started again;                                       *)
(*   - its events are numbered from 1, one by one, in the order in which   *)
(*     they were recorded, and stay what they are; none is recorded before *)
(*     the start, but the last ones may be after the end.                  *)
(* Commands, buffers and background tasks are not part of the contract.    *)
(* PiRpc is shown to provide it, and TaskScheduler to keep to it.          *)
(***************************************************************************)
EXTENDS Naturals

CONSTANT Workers

VARIABLES
  st,    \* where each worker is: "new", "running", "closing" or "gone"
  sent,  \* how many events were recorded for it
  ends   \* the numbers of those that are agent_end

vars == <<st, sent, ends>>

Goes(w, from, to) == st[w] \in from /\ st'[w] = to

Silent(w) == sent'[w] = sent[w] /\ ends'[w] = ends[w]

Starts(w) == Goes(w, {"new"}, "running") /\ Silent(w)

\* terminate() up to its first await; a worker that was not started is over then.
Closes(w) == Goes(w, {"running"}, "closing") /\ Silent(w)

\* The process ended, or was not spawned.
Ends(w) == Goes(w, {"new", "running", "closing"}, "gone") /\ Silent(w)

Records(w) ==
  /\ st[w] # "new" /\ st'[w] = st[w]
  /\ sent'[w] = sent[w] + 1
  /\ ends'[w] \in {ends[w], ends[w] \cup {sent'[w]}}

Move(w) == Starts(w) \/ Closes(w) \/ Ends(w) \/ Records(w)

Init ==
  /\ st = [w \in Workers |-> "new"]
  /\ sent = [w \in Workers |-> 0]
  /\ ends = [w \in Workers |-> {}]

\* Several workers may move in one step: a shutdown closes all of them.
Next ==
  /\ DOMAIN st' = Workers /\ DOMAIN sent' = Workers /\ DOMAIN ends' = Workers
  /\ \A w \in Workers : (st'[w] = st[w] /\ Silent(w)) \/ Move(w)

Spec == Init /\ [][Next]_vars
===============================================================================

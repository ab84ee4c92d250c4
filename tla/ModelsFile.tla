------------------------------ MODULE ModelsFile ------------------------------
(***************************************************************************)
(* What provider.py leaves on disk before a worker starts: models.json in  *)
(* the agent directory of its task, rewritten by write_models_json at      *)
(* every launch with a temporary file and a rename.  A file that is there  *)
(* and cannot be parsed is never repaired: every later launch and recovery *)
(* of the task fails on it, so it must not be torn, whenever the host dies *)
(* or loses power.                                                         *)
(*                                                                         *)
(* The entry itself (URL, model, header variables) is data.  Building it   *)
(* may be refused: no such provider, no key, a header collision.           *)
(***************************************************************************)
EXTENDS Naturals

VARIABLES
  models,     \* models.json: "none", "entry" (it holds the task's entry) or "torn"
  durable,    \* whether its content has reached the disk
  temporary,  \* the mkstemp file: "none", "torn" (unfinished) or "entry"
  writing     \* the step of write_models_json, or how it ended

modelsVars == <<models, durable, temporary, writing>>

ModelsTypeOK ==
  /\ models \in {"none", "entry", "torn"}
  /\ durable \in BOOLEAN
  /\ temporary \in {"none", "torn", "entry"}
  /\ writing \in {"idle", "dumping", "flushed", "synced", "done", "failed"}

ModelsInit ==
  /\ models = "none" /\ durable = TRUE
  /\ temporary = "none"
  /\ writing = "idle"

\* The binding is refused, or the present file cannot be parsed.
BindingFails ==
  /\ writing = "idle"
  /\ writing' = "failed"
  /\ UNCHANGED <<models, durable, temporary>>

\* The present entries are read and the new one is dumped to a new file.
WriteBegins ==
  /\ writing = "idle" /\ models # "torn"
  /\ temporary' = "torn"
  /\ writing' = "dumping"
  /\ UNCHANGED <<models, durable>>

\* json.dump and flush: the page cache has all of it.
WriteFlushes ==
  /\ writing = "dumping"
  /\ temporary' = "entry"
  /\ writing' = "flushed"
  /\ UNCHANGED <<models, durable>>

\* fsync: the disk has it.
WriteSyncs ==
  /\ writing = "flushed"
  /\ writing' = "synced"
  /\ UNCHANGED <<models, durable, temporary>>

\* Mutant: the file is renamed before fsync.
ReplacesEarly ==
  /\ writing \in {"flushed", "synced"}
  /\ models' = temporary /\ durable' = (writing = "synced")
  /\ temporary' = "none"
  /\ writing' = "done"

\* os.replace.
WriteReplaces ==
  /\ writing = "synced"
  /\ models' = temporary /\ durable' = TRUE
  /\ temporary' = "none"
  /\ writing' = "done"

\* A full disk: the finally clause removes the temporary file.
WriteRaises ==
  /\ writing \in {"dumping", "flushed", "synced"}
  /\ temporary' = "none"
  /\ writing' = "failed"
  /\ UNCHANGED <<models, durable>>

ModelsStep ==
  \/ BindingFails \/ WriteBegins \/ WriteFlushes \/ WriteSyncs \/ WriteReplaces \/ WriteRaises

\* The host dies, and perhaps its power: what was not synced may be torn.
ModelsCrash(power) ==
  /\ models' = IF power /\ ~durable THEN "torn" ELSE models
  /\ durable' = TRUE
  /\ temporary' = IF power /\ temporary # "none" THEN "torn" ELSE temporary
  /\ writing' = "idle"

-----------------------------------------------------------------------------

\* models.json is never left half written: the launches and the recoveries of
\* its task would fail from then on.
ModelsReadable == models # "torn"
===============================================================================

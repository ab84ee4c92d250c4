SPECIFICATION Spec
CONSTANTS
  None = None
  t1 = t1
  t2 = t2
  w1 = w1
  w2 = w2
  w3 = w3
  w4 = w4
  c1 = c1
  Tasks = {t1, t2}
  Workers = {w1, w2, w3, w4}
  Clients = {c1}
  MaxConcurrent = 1
  Retention = FALSE
  Offered = {"cancel"}
  Interruptions = {"unload", "crash"}
  MaxEvents = 1
  MaxRestarts = 1
INVARIANTS
  UnloadStopsWorkers
  OneProcessPerTask
  WorkersWithinLimit
  RunningIsWatched
PROPERTIES
  EndAnnounced
SYMMETRY Symmetry
CHECK_DEADLOCK FALSE

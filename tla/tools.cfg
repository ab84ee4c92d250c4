SPECIFICATION Spec
CONSTANTS
  None = None
  t1 = t1
  w1 = w1
  w2 = w2
  c1 = c1
  c2 = c2
  Tasks = {t1}
  Workers = {w1, w2}
  Clients = {c1, c2}
  MaxConcurrent = 1
  Retention = TRUE
  Offered = {"poll", "follow_up", "resume", "cancel", "delete"}
  Interruptions = {}
  MaxEvents = 2
  MaxRestarts = 0
INVARIANTS
  TypeOK
  CompletedByAgentEnd
  NoEndSkipped
  QueuedHasLaunch
  DeletedHasNoFiles
PROPERTIES
  KeepsLifecycle
  FinishAnnounced
  KeepsContract
SYMMETRY Symmetry
CHECK_DEADLOCK FALSE

SPECIFICATION Spec
CONSTANTS
  None = None
  t1 = t1
  t2 = t2
  w1 = w1
  w2 = w2
  c1 = c1
  c2 = c2
  Tasks = {t1, t2}
  Workers = {w1, w2}
  Clients = {c1, c2}
  MaxConcurrent = 1
  Retention = TRUE
  Offered = {"poll", "follow_up", "cancel", "delete"}
  Interruptions = {}
  MaxEvents = 1
  MaxRestarts = 0
INVARIANTS
  Supervised
  WorkersWithinLimit
  SettledFreesSlot
SYMMETRY Symmetry
CHECK_DEADLOCK FALSE

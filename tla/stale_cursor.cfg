SPECIFICATION FairSpec
CONSTANTS
  None = None
  t1 = t1
  w1 = w1
  w2 = w2
  c1 = c1
  Tasks = {t1}
  Workers = {w1, w2}
  Clients = {c1}
  MaxConcurrent = 1
  Retention = FALSE
  Offered = {"resume", "poll"}
  Interruptions = {}
  MaxEvents = 1
  MaxRestarts = 0
PROPERTIES
  EndObserved
CHECK_DEADLOCK FALSE

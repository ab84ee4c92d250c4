SPECIFICATION Spec
CONSTANTS
  None = None
  t1 = t1
  w1 = w1
  w2 = w2
  w3 = w3
  c1 = c1
  c2 = c2
  Tasks = {t1}
  Workers = {w1, w2, w3}
  Clients = {c1, c2}
  MaxConcurrent = 2
  Retention = FALSE
  Offered = {"resume"}
  Interruptions = {}
  MaxEvents = 0
  MaxRestarts = 0
INVARIANTS
  OneProcessPerTask
SYMMETRY Symmetry
CHECK_DEADLOCK FALSE

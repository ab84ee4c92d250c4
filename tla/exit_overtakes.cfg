SPECIFICATION Spec
CONSTANTS
  Commands = {a}
  a = a
  BufferSize = 4
  Faults = {}
  MaxEvents = 2
INVARIANTS
  OrphanedHadNoEnd
CHECK_DEADLOCK FALSE

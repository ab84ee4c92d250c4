SPECIFICATION Spec
CONSTANTS
  Commands = {a, b}
  a = a
  b = b
  BufferSize = 2
  Faults = {"cancel", "jam", "overlong"}
  MaxEvents = 2
SYMMETRY Symmetry
INVARIANTS
  AnswersAreOwn
  NobodyForgotten
  QuietAfterTerminate
PROPERTIES
  EndSeenUnlessFlooded
  KeepsContract
CHECK_DEADLOCK FALSE

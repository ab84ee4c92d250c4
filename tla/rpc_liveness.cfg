SPECIFICATION FairSpec
CONSTANTS
  Commands = {a, b}
  a = a
  b = b
  BufferSize = 1
  Faults = {"jam"}
  MaxEvents = 1
PROPERTIES
  CommandReturns
  TerminateReturns
  EndRecorded
CHECK_DEADLOCK FALSE

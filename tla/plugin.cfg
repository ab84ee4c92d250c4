SPECIFICATION FairSpec
CONSTANTS
  None = None
  Boot = Boot
  c1 = c1
  Calls = {c1}
  MaxTriplets = 2
  MaxLoads = 2
  Power = TRUE
  Urls = 2
  LinuxTag = TRUE
  PathPi = TRUE
  Downloads = {"whole", "cut", "other"}
  DiskFaults = TRUE
INVARIANTS
  BundledIsWhole
  ModelsReadable
  OneScheduler
  UnloadLeavesNothing
PROPERTIES
  ArchiveKept
  EverythingReturns
CHECK_DEADLOCK FALSE

SPECIFICATION FairSpec
CONSTANTS
  t1 = t1
  Tasks = {t1}
  Attempts = 5
  HostFaults = TRUE
  MaxText = 2
INVARIANTS
  ToldOnce
PROPERTIES
  ProgressIsNews
  LoadedPlatformIsTold
  WakeSettles
CHECK_DEADLOCK FALSE

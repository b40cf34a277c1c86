SPECIFICATION FairSpec
CONSTANTS
  Threads = {t1, t2, t3, t4}
  Policy = "readers_parallel"
INVARIANTS
  TypeOK
  CountersAgree
  Exclusion
  NoLostWakeup
PROPERTIES
  RefinesRWLock
  AcquireReturns

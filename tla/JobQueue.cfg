SPECIFICATION Spec
CONSTANTS
  Threads = {t1, t2, t3, t4}
  Jobs = {j1, j2}
  Capacity = 2
  NoJob = NoJob
SYMMETRY Symmetry
INVARIANTS
  RingShape
  NoLostWakeup
PROPERTY RefinesBoundedQueue

SPECIFICATION FairSpec
CONSTANTS
  j1 = j1
  j2 = j2
  j3 = j3
  Workers = {w1, w2}
  Jobs = {j1, j2, j3}
  Controller = main
  Capacity = 2
  Policy = "serial_all"
  LockMode <- MixedModes
  NoJob = NoJob
INVARIANTS
  JobConservation
  ResultHonest
  ShutdownComplete
PROPERTIES
  KeepsQueueContract
  KeepsLockContract
  AcceptedFinishes
  SubmitReturns
  ShutdownReturns

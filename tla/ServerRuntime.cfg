SPECIFICATION FairSpec
CONSTANTS
  Clients = {c1, c2, c3}
  Workers = {w1, w2}
  Capacity = 1
  Nobody = Nobody
INVARIANTS
  FdClosedOnce
  NoSilentClose
PROPERTIES
  AnswersOpenClient
  AcceptedIsClosed
  StopEndsServer

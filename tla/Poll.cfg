SPECIFICATION FairSpec
CONSTANTS
  Threads = {t1, t2}
  Pipes = {p1}
  NewPipes = {n1}
  Alarmed = Alarmed
  NoFd = NoFd
  PeersClose = TRUE
  Stops = TRUE
  AlarmCapacity = 2
  MaxRecords = 2
INVARIANTS
  RecordsInOrder
  WritesAreSafe
PROPERTIES
  RecordsAreSent
  ConnectReturns
CHECK_DEADLOCK FALSE

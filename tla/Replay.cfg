SPECIFICATION FairSpec
CONSTANTS
  Slots = {slot0}
  ClientSlot = sessionReplay
  Threads = {t1, t2}
  SeqMod = 3
  MaxCopies = 2
  Workloads <- AllWorkloads
INVARIANTS
  AtMostOnce
  AnswersItsRequest
PROPERTIES
  ImplementsExactlyOnce
  ReplayEnds
CHECK_DEADLOCK FALSE

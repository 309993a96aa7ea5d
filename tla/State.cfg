SPECIFICATION Spec
CONSTANTS
  Threads = {t1, t2}
  Clients = {c1, c2}
  Owners = {o1, o2}
  LockOwners = {l1, l2}
  None = None
  BackSlots = 1
  Workloads <- OpeningOrLocking
SYMMETRY Symmetry
INVARIANTS
  SharesCompatible
  AnonWriteExcludesDeny
  LocksAreSound
 
CHECK_DEADLOCK FALSE

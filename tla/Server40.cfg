SPECIFICATION Spec
CONSTANTS
  Clients <- BothClients
  x1 = x1
  x2 = x2
  LockOwners = {l1, l2}
  Files = {f, g}
  None = None
  Ranges <- SomeRanges
  SeqidMod = 16
  FirstSeqid = 15
  Scenarios <- SmallScenarios
SYMMETRY Symmetry
INVARIANTS
  LocksAreBytes
  LocksCompatible
  StateUnderOpens
  AtMostOnce
  SeqidsInStep
CHECK_DEADLOCK FALSE

SPECIFICATION FairSpec
CONSTANTS
  Callers = {c1, c2}
  None = none
  NSlots = 2
  SeqMod = 3
  MaxRetries = 2
  MaxCompounds = 2
  MaxFaults = 2
INVARIANTS
  RepliesMeetTheirCalls
  TellsWhatHappened
  SlotsInStep
PROPERTY EveryCallEnds
CHECK_DEADLOCK FALSE

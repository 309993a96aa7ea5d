SPECIFICATION Spec
CONSTANTS
  Threads = {t1, t2}
  Names = {a, b}
  MaxId = 4
  Overlap = {"create", "link", "lookup", "write", "commit"}
  MaxOps = 5
  MaxCrashes = 1
SYMMETRY Symmetry
INVARIANTS
  
  
  
  IdsNeverReused
CHECK_DEADLOCK FALSE

SPECIFICATION Spec
CONSTANTS
  Threads = {t1, t2}
  Owners = {o1}
  Verifiers = {v1, v2}
  Principals = {p1}
  p1 = p1
  None = None
  Workloads <- WithoutReboots
SYMMETRY Symmetry
INVARIANT OwnerCanReturn

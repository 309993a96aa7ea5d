SPECIFICATION Spec
CONSTANTS
  Threads = {t1, t2, t3}
  Owners = {o1}
  Verifiers = {v1, v2}
  Principals = {p1, p2}
  p1 = p1
  None = None
  Workloads <- OneByOneOrAtOnce
SYMMETRY Symmetry
INVARIANTS
  NoServerFault
  SessionsAgree
  
  

SPECIFICATION FairSpec
CONSTANTS
  NTests = 3
  Funct = Funct
  MaxDepends = 2
  Outcomes = {"NOTSUP", "PASS"}
INVARIANTS
  DependenciesRunFirst
  ResultsHaveReasons
PROPERTY RunEnds
CHECK_DEADLOCK FALSE

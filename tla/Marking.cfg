\* Fragments of two bytes: records of up to five are one, two or three
\* fragments, with and without a rest.
SPECIFICATION FairSpec
CONSTANTS
  Wsize = 2
  Rsize = 7
  Closes = TRUE
  MaxRecords = 2
  MaxLen = 5
INVARIANTS
  RecordsIntact
PROPERTY RecordsArrive
CHECK_DEADLOCK FALSE

CONSTANTS
  p1 = p1
  p2 = p2
  Proc <- MCProc
  MaxFacts = 4
  MaxFaults = 3
SPECIFICATION Spec
SYMMETRY MCSymmetry
CHECK_DEADLOCK FALSE
INVARIANTS TypeOK AckedDurable FilesAreTrue
PROPERTY ImplementsJournal

SPECIFICATION Spec
CONSTANTS
  t1 = t1
  t2 = t2
  Threads = {t1, t2}
  Levels = {1, 2}
  MaxRecords = 3
  MaxUpdates = 2
SYMMETRY MCSymmetry
INVARIANTS
  TypeOK
  PrintedAtMostOnce
  LetThroughIsPrinted
CHECK_DEADLOCK FALSE

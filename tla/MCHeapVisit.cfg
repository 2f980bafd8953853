CONSTANTS
  t1 = t1
  t2 = t2
  o1 = o1
  o2 = o2
  t3 = t3
  Base = Base
  Derived = Derived
  Threads <- MCThreads
  Objects <- MCObjects
  Classes <- MCClasses
  Instances <- MCInstances
  MaxVisits = 4
SYMMETRY MCSymmetry
SPECIFICATION Spec
INVARIANTS
  FindsOnlyInstances
  MarkedIsReturned
  NoTagLeft

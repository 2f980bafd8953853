SPECIFICATION Spec
CONSTANTS
  t1 = t1
  t2 = t2
  a1 = a1
  a2 = a2
  l1 = l1
  l2 = l2
  p1 = p1
  Threads = {t1, t2}
  AppThreads = {a1, a2}
  Packages = {p1}
  Listeners = {l1, l2}
  MaxRegs = 3
  MaxAttaches = 2
  MaxUnregs = 1
INVARIANTS
  TypeOK
  CalledOncePerRegistration
  RegisteredIsCalled
PROPERTIES
  RegisteredEventuallyCalled
CHECK_DEADLOCK FALSE

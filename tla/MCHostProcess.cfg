SPECIFICATION HostSpec
CONSTANTS
  own = own
  p1 = p1
  p2 = p2
  none = none
  t1 = t1
  a1 = a1
  l1 = l1
  Packages = {own, p1, p2}
  OwnPackage = own
  Nothing = none
  MaxLoads = 3
  Threads = {t1}
  AppThreads = {a1}
  Listeners = {l1}
  MaxRegs = 1
  MaxAttaches = 1
  MaxUnregs = 1
SYMMETRY HostSymmetry
INVARIANTS
  ProcessFirstAndOnce
  AttachHookedFirst
  RegisteredIsReached
CHECK_DEADLOCK FALSE

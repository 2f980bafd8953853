SPECIFICATION Spec
CONSTANTS
  t1 = t1
  t2 = t2
  c1 = c1
  m1 = m1
  m2 = m2
  cbA = cbA
  cbB = cbB
  Threads = {t1, t2}
  Callers = {c1}
  Members = {m1, m2}
  Hookable = {m1}
  Requests <- MCRequests
  MaxHooks = 3
  MaxUnhooks = 2
SYMMETRY MCSymmetry
INVARIANTS
  WantedHandleEffective
  HandlesInOrder
  NothingLeftBehind
  RemovedOnlyByUnhook
PROPERTIES
  UnhookedNotCalledAnew
  WantedHandleCalled
CHECK_DEADLOCK FALSE

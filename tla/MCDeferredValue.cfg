SPECIFICATION Spec
CONSTANTS
  s1 = s1
  s2 = s2
  cb1 = cb1
  cb2 = cb2
  aw1 = aw1
  aw2 = aw2
  v1 = v1
  v2 = v2
  Null = Null
  Setters = {s1, s2}
  Callbacks = {cb1, cb2}
  Awaiters = {aw1, aw2}
  Values = {v1, v2}
INVARIANTS
  WaitingOnOneList
PROPERTIES
  KeepsPromise
CHECK_DEADLOCK FALSE

SPECIFICATION Spec
CONSTANTS
  R = R
  w1 = w1
  attach = attach
  foo = foo
  clinit = clinit
  p1 = p1
  p2 = p2
  Reloader = R
  Workers = {w1}
  Members = {attach, foo, clinit}
  Clinits = {clinit}
  Requests <- MCRequests
  AttachRequest <- MCAttach
  Packages = {p1, p2}
  PriorityDefault = 50
  MaxHooks = 6
  MaxReloads = 2
INVARIANTS
  TypeOK
  HandleIsLive
  OnlyHeldHooksLive
  ReplacedBeforeMade
  PackagesCarriedOver
CONSTRAINT MCFewHooksWithPackages
CHECK_DEADLOCK FALSE

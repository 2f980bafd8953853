SPECIFICATION StartSpec
CONSTANTS
  own = own
  p1 = p1
  p2 = p2
  none = none
  Packages = {own, p1, p2}
  OwnPackage = own
  Nothing = none
  MaxLoads = 3
INVARIANTS
  StartsWithoutNative
CHECK_DEADLOCK FALSE

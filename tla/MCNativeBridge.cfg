CONSTANTS
  s1 = s1
  s2 = s2
  s3 = s3
  s4 = s4
  Nobody = Nobody
  Others = Others
  Slots <- MCSlots
  Platforms <- MCPlatforms
  MaxGenerations = 2
  Serials = 2
  MaxUses = 4
  MaxArgs = 2
SPECIFICATION Spec
SYMMETRY MCSymmetry
CONSTRAINT MCQuietWhileLegacy
INVARIANTS
  BridgeTypeOK
  RefsLiveExactly
  EndsOnlyForCause
  AsReflection
CHECK_DEADLOCK FALSE

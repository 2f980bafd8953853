SPECIFICATION Spec
CONSTANTS
  Hooks <- MCHooks
  MaxHooks = 3
  PriorityDefault = 50
INVARIANTS
  SameOriginalCall
  SameOutcome
  SameOrder
  CalledOnceOrCutOff
  LegacyExceptionDelivered
  ClinitUntouched
PROPERTIES
  LegacyKeepsContract
  ChainKeepsContract
  ChainExceptionStays
CHECK_DEADLOCK FALSE

SPECIFICATION HostFairSpec
CONSTANTS
  Invocations = {i1, i2, i3, i4}
  MaxInvocations = 3
  MaxPending = 2
  MaxActions = 1
  MaxRefusals = 1
INVARIANTS
  EvaluatesInOpenSandbox
  HealthIsHonest
PROPERTIES
  FallbackIsFinal
  WaitsEnd
CHECK_DEADLOCK FALSE

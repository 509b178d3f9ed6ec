SPECIFICATION GatewaySpec
CONSTANTS
  Callers = {k1, k2, k3}
  FailureThreshold = 2
  ProbeMax = 1
  TokenLimit = 2
  MaxCost = 2
  MaxReported = 1
INVARIANTS ProbesWithinLimit
CHECK_DEADLOCK FALSE

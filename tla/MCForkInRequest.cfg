SPECIFICATION Spec
CONSTANTS
  Proc = {1, 2}
  Master = 1
  PidOf <- DistinctPids
  Group = {g1, g2}
  MaxRequests = 2
  ForkInRequest = TRUE
  None = None
INVARIANT RequestMeasured
CHECK_DEADLOCK FALSE

SPECIFICATION Spec
CONSTANTS
  Proc = {1, 2, 3}
  Master = 1
  PidOf <- ReusedPids
  Group = {g1, g2}
  MaxRequests = 2
  ForkInRequest = FALSE
  None = None
INVARIANT OwnGroup
CHECK_DEADLOCK FALSE

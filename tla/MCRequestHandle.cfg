SPECIFICATION Spec
CONSTANTS
  Proc = {1, 2}
  Master = 1
  PidOf <- DistinctPids
  Group = {g1, g2}
  MaxRequests = 3
  ForkInRequest = FALSE
  None = None
INVARIANTS
  RequestIsolation
  OwnGroup
  RequestMeasured
  DescriptorsOwned
  BorrowedNotDangling
  UnavailableExplained
  InfoExplained
  StartRecovers
PROPERTIES
  LifecycleSparesOthers
  FirstErrorKept
SYMMETRY GroupSymmetry
CHECK_DEADLOCK FALSE

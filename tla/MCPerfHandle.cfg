SPECIFICATION Spec
CONSTANTS
  MaxTime = 5
  MaxStep = 2
  LongMax = 3
INVARIANTS
  TypeOK
  CountMatchesInterval
  BaselineConsistent
  ScaledIsEnabledTime
PROPERTIES
  CallRestoresOrReports
  ImplementsStopwatch

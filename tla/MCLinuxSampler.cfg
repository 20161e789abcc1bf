SPECIFICATION FairSpec
CONSTANTS
  cpuTime = cpuTime
  instructions = instructions
  Order <- TwoMetrics
  Rate <- TwoRates
  Thread = {t1, t2}
  MaxTime = 5
  MaxStep = 2
  UintMax = 8
INVARIANTS
  TotalIsUnmultiplexed
  NothingUnpublished
  DescriptorsMatchState
PROPERTIES
  ImplementsBackend
  CallsReturn

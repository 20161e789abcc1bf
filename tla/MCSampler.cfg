SPECIFICATION Spec
CONSTANTS
  SamplerSlot = {s1, s2}
  SampleSlot = {x1, x2}
  Addr = {a1, a2, a3}
  LongMax = 1
  MaxClock = 2
  MaxTotal = 2
  MaxFirst = 1
  MaxOpens = 3
  MaxReads = 2
INVARIANTS
  IdentityCounted
  ForeignSampleRejected
  ValuesConvertible
  InOrderSubtracts
SYMMETRY SlotSymmetry
CHECK_DEADLOCK FALSE

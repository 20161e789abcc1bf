SPECIFICATION ProfileSpec
CONSTANTS
  h0 = h0
  h1 = h1
  HwCounter <- HwCounters
  Word = 16
  Dword = 4
  Baselines = {0, 7, 13}
  Steps = {4, 7}
  MaxCount = 8
  Words = {7, 8}
SYMMETRY Symmetry
INVARIANTS
  ResultExact
  OverflowReal

SPECIFICATION Spec
CONSTANTS
  t1 = t1
  t2 = t2
  Thread <- MCThread
  Word = 16
  Half = 4
  Timebases <- MCTimebases
  PerSecond = 3
  NsPerMicro = 2
  MaxTime = 12
  Steps = {4, 7}
  MaxCycles = 1
SYMMETRY Symmetry
INVARIANTS
  CpuTimeExact
  OverflowReal
  CyclesCounted
PROPERTY
  ImplementsBackend

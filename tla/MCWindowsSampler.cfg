SPECIFICATION Spec
CONSTANTS
  Wrap = 4
  UintMax = 15
  Unit = 3
  MaxCount = 22
  Times = {0, 2, 3, 8}
INVARIANT
  WidenedExact
PROPERTY
  ImplementsBackend

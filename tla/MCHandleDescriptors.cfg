SPECIFICATION Spec
CONSTANTS
  Thread = {1, 2}
  Obj = {1, 2}
  ThreadOf <- OneObjectEach
  Fd = {f1, f2, f3, f4}
  MaxNames = 2
  MaxEvents = 5
INVARIANTS
  OneOwner
  LeaderOutlivesMembers
  ReadMatchesMetrics
PROPERTY
  FilesUntouched
SYMMETRY FdSymmetry

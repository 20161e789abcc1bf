SPECIFICATION Spec
CONSTANTS
  Thread = {1, 2, 3}
  IdOf <- ReusedIds
  Obj = {o1, o2}
  MaxSessions = 4
  None = None
INVARIANTS
  SessionOwned
  ReadsOwnThread
  HandlesReleased
SYMMETRY ObjSymmetry
CHECK_DEADLOCK FALSE

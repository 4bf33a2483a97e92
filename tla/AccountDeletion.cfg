SPECIFICATION Spec
CONSTANTS
  User = {u1}
  Object = {o1}
  Owner <- OneOwner
  Worker = {w1, w2}
  None = None
INVARIANTS
  TypeOK
  NoOrphanedObject
  DeletedAfterCleanup
  ClearedWasRevoked
PROPERTIES
  JobLeavesWhenDone
  CleanupEnds
CHECK_DEADLOCK FALSE

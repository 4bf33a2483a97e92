SPECIFICATION Spec
CONSTANTS
  User = {u1}
  Object = {o1}
  Owner <- OneOwner
  Worker = {w1}
  None = None
PROPERTIES
  CleanupResumes
CHECK_DEADLOCK FALSE

SPECIFICATION Spec
CONSTANTS
  Resource = {r1}
  External = {r1}
  Scope = {s1}
  Automatic = {}
  Host = {b1}
  Request = {q1}
  Lease = {l1}
  Handler = {p1}
  None = None
  MaxTime = 0
  MaxRows = 2
  RequestTTL = 1
  LeaseTTL = 1
SYMMETRY Symmetry
PROPERTIES
  DisconnectionEndsPermissions
CHECK_DEADLOCK FALSE

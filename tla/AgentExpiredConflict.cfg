SPECIFICATION Spec
CONSTANTS
  Resource = {r1}
  External = {}
  Scope = {s1}
  Automatic = {}
  Host = {b1}
  Request = {q1, q2}
  Lease = {l1}
  Handler = {p1}
  None = None
  MaxTime = 1
  MaxRows = 2
  RequestTTL = 1
  LeaseTTL = 1
SYMMETRY Symmetry
PROPERTIES
  ConflictIsReal
CHECK_DEADLOCK FALSE

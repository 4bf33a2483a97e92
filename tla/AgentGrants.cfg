SPECIFICATION GrantSpec
CONSTANTS
  Resource = {r1}
  External = {}
  Scope = {s1, s2}
  Automatic = {s1}
  Host = {b1}
  Request = {q1}
  Lease = {l1, l2}
  Handler = {p1, p2}
  None = None
  MaxTime = 1
  MaxRows = 2
  RequestTTL = 1
  LeaseTTL = 1
SYMMETRY Symmetry
INVARIANTS
  OnceUsedOnce
  ConsumedWasUsed
  AuditTellsDecision
PROPERTIES
  ApprovalIsBacked
  DecisionIsFinal
CHECK_DEADLOCK FALSE
